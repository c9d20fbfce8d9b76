------------------------------ MODULE RowTables ------------------------------
(***************************************************************************)
(* Tables that SQLite numbers by rowid: functions from rowids to rows.     *)
(* The rowid of a new row is one above the highest there is, so that the   *)
(* order of rowids is the order of insertion.                              *)
(***************************************************************************)
EXTENDS Naturals, Sequences, FiniteSets

(* MAX(..), or 0 where that is NULL. *)
Highest(S) == CHOOSE n \in S \cup {0} : \A m \in S : m <= n

InsertedAll(T, new) ==
  LET last == Highest(DOMAIN T)
  IN  [k \in DOMAIN T \cup {last + n : n \in DOMAIN new} |->
         IF k \in DOMAIN T THEN T[k] ELSE new[k - last]]

InsertedLast(T, row) == InsertedAll(T, <<row>>)

(* A set of ids in the order that UNION and ORDER BY give it. *)
Ascending(S) ==
  [n \in 1 .. Cardinality(S) |->
     CHOOSE a \in S : Cardinality({b \in S : b < a}) = n - 1]

(* UPDATEs change rows, and make and delete none. *)
AsUpdated(T, changed) == [k \in DOMAIN T |-> changed[k]]

Lacking(T, K) == [k \in DOMAIN T \ K |-> T[k]]
=============================================================================
