----------------------------- MODULE ChainedRows -----------------------------
(***************************************************************************)
(* Lists threaded through the rows of a table.                             *)
(*                                                                         *)
(* Two tables of an Engine Library 2.x/3.x database keep an order of their *)
(* rows in a column with the id of the next row: Playlist orders the       *)
(* playlists of a parent, PlaylistEntity the tracks of a playlist.  There  *)
(* is no other record of the order, so rows that are linked wrongly are    *)
(* rows that the library can no longer find.                               *)
(*                                                                         *)
(* A table is a function from the ids of the rows that exist to the rows,  *)
(* which are records with at least the fields owner (parentListId, or      *)
(* listId) and next (nextListId, or nextEntityId).                         *)
(***************************************************************************)
EXTENDS Integers, FiniteSets, Sequences

None == 0   \* in a column of ids: no such row

Kids(T, o) == {i \in DOMAIN T : T[i].owner = o}

(* The rows of owner o that are linked to n. *)
Before(T, o, n) == {i \in Kids(T, o) : T[i].next = n}

SetNext(T, S, n) ==
  [i \in DOMAIN T |-> IF i \in S THEN [T[i] EXCEPT !.next = n] ELSE T[i]]

Inserted(T, id, row) ==
  [i \in DOMAIN T \cup {id} |-> IF i = id THEN row ELSE T[i]]

Without(T, S) == [i \in DOMAIN T \ S |-> T[i]]

(* The order of the rows of o as the library reads it: from the row with   *)
(* no next one backwards along the links, as long as there is a row to go  *)
(* to; that is no circle, as each row has only one next.  Rows that are    *)
(* not met on the way are left out in silence.                             *)
Sorted(T, o) ==
  LET kids == Kids(T, o)
      upTo[n \in kids \cup {None}] ==
        LET prev == {i \in kids : T[i].next = n}
            i    == CHOOSE i \in prev : TRUE
        IN  IF prev = {} THEN << >> ELSE Append(upTo[i], i)
  IN  upTo[None]

-----------------------------------------------------------------------------
(* What the operations on such a table have to keep.                       *)

(* The links of the rows of o make one chain: each leads to a row of o or  *)
(* is the end mark, no two lead to the same row, and none of them only     *)
(* lead round in a circle.                                                 *)
Chain(T, o) ==
  /\ \A i \in Kids(T, o) : T[i].next \in Kids(T, o) \cup {None}
  /\ \A i, j \in Kids(T, o) : T[i].next = T[j].next => i = j
  /\ \A S \in SUBSET Kids(T, o) : S # {} => \E i \in S : T[i].next \notin S
=============================================================================
