---------------------------- MODULE PlaylistTable ----------------------------
(***************************************************************************)
(* The Playlist table of an Engine Library 2.x/3.x database: the rows, the *)
(* triggers and UNIQUE constraints of the schema, and the operations of    *)
(* class playlist_table.                                                   *)
(*                                                                         *)
(* The playlists of one parent are ordered by a linked list threaded       *)
(* through the nextListId column; there is no other record of the order.   *)
(* The triggers relink the list upon INSERT and DELETE, playlist_table::   *)
(* update relinks it by hand.                                              *)
(*                                                                         *)
(* Every SQL statement is an operator from a table to the table it leaves  *)
(* behind, triggers included.                                              *)
(***************************************************************************)
EXTENDS ChainedRows

CONSTANTS
  Titles,     (* the names that ensure_valid_name accepts                  *)
  BadTitle,   (* stands for every name it rejects (empty, or with a ';')   *)
  Flags,      (* the values of isPersisted that callers use                *)
  MaxId,      (* bound: the number of INSERTs in a behaviour               *)
  PlainIds    (* bound: only these rows are given isPersisted = FALSE (the *)
              (* triggers hand it on to any row)                           *)

ASSUME TitlesAssumption == BadTitle \notin Titles
ASSUME FlagsAssumption  == Flags \subseteq BOOLEAN
ASSUME MaxIdAssumption  == MaxId \in Nat

VARIABLES
  lists,      (* the table                                                 *)
  seq,        (* sqlite_sequence: the largest id ever given (AUTOINCREMENT)*)
  outcome     (* how the last call ended: "ok" or the exception it threw   *)

vars == <<lists, seq, outcome>>

Ids    == 1 .. MaxId

Row ==
  [title : Titles, owner : Ids \cup {None}, next : Ids \cup {None},
   persisted : BOOLEAN]

Outcomes == {"ok", "row_id_error", "invalid_title", "constraint", "no_rows"}

-----------------------------------------------------------------------------
(* Queries. *)

(* View PlaylistAllParent: the rows above i, the least set that holds the  *)
(* parent of i and the parent of each of its members.  (Over a cyclic      *)
(* parent relation the view's recursion does not end; see Library.)        *)
Ancestors(T, i) ==
  {a \in DOMAIN T : \A S \in SUBSET DOMAIN T :
     (\A j \in S \cup {i} : T[j].owner \in DOMAIN T => T[j].owner \in S)
       => a \in S}

(* View PlaylistAllChildren, queried by playlist_table::descendant_ids. *)
Descendants(T, i) ==
  {d \in DOMAIN T : \A S \in SUBSET DOMAIN T :
     (\A j \in DOMAIN T : T[j].owner \in S \cup {i} => j \in S) => d \in S}

(* root_ids and child_ids, by way of sort_ids. *)
ChildIds(T, p) == Sorted(T, p)

-----------------------------------------------------------------------------
(* Statements. *)

(* Constraints C_NAME_UNIQUE_FOR_PARENT and C_NEXT_LIST_ID_UNIQUE_FOR_PARENT. *)
Unique(T) ==
  \A i, j \in DOMAIN T :
    i # j /\ T[i].owner = T[j].owner
      => T[i].title # T[j].title /\ T[i].next # T[j].next

SetPersisted(T, S, b) ==
  [i \in DOMAIN T |-> IF i \in S THEN [T[i] EXCEPT !.persisted = b] ELSE T[i]]

(* The value parked in nextListId while its row is out of the chain. *)
Inverted(n) == -(1 + n)

(* Mutant: without parentListId = NEW.parentListId. *)
BeforeInsertAnyParent(T, row) ==
  SetNext(T, {i \in DOMAIN T : T[i].next = row.next}, Inverted(row.next))

(* trigger_before_insert_List: park the row the new one is to follow. *)
BeforeInsert(T, row) ==
  SetNext(T, Before(T, row.owner, row.next), Inverted(row.next))

(* Mutant: the inversion undone without its offset. *)
AfterInsertOffByOne(T, id, row) ==
  SetNext(T, Before(T, row.owner, -row.next), id)

(* trigger_after_insert_List: link the parked row to the new one. *)
AfterInsert(T, id, row) ==
  SetNext(T, Before(T, row.owner, Inverted(row.next)), id)

(* trigger_after_insert_isPersist. *)
AfterInsertPersist(T, id, row) ==
  IF row.persisted THEN SetPersisted(T, Ancestors(T, id), TRUE) ELSE T

(* Mutant: without the case of a new parent. *)
AfterUpdatePersistOldParent(T, id, old) ==
  LET new == T[id]
  IN  CASE new.persisted /\ ~old.persisted ->
             SetPersisted(T, Ancestors(T, id), TRUE)
        [] old.persisted /\ ~new.persisted ->
             SetPersisted(T, Descendants(T, id), FALSE)
        [] OTHER -> T

(* trigger_after_update_isPersistParent and trigger_after_update_isPersistChild. *)
AfterUpdatePersist(T, id, old) ==
  LET new == T[id]
  IN  CASE new.persisted /\ (~old.persisted \/ old.owner # new.owner) ->
             SetPersisted(T, Ancestors(T, id), TRUE)
        [] old.persisted /\ ~new.persisted ->
             SetPersisted(T, Descendants(T, id), FALSE)
        [] OTHER -> T

Updated(T, id, row) ==
  AfterUpdatePersist([T EXCEPT ![id] = row], id, T[id])

-----------------------------------------------------------------------------
(* The tables that the statements of add and update leave, in order; each  *)
(* has to satisfy the constraints or the call fails.                       *)

AddTables(T, id, row) ==
  LET parked == BeforeInsert(T, row)
      added  == Inserted(parked, id, row)
      linked == AfterInsert(added, id, row)
  IN  <<parked, added, AfterInsertPersist(linked, id, row)>>

(* Mutants: the trigger without the one or the other of its statements. *)
RemoveTablesUnlinked(T, id) ==
  LET gone == Without(T, {id}) IN <<gone, Without(gone, Kids(gone, id))>>

RemoveTablesOneRow(T, id) ==
  <<SetNext(Without(T, {id}), Before(T, T[id].owner, id), T[id].next)>>

(* The DELETE and its trigger_after_delete_List, which relinks the row     *)
(* before the deleted one and then deletes the children.                   *)
(* recursive_triggers is off, so the children go without firing the        *)
(* trigger again: whatever is below them stays.                            *)
RemoveTables(T, id) ==
  LET gone     == Without(T, {id})
      relinked == SetNext(gone, {i \in DOMAIN gone : gone[i].next = id},
                          T[id].next)
  IN  <<relinked, Without(relinked, Kids(gone, id))>>

(* Mutant: the second and the third statement in the wrong order. *)
MoveTablesSwapped(T, id, row) ==
  LET old    == T[id]
      parked == SetNext(T, {id}, Inverted(old.next))
      opened == SetNext(parked, Before(parked, row.owner, row.next), id)
      closed == SetNext(opened, Before(opened, old.owner, id), old.next)
  IN  <<parked, opened, closed, Updated(closed, id, row)>>

(* The four statements of a move: park the subject, close the gap it       *)
(* leaves, link the row before the target to the subject, place the        *)
(* subject.                                                                *)
MoveTables(T, id, row) ==
  LET old    == T[id]
      parked == SetNext(T, {id}, Inverted(old.next))
      closed == SetNext(parked, Before(parked, old.owner, id), old.next)
      opened == SetNext(closed, Before(closed, row.owner, row.next), id)
  IN  <<parked, closed, opened, Updated(opened, id, row)>>

UpdateTables(T, id, row) ==
  IF row.owner = T[id].owner /\ row.next = T[id].next
  THEN <<Updated(T, id, row)>>
  ELSE MoveTables(T, id, row)

Accepted(tables) == \A k \in DOMAIN tables : Unique(tables[k])

(* Mutant: no transaction around the statements. *)
RunUnprotected(tables) ==
  LET failing == {k \in DOMAIN tables : ~Unique(tables[k])}
  IN  IF failing = {}
      THEN lists' = tables[Len(tables)] /\ outcome' = "ok"
      ELSE /\ lists' = (<<lists>> \o tables)[CHOOSE k \in failing : \A j \in failing : k <= j]
           /\ outcome' = "constraint"

(* A statement that meets a constraint throws, and its transaction is      *)
(* rolled back (an INSERT outside a transaction is undone as a whole).     *)
Run(tables) ==
  IF Accepted(tables)
  THEN /\ lists' = tables[Len(tables)]
       /\ outcome' = "ok"
  ELSE /\ UNCHANGED lists
       /\ outcome' = "constraint"

Throw(what) ==
  /\ outcome' = what
  /\ UNCHANGED <<lists, seq>>

-----------------------------------------------------------------------------
(* playlist_table::add; id is the one the row to add carries. *)
Add(id, row) ==
  IF id # None THEN Throw("row_id_error")
  ELSE IF row.title = BadTitle THEN Throw("invalid_title")
  ELSE /\ Run(AddTables(lists, seq + 1, row))
       /\ seq' = IF outcome' = "ok" THEN seq + 1 ELSE seq

(* playlist_table::remove: removing a row that is not there is not an error. *)
Remove(id) ==
  /\ Run(IF id \in DOMAIN lists THEN RemoveTables(lists, id) ELSE <<lists>>)
  /\ UNCHANGED seq

(* playlist_table::update. *)
Update(id, row) ==
  IF id = None THEN Throw("row_id_error")
  ELSE IF row.title = BadTitle THEN Throw("invalid_title")
  ELSE IF id \notin DOMAIN lists THEN Throw("no_rows")
  ELSE Run(UpdateTables(lists, id, row)) /\ UNCHANGED seq

-----------------------------------------------------------------------------
(* What a caller of the table has to see to: the parent exists and is not  *)
(* the row itself or below it, and the row goes before one of its siblings *)
(* or at the end.  A place is a pair of a parent and a next row.           *)
PlacesUnder(T, parents) ==
  UNION {{p} \X (Kids(T, p) \cup {None}) : p \in parents}

PlacesToAdd(T) == PlacesUnder(T, DOMAIN T \cup {None})

(* The place a row has already may be given back, even when its parent has *)
(* been removed; for a row that is gone no place means anything.           *)
PlacesFor(T, id) ==
  IF id \in DOMAIN T
  THEN {<<T[id].owner, T[id].next>>} \cup
       {place \in PlacesUnder(T, (DOMAIN T \cup {None})
                                  \ (Descendants(T, id) \cup {id})) :
          place[2] # id}
  ELSE {<<None, None>>}

MakeRow(title, place, persisted) ==
  [title |-> title, owner |-> place[1], next |-> place[2],
   persisted |-> persisted]

MayGive(id, b) == b \/ id \in PlainIds

AnyTitle == Titles \cup {BadTitle}

Init ==
  /\ lists = [i \in {} |-> None]
  /\ seq = 0
  /\ outcome = "ok"

Next ==
  \/ \E id \in DOMAIN lists : Add(id, lists[id])
  \/ \E title \in AnyTitle, b \in Flags, place \in PlacesToAdd(lists) :
       seq < MaxId /\ MayGive(seq + 1, b) /\ Add(None, MakeRow(title, place, b))
  \/ \E id \in Ids : Remove(id)
  \/ \E id \in {None} \cup Ids : \E place \in PlacesFor(lists, id) :
       \E title \in AnyTitle, b \in Flags :
         MayGive(id, b) /\ Update(id, MakeRow(title, place, b))

Spec == Init /\ [][Next]_vars

-----------------------------------------------------------------------------
(* Properties. *)

(* The columns hold what the queries expect of them.                       *)
TypeOK ==
  /\ seq \in 0 .. MaxId
  /\ DOMAIN lists \subseteq 1 .. seq
  /\ lists \in [DOMAIN lists -> Row]
  /\ outcome \in Outcomes

(* After any sequence of add, remove and update, triggers included, the    *)
(* siblings under every parent form one chain.                             *)
Chains == \A p \in Ids \cup {None} : Chain(lists, p)

(* A playlist that is persisted lies under persisted playlists only, which *)
(* the three isPersist triggers see to between them.                       *)
PersistedUpwards ==
  \A i \in DOMAIN lists :
    lists[i].persisted /\ lists[i].owner \in DOMAIN lists
      => lists[lists[i].owner].persisted

(* None of the tables that the triggers and the statements of a move pass  *)
(* through breaks a constraint: a row that may go to a place gets there,   *)
(* and a row can always be removed.  Only a sibling of the same name is in *)
(* the way.  (No constraint is about isPersisted: TRUE stands for both.)   *)
NameFree(p, title, id) ==
  \A i \in Kids(lists, p) \ {id} : lists[i].title # title

OnlyNamesClash ==
  /\ \A place \in PlacesToAdd(lists), title \in Titles :
       NameFree(place[1], title, None)
         => Accepted(AddTables(lists, seq + 1, MakeRow(title, place, TRUE)))
  /\ \A id \in DOMAIN lists :
       /\ Accepted(RemoveTables(lists, id))
       /\ \A place \in PlacesFor(lists, id), title \in Titles :
            NameFree(place[1], title, id)
              => Accepted(UpdateTables(lists, id, MakeRow(title, place, TRUE)))

(* The table implements ordered lists of playlists: a call changes the     *)
(* place of the playlist it is about and of no other.                      *)
Order == INSTANCE OrderedLists
           WITH Owners <- Ids \cup {None},
                order  <- [p \in Ids \cup {None} |-> ChildIds(lists, p)]

ImplementsOrder == Order!Spec
=============================================================================
