------------------------- MODULE PlaylistTableProofs -------------------------
(***************************************************************************)
(* Proofs about PlaylistTable, for every set of titles and every MaxId.    *)
(*                                                                         *)
(* RowProofs shows that putting a row before a sibling and taking          *)
(* rows out keep every chain a chain.  The lemmas here show that the       *)
(* statements of add, remove and update, with their triggers, amount to    *)
(* one or both of these, so that what every call leaves is sound.          *)
(***************************************************************************)
EXTENDS PlaylistTable, RowProofs, TLAPS

-----------------------------------------------------------------------------
(* Rows as they are inside a call, when nextListId may hold an inverted    *)
(* value.                                                                  *)
LooseRow ==
  [title : Titles, owner : Ids \cup {None}, next : Int, persisted : BOOLEAN]

Loose(T) == T \in [DOMAIN T -> LooseRow]

(* F holds the rows of T, each with the parent and the next row it had.    *)
SameLinks(F, T) ==
  /\ DOMAIN F = DOMAIN T
  /\ \A i \in DOMAIN T : F[i].owner = T[i].owner /\ F[i].next = T[i].next

LEMMA SetNextShape ==
  ASSUME NEW T, NEW S, NEW n \in Int, Loose(T)
  PROVE  /\ DOMAIN SetNext(T, S, n) = DOMAIN T
         /\ Loose(SetNext(T, S, n))
         /\ \A i \in DOMAIN T :
              /\ SetNext(T, S, n)[i].owner = T[i].owner
              /\ SetNext(T, S, n)[i].next = IF i \in S THEN n ELSE T[i].next
  BY DEF SetNext, Loose, LooseRow

LEMMA SetPersistedShape ==
  ASSUME NEW T, NEW S, NEW b \in BOOLEAN, Loose(T)
  PROVE  SameLinks(SetPersisted(T, S, b), T) /\ Loose(SetPersisted(T, S, b))
  BY DEF SetPersisted, Loose, LooseRow, SameLinks

(* What a statement may leave for good. *)
LEMMA TightRows ==
  ASSUME NEW T, Loose(T),
         \A i \in DOMAIN T : T[i].next \in Ids \cup {None}
  PROVE  T \in [DOMAIN T -> Row]
  BY DEF Loose, LooseRow, Row

LEMMA UpdatedShape ==
  ASSUME NEW T, NEW id \in DOMAIN T, NEW row \in Row, Loose(T)
  PROVE  /\ SameLinks(Updated(T, id, row), [T EXCEPT ![id] = row])
         /\ Loose(Updated(T, id, row))
<1> DEFINE U == [T EXCEPT ![id] = row]
<1>1. Loose(U)
  BY DEF Loose, LooseRow, Row, Ids, None
<1>2. /\ SameLinks(AfterUpdatePersist(U, id, T[id]), U)
      /\ Loose(AfterUpdatePersist(U, id, T[id]))
  <2>1. /\ SameLinks(SetPersisted(U, Ancestors(U, id), TRUE), U)
        /\ Loose(SetPersisted(U, Ancestors(U, id), TRUE))
    BY <1>1, SetPersistedShape
  <2>2. /\ SameLinks(SetPersisted(U, Descendants(U, id), FALSE), U)
        /\ Loose(SetPersisted(U, Descendants(U, id), FALSE))
    BY <1>1, SetPersistedShape
  <2>3. SameLinks(U, U)
    BY DEF SameLinks
  <2>4. QED
    BY <1>1, <2>1, <2>2, <2>3 DEF AfterUpdatePersist
<1>3. QED
  BY <1>2 DEF Updated

(* The INSERT of add, with its triggers, puts the new row before the one   *)
(* its nextListId names.                                                   *)
LEMMA AddShape ==
  ASSUME NEW T, NEW id \in Ids \ DOMAIN T, NEW row \in Row, T \in [DOMAIN T -> Row]
  PROVE  /\ PutBefore(AddTables(T, id, row)[3], T, id, row.owner, row.next)
         /\ Loose(AddTables(T, id, row)[3])
<1> DEFINE parked == BeforeInsert(T, row)
           added  == Inserted(parked, id, row)
           linked == AfterInsert(added, id, row)
           final  == AfterInsertPersist(linked, id, row)
<1>0. /\ Loose(T) /\ row \in LooseRow /\ id \in Int
      /\ row.next \in Nat /\ Inverted(row.next) \in Int
      /\ \A i \in DOMAIN T : T[i].next # Inverted(row.next)
      /\ row.next # Inverted(row.next)
  BY MaxIdAssumption DEF Loose, LooseRow, Row, Ids, None, Inverted
<1>1. /\ DOMAIN parked = DOMAIN T /\ Loose(parked)
      /\ \A i \in DOMAIN T :
           /\ parked[i].owner = T[i].owner
           /\ parked[i].next = IF i \in Before(T, row.owner, row.next)
                               THEN Inverted(row.next) ELSE T[i].next
  BY <1>0, SetNextShape DEF BeforeInsert
<1>2. /\ DOMAIN added = DOMAIN T \cup {id} /\ Loose(added)
      /\ added[id] = row
      /\ \A i \in DOMAIN T : added[i] = parked[i]
  BY <1>0, <1>1 DEF Inserted, Loose
<1>3. \A i \in DOMAIN added : i \in Before(added, row.owner, Inverted(row.next))
                              <=> i \in Before(T, row.owner, row.next)
  BY <1>0, <1>1, <1>2 DEF Before, Kids
<1>4. /\ DOMAIN linked = DOMAIN T \cup {id} /\ Loose(linked)
      /\ linked[id].owner = row.owner /\ linked[id].next = row.next
      /\ \A i \in DOMAIN T :
           /\ linked[i].owner = T[i].owner
           /\ linked[i].next = IF i \in Before(T, row.owner, row.next)
                               THEN id ELSE T[i].next
  <2>1. /\ DOMAIN linked = DOMAIN added /\ Loose(linked)
        /\ \A i \in DOMAIN added :
             /\ linked[i].owner = added[i].owner
             /\ linked[i].next = IF i \in Before(added, row.owner, Inverted(row.next))
                                 THEN id ELSE added[i].next
    BY <1>0, <1>2, SetNextShape DEF AfterInsert
  <2>2. id \notin Before(T, row.owner, row.next)
    BY DEF Before, Kids
  <2>3. QED
    BY <2>1, <2>2, <1>1, <1>2, <1>3
<1>5. SameLinks(final, linked) /\ Loose(final)
  <2>1. SameLinks(linked, linked)
    BY DEF SameLinks
  <2>2. QED
    BY <2>1, <1>4, SetPersistedShape DEF AfterInsertPersist
<1>6. PutBefore(final, T, id, row.owner, row.next)
  BY <1>4, <1>5 DEF PutBefore, SameLinks, Before, Kids
<1>7. AddTables(T, id, row)[3] = final
  BY DEF AddTables
<1>8. QED
  BY <1>5, <1>6, <1>7

(* The DELETE of remove, with its trigger, takes the row and its children  *)
(* out.                                                                    *)
LEMMA RemoveShape ==
  ASSUME NEW T, NEW id \in DOMAIN T, T \in [DOMAIN T -> Row]
  PROVE  /\ TakenOut(RemoveTables(T, id)[2], T, id, {id} \cup Kids(T, id))
         /\ Loose(RemoveTables(T, id)[2])
<1> DEFINE gone     == Without(T, {id})
           relinked == SetNext(gone, {i \in DOMAIN gone : gone[i].next = id}, T[id].next)
           final    == Without(relinked, Kids(gone, id))
<1>1. Loose(gone) /\ T[id].next \in Int
  BY MaxIdAssumption DEF Loose, LooseRow, Row, Ids, None, Without
<1>2. /\ DOMAIN relinked = DOMAIN gone /\ Loose(relinked)
      /\ \A i \in DOMAIN gone :
           /\ relinked[i].owner = gone[i].owner
           /\ relinked[i].next = IF gone[i].next = id THEN T[id].next ELSE gone[i].next
  <2> HIDE DEF gone
  <2>1. QED
    BY <1>1, SetNextShape
<1>3. Loose(final)
  BY <1>2 DEF Loose, Without
<1>4. DOMAIN final = DOMAIN T \ ({id} \cup Kids(T, id))
  BY <1>2 DEF Kids, Without
<1>5. TakenOut(final, T, id, {id} \cup Kids(T, id))
  BY <1>2, <1>4 DEF TakenOut, Without
<1>6. RemoveTables(T, id)[2] = final
  BY DEF RemoveTables
<1>7. QED
  BY <1>3, <1>5, <1>6

(* The table T without the row id, the row before it linked to the one     *)
(* after it: what a move starts from.                                      *)
Unlinked(T, id) ==
  [i \in DOMAIN T \ {id} |->
     IF T[i].next = id THEN [T[i] EXCEPT !.next = T[id].next] ELSE T[i]]

LEMMA UnlinkedShape ==
  ASSUME NEW T, NEW id \in DOMAIN T, T \in [DOMAIN T -> Row]
  PROVE  /\ TakenOut(Unlinked(T, id), T, id, {id})
         /\ Unlinked(T, id) \in [DOMAIN T \ {id} -> Row]
  BY DEF Unlinked, TakenOut, Row

(* The four statements of a move take the row out and put it before its    *)
(* new next row.                                                           *)
LEMMA MoveShape ==
  ASSUME NEW T, NEW id \in DOMAIN T, NEW row \in Row, T \in [DOMAIN T -> Row],
         DOMAIN T \subseteq Ids,
         \A p \in Ids \cup {None} : Chain(T, p)
  PROVE  /\ PutBefore(MoveTables(T, id, row)[4], Unlinked(T, id), id, row.owner, row.next)
         /\ Loose(MoveTables(T, id, row)[4])
<1> DEFINE old    == T[id]
           parked == SetNext(T, {id}, Inverted(old.next))
           closed == SetNext(parked, Before(parked, old.owner, id), old.next)
           opened == SetNext(closed, Before(closed, row.owner, row.next), id)
           final  == Updated(opened, id, row)
<1>0. /\ Loose(T) /\ id \in Int /\ id # None
      /\ old.next \in Nat /\ row.next \in Nat /\ Inverted(old.next) \in Int
      /\ Inverted(old.next) # row.next /\ Inverted(old.next) # id
  BY MaxIdAssumption DEF Loose, LooseRow, Row, Ids, None, Inverted
<1>1. /\ DOMAIN parked = DOMAIN T /\ Loose(parked)
      /\ \A i \in DOMAIN T :
           /\ parked[i].owner = T[i].owner
           /\ parked[i].next = IF i = id THEN Inverted(old.next) ELSE T[i].next
  BY <1>0, SetNextShape
<1>2. /\ DOMAIN closed = DOMAIN T /\ Loose(closed)
      /\ \A i \in DOMAIN T :
           /\ closed[i].owner = T[i].owner
           /\ closed[i].next = IF i \in Before(parked, old.owner, id)
                               THEN old.next ELSE parked[i].next
  BY <1>0, <1>1, SetNextShape
<1>3. \A i \in DOMAIN T \ {id} : T[i].next = id => T[i].owner = old.owner
  <2>1. SUFFICES ASSUME NEW i \in DOMAIN T \ {id}, T[i].next = id
                 PROVE  T[i].owner = old.owner
    OBVIOUS
  <2>2. T[i].owner \in Ids \cup {None}
    BY DEF Row
  <2>3. i \in Kids(T, T[i].owner)
    BY DEF Kids
  <2>4. id \in Kids(T, T[i].owner)
    BY <1>0, <2>1, <2>2, <2>3 DEF Chain
  <2>5. QED
    BY <2>4 DEF Kids
<1>4. \A i \in DOMAIN T \ {id} :
        closed[i].next = IF T[i].next = id THEN old.next ELSE T[i].next
  BY <1>1, <1>2, <1>3 DEF Before, Kids
<1>5. closed[id].next = Inverted(old.next)
  BY <1>0, <1>1, <1>2 DEF Before, Kids
<1>6. /\ DOMAIN opened = DOMAIN T /\ Loose(opened)
      /\ \A i \in DOMAIN T :
           /\ opened[i].owner = T[i].owner
           /\ opened[i].next = IF i \in Before(closed, row.owner, row.next)
                               THEN id ELSE closed[i].next
  <2>1. \A S : /\ DOMAIN SetNext(closed, S, id) = DOMAIN closed
               /\ Loose(SetNext(closed, S, id))
               /\ \A i \in DOMAIN closed :
                    /\ SetNext(closed, S, id)[i].owner = closed[i].owner
                    /\ SetNext(closed, S, id)[i].next = IF i \in S THEN id ELSE closed[i].next
    <3> HIDE DEF closed
    <3>1. QED
      BY <1>0, <1>2, SetNextShape
  <2> HIDE DEF closed
  <2>2. QED
    BY <2>1, <1>2
<1>7. SameLinks(final, [opened EXCEPT ![id] = row]) /\ Loose(final)
  BY <1>6, UpdatedShape
<1>8. /\ DOMAIN Unlinked(T, id) = DOMAIN T \ {id}
      /\ \A i \in DOMAIN T \ {id} :
           /\ Unlinked(T, id)[i].owner = T[i].owner
           /\ Unlinked(T, id)[i].next = IF T[i].next = id THEN old.next ELSE T[i].next
  <2>1. TakenOut(Unlinked(T, id), T, id, {id})
    BY UnlinkedShape
  <2>2. QED
    BY <2>1 DEF TakenOut
<1>9. PutBefore(final, Unlinked(T, id), id, row.owner, row.next)
  <2>1. DOMAIN final = DOMAIN T /\ final[id].owner = row.owner /\ final[id].next = row.next
    BY <1>6, <1>7 DEF SameLinks
  <2>2. \A i \in DOMAIN T \ {id} :
          /\ final[i].owner = opened[i].owner
          /\ final[i].next = opened[i].next
    BY <1>6, <1>7 DEF SameLinks
  <2>3. \A i \in DOMAIN T \ {id} :
          i \in Before(closed, row.owner, row.next)
            <=> T[i].owner = row.owner /\ closed[i].next = row.next
    BY <1>2 DEF Before, Kids
  <2> HIDE DEF closed, opened, final
  <2>4. \A i \in DOMAIN T \ {id} :
          final[i].next = IF T[i].owner = row.owner /\ closed[i].next = row.next
                          THEN id ELSE closed[i].next
    BY <1>6, <2>2, <2>3
  <2>5. \A i \in DOMAIN T \ {id} : closed[i].next = Unlinked(T, id)[i].next
    BY <1>4, <1>8
  <2>6. \A i \in DOMAIN T \ {id} : final[i].owner = Unlinked(T, id)[i].owner
    BY <1>6, <1>8, <2>2
  <2>7. id \notin DOMAIN Unlinked(T, id) /\ DOMAIN final = DOMAIN Unlinked(T, id) \cup {id}
    BY <1>8, <2>1
  <2>8. QED
    BY <1>8, <2>1, <2>4, <2>5, <2>6, <2>7 DEF PutBefore
<1>10. MoveTables(T, id, row)[4] = final
  BY DEF MoveTables
<1>11. QED
  BY <1>7, <1>9, <1>10

(* What is left of this when the links are not chains, as other sessions   *)
(* may leave them: the columns hold legal values all the same, and owners  *)
(* are those that were given.  The statements of add ...                   *)
LEMMA AddTyped ==
  ASSUME NEW T, NEW id \in Ids \ DOMAIN T, NEW row \in Row, T \in [DOMAIN T -> Row]
  PROVE  LET F == AddTables(T, id, row)[3]
         IN  /\ F \in [DOMAIN F -> Row] /\ DOMAIN F = DOMAIN T \cup {id}
             /\ F[id].owner = row.owner
             /\ \A i \in DOMAIN T : F[i].owner = T[i].owner
<1> DEFINE F == AddTables(T, id, row)[3]
<1>1. PutBefore(F, T, id, row.owner, row.next) /\ Loose(F)
  BY AddShape
<1> HIDE DEF F
<1>2. \A i \in DOMAIN F : F[i].next \in Ids \cup {None}
  BY <1>1 DEF PutBefore, Row
<1>3. F \in [DOMAIN F -> Row]
  BY <1>1, <1>2, TightRows
<1>4. QED
  BY <1>1, <1>3 DEF PutBefore, F

(* ... of remove ...                                                       *)
LEMMA RemoveTyped ==
  ASSUME NEW T, NEW id \in DOMAIN T, T \in [DOMAIN T -> Row]
  PROVE  LET F == RemoveTables(T, id)[2]
         IN  /\ F \in [DOMAIN F -> Row] /\ DOMAIN F = DOMAIN T \ ({id} \cup Kids(T, id))
             /\ \A i \in DOMAIN F : F[i].owner = T[i].owner
<1> DEFINE F == RemoveTables(T, id)[2]
           X == {id} \cup Kids(T, id)
<1>1. TakenOut(F, T, id, X) /\ Loose(F)
  BY RemoveShape
<1> HIDE DEF F, X
<1>2. \A i \in DOMAIN F : F[i].next \in Ids \cup {None}
  BY <1>1 DEF TakenOut, Row
<1>3. F \in [DOMAIN F -> Row]
  BY <1>1, <1>2, TightRows
<1>4. QED
  BY <1>1, <1>3 DEF TakenOut, F, X

(* ... and of update, in place ...                                         *)
LEMMA UpdatedTyped ==
  ASSUME NEW T, NEW id \in DOMAIN T, NEW row \in Row, T \in [DOMAIN T -> Row]
  PROVE  LET F == Updated(T, id, row)
         IN  /\ F \in [DOMAIN T -> Row] /\ F[id].owner = row.owner
             /\ \A i \in DOMAIN T \ {id} : F[i].owner = T[i].owner
<1> DEFINE F == Updated(T, id, row)
<1>1. Loose(T)
  BY MaxIdAssumption DEF Loose, LooseRow, Row, Ids, None
<1>2. SameLinks(F, [T EXCEPT ![id] = row]) /\ Loose(F)
  BY <1>1, UpdatedShape
<1> HIDE DEF F
<1>3. \A i \in DOMAIN F : F[i].next \in Ids \cup {None}
  BY <1>2 DEF SameLinks, Row
<1>4. F \in [DOMAIN F -> Row]
  BY <1>2, <1>3, TightRows
<1>5. QED
  BY <1>2, <1>4 DEF SameLinks, F

(* ... or by a move.  Only the row that is moved has its link inverted in  *)
(* between, so no other one is left with such a value.                     *)
LEMMA MoveTyped ==
  ASSUME NEW T, NEW id \in DOMAIN T, NEW row \in Row, T \in [DOMAIN T -> Row],
         DOMAIN T \subseteq Ids
  PROVE  LET F == MoveTables(T, id, row)[4]
         IN  /\ F \in [DOMAIN T -> Row] /\ F[id].owner = row.owner
             /\ \A i \in DOMAIN T \ {id} : F[i].owner = T[i].owner
<1> DEFINE old    == T[id]
           parked == SetNext(T, {id}, Inverted(old.next))
           closed == SetNext(parked, Before(parked, old.owner, id), old.next)
           opened == SetNext(closed, Before(closed, row.owner, row.next), id)
           final  == Updated(opened, id, row)
<1>0. /\ Loose(T) /\ id \in Int
      /\ old.next \in Ids \cup {None} /\ old.next \in Int /\ Inverted(old.next) \in Int
  BY MaxIdAssumption DEF Loose, LooseRow, Row, Ids, None, Inverted
<1>1. /\ DOMAIN parked = DOMAIN T /\ Loose(parked)
      /\ \A i \in DOMAIN T : parked[i].owner = T[i].owner
      /\ \A i \in DOMAIN T \ {id} : parked[i].next \in Ids \cup {None}
  BY <1>0, SetNextShape DEF Row
<1>2. /\ DOMAIN closed = DOMAIN T /\ Loose(closed)
      /\ \A i \in DOMAIN T : closed[i].owner = T[i].owner
      /\ \A i \in DOMAIN T \ {id} : closed[i].next \in Ids \cup {None}
  <2> HIDE DEF parked
  <2>1. QED
    BY <1>0, <1>1, SetNextShape
<1>3. /\ DOMAIN opened = DOMAIN T /\ Loose(opened)
      /\ \A i \in DOMAIN T : opened[i].owner = T[i].owner
      /\ \A i \in DOMAIN T \ {id} : opened[i].next \in Ids \cup {None}
  <2> HIDE DEF closed
  <2>1. QED
    BY <1>0, <1>2, SetNextShape
<1>4. SameLinks(final, [opened EXCEPT ![id] = row]) /\ Loose(final)
  BY <1>3, UpdatedShape
<1> HIDE DEF opened, final
<1>5. \A i \in DOMAIN final : final[i].next \in Ids \cup {None}
  BY <1>3, <1>4 DEF SameLinks, Row
<1>6. final \in [DOMAIN final -> Row]
  BY <1>4, <1>5, TightRows
<1>7. MoveTables(T, id, row)[4] = final
  BY DEF MoveTables, final, opened
<1>8. QED
  BY <1>3, <1>4, <1>6, <1>7 DEF SameLinks

(* An accepted add has met no sibling of the same name.                    *)
LEMMA AcceptedNameIsFree ==
  ASSUME NEW T, NEW id \in Ids \ DOMAIN T, NEW row \in Row, T \in [DOMAIN T -> Row],
         Accepted(AddTables(T, id, row))
  PROVE  \A i \in Kids(T, row.owner) : T[i].title # row.title
<1> DEFINE parked == BeforeInsert(T, row)
           added  == Inserted(parked, id, row)
<1>1. Unique(added)
  <2>1. AddTables(T, id, row)[2] = added /\ 2 \in DOMAIN AddTables(T, id, row)
    BY DEF AddTables
  <2>2. QED
    BY <2>1 DEF Accepted
<1>2. /\ DOMAIN parked = DOMAIN T
      /\ \A i \in DOMAIN T : parked[i].owner = T[i].owner /\ parked[i].title = T[i].title
  BY DEF BeforeInsert, SetNext, Row
<1> HIDE DEF parked
<1>3. /\ DOMAIN added = DOMAIN T \cup {id} /\ added[id] = row
      /\ \A i \in DOMAIN T : added[i] = parked[i]
  BY <1>2 DEF Inserted
<1> HIDE DEF added
<1>4. QED
  BY <1>1, <1>2, <1>3 DEF Unique, Kids

-----------------------------------------------------------------------------
(* What every call keeps: the columns hold legal values and the siblings   *)
(* under every parent form one chain.                                      *)
Sound(T) ==
  /\ DOMAIN T \subseteq Ids
  /\ T \in [DOMAIN T -> Row]
  /\ \A p \in Ids \cup {None} : Chain(T, p)

(* Where all links are chains, no inverted value is left in nextListId.    *)
LEMMA ChainsAreSound ==
  ASSUME NEW T, DOMAIN T \subseteq Ids, Loose(T),
         \A p \in Ids \cup {None} : Chain(T, p)
  PROVE  Sound(T)
<1>1. ASSUME NEW i \in DOMAIN T
      PROVE  T[i].next \in Ids \cup {None}
  <2>1. T[i].owner \in Ids \cup {None} /\ i \in Kids(T, T[i].owner)
    BY DEF Loose, LooseRow, Kids
  <2>2. T[i].next \in Kids(T, T[i].owner) \cup {None}
    BY <2>1 DEF Chain
  <2>3. QED
    BY <2>2 DEF Kids
<1>2. T \in [DOMAIN T -> Row]
  BY <1>1, TightRows
<1>3. QED
  BY <1>2 DEF Sound

(* Adding a row with a fresh id before a sibling or at the end.            *)
LEMMA AddKeepsSound ==
  ASSUME NEW T, Sound(T), NEW id \in Ids \ DOMAIN T, NEW row \in Row,
         row.next \in Kids(T, row.owner) \cup {None}
  PROVE  Sound(AddTables(T, id, row)[3])
<1> DEFINE F == AddTables(T, id, row)[3]
<1>1. PutBefore(F, T, id, row.owner, row.next) /\ Loose(F)
  BY AddShape DEF Sound
<1> HIDE DEF F
<1>2. DOMAIN F \subseteq Ids
  BY <1>1 DEF PutBefore, Sound
<1>3. None \notin DOMAIN F
  BY <1>2 DEF Ids, None
<1>4. ASSUME NEW p \in Ids \cup {None}
      PROVE  Chain(F, p)
  BY <1>1, <1>3, PutBeforeKeepsChain DEF Sound
<1>5. Sound(F)
  BY <1>1, <1>2, <1>4, ChainsAreSound
<1>6. QED
  BY <1>5 DEF F

(* Removing a row, and its children with it.                               *)
LEMMA RemoveKeepsSound ==
  ASSUME NEW T, Sound(T), NEW id \in DOMAIN T
  PROVE  Sound(RemoveTables(T, id)[2])
<1> DEFINE F == RemoveTables(T, id)[2]
           X == {id} \cup Kids(T, id)
<1>1. TakenOut(F, T, id, X) /\ Loose(F)
  BY RemoveShape DEF Sound
<1> HIDE DEF F
<1>2. DOMAIN F \subseteq Ids
  BY <1>1 DEF TakenOut, Sound
<1>3. None \notin DOMAIN T
  BY DEF Sound, Ids, None
<1>4. ASSUME NEW p \in Ids \cup {None}
      PROVE  Chain(F, p)
  <2>1. Chain(T, p)
    BY DEF Sound
  <2>2. Kids(T, p) \cap X \subseteq {id} \/ Kids(T, p) \subseteq X
    BY DEF Kids
  <2>3. QED
    BY <1>1, <1>3, <2>1, <2>2, TakenOutKeepsChain
<1>5. Sound(F)
  BY <1>1, <1>2, <1>4, ChainsAreSound
<1>6. QED
  BY <1>5 DEF F

(* An update that leaves the row where it is.                              *)
LEMMA UpdateInPlaceKeepsSound ==
  ASSUME NEW T, Sound(T), NEW id \in DOMAIN T, NEW row \in Row,
         row.owner = T[id].owner, row.next = T[id].next
  PROVE  Sound(Updated(T, id, row))
<1> DEFINE F == Updated(T, id, row)
<1>1. Loose(T)
  BY MaxIdAssumption DEF Sound, Loose, LooseRow, Row, Ids, None
<1>2. SameLinks(F, [T EXCEPT ![id] = row]) /\ Loose(F)
  BY <1>1, UpdatedShape
<1> HIDE DEF F
<1>3. SameLinks(F, T)
  BY <1>2 DEF SameLinks
<1>4. ASSUME NEW p \in Ids \cup {None}
      PROVE  Chain(F, p)
  <2>1. Kids(F, p) = Kids(T, p) /\ \A i \in Kids(T, p) : F[i].next = T[i].next
    BY <1>3 DEF SameLinks, Kids
  <2>2. QED
    BY <2>1 DEF Sound, Chain
<1>5. Sound(F)
  BY <1>2, <1>3, <1>4, ChainsAreSound DEF SameLinks, Sound
<1>6. QED
  BY <1>5 DEF F

(* An update that moves the row before another row or to an end.           *)
LEMMA MoveKeepsSound ==
  ASSUME NEW T, Sound(T), NEW id \in DOMAIN T, NEW row \in Row,
         row.next \in Kids(T, row.owner) \cup {None}, row.next # id
  PROVE  Sound(MoveTables(T, id, row)[4])
<1> DEFINE F == MoveTables(T, id, row)[4]
           G == Unlinked(T, id)
<1>1. PutBefore(F, G, id, row.owner, row.next) /\ Loose(F)
  BY MoveShape DEF Sound
<1>2. TakenOut(G, T, id, {id})
  BY UnlinkedShape DEF Sound
<1> HIDE DEF F, G
<1>3. DOMAIN F = DOMAIN T /\ None \notin DOMAIN T /\ DOMAIN F \subseteq Ids
  <2>1. DOMAIN F = DOMAIN G \cup {id}
    BY <1>1 DEF PutBefore
  <2>2. DOMAIN G = DOMAIN T \ {id}
    BY <1>2 DEF TakenOut
  <2>3. DOMAIN F = DOMAIN T
    BY <2>1, <2>2
  <2>4. QED
    BY <2>3 DEF Sound, Ids, None
<1>4. row.next \in Kids(G, row.owner) \cup {None}
  BY <1>2 DEF TakenOut, Kids
<1>5. ASSUME NEW p \in Ids \cup {None}
      PROVE  Chain(F, p)
  <2>1. Chain(T, p)
    BY DEF Sound
  <2>2. Kids(T, p) \cap {id} \subseteq {id}
    OBVIOUS
  <2>3. Chain(G, p)
    BY <1>2, <1>3, <2>1, <2>2, TakenOutKeepsChain
  <2>4. QED
    BY <1>1, <1>3, <1>4, <2>3, PutBeforeKeepsChain
<1>6. Sound(F)
  BY <1>1, <1>3, <1>5, ChainsAreSound
<1>7. QED
  BY <1>6 DEF F

-----------------------------------------------------------------------------
(* The inductive invariant.                                                *)
IInv == TypeOK /\ Chains

LEMMA IInvIsSound ==
  ASSUME IInv
  PROVE  Sound(lists) /\ seq \in 0 .. MaxId /\ DOMAIN lists \subseteq 1 .. seq
  BY MaxIdAssumption DEF IInv, TypeOK, Chains, Sound, Ids

LEMMA InitIInv ==
  ASSUME Init
  PROVE  IInv
<1>1. DOMAIN lists = {} /\ seq = 0 /\ outcome = "ok"
  BY DEF Init
<1>2. TypeOK
  BY <1>1, MaxIdAssumption DEF Init, TypeOK, Outcomes
<1>3. \A p \in Ids \cup {None} : Kids(lists, p) = {}
  BY <1>1 DEF Kids
<1>4. Chains
  BY <1>3 DEF Chains, Chain
<1>5. QED
  BY <1>2, <1>4 DEF IInv

(* The rows a caller makes are legal, and name a place among siblings.     *)
LEMMA PlacesToAddAreLegal ==
  ASSUME Sound(lists), NEW place \in PlacesToAdd(lists),
         NEW title \in Titles, NEW b \in BOOLEAN
  PROVE  /\ MakeRow(title, place, b) \in Row
         /\ MakeRow(title, place, b).next
              \in Kids(lists, MakeRow(title, place, b).owner) \cup {None}
<1>1. PICK p \in DOMAIN lists \cup {None} :
        place \in {p} \X (Kids(lists, p) \cup {None})
  BY DEF PlacesToAdd, PlacesUnder
<1>2. place[1] = p /\ place[2] \in Kids(lists, p) \cup {None}
  BY <1>1
<1>3. QED
  BY <1>2 DEF MakeRow, Row, Sound, Kids

LEMMA PlacesForAreLegal ==
  ASSUME Sound(lists), NEW id \in DOMAIN lists, NEW place \in PlacesFor(lists, id),
         NEW title \in Titles, NEW b \in BOOLEAN
  PROVE  LET row == MakeRow(title, place, b)
         IN  /\ row \in Row
             /\ \/ row.owner = lists[id].owner /\ row.next = lists[id].next
                \/ row.next \in Kids(lists, row.owner) \cup {None} /\ row.next # id
<1>1. CASE place = <<lists[id].owner, lists[id].next>>
  BY <1>1 DEF MakeRow, Row, Sound
<1>2. CASE /\ place \in PlacesUnder(lists, (DOMAIN lists \cup {None})
                                            \ (Descendants(lists, id) \cup {id}))
           /\ place[2] # id
  <2>1. PICK p \in DOMAIN lists \cup {None} :
          place \in {p} \X (Kids(lists, p) \cup {None})
    BY <1>2 DEF PlacesUnder
  <2>2. place[1] = p /\ place[2] \in Kids(lists, p) \cup {None}
    BY <2>1
  <2>3. QED
    BY <1>2, <2>2 DEF MakeRow, Row, Sound, Kids
<1>3. QED
  BY <1>1, <1>2 DEF PlacesFor

(* A call that ends in a sound table, or throws, keeps the invariant.      *)
LEMMA SoundCallKeepsIInv ==
  ASSUME Sound(lists'), seq' \in 0 .. MaxId, DOMAIN lists' \subseteq 1 .. seq',
         outcome' \in Outcomes
  PROVE  IInv'
  BY DEF IInv, TypeOK, Chains, Sound

LEMMA ThrowKeepsIInv ==
  ASSUME IInv, NEW what \in Outcomes, Throw(what)
  PROVE  IInv'
  BY DEF IInv, TypeOK, Chains, Throw

LEMMA AddKeepsIInv ==
  ASSUME IInv, seq < MaxId,
         NEW title \in AnyTitle, NEW b \in Flags, NEW place \in PlacesToAdd(lists),
         Add(None, MakeRow(title, place, b))
  PROVE  IInv'
<1> DEFINE row == MakeRow(title, place, b)
<1>1. CASE title = BadTitle
  <2>1. Throw("invalid_title")
    BY <1>1 DEF Add, MakeRow
  <2>2. QED
    BY <2>1, ThrowKeepsIInv DEF Outcomes
<1>2. CASE title # BadTitle
  <2>1. Run(AddTables(lists, seq + 1, row))
        /\ seq' = IF outcome' = "ok" THEN seq + 1 ELSE seq
    BY <1>2 DEF Add, MakeRow
  <2>2. title \in Titles /\ b \in BOOLEAN
    BY <1>2, FlagsAssumption DEF AnyTitle
  <2>3. /\ Sound(lists) /\ seq \in 0 .. MaxId /\ DOMAIN lists \subseteq 1 .. seq
        /\ seq + 1 \in Ids \ DOMAIN lists /\ seq + 1 \in 0 .. MaxId
    BY IInvIsSound, MaxIdAssumption DEF Ids
  <2>4. row \in Row /\ row.next \in Kids(lists, row.owner) \cup {None}
    BY <2>2, <2>3, PlacesToAddAreLegal
  <2> HIDE DEF row
  <2>5. Sound(AddTables(lists, seq + 1, row)[3])
    BY <2>3, <2>4, AddKeepsSound
  <2>6. CASE outcome' = "ok"
    <3>1. lists' = AddTables(lists, seq + 1, row)[3] /\ seq' = seq + 1
      BY <2>1, <2>6 DEF Run, AddTables
    <3>2. DOMAIN lists' = DOMAIN lists \cup {seq + 1}
      BY <3>1, <2>3, <2>4, AddShape DEF PutBefore, Sound
    <3>3. DOMAIN lists' \subseteq 1 .. seq'
      BY <3>1, <3>2, <2>3, MaxIdAssumption
    <3>4. QED
      BY <3>1, <3>3, <2>3, <2>5, <2>6, SoundCallKeepsIInv DEF Outcomes
  <2>7. CASE outcome' # "ok"
    <3>1. outcome' = "constraint" /\ lists' = lists /\ seq' = seq
      BY <2>1, <2>7 DEF Run
    <3>2. QED
      BY <3>1, <2>3, SoundCallKeepsIInv DEF Outcomes
  <2>8. QED
    BY <2>6, <2>7
<1>3. QED
  BY <1>1, <1>2

LEMMA RemoveKeepsIInv ==
  ASSUME IInv, NEW id \in Ids, Remove(id)
  PROVE  IInv'
<1>1. Sound(lists) /\ seq \in 0 .. MaxId /\ DOMAIN lists \subseteq 1 .. seq
  BY IInvIsSound
<1>2. seq' = seq
  BY DEF Remove
<1>3. CASE lists' = lists /\ outcome' \in Outcomes
  BY <1>1, <1>2, <1>3, SoundCallKeepsIInv
<1>4. CASE id \in DOMAIN lists /\ outcome' = "ok"
  <2>1. lists' = RemoveTables(lists, id)[2]
    BY <1>4 DEF Remove, Run, RemoveTables
  <2>2. Sound(lists')
    BY <1>1, <1>4, <2>1, RemoveKeepsSound
  <2>3. DOMAIN lists' \subseteq DOMAIN lists
    BY <1>1, <1>4, <2>1, RemoveShape DEF TakenOut, Sound
  <2>4. QED
    BY <1>1, <1>2, <1>4, <2>2, <2>3, SoundCallKeepsIInv DEF Outcomes
<1>5. QED
  BY <1>3, <1>4 DEF Remove, Run, Outcomes

LEMMA UpdateKeepsIInv ==
  ASSUME IInv, NEW id \in {None} \cup Ids, NEW place \in PlacesFor(lists, id),
         NEW title \in AnyTitle, NEW b \in Flags,
         Update(id, MakeRow(title, place, b))
  PROVE  IInv'
<1> DEFINE row == MakeRow(title, place, b)
<1>1. CASE id = None \/ title = BadTitle \/ id \notin DOMAIN lists
  <2>1. \E what \in {"row_id_error", "invalid_title", "no_rows"} : Throw(what)
    BY <1>1 DEF Update, MakeRow
  <2>2. QED
    BY <2>1, ThrowKeepsIInv DEF Outcomes
<1>2. CASE ~(id = None \/ title = BadTitle \/ id \notin DOMAIN lists)
  <2>1. Run(UpdateTables(lists, id, row)) /\ seq' = seq
    BY <1>2 DEF Update, MakeRow
  <2>2. title \in Titles /\ b \in BOOLEAN /\ id \in DOMAIN lists
    BY <1>2, FlagsAssumption DEF AnyTitle
  <2>3. Sound(lists) /\ seq \in 0 .. MaxId /\ DOMAIN lists \subseteq 1 .. seq
    BY IInvIsSound
  <2>4. /\ row \in Row
        /\ \/ row.owner = lists[id].owner /\ row.next = lists[id].next
           \/ row.next \in Kids(lists, row.owner) \cup {None} /\ row.next # id
    BY <2>2, <2>3, PlacesForAreLegal
  <2> HIDE DEF row
  <2>5. CASE outcome' # "ok"
    <3>1. outcome' = "constraint" /\ lists' = lists
      BY <2>1, <2>5 DEF Run
    <3>2. QED
      BY <3>1, <2>1, <2>3, SoundCallKeepsIInv DEF Outcomes
  <2>6. CASE outcome' = "ok" /\ row.owner = lists[id].owner /\ row.next = lists[id].next
    <3>1. lists' = Updated(lists, id, row)
      BY <2>1, <2>6 DEF Run, UpdateTables
    <3>2. Sound(lists')
      BY <3>1, <2>2, <2>3, <2>4, <2>6, UpdateInPlaceKeepsSound
    <3>3. Loose(lists)
      BY <2>3, MaxIdAssumption DEF Sound, Loose, LooseRow, Row, Ids, None
    <3>4. DOMAIN lists' = DOMAIN lists
      BY <3>1, <3>3, <2>2, <2>4, UpdatedShape DEF SameLinks
    <3>5. QED
      BY <3>2, <3>4, <2>1, <2>3, <2>6, SoundCallKeepsIInv DEF Outcomes
  <2>7. CASE outcome' = "ok" /\ ~(row.owner = lists[id].owner /\ row.next = lists[id].next)
    <3>1. lists' = MoveTables(lists, id, row)[4]
      BY <2>1, <2>7 DEF Run, UpdateTables, MoveTables
    <3>2. Sound(lists')
      BY <3>1, <2>2, <2>3, <2>4, <2>7, MoveKeepsSound
    <3>3. DOMAIN lists' = DOMAIN lists
      <4>1. PutBefore(lists', Unlinked(lists, id), id, row.owner, row.next)
        BY <3>1, <2>2, <2>3, <2>4, MoveShape DEF Sound
      <4>2. TakenOut(Unlinked(lists, id), lists, id, {id})
        BY <2>2, <2>3, UnlinkedShape DEF Sound
      <4>3. DOMAIN lists' = DOMAIN Unlinked(lists, id) \cup {id}
        BY <4>1 DEF PutBefore
      <4>4. DOMAIN Unlinked(lists, id) = DOMAIN lists \ {id}
        BY <4>2 DEF TakenOut
      <4>5. QED
        BY <4>3, <4>4, <2>2
    <3>4. QED
      BY <3>2, <3>3, <2>1, <2>3, <2>7, SoundCallKeepsIInv DEF Outcomes
  <2>8. QED
    BY <2>5, <2>6, <2>7
<1>3. QED
  BY <1>1, <1>2

LEMMA NextKeepsIInv ==
  ASSUME IInv, [Next]_vars
  PROVE  IInv'
<1>1. CASE UNCHANGED vars
  BY <1>1 DEF vars, IInv, TypeOK, Chains
<1>2. ASSUME NEW id \in DOMAIN lists, Add(id, lists[id])
      PROVE  IInv'
  <2>1. Throw("row_id_error")
    BY <1>2, IInvIsSound DEF Add, Sound, Ids, None
  <2>2. QED
    BY <2>1, ThrowKeepsIInv DEF Outcomes
<1>3. ASSUME NEW title \in AnyTitle, NEW b \in Flags, NEW place \in PlacesToAdd(lists),
             seq < MaxId, Add(None, MakeRow(title, place, b))
      PROVE  IInv'
  BY <1>3, AddKeepsIInv
<1>4. ASSUME NEW id \in Ids, Remove(id)
      PROVE  IInv'
  BY <1>4, RemoveKeepsIInv
<1>5. ASSUME NEW id \in {None} \cup Ids, NEW place \in PlacesFor(lists, id),
             NEW title \in AnyTitle, NEW b \in Flags, Update(id, MakeRow(title, place, b))
      PROVE  IInv'
  BY <1>5, UpdateKeepsIInv
<1>6. QED
  BY <1>1, <1>2, <1>3, <1>4, <1>5 DEF Next

(* The inductive invariant holds: every link that a call follows is there, *)
(* and every one it leaves is there for the next call.                     *)
THEOREM InvariantHolds == Spec => []IInv
<1>1. Init => IInv
  BY InitIInv
<1>2. IInv /\ [Next]_vars => IInv'
  BY NextKeepsIInv
<1>3. QED
  BY <1>1, <1>2, PTL DEF Spec

(* The columns of the table always hold legal values: in particular no     *)
(* inverted nextListId ever outlives the call that parked a row with it.   *)
THEOREM TypeCorrect == Spec => []TypeOK
<1>1. IInv => TypeOK
  BY DEF IInv
<1>2. QED
  BY <1>1, InvariantHolds, PTL

(* The siblings under every parent always form one chain, whatever calls   *)
(* of add, remove and update came before.                                  *)
THEOREM ChainsHold == Spec => []Chains
<1>1. IInv => Chains
  BY DEF IInv
<1>2. QED
  BY <1>1, InvariantHolds, PTL

-----------------------------------------------------------------------------
(* No table on the way breaks a constraint.                                *)

(* F holds the rows of T with the names they had.                          *)
SameNames(F, T) ==
  DOMAIN F = DOMAIN T /\ \A i \in DOMAIN T : F[i].title = T[i].title

(* The constraints do not look at anything else.                           *)
LEMMA SameIsUnique ==
  ASSUME NEW F, NEW T, SameLinks(F, T), SameNames(F, T), Unique(T)
  PROVE  Unique(F)
  BY DEF SameLinks, SameNames, Unique

LEMMA SetPersistedSame ==
  ASSUME NEW T, NEW S, NEW b, Loose(T)
  PROVE  SameLinks(SetPersisted(T, S, b), T) /\ SameNames(SetPersisted(T, S, b), T)
  BY DEF SetPersisted, Loose, LooseRow, SameLinks, SameNames

LEMMA UpdatedIsUnique ==
  ASSUME NEW T, NEW id \in DOMAIN T, NEW row \in Row, Loose(T),
         Unique([T EXCEPT ![id] = row])
  PROVE  Unique(Updated(T, id, row))
<1> DEFINE U == [T EXCEPT ![id] = row]
<1>1. Loose(U)
  BY MaxIdAssumption DEF Loose, LooseRow, Row, Ids, None
<1>2. \A S, b : Unique(SetPersisted(U, S, b))
  BY <1>1, SetPersistedSame, SameIsUnique
<1>3. QED
  BY <1>2 DEF Updated, AfterUpdatePersist

(* Giving the rows S of one sibling group the next row n keeps Unique if S *)
(* is at most one row and no other sibling has n.                          *)
LEMMA SetNextIsUnique ==
  ASSUME NEW T, NEW S, NEW n \in Int, Loose(T), Unique(T),
         \A i, j \in S \cap DOMAIN T : i = j,
         \A i \in S \cap DOMAIN T : \A j \in DOMAIN T \ S :
            T[j].owner = T[i].owner => T[j].next # n
  PROVE  Unique(SetNext(T, S, n))
  BY DEF Unique, SetNext, Loose, LooseRow

LEMMA AddIsAccepted ==
  ASSUME NEW T, Sound(T), Unique(T),
         NEW id \in Nat \ {0}, id \notin DOMAIN T, NEW row \in Row,
         row.next \in Kids(T, row.owner) \cup {None},
         \A i \in Kids(T, row.owner) : T[i].title # row.title
  PROVE  Accepted(AddTables(T, id, row))
<1> DEFINE parked == BeforeInsert(T, row)
           added  == Inserted(parked, id, row)
           linked == AfterInsert(added, id, row)
           final  == AfterInsertPersist(linked, id, row)
           last   == Before(T, row.owner, row.next)
<1>0. /\ Loose(T) /\ row \in LooseRow /\ id \in Int /\ row.next \in Nat
      /\ Inverted(row.next) \in Int /\ Inverted(row.next) # row.next
      /\ \A i \in DOMAIN T : T[i].next # Inverted(row.next)
  BY MaxIdAssumption DEF Sound, Loose, LooseRow, Row, Ids, None, Inverted
<1>1. \A i \in DOMAIN T : T[i].owner = row.owner => T[i].next # id
  <2>1. Chain(T, row.owner) /\ id # None
    BY DEF Sound, Row, None
  <2>2. QED
    BY <2>1 DEF Chain, Kids
<1>2. \A i, j \in last : i = j
  BY DEF Unique, Before, Kids
<1>3. Unique(parked)
  BY <1>0, <1>2, SetNextIsUnique DEF BeforeInsert
<1>4. /\ DOMAIN parked = DOMAIN T /\ Loose(parked)
      /\ \A i \in DOMAIN T :
           /\ parked[i].owner = T[i].owner /\ parked[i].title = T[i].title
           /\ parked[i].next = IF i \in last THEN Inverted(row.next) ELSE T[i].next
  BY <1>0 DEF BeforeInsert, SetNext, Loose, LooseRow
<1>5. /\ DOMAIN added = DOMAIN T \cup {id} /\ Loose(added)
      /\ added[id] = row /\ \A i \in DOMAIN T : added[i] = parked[i]
  BY <1>0, <1>4 DEF Inserted, Loose
<1>6. Unique(added)
  <2>1. \A i \in DOMAIN T : parked[i].owner = row.owner
          => parked[i].next # row.next /\ parked[i].title # row.title
    BY <1>0, <1>4 DEF Before, Kids
  <2> HIDE DEF parked, added
  <2>2. QED
    BY <2>1, <1>3, <1>4, <1>5 DEF Unique
<1>7. Before(added, row.owner, Inverted(row.next)) = last
  BY <1>0, <1>4, <1>5 DEF Before, Kids
<1>8. \A j \in DOMAIN added \ last : added[j].owner = row.owner => added[j].next # id
  <2>1. row.next # id
    BY DEF Kids, None
  <2>2. \A j \in DOMAIN T \ last : added[j].owner = T[j].owner /\ added[j].next = T[j].next
    BY <1>4, <1>5
  <2> HIDE DEF added, last
  <2>3. QED
    BY <1>1, <1>5, <2>1, <2>2
<1>9. Unique(linked) /\ Loose(linked)
  <2>1. \A i \in last : added[i].owner = row.owner
    BY <1>4, <1>5 DEF Before, Kids
  <2> HIDE DEF added, last
  <2>2. Unique(SetNext(added, last, id))
    BY <1>0, <1>2, <1>5, <1>6, <1>8, <2>1, SetNextIsUnique
  <2>3. Loose(SetNext(added, last, id))
    BY <1>0, <1>5, SetNextShape
  <2>4. QED
    BY <1>7, <2>2, <2>3 DEF AfterInsert
<1>10. Unique(final)
  BY <1>9, SetPersistedSame, SameIsUnique DEF AfterInsertPersist
<1>11. AddTables(T, id, row) = <<parked, added, final>>
  BY DEF AddTables
<1>12. QED
  BY <1>3, <1>6, <1>10, <1>11 DEF Accepted

LEMMA RemoveIsAccepted ==
  ASSUME NEW T, Sound(T), Unique(T), NEW id \in DOMAIN T
  PROVE  Accepted(RemoveTables(T, id))
<1> DEFINE gone     == Without(T, {id})
           prev     == {i \in DOMAIN gone : gone[i].next = id}
           relinked == SetNext(gone, prev, T[id].next)
           final    == Without(relinked, Kids(gone, id))
<1>1. Loose(gone) /\ T[id].next \in Int /\ Unique(gone)
  BY MaxIdAssumption DEF Sound, Loose, LooseRow, Row, Ids, None, Without, Unique
<1>2. \A i \in prev : T[i].owner = T[id].owner /\ i \in DOMAIN T
  <2>1. SUFFICES ASSUME NEW i \in prev
                 PROVE  T[i].owner = T[id].owner /\ i \in DOMAIN T
    OBVIOUS
  <2>2. i \in DOMAIN T /\ T[i].next = id /\ i \in Kids(T, T[i].owner)
    BY DEF Without, Kids
  <2>3. Chain(T, T[i].owner) /\ id # None
    BY <2>2 DEF Sound, Row, Ids, None
  <2>4. QED
    BY <2>2, <2>3 DEF Chain, Kids
<1>3. \A i, j \in prev : i = j
  BY <1>1, <1>2 DEF Unique, Without
<1>4. \A j \in DOMAIN gone : gone[j].owner = T[id].owner => gone[j].next # T[id].next
  BY DEF Unique, Without
<1>5. Unique(relinked)
  <2>1. \A i \in prev : gone[i].owner = T[id].owner
    BY <1>2 DEF Without
  <2> HIDE DEF gone
  <2>2. QED
    BY <1>1, <1>3, <1>4, <2>1, SetNextIsUnique
<1>6. Unique(final)
  <2> HIDE DEF relinked
  <2>1. QED
    BY <1>5 DEF Unique, Without
<1>7. RemoveTables(T, id) = <<relinked, final>>
  BY DEF RemoveTables
<1>8. QED
  BY <1>5, <1>6, <1>7 DEF Accepted

LEMMA MoveIsAccepted ==
  ASSUME NEW T, Sound(T), Unique(T), NEW id \in DOMAIN T, NEW row \in Row,
         row.next \in Kids(T, row.owner) \cup {None}, row.next # id,
         \A i \in Kids(T, row.owner) \ {id} : T[i].title # row.title
  PROVE  Accepted(MoveTables(T, id, row))
<1> DEFINE old    == T[id]
           parked == SetNext(T, {id}, Inverted(old.next))
           prev   == Before(parked, old.owner, id)
           closed == SetNext(parked, prev, old.next)
           target == Before(closed, row.owner, row.next)
           opened == SetNext(closed, target, id)
           placed == [opened EXCEPT ![id] = row]
<1>0. /\ Loose(T) /\ id \in Int /\ id # None /\ id \in Nat /\ row \in LooseRow
      /\ old.next \in Nat /\ row.next \in Nat /\ Inverted(old.next) \in Int
      /\ \A i \in DOMAIN T : T[i].next # Inverted(old.next)
      /\ Inverted(old.next) # row.next /\ Inverted(old.next) # id
  BY MaxIdAssumption DEF Sound, Loose, LooseRow, Row, Ids, None, Inverted
<1>1. /\ \A i, j \in DOMAIN T : i # j /\ T[i].owner = T[j].owner => T[i].next # T[j].next
      /\ \A i \in DOMAIN T : T[i].next = id => T[i].owner = old.owner
  <2>1. SUFFICES ASSUME NEW i \in DOMAIN T, T[i].next = id
                 PROVE  T[i].owner = old.owner
    BY DEF Unique
  <2>2. i \in Kids(T, T[i].owner) /\ Chain(T, T[i].owner)
    BY DEF Kids, Sound, Row
  <2>3. QED
    BY <1>0, <2>1, <2>2 DEF Chain, Kids
<1>2. Unique(parked)
  BY <1>0, SetNextIsUnique
<1>3. /\ DOMAIN parked = DOMAIN T /\ Loose(parked)
      /\ \A i \in DOMAIN T :
           /\ parked[i].owner = T[i].owner /\ parked[i].title = T[i].title
           /\ parked[i].next = IF i = id THEN Inverted(old.next) ELSE T[i].next
  BY <1>0 DEF SetNext, Loose, LooseRow
<1>4. /\ prev \subseteq DOMAIN T \ {id}
      /\ \A i \in prev : T[i].next = id /\ T[i].owner = old.owner
      /\ \A i \in DOMAIN T \ {id} : T[i].next = id => i \in prev
  BY <1>0, <1>1, <1>3 DEF Before, Kids
<1>5. \A i, j \in prev : i = j
  BY <1>1, <1>4
<1>6. \A j \in DOMAIN parked : parked[j].owner = old.owner => parked[j].next # old.next
  <2> HIDE DEF parked
  <2>1. ASSUME NEW j \in DOMAIN T, T[j].owner = old.owner
        PROVE  parked[j].next # old.next
    <3>1. CASE j = id
      BY <1>0, <1>3, <3>1
    <3>2. CASE j # id
      BY <1>1, <1>3, <2>1, <3>2
    <3>3. QED
      BY <3>1, <3>2
  <2>2. QED
    BY <1>3, <2>1
<1>7. /\ Unique(closed)
      /\ DOMAIN closed = DOMAIN T /\ Loose(closed)
      /\ \A i \in DOMAIN T :
           /\ closed[i].owner = T[i].owner /\ closed[i].title = T[i].title
           /\ closed[i].next = IF i \in prev THEN old.next ELSE parked[i].next
  <2>1. \A i \in prev : parked[i].owner = old.owner
    BY <1>3, <1>4
  <2> HIDE DEF parked, prev
  <2>2. Unique(closed)
    BY <1>0, <1>2, <1>3, <1>5, <1>6, <2>1, SetNextIsUnique
  <2>3. QED
    BY <1>0, <1>3, <2>2 DEF SetNext, Loose, LooseRow
<1>8. \A i \in DOMAIN T : closed[i].next # id
  <2>1. old.next # id
    <3>1. id \in Kids(T, old.owner) /\ Chain(T, old.owner)
      BY DEF Kids, Sound, Row
    <3>2. {id} \in SUBSET Kids(T, old.owner) /\ {id} # {}
      BY <3>1
    <3>3. QED
      BY <3>1, <3>2 DEF Chain
  <2> HIDE DEF parked, prev, closed
  <2>2. QED
    BY <1>0, <1>3, <1>4, <1>7, <2>1
<1>9. /\ target \subseteq DOMAIN T /\ id \notin target
      /\ \A i \in DOMAIN T :
           i \in target <=> closed[i].owner = row.owner /\ closed[i].next = row.next
  <2>1. id \notin prev
    BY <1>4
  <2> HIDE DEF parked, prev, closed
  <2>2. QED
    BY <1>0, <1>3, <1>7, <2>1 DEF Before, Kids
<1>10. \A i, j \in target : i = j
  <2> HIDE DEF closed, target
  <2>1. QED
    BY <1>7, <1>9 DEF Unique
<1>11. /\ Unique(opened)
       /\ DOMAIN opened = DOMAIN T /\ Loose(opened)
       /\ \A i \in DOMAIN T :
            /\ opened[i].owner = T[i].owner /\ opened[i].title = T[i].title
            /\ opened[i].next = IF i \in target THEN id ELSE closed[i].next
  <2> HIDE DEF closed, target
  <2>1. Unique(opened)
    BY <1>0, <1>7, <1>8, <1>10, SetNextIsUnique
  <2>2. QED
    BY <1>0, <1>7, <2>1 DEF SetNext, Loose, LooseRow
<1>12. Unique(placed)
  <2>1. \A i \in DOMAIN T \ {id} : opened[i].owner = row.owner
          => opened[i].next # row.next /\ opened[i].title # row.title
    <3> HIDE DEF closed, target, opened
    <3>1. QED
      BY <1>7, <1>9, <1>11 DEF Kids
  <2>2. /\ DOMAIN placed = DOMAIN T /\ placed[id] = row
        /\ \A i \in DOMAIN T \ {id} : placed[i] = opened[i]
    BY <1>11
  <2> HIDE DEF closed, target, opened, placed
  <2>3. QED
    BY <1>11, <2>1, <2>2 DEF Unique
<1>13. Unique(Updated(opened, id, row))
  <2> HIDE DEF opened
  <2>1. QED
    BY <1>11, <1>12, UpdatedIsUnique
<1>14. MoveTables(T, id, row) = <<parked, closed, opened, Updated(opened, id, row)>>
  BY DEF MoveTables
<1>15. QED
  BY <1>2, <1>7, <1>11, <1>13, <1>14 DEF Accepted

LEMMA UpdateIsAccepted ==
  ASSUME NEW T, Sound(T), Unique(T), NEW id \in DOMAIN T, NEW row \in Row,
         \/ row.owner = T[id].owner /\ row.next = T[id].next
         \/ row.next \in Kids(T, row.owner) \cup {None} /\ row.next # id,
         \A i \in Kids(T, row.owner) \ {id} : T[i].title # row.title
  PROVE  Accepted(UpdateTables(T, id, row))
<1>1. CASE row.owner = T[id].owner /\ row.next = T[id].next
  <2>1. Loose(T)
    BY MaxIdAssumption DEF Sound, Loose, LooseRow, Row, Ids, None
  <2>2. Unique([T EXCEPT ![id] = row])
    BY <1>1 DEF Unique, Kids
  <2>3. Unique(Updated(T, id, row))
    BY <2>1, <2>2, UpdatedIsUnique
  <2>4. QED
    BY <1>1, <2>3 DEF UpdateTables, Accepted
<1>2. CASE ~(row.owner = T[id].owner /\ row.next = T[id].next)
  BY <1>2, MoveIsAccepted DEF UpdateTables
<1>3. QED
  BY <1>1, <1>2

LEMMA NextKeepsUnique ==
  ASSUME Unique(lists), [Next]_vars
  PROVE  Unique(lists')
<1>1. ASSUME NEW row, NEW id, Add(id, row)
      PROVE  Unique(lists')
  <2>1. Run(AddTables(lists, seq + 1, row)) => Unique(lists')
    BY DEF Run, Accepted, AddTables
  <2>2. QED
    BY <1>1, <2>1 DEF Add, Throw
<1>2. ASSUME NEW id, Remove(id)
      PROVE  Unique(lists')
  <2>1. Run(RemoveTables(lists, id)) => Unique(lists')
    <3>1. \A a, b : Run(<<a, b>>) => Unique(lists')
      BY DEF Run, Accepted
    <3>2. QED
      BY <3>1 DEF RemoveTables
  <2>2. Run(<<lists>>) => Unique(lists')
    BY DEF Run, Accepted
  <2>3. QED
    BY <1>2, <2>1, <2>2 DEF Remove
<1>3. ASSUME NEW row, NEW id, Update(id, row)
      PROVE  Unique(lists')
  <2>1. Run(UpdateTables(lists, id, row)) => Unique(lists')
    <3>1. Run(<<Updated(lists, id, row)>>) => Unique(lists')
      BY DEF Run, Accepted
    <3>2. Run(MoveTables(lists, id, row)) => Unique(lists')
      BY DEF Run, Accepted, MoveTables
    <3>3. QED
      BY <3>1, <3>2 DEF UpdateTables
  <2>2. QED
    BY <1>3, <2>1 DEF Update, Throw
<1>4. QED
  BY <1>1, <1>2, <1>3 DEF Next, vars

(* Both constraints of the schema hold after every call. *)
THEOREM ConstraintsHold == Spec => []Unique(lists)
<1>1. Init => Unique(lists)
  BY DEF Init, Unique
<1>2. Unique(lists) /\ [Next]_vars => Unique(lists)'
  BY NextKeepsUnique
<1>3. QED
  BY <1>1, <1>2, PTL DEF Spec

(* In a table in which the links are chains and the constraints hold, the  *)
(* triggers and the statements of a move never meet a constraint but that  *)
(* of the names: every other legal call succeeds.                          *)
THEOREM OnlyNamesEverClash == Spec => []OnlyNamesClash
<1>1. IInv /\ Unique(lists) => OnlyNamesClash
  <2> SUFFICES ASSUME IInv, Unique(lists)
               PROVE  OnlyNamesClash
    OBVIOUS
  <2>1. /\ Sound(lists) /\ seq \in Nat /\ seq + 1 \in Nat \ {0}
        /\ seq + 1 \notin DOMAIN lists /\ DOMAIN lists \subseteq Ids
    BY IInvIsSound, MaxIdAssumption DEF Sound
  <2>2. ASSUME NEW place \in PlacesToAdd(lists), NEW title \in Titles,
               NameFree(place[1], title, None)
        PROVE  Accepted(AddTables(lists, seq + 1, MakeRow(title, place, TRUE)))
    <3> DEFINE row == MakeRow(title, place, TRUE)
    <3>1. row \in Row /\ row.next \in Kids(lists, row.owner) \cup {None}
      BY <2>1, PlacesToAddAreLegal
    <3>2. \A i \in Kids(lists, row.owner) : lists[i].title # row.title
      BY <2>1, <2>2 DEF NameFree, MakeRow, Kids, Ids, None
    <3> HIDE DEF row
    <3>3. Accepted(AddTables(lists, seq + 1, row))
      BY <2>1, <3>1, <3>2, AddIsAccepted
    <3>4. QED
      BY <3>3 DEF row
  <2>3. ASSUME NEW id \in DOMAIN lists
        PROVE  Accepted(RemoveTables(lists, id))
    BY <2>1, RemoveIsAccepted
  <2>4. ASSUME NEW id \in DOMAIN lists, NEW place \in PlacesFor(lists, id),
               NEW title \in Titles, NameFree(place[1], title, id)
        PROVE  Accepted(UpdateTables(lists, id, MakeRow(title, place, TRUE)))
    <3> DEFINE row == MakeRow(title, place, TRUE)
    <3>1. /\ row \in Row
          /\ \/ row.owner = lists[id].owner /\ row.next = lists[id].next
             \/ row.next \in Kids(lists, row.owner) \cup {None} /\ row.next # id
      BY <2>1, PlacesForAreLegal
    <3>2. \A i \in Kids(lists, row.owner) \ {id} : lists[i].title # row.title
      BY <2>4 DEF NameFree, MakeRow
    <3> HIDE DEF row
    <3>3. Accepted(UpdateTables(lists, id, row))
      BY <2>1, <3>1, <3>2, UpdateIsAccepted
    <3>4. QED
      BY <3>3 DEF row
  <2>5. QED
    BY <2>2, <2>3, <2>4 DEF OnlyNamesClash
<1>2. QED
  BY <1>1, InvariantHolds, ConstraintsHold, PTL

-----------------------------------------------------------------------------
(* What is persisted lies under what is persisted.                         *)

(* PersistedUpwards of any table.                                          *)
Upwards(T) ==
  \A i \in DOMAIN T :
    T[i].persisted /\ T[i].owner \in DOMAIN T => T[T[i].owner].persisted

(* F holds the rows of T, each with the parent and isPersisted it had.     *)
SamePlans(F, T) ==
  /\ DOMAIN F = DOMAIN T
  /\ \A i \in DOMAIN T : F[i].owner = T[i].owner /\ F[i].persisted = T[i].persisted

(* The property looks at nothing else.                                     *)
LEMMA SamePlansKeepUpwards ==
  ASSUME NEW F, NEW T, SamePlans(F, T), Upwards(T)
  PROVE  Upwards(F)
  BY DEF SamePlans, Upwards

(* Relinking rows leaves their parents and isPersisted alone.              *)
LEMMA SetNextSamePlans ==
  ASSUME NEW T, NEW S, NEW n \in Int, Loose(T)
  PROVE  SamePlans(SetNext(T, S, n), T)
  BY DEF SetNext, Loose, LooseRow, SamePlans

(* View PlaylistAllParent holds the parent of each of its rows.            *)
LEMMA AncestorsAreClosed ==
  ASSUME NEW T, NEW id
  PROVE  /\ T[id].owner \in DOMAIN T => T[id].owner \in Ancestors(T, id)
         /\ \A a \in Ancestors(T, id) :
              T[a].owner \in DOMAIN T => T[a].owner \in Ancestors(T, id)
  BY DEF Ancestors

(* View PlaylistAllChildren holds the children of each of its rows.        *)
LEMMA DescendantsAreClosed ==
  ASSUME NEW T, NEW id, NEW j \in DOMAIN T,
         T[j].owner \in Descendants(T, id) \cup {id}
  PROVE  j \in Descendants(T, id)
  BY DEF Descendants

(* What the UPDATE of the isPersist triggers changes.                      *)
LEMMA SetPersistedPlans ==
  ASSUME NEW T, NEW S, NEW b \in BOOLEAN, Loose(T)
  PROVE  /\ DOMAIN SetPersisted(T, S, b) = DOMAIN T
         /\ \A i \in DOMAIN T :
              /\ SetPersisted(T, S, b)[i].owner = T[i].owner
              /\ i \in S => SetPersisted(T, S, b)[i].persisted = b
              /\ i \notin S => SetPersisted(T, S, b)[i].persisted = T[i].persisted
  BY DEF SetPersisted, Loose, LooseRow

(* trigger_after_update_isPersistParent mends a table that is wrong at the *)
(* row id at most.                                                         *)
LEMMA RaisingAncestors ==
  ASSUME NEW T, Loose(T), NEW id \in DOMAIN T,
         \A i \in DOMAIN T \ {id} :
           T[i].persisted /\ T[i].owner \in DOMAIN T => T[T[i].owner].persisted
  PROVE  Upwards(SetPersisted(T, Ancestors(T, id), TRUE))
<1> DEFINE A == Ancestors(T, id)
           F == SetPersisted(T, A, TRUE)
<1>1. /\ DOMAIN F = DOMAIN T
      /\ \A i \in DOMAIN T :
           /\ F[i].owner = T[i].owner
           /\ i \in A => F[i].persisted = TRUE
           /\ i \notin A => F[i].persisted = T[i].persisted
  <2> HIDE DEF A
  <2>1. TRUE \in BOOLEAN
    OBVIOUS
  <2>2. QED
    BY <2>1, SetPersistedPlans
<1>2. /\ T[id].owner \in DOMAIN T => T[id].owner \in A
      /\ \A a \in A : T[a].owner \in DOMAIN T => T[a].owner \in A
  BY AncestorsAreClosed
<1> HIDE DEF A, F
<1>3. Upwards(F)
  BY <1>1, <1>2 DEF Upwards
<1>4. QED
  BY <1>3 DEF F, A

(* trigger_after_update_isPersistChild mends a table that is wrong right   *)
(* below the row id at most.                                               *)
LEMMA LoweringDescendants ==
  ASSUME NEW T, Loose(T), NEW id \in DOMAIN T, ~T[id].persisted,
         \A i \in DOMAIN T \ {id} :
           T[i].persisted /\ T[i].owner \in DOMAIN T \ {id} => T[T[i].owner].persisted
  PROVE  Upwards(SetPersisted(T, Descendants(T, id), FALSE))
<1> DEFINE D == Descendants(T, id)
           F == SetPersisted(T, D, FALSE)
<1>1. /\ DOMAIN F = DOMAIN T
      /\ \A i \in DOMAIN T :
           /\ F[i].owner = T[i].owner
           /\ i \in D => F[i].persisted = FALSE
           /\ i \notin D => F[i].persisted = T[i].persisted
  <2> HIDE DEF D
  <2>1. FALSE \in BOOLEAN
    OBVIOUS
  <2>2. QED
    BY <2>1, SetPersistedPlans
<1>2. \A j \in DOMAIN T : T[j].owner \in D \cup {id} => j \in D
  BY DescendantsAreClosed
<1> HIDE DEF D, F
<1>3. Upwards(F)
  BY <1>1, <1>2 DEF Upwards
<1>4. QED
  BY <1>3 DEF F, D

(* An UPDATE that gives a row a new parent, a new isPersisted or both is   *)
(* mended by one trigger or needs none.                                    *)
LEMMA UpdatedKeepsUpwards ==
  ASSUME NEW T, NEW id \in DOMAIN T, NEW row \in Row, Loose(T), Upwards(T)
  PROVE  Upwards(Updated(T, id, row))
<1> DEFINE U == [T EXCEPT ![id] = row]
<1>1. Loose(U) /\ DOMAIN U = DOMAIN T /\ U[id] = row
      /\ \A i \in DOMAIN T \ {id} : U[i] = T[i]
  BY MaxIdAssumption DEF Loose, LooseRow, Row, Ids, None
<1>2. row.persisted \in BOOLEAN /\ T[id].persisted \in BOOLEAN
  BY DEF Row, Loose, LooseRow
<1> HIDE DEF U
<1>3. CASE row.persisted /\ (~T[id].persisted \/ T[id].owner # row.owner)
  <2>1. \A i \in DOMAIN U \ {id} :
          U[i].persisted /\ U[i].owner \in DOMAIN U => U[U[i].owner].persisted
    BY <1>1, <1>3 DEF Upwards
  <2>2. Upwards(SetPersisted(U, Ancestors(U, id), TRUE))
    BY <1>1, <2>1, RaisingAncestors
  <2>3. AfterUpdatePersist(U, id, T[id]) = SetPersisted(U, Ancestors(U, id), TRUE)
    BY <1>1, <1>3 DEF AfterUpdatePersist
  <2>4. QED
    BY <2>2, <2>3 DEF Updated, U
<1>4. CASE T[id].persisted /\ ~row.persisted
  <2>1. ~U[id].persisted
    BY <1>1, <1>4
  <2>2. \A i \in DOMAIN U \ {id} :
          U[i].persisted /\ U[i].owner \in DOMAIN U \ {id} => U[U[i].owner].persisted
    BY <1>1 DEF Upwards
  <2>3. Upwards(SetPersisted(U, Descendants(U, id), FALSE))
    BY <1>1, <2>1, <2>2, LoweringDescendants
  <2>4. AfterUpdatePersist(U, id, T[id]) = SetPersisted(U, Descendants(U, id), FALSE)
    BY <1>1, <1>4 DEF AfterUpdatePersist
  <2>5. QED
    BY <2>3, <2>4 DEF Updated, U
<1>5. CASE /\ ~(row.persisted /\ (~T[id].persisted \/ T[id].owner # row.owner))
           /\ ~(T[id].persisted /\ ~row.persisted)
  <2>1. Upwards(U)
    BY <1>1, <1>2, <1>5 DEF Upwards
  <2>2. AfterUpdatePersist(U, id, T[id]) = U
    BY <1>1, <1>5 DEF AfterUpdatePersist
  <2>3. QED
    BY <2>1, <2>2 DEF Updated, U
<1>6. QED
  BY <1>3, <1>4, <1>5

(* The INSERT of add: as no row has the new one for a parent yet, only     *)
(* the rows above it can be wrong, and trigger_after_insert_isPersist sees *)
(* to them.                                                                *)
LEMMA AddKeepsUpwards ==
  ASSUME NEW T, NEW id \in Ids \ DOMAIN T, NEW row \in Row, T \in [DOMAIN T -> Row],
         Upwards(T), \A i \in DOMAIN T : T[i].owner # id, row.owner # id
  PROVE  Upwards(AddTables(T, id, row)[3])
<1> DEFINE parked == BeforeInsert(T, row)
           added  == Inserted(parked, id, row)
           linked == AfterInsert(added, id, row)
           final  == AfterInsertPersist(linked, id, row)
<1>0. /\ Loose(T) /\ row \in LooseRow /\ id \in Int /\ Inverted(row.next) \in Int
  BY MaxIdAssumption DEF Loose, LooseRow, Row, Ids, None, Inverted
<1>1. SamePlans(parked, T) /\ Loose(parked)
  BY <1>0, SetNextSamePlans, SetNextShape DEF BeforeInsert
<1>2. /\ DOMAIN added = DOMAIN T \cup {id} /\ Loose(added)
      /\ added[id] = row
      /\ \A i \in DOMAIN T : added[i] = parked[i]
  <2>1. DOMAIN parked = DOMAIN T
    BY <1>1 DEF SamePlans
  <2> HIDE DEF parked
  <2>2. QED
    BY <1>0, <1>1, <2>1 DEF Inserted, Loose
<1>3. SamePlans(linked, added) /\ Loose(linked)
  <2> HIDE DEF added
  <2>1. QED
    BY <1>0, <1>2, SetNextSamePlans, SetNextShape DEF AfterInsert
<1> HIDE DEF parked, added, linked
<1>4. /\ DOMAIN linked = DOMAIN T \cup {id}
      /\ linked[id].owner = row.owner /\ linked[id].persisted = row.persisted
      /\ \A i \in DOMAIN T : /\ linked[i].owner = T[i].owner
                             /\ linked[i].persisted = T[i].persisted
  BY <1>1, <1>2, <1>3 DEF SamePlans
<1>5. \A i \in DOMAIN linked \ {id} :
        linked[i].persisted /\ linked[i].owner \in DOMAIN linked
          => linked[linked[i].owner].persisted
  BY <1>4 DEF Upwards
<1>6. Upwards(final)
  <2>1. CASE row.persisted
    <3>1. Upwards(SetPersisted(linked, Ancestors(linked, id), TRUE))
      BY <1>3, <1>4, <1>5, RaisingAncestors
    <3>2. QED
      BY <2>1, <3>1 DEF AfterInsertPersist
  <2>2. CASE ~row.persisted
    <3>1. ~linked[id].persisted
      BY <1>4, <2>2
    <3>2. Upwards(linked)
      BY <1>4, <1>5, <3>1 DEF Upwards
    <3>3. QED
      BY <2>2, <3>2 DEF AfterInsertPersist
  <2>3. QED
    BY <2>1, <2>2
<1>7. AddTables(T, id, row)[3] = final
  BY DEF AddTables, parked, added, linked
<1>8. QED
  BY <1>6, <1>7

(* A row whose parent is gone asks nothing of it.                          *)
LEMMA WithoutKeepsUpwards ==
  ASSUME NEW T, NEW X, Upwards(T)
  PROVE  Upwards(Without(T, X))
  BY DEF Upwards, Without

(* The DELETE of remove.                                                   *)
LEMMA RemoveKeepsUpwards ==
  ASSUME NEW T, NEW id \in DOMAIN T, T \in [DOMAIN T -> Row], Upwards(T)
  PROVE  Upwards(RemoveTables(T, id)[2])
<1> DEFINE gone     == Without(T, {id})
           S        == {i \in DOMAIN gone : gone[i].next = id}
           relinked == SetNext(gone, S, T[id].next)
<1>1. Loose(gone) /\ T[id].next \in Int
  BY MaxIdAssumption DEF Loose, LooseRow, Row, Ids, None, Without
<1>2. Upwards(gone)
  BY WithoutKeepsUpwards
<1>3. Upwards(relinked)
  <2> HIDE DEF gone, S
  <2>1. SamePlans(relinked, gone)
    BY <1>1, SetNextSamePlans
  <2>2. QED
    BY <1>2, <2>1, SamePlansKeepUpwards
<1>4. Upwards(Without(relinked, Kids(gone, id)))
  BY <1>3, WithoutKeepsUpwards
<1>5. RemoveTables(T, id)[2] = Without(relinked, Kids(gone, id))
  BY DEF RemoveTables
<1>6. QED
  BY <1>4, <1>5

(* The four statements of a move.                                          *)
LEMMA MoveKeepsUpwards ==
  ASSUME NEW T, NEW id \in DOMAIN T, NEW row \in Row, T \in [DOMAIN T -> Row],
         id \in Int, Upwards(T)
  PROVE  Upwards(MoveTables(T, id, row)[4])
<1> DEFINE old    == T[id]
           parked == SetNext(T, {id}, Inverted(old.next))
           B      == Before(parked, old.owner, id)
           closed == SetNext(parked, B, old.next)
           C      == Before(closed, row.owner, row.next)
           opened == SetNext(closed, C, id)
<1>1. Loose(T) /\ old.next \in Int /\ Inverted(old.next) \in Int
  BY MaxIdAssumption DEF Loose, LooseRow, Row, Ids, None, Inverted
<1>2. Loose(parked) /\ Upwards(parked) /\ DOMAIN parked = DOMAIN T
  BY <1>1, SetNextShape, SetNextSamePlans, SamePlansKeepUpwards DEF SamePlans
<1> HIDE DEF parked, B
<1>3. Loose(closed) /\ Upwards(closed) /\ DOMAIN closed = DOMAIN T
  BY <1>1, <1>2, SetNextShape, SetNextSamePlans, SamePlansKeepUpwards DEF SamePlans
<1> HIDE DEF closed, C
<1>4. Loose(opened) /\ Upwards(opened) /\ DOMAIN opened = DOMAIN T
  BY <1>3, SetNextShape, SetNextSamePlans, SamePlansKeepUpwards DEF SamePlans
<1> HIDE DEF opened
<1>5. Upwards(Updated(opened, id, row))
  BY <1>4, UpdatedKeepsUpwards
<1>6. MoveTables(T, id, row)[4] = Updated(opened, id, row)
  BY DEF MoveTables, opened, C, closed, B, parked
<1>7. QED
  BY <1>5, <1>6

(* No row has a parent that is still to come.                              *)
OwnersGiven == \A i \in DOMAIN lists : lists[i].owner \in 0 .. seq

(* The inductive invariant for isPersisted: without OwnersGiven a row that *)
(* is left from before could turn into a child of a new one.               *)
UInv == IInv /\ PersistedUpwards /\ OwnersGiven

(* The table as it is between calls.                                       *)
LEMMA UpwardsIsPersistedUpwards == PersistedUpwards <=> Upwards(lists)
  BY DEF PersistedUpwards, Upwards

(* add keeps it.                                                           *)
LEMMA AddKeepsUInv ==
  ASSUME UInv, seq < MaxId,
         NEW title \in AnyTitle, NEW b \in Flags, NEW place \in PlacesToAdd(lists),
         Add(None, MakeRow(title, place, b))
  PROVE  Upwards(lists') /\ OwnersGiven'
<1> DEFINE row == MakeRow(title, place, b)
<1>1. CASE lists' = lists /\ seq' = seq
  BY <1>1, UpwardsIsPersistedUpwards DEF UInv, Upwards, OwnersGiven
<1>2. CASE ~(lists' = lists /\ seq' = seq)
  <2>1. title # BadTitle
    BY <1>2 DEF Add, MakeRow, Throw
  <2>2. /\ Run(AddTables(lists, seq + 1, row))
        /\ seq' = IF outcome' = "ok" THEN seq + 1 ELSE seq
    BY <2>1 DEF Add, MakeRow
  <2>3. lists' = AddTables(lists, seq + 1, row)[3] /\ seq' = seq + 1
    BY <1>2, <2>2 DEF Run, AddTables
  <2>4. title \in Titles /\ b \in BOOLEAN
    BY <2>1, FlagsAssumption DEF AnyTitle
  <2>5. /\ Sound(lists) /\ seq \in 0 .. MaxId /\ DOMAIN lists \subseteq 1 .. seq
        /\ seq + 1 \in Ids \ DOMAIN lists
    BY IInvIsSound, MaxIdAssumption DEF Ids, UInv
  <2>6. row \in Row
    BY <2>4, <2>5, PlacesToAddAreLegal
  <2>7. row.owner \in DOMAIN lists \cup {None}
    BY DEF MakeRow, PlacesToAdd, PlacesUnder
  <2> HIDE DEF row
  <2>8. row.owner \in 0 .. seq
    BY <2>5, <2>7 DEF None
  <2>9. row.owner # seq + 1 /\ \A i \in DOMAIN lists : lists[i].owner # seq + 1
    BY <2>5, <2>8 DEF UInv, OwnersGiven
  <2>10. Upwards(lists')
    BY <2>3, <2>5, <2>6, <2>9, AddKeepsUpwards, UpwardsIsPersistedUpwards DEF UInv, Sound
  <2>11. PutBefore(lists', lists, seq + 1, row.owner, row.next)
    BY <2>3, <2>5, <2>6, AddShape DEF Sound
  <2>12. OwnersGiven'
    BY <2>3, <2>5, <2>8, <2>11 DEF PutBefore, OwnersGiven, UInv
  <2>13. QED
    BY <2>10, <2>12
<1>3. QED
  BY <1>1, <1>2

(* remove keeps it.                                                        *)
LEMMA RemoveKeepsUInv ==
  ASSUME UInv, NEW id \in Ids, Remove(id)
  PROVE  Upwards(lists') /\ OwnersGiven'
<1>1. CASE lists' = lists /\ seq' = seq
  BY <1>1, UpwardsIsPersistedUpwards DEF UInv, Upwards, OwnersGiven
<1>2. CASE ~(lists' = lists /\ seq' = seq)
  <2>1. seq' = seq /\ id \in DOMAIN lists /\ lists' = RemoveTables(lists, id)[2]
    BY <1>2 DEF Remove, Run, RemoveTables
  <2>2. lists \in [DOMAIN lists -> Row]
    BY DEF UInv, IInv, TypeOK
  <2>3. Upwards(lists')
    BY <2>1, <2>2, RemoveKeepsUpwards, UpwardsIsPersistedUpwards DEF UInv
  <2>4. TakenOut(lists', lists, id, {id} \cup Kids(lists, id))
    BY <2>1, <2>2, RemoveShape
  <2>5. OwnersGiven'
    BY <2>1, <2>4 DEF TakenOut, OwnersGiven, UInv
  <2>6. QED
    BY <2>3, <2>5
<1>3. QED
  BY <1>1, <1>2

(* update keeps it, whether it moves the row or not.                       *)
LEMMA UpdateKeepsUInv ==
  ASSUME UInv, NEW id \in {None} \cup Ids, NEW place \in PlacesFor(lists, id),
         NEW title \in AnyTitle, NEW b \in Flags,
         Update(id, MakeRow(title, place, b))
  PROVE  Upwards(lists') /\ OwnersGiven'
<1> DEFINE row == MakeRow(title, place, b)
<1>1. CASE lists' = lists /\ seq' = seq
  BY <1>1, UpwardsIsPersistedUpwards DEF UInv, Upwards, OwnersGiven
<1>2. CASE ~(lists' = lists /\ seq' = seq)
  <2>1. /\ title # BadTitle /\ id \in DOMAIN lists /\ seq' = seq
        /\ Run(UpdateTables(lists, id, row))
    BY <1>2 DEF Update, MakeRow, Throw
  <2>2. title \in Titles /\ b \in BOOLEAN
    BY <2>1, FlagsAssumption DEF AnyTitle
  <2>3. /\ Sound(lists) /\ seq \in 0 .. MaxId /\ DOMAIN lists \subseteq 1 .. seq
        /\ id \in Int
    BY <2>1, IInvIsSound DEF UInv, Sound, Ids
  <2>4. /\ row \in Row
        /\ \/ row.owner = lists[id].owner /\ row.next = lists[id].next
           \/ row.next \in Kids(lists, row.owner) \cup {None} /\ row.next # id
    BY <2>1, <2>2, <2>3, PlacesForAreLegal
  <2>5. row.owner \in {lists[id].owner, None} \cup DOMAIN lists
    BY <2>1 DEF MakeRow, PlacesFor, PlacesUnder
  <2> HIDE DEF row
  <2>6. row.owner \in 0 .. seq
    BY <2>1, <2>3, <2>5 DEF None, OwnersGiven, UInv
  <2>7. CASE row.owner = lists[id].owner /\ row.next = lists[id].next
    <3>1. lists' = Updated(lists, id, row)
      BY <1>2, <2>1, <2>7 DEF Run, UpdateTables
    <3>2. Loose(lists)
      BY <2>3, MaxIdAssumption DEF Sound, Loose, LooseRow, Row, Ids, None
    <3>3. Upwards(lists')
      BY <3>1, <3>2, <2>1, <2>4, UpdatedKeepsUpwards, UpwardsIsPersistedUpwards DEF UInv
    <3>4. SameLinks(lists', [lists EXCEPT ![id] = row])
      BY <3>1, <3>2, <2>1, <2>4, UpdatedShape
    <3>5. OwnersGiven'
      BY <2>1, <2>3, <2>6, <3>4 DEF SameLinks, OwnersGiven, UInv
    <3>6. QED
      BY <3>3, <3>5
  <2>8. CASE ~(row.owner = lists[id].owner /\ row.next = lists[id].next)
    <3>1. lists' = MoveTables(lists, id, row)[4]
      BY <1>2, <2>1, <2>8 DEF Run, UpdateTables, MoveTables
    <3>2. Upwards(lists')
      BY <3>1, <2>1, <2>3, <2>4, MoveKeepsUpwards, UpwardsIsPersistedUpwards DEF UInv, Sound
    <3>3. PutBefore(lists', Unlinked(lists, id), id, row.owner, row.next)
      BY <3>1, <2>1, <2>3, <2>4, MoveShape DEF Sound
    <3>4. TakenOut(Unlinked(lists, id), lists, id, {id})
      BY <2>1, <2>3, UnlinkedShape DEF Sound
    <3>5. OwnersGiven'
      BY <2>1, <2>3, <2>6, <3>3, <3>4 DEF PutBefore, TakenOut, OwnersGiven, UInv
    <3>6. QED
      BY <3>2, <3>5
  <2>9. QED
    BY <2>7, <2>8
<1>3. QED
  BY <1>1, <1>2

(* So does every step.                                                     *)
LEMMA NextKeepsUInv ==
  ASSUME UInv, [Next]_vars
  PROVE  UInv'
<1>1. IInv'
  BY NextKeepsIInv DEF UInv
<1>2. Upwards(lists') /\ OwnersGiven'
  <2>1. CASE lists' = lists /\ seq' = seq
    BY <2>1, UpwardsIsPersistedUpwards DEF UInv, Upwards, OwnersGiven
  <2>2. ASSUME NEW id \in DOMAIN lists, Add(id, lists[id])
        PROVE  lists' = lists /\ seq' = seq
    BY <2>2, IInvIsSound DEF Add, Throw, Sound, Ids, None, UInv
  <2>3. ASSUME NEW title \in AnyTitle, NEW b \in Flags, NEW place \in PlacesToAdd(lists),
               seq < MaxId, Add(None, MakeRow(title, place, b))
        PROVE  Upwards(lists') /\ OwnersGiven'
    BY <2>3, AddKeepsUInv
  <2>4. ASSUME NEW id \in Ids, Remove(id)
        PROVE  Upwards(lists') /\ OwnersGiven'
    BY <2>4, RemoveKeepsUInv
  <2>5. ASSUME NEW id \in {None} \cup Ids, NEW place \in PlacesFor(lists, id),
               NEW title \in AnyTitle, NEW b \in Flags, Update(id, MakeRow(title, place, b))
        PROVE  Upwards(lists') /\ OwnersGiven'
    BY <2>5, UpdateKeepsUInv
  <2>6. QED
    BY <2>1, <2>2, <2>3, <2>4, <2>5 DEF Next, vars
<1>3. PersistedUpwards'
  BY <1>2 DEF Upwards, PersistedUpwards
<1>4. QED
  BY <1>1, <1>2, <1>3 DEF UInv

(* After any calls of add, remove and update a persisted playlist lies     *)
(* under persisted ones only: the three isPersist triggers between them    *)
(* leave no way round.                                                     *)
THEOREM PersistedStaysUpwards == Spec => []PersistedUpwards
<1>1. Init => UInv
  BY InitIInv DEF Init, UInv, PersistedUpwards, OwnersGiven
<1>2. UInv /\ [Next]_vars => UInv'
  BY NextKeepsUInv
<1>3. UInv => PersistedUpwards
  BY DEF UInv
<1>4. QED
  BY <1>1, <1>2, <1>3, PTL DEF Spec

-----------------------------------------------------------------------------
(* The refinement of ordered lists. *)

Parents == Ids \cup {None}

(* What the lemmas about the order of chains ask of a table.              *)
LEMMA SoundIsChained ==
  ASSUME NEW T, Sound(T)
  PROVE  Chained(T, Parents)
<1>1. DOMAIN T \subseteq Ids /\ None \notin DOMAIN T
  BY DEF Sound, Ids, None
<1>2. IsFiniteSet(Ids)
  BY FS_Interval, MaxIdAssumption DEF Ids
<1>3. IsFiniteSet(DOMAIN T)
  BY <1>1, <1>2, FS_Subset
<1>4. \A i \in DOMAIN T : T[i].owner \in Parents
  BY DEF Sound, Row, Parents
<1>5. QED
  BY <1>1, <1>3, <1>4 DEF Chained, Sound, Parents

(* root_ids and child_ids return every playlist of a parent, once.         *)
ListsEachOnce ==
  \A p \in Parents :
    /\ ChildIds(lists, p) \in Seq(Kids(lists, p))
    /\ \A i \in Kids(lists, p) :
         \E k \in DOMAIN ChildIds(lists, p) : ChildIds(lists, p)[k] = i
    /\ \A j, k \in DOMAIN ChildIds(lists, p) :
         ChildIds(lists, p)[j] = ChildIds(lists, p)[k] => j = k

(* No row is ever lost from sight, and none is listed twice, whatever      *)
(* calls came before: sort_ids reads the whole chain.                      *)
THEOREM NoRowIsLost == Spec => []ListsEachOnce
<1>1. ASSUME IInv
      PROVE  ListsEachOnce
  <2> SUFFICES ASSUME NEW p \in Parents
               PROVE  LET s == ChildIds(lists, p)
                      IN  /\ s \in Seq(Kids(lists, p))
                          /\ \A i \in Kids(lists, p) : \E k \in DOMAIN s : s[k] = i
                          /\ \A j, k \in DOMAIN s : s[j] = s[k] => j = k
    BY DEF ListsEachOnce
  <2>1. Chained(lists, Parents)
    BY <1>1, IInvIsSound, SoundIsChained
  <2>2. QED
    BY <2>1, SortedHoldsKids DEF ChildIds, Leq
<1>2. QED
  BY <1>1, InvariantHolds, PTL

(* What OrderedLists knows of the lists that root_ids and child_ids return.         *)
LEMMA ListsAreOrdered ==
  ASSUME NEW T, Chained(T, Parents),
         NEW l, l = [p \in Parents |-> ChildIds(T, p)]
  PROVE  /\ RanksOf(Order!Ranks(l), T, Parents)
         /\ Order!Items(Order!Ranks(l)) = DOMAIN T
         /\ Order!OnePlaceEach(l)
<1>1. l = [p \in Parents |-> Sorted(T, p)]
  BY DEF ChildIds
<1> DEFINE Pairs(s) == {<<s[k[1]], s[k[2]]>> :
                          k \in {k \in (DOMAIN s) \X (DOMAIN s) : k[1] <= k[2]}}
<1>2. /\ RanksOf(UNION {{o} \X Pairs(l[o]) : o \in Parents}, T, Parents)
      /\ \A o, p \in Parents : \A j \in DOMAIN l[o], k \in DOMAIN l[p] :
           l[o][j] = l[p][k] => o = p /\ j = k
  BY <1>1, ListsHaveRanks
<1>3. RanksOf(Order!Ranks(l), T, Parents) /\ Order!OnePlaceEach(l)
  BY <1>2 DEF Order!Ranks, Order!Pairs, Order!OnePlaceEach, Parents
<1>4. QED
  BY <1>3, RanksHoldRows DEF Order!Items

(* A step that changes the place of one row, or adds it. *)
LEMMA StepPuts ==
  ASSUME Chained(lists, Parents), Chained(lists', Parents),
         NEW id \in DOMAIN lists',
         \A o \in Parents : Kids(lists', o) \ {id} = Kids(lists, o) \ {id},
         \A o \in Parents : \A x, y \in Kids(lists', o) \ {id} :
           Leq(Sorted(lists', o), x, y) <=> Leq(Sorted(lists, o), x, y)
  PROVE  Order!Next
<1> DEFINE was == [p \in Parents |-> ChildIds(lists, p)]
           now == [p \in Parents |-> ChildIds(lists', p)]
           R == Order!Ranks(was)
           S == Order!Ranks(now)
           X == {id}
<1>0. /\ \A o \in Parents : Kids(lists', o) \ X = Kids(lists, o) \ X
      /\ \A o \in Parents : \A x, y \in Kids(lists', o) \ X :
           Leq(Sorted(lists', o), x, y) <=> Leq(Sorted(lists, o), x, y)
  OBVIOUS
<1>1. RanksOf(R, lists, Parents)
  BY ListsAreOrdered
<1>2. RanksOf(S, lists', Parents) /\ Order!Items(S) = DOMAIN lists'
      /\ Order!OnePlaceEach(now)
  BY ListsAreOrdered
<1> HIDE DEF R, S, X
<1>3. Order!Without(S, X) = Order!Without(R, X)
  BY <1>0, <1>1, <1>2, SameOrderSameRanks DEF Order!Without
<1>4. id \in Order!Items(S)
  BY <1>2
<1> HIDE DEF was, now
<1>5. \E x \in Order!Items(S) : Order!Put(R, S, x)
  BY <1>3, <1>4 DEF Order!Put, X
<1>6. QED
  BY <1>2, <1>5 DEF Order!Next, Parents, R, S, was, now

(* A step that takes rows away. *)
LEMMA StepTakes ==
  ASSUME Chained(lists, Parents), Chained(lists', Parents),
         DOMAIN lists' \subseteq DOMAIN lists,
         \A i \in DOMAIN lists' : lists'[i].owner = lists[i].owner,
         \A o \in Parents : \A x, y \in Kids(lists', o) :
           Leq(Sorted(lists', o), x, y) <=> Leq(Sorted(lists, o), x, y)
  PROVE  Order!Next
<1> DEFINE was == [p \in Parents |-> ChildIds(lists, p)]
           now == [p \in Parents |-> ChildIds(lists', p)]
           R == Order!Ranks(was)
           S == Order!Ranks(now)
           X == DOMAIN lists \ DOMAIN lists'
<1>1. RanksOf(R, lists, Parents) /\ Order!Items(R) = DOMAIN lists
  BY ListsAreOrdered
<1>2. RanksOf(S, lists', Parents) /\ Order!Items(S) = DOMAIN lists'
      /\ Order!OnePlaceEach(now)
  BY ListsAreOrdered
<1> HIDE DEF R, S
<1>3. \A o \in Parents : Kids(lists', o) \ X = Kids(lists, o) \ X
                           /\ Kids(lists', o) \ X \subseteq Kids(lists', o)
  BY DEF Kids
<1> HIDE DEF X
<1>4. Order!Without(S, X) = Order!Without(R, X)
  BY <1>1, <1>2, <1>3, SameOrderSameRanks DEF Order!Without
<1>5. Order!Without(S, X) = S
  <2>1. ASSUME NEW r \in S
        PROVE  r[2][1] \in DOMAIN lists' /\ r[2][2] \in DOMAIN lists'
    BY <1>2 DEF RanksOf, Kids
  <2>2. QED
    BY <2>1 DEF X, Order!Without
<1>6. Order!Take(R, S)
  BY <1>1, <1>2, <1>4, <1>5 DEF Order!Take, X
<1> HIDE DEF was, now
<1>7. QED
  BY <1>2, <1>6 DEF Order!Next, Parents, R, S, was, now

(* Every call is a step of OrderedLists, or none.                          *)
LEMMA StepIsOrdered ==
  ASSUME IInv, IInv', Next
  PROVE  Order!Next \/ UNCHANGED [p \in Parents |-> ChildIds(lists, p)]
<1>0. /\ Sound(lists) /\ Sound(lists')
      /\ Chained(lists, Parents) /\ Chained(lists', Parents)
  <2>1. Sound(lists) /\ Sound(lists')
    BY MaxIdAssumption DEF IInv, TypeOK, Chains, Sound, Ids
  <2>2. QED
    BY <2>1, SoundIsChained
<1>1. ASSUME lists' = lists
      PROVE  UNCHANGED [p \in Parents |-> ChildIds(lists, p)]
  BY <1>1
<1>2. ASSUME NEW id \in DOMAIN lists, Add(id, lists[id])
      PROVE  lists' = lists
  <2>1. id # None
    BY <1>0 DEF Chained
  <2>2. QED
    BY <1>2, <2>1 DEF Add, Throw
<1>3. ASSUME NEW title \in AnyTitle, NEW b \in Flags, NEW place \in PlacesToAdd(lists),
             seq < MaxId, Add(None, MakeRow(title, place, b)), lists' # lists
      PROVE  Order!Next
  <2> DEFINE row == MakeRow(title, place, b)
             id == seq + 1
  <2>1. title \in Titles /\ b \in BOOLEAN
    BY <1>3, FlagsAssumption DEF AnyTitle, Add, MakeRow, Throw
  <2>2. row \in Row /\ row.next \in Kids(lists, row.owner) \cup {None}
        /\ id \in Ids \ DOMAIN lists
    BY <1>0, <1>3, <2>1, PlacesToAddAreLegal, IInvIsSound, MaxIdAssumption DEF Ids
  <2>3. lists' = AddTables(lists, id, row)[3]
    BY <1>3 DEF Add, Throw, Run, AddTables
  <2> HIDE DEF row, id
  <2>4. PutBefore(lists', lists, id, row.owner, row.next)
    BY <1>0, <2>2, <2>3, AddShape DEF Sound
  <2>5. id \in DOMAIN lists'
        /\ \A o \in Parents : /\ Kids(lists', o) \ {id} = Kids(lists, o) \ {id}
                              /\ Kids(lists', o) \ {id} \subseteq Kids(lists, o)
    BY <2>4 DEF PutBefore, Kids
  <2>6. \A o \in Parents : \A x, y \in Kids(lists', o) \ {id} :
          Leq(Sorted(lists', o), x, y) <=> Leq(Sorted(lists, o), x, y)
    BY <1>0, <2>2, <2>4, <2>5, PutBeforeKeepsOrder
  <2>7. QED
    BY <1>0, <2>5, <2>6, StepPuts
<1>4. ASSUME NEW id \in Ids, Remove(id), lists' # lists
      PROVE  Order!Next
  <2> DEFINE X == {id} \cup Kids(lists, id)
  <2>1. id \in DOMAIN lists /\ lists' = RemoveTables(lists, id)[2]
    BY <1>4 DEF Remove, Run, RemoveTables
  <2>2. TakenOut(lists', lists, id, X)
    BY <1>0, <2>1, RemoveShape DEF Sound
  <2>3. \A p \in Parents : Kids(lists, p) \cap X \subseteq {id} \/ Kids(lists, p) \subseteq X
    BY DEF Kids
  <2> HIDE DEF X
  <2>4. DOMAIN lists' \subseteq DOMAIN lists
        /\ \A i \in DOMAIN lists' : lists'[i].owner = lists[i].owner
    BY <2>2 DEF TakenOut
  <2>5. \A o \in Parents : \A x, y \in Kids(lists', o) :
          Leq(Sorted(lists', o), x, y) <=> Leq(Sorted(lists, o), x, y)
    BY <1>0, <2>2, <2>3, TakenOutKeepsOrder
  <2>6. QED
    BY <1>0, <2>4, <2>5, StepTakes
<1>5. ASSUME NEW id \in {None} \cup Ids, NEW place \in PlacesFor(lists, id),
             NEW title \in AnyTitle, NEW b \in Flags, Update(id, MakeRow(title, place, b)),
             lists' # lists
      PROVE  Order!Next \/ UNCHANGED [p \in Parents |-> ChildIds(lists, p)]
  <2> DEFINE row == MakeRow(title, place, b)
  <2>1. title \in Titles /\ b \in BOOLEAN /\ id \in DOMAIN lists
    BY <1>5, FlagsAssumption DEF AnyTitle, Update, MakeRow, Throw
  <2>2. /\ row \in Row
        /\ \/ row.owner = lists[id].owner /\ row.next = lists[id].next
           \/ row.next \in Kids(lists, row.owner) \cup {None} /\ row.next # id
    BY <1>0, <2>1, PlacesForAreLegal
  <2>3. Run(UpdateTables(lists, id, row))
    BY <1>5 DEF Update, Throw
  <2> HIDE DEF row
  <2>4. CASE row.owner = lists[id].owner /\ row.next = lists[id].next
    <3>1. lists' = Updated(lists, id, row)
      BY <1>5, <2>3, <2>4 DEF Run, UpdateTables
    <3>2. Loose(lists)
      BY <1>0, MaxIdAssumption DEF Sound, Loose, LooseRow, Row, Ids, None
    <3>3. SameLinks(lists', [lists EXCEPT ![id] = row])
      BY <2>1, <2>2, <3>1, <3>2, UpdatedShape
    <3>4. SameLinks(lists', lists)
      BY <2>4, <3>3 DEF SameLinks
    <3>5. ASSUME NEW p \in Parents
          PROVE  Sorted(lists', p) = Sorted(lists, p)
      <4>1. Kids(lists', p) = Kids(lists, p)
            /\ \A i \in Kids(lists, p) : lists'[i].next = lists[i].next
        BY <3>4 DEF SameLinks, Kids
      <4>2. QED
        BY <1>0, <4>1, SameLinksSameOrder DEF Chained
    <3>6. QED
      BY <3>5 DEF ChildIds
  <2>5. CASE ~(row.owner = lists[id].owner /\ row.next = lists[id].next)
    <3> DEFINE G == Unlinked(lists, id)
    <3>1. lists' = MoveTables(lists, id, row)[4]
      BY <1>5, <2>3, <2>5 DEF Run, UpdateTables, MoveTables
    <3>2. PutBefore(lists', G, id, row.owner, row.next)
      BY <1>0, <2>1, <2>2, <3>1, MoveShape DEF Sound
    <3>3. TakenOut(G, lists, id, {id}) /\ G \in [DOMAIN lists \ {id} -> Row]
      BY <1>0, <2>1, UnlinkedShape DEF Sound
    <3> HIDE DEF G
    <3>4. \A p \in Parents : Kids(lists, p) \cap {id} \subseteq {id}
      OBVIOUS
    <3>5. \A p \in Parents : Chain(G, p)
      BY <1>0, <3>3, <3>4, TakenOutKeepsChain DEF Chained
    <3>6. DOMAIN G = DOMAIN lists \ {id}
      BY <3>3
    <3>7. Chained(G, Parents)
      <4>1. Sound(G)
        BY <1>0, <3>3, <3>5, <3>6 DEF Sound, Parents
      <4>2. QED
        BY <4>1, SoundIsChained
    <3>8. row.next \in Kids(G, row.owner) \cup {None}
      BY <2>2, <2>5, <3>3 DEF TakenOut, Kids
    <3>9. ASSUME NEW o \in Parents
          PROVE  /\ Kids(lists', o) \ {id} = Kids(lists, o) \ {id}
                 /\ Kids(lists', o) \ {id} \subseteq Kids(G, o)
      BY <3>2, <3>3 DEF PutBefore, TakenOut, Kids
    <3>10. ASSUME NEW o \in Parents, NEW x \in Kids(lists', o) \ {id},
                  NEW y \in Kids(lists', o) \ {id}
           PROVE  Leq(Sorted(lists', o), x, y) <=> Leq(Sorted(lists, o), x, y)
      <4>1. x \in Kids(G, o) /\ y \in Kids(G, o)
        BY <3>9
      <4>2. Leq(Sorted(G, o), x, y) <=> Leq(Sorted(lists', o), x, y)
        BY <1>0, <3>2, <3>7, <3>8, <4>1, PutBeforeKeepsOrder
      <4>3. Leq(Sorted(G, o), x, y) <=> Leq(Sorted(lists, o), x, y)
        BY <1>0, <3>3, <3>4, <3>7, <4>1, TakenOutKeepsOrder
      <4>4. QED
        BY <4>2, <4>3
    <3>11. id \in DOMAIN lists'
      BY <3>2 DEF PutBefore
    <3>12. QED
      BY <1>0, <3>9, <3>10, <3>11, StepPuts
  <2>6. QED
    BY <2>4, <2>5
<1>6. QED
  BY <1>1, <1>2, <1>3, <1>4, <1>5 DEF Next

(* The table implements ordered lists: whatever calls come, and whatever   *)
(* triggers fire, every call puts a playlist in one place or takes some    *)
(* away, in the order that root_ids and child_ids return, and all others   *)
(* stay in the order they had.                                             *)
THEOREM ImplementsOrderedLists == Spec => ImplementsOrder
<1>1. Init => Order!Init
  <2> SUFFICES ASSUME Init, NEW p \in Parents
               PROVE  ChildIds(lists, p) = << >>
    BY DEF Order!Init, Parents
  <2>1. Sound(lists) /\ Kids(lists, p) = {}
    BY InitIInv, IInvIsSound DEF Init, Kids
  <2>2. Sorted(lists, p) \in Seq({})
    BY <2>1, SoundIsChained, SortedHoldsKids
  <2>3. QED
    BY <2>2 DEF ChildIds
<1>2. IInv /\ IInv' /\ [Next]_vars
        => [Order!Next]_([p \in Ids \cup {None} |-> ChildIds(lists, p)])
  BY StepIsOrdered DEF vars, Parents
<1>3. QED
  BY <1>1, <1>2, InvariantHolds, PTL DEF Spec, ImplementsOrder, Order!Spec
-----------------------------------------------------------------------------
(* Names: a call gives the row that it is about its name, and leaves the   *)
(* name of every other row alone.                                          *)

LEMMA SetNextSameNames ==
  ASSUME NEW T, NEW S, NEW n \in Int, Loose(T)
  PROVE  SameNames(SetNext(T, S, n), T)
  BY DEF SetNext, Loose, LooseRow, SameNames

LEMMA UpdatedNames ==
  ASSUME NEW T, NEW id \in DOMAIN T, NEW row \in Row, Loose(T)
  PROVE  SameNames(Updated(T, id, row), [T EXCEPT ![id] = row])
<1> DEFINE U == [T EXCEPT ![id] = row]
<1>1. Loose(U)
  BY MaxIdAssumption DEF Loose, LooseRow, Row, Ids, None
<1>2. \A S, b : SameNames(SetPersisted(U, S, b), U)
  BY <1>1, SetPersistedSame
<1>3. SameNames(U, U)
  BY DEF SameNames
<1>4. QED
  BY <1>2, <1>3 DEF Updated, AfterUpdatePersist

LEMMA AddNames ==
  ASSUME NEW T, NEW id \in Ids \ DOMAIN T, NEW row \in Row, T \in [DOMAIN T -> Row]
  PROVE  SameNames(AddTables(T, id, row)[3], Inserted(T, id, row))
<1> DEFINE parked == BeforeInsert(T, row)
           added  == Inserted(parked, id, row)
           linked == AfterInsert(added, id, row)
           final  == AfterInsertPersist(linked, id, row)
<1>0. /\ Loose(T) /\ row \in LooseRow /\ id \in Int /\ Inverted(row.next) \in Int
  BY MaxIdAssumption DEF Loose, LooseRow, Row, Ids, None, Inverted
<1>1. SameNames(parked, T) /\ Loose(parked)
  BY <1>0, SetNextSameNames, SetNextShape DEF BeforeInsert
<1>2. /\ DOMAIN added = DOMAIN T \cup {id} /\ Loose(added)
      /\ added[id] = row
      /\ \A i \in DOMAIN T : added[i] = parked[i]
  <2>1. DOMAIN parked = DOMAIN T
    BY <1>1 DEF SameNames
  <2> HIDE DEF parked
  <2>2. QED
    BY <1>0, <1>1, <2>1 DEF Inserted, Loose
<1>3. SameNames(linked, added) /\ Loose(linked)
  <2> HIDE DEF added
  <2>1. QED
    BY <1>0, <1>2, SetNextSameNames, SetNextShape DEF AfterInsert
<1> HIDE DEF parked, added, linked
<1>4. SameNames(final, linked)
  <2>1. SameNames(SetPersisted(linked, Ancestors(linked, id), TRUE), linked)
    BY <1>3, SetPersistedSame
  <2>2. SameNames(linked, linked)
    BY DEF SameNames
  <2>3. QED
    BY <2>1, <2>2 DEF AfterInsertPersist
<1>5. SameNames(final, Inserted(T, id, row))
  BY <1>1, <1>2, <1>3, <1>4 DEF SameNames, Inserted
<1>6. AddTables(T, id, row)[3] = final
  BY DEF AddTables, parked, added, linked
<1>7. QED
  BY <1>5, <1>6

LEMMA RemoveNames ==
  ASSUME NEW T, NEW id \in DOMAIN T, T \in [DOMAIN T -> Row]
  PROVE  \A i \in DOMAIN RemoveTables(T, id)[2] : RemoveTables(T, id)[2][i].title = T[i].title
<1> DEFINE gone == Without(T, {id})
           relinked == SetNext(gone, {i \in DOMAIN gone : gone[i].next = id}, T[id].next)
<1>1. /\ DOMAIN gone = DOMAIN T \ {id} /\ Loose(gone) /\ T[id].next \in Int
      /\ \A i \in DOMAIN gone : gone[i] = T[i]
  BY MaxIdAssumption DEF Without, Loose, LooseRow, Row, Ids, None
<1>2. SameNames(relinked, gone)
  BY <1>1, SetNextSameNames
<1>3. RemoveTables(T, id)[2] = Without(relinked, Kids(gone, id))
  BY DEF RemoveTables
<1> HIDE DEF gone, relinked
<1>4. QED
  BY <1>1, <1>2, <1>3 DEF SameNames, Without

LEMMA MoveNames ==
  ASSUME NEW T, NEW id \in DOMAIN T, NEW row \in Row, T \in [DOMAIN T -> Row],
         id \in Int
  PROVE  SameNames(MoveTables(T, id, row)[4], [T EXCEPT ![id] = row])
<1> DEFINE old    == T[id]
           parked == SetNext(T, {id}, Inverted(old.next))
           closed == SetNext(parked, Before(parked, old.owner, id), old.next)
           opened == SetNext(closed, Before(closed, row.owner, row.next), id)
           final  == Updated(opened, id, row)
<1>0. /\ Loose(T) /\ old.next \in Int /\ Inverted(old.next) \in Int
  BY MaxIdAssumption DEF Loose, LooseRow, Row, Ids, None, Inverted
<1>1. Loose(parked) /\ SameNames(parked, T)
  BY <1>0, SetNextShape, SetNextSameNames
<1>2. Loose(closed) /\ SameNames(closed, parked)
  <2> HIDE DEF parked
  <2>1. QED
    BY <1>0, <1>1, SetNextShape, SetNextSameNames
<1>3. Loose(opened) /\ SameNames(opened, closed)
  <2> HIDE DEF closed
  <2>1. QED
    BY <1>2, SetNextShape, SetNextSameNames
<1> HIDE DEF parked, closed, opened
<1>4. DOMAIN opened = DOMAIN T /\ \A i \in DOMAIN T : opened[i].title = T[i].title
  BY <1>1, <1>2, <1>3 DEF SameNames
<1>5. SameNames(final, [opened EXCEPT ![id] = row])
  BY <1>3, <1>4, UpdatedNames
<1>6. SameNames(final, [T EXCEPT ![id] = row])
  BY <1>4, <1>5 DEF SameNames
<1>7. MoveTables(T, id, row)[4] = final
  BY DEF MoveTables, parked, closed, opened
<1>8. QED
  BY <1>6, <1>7
=============================================================================
