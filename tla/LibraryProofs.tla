---------------------------- MODULE LibraryProofs ----------------------------
(***************************************************************************)
(* Proofs about Library and Sessions, for every set of titles, every set   *)
(* of sessions and every bound on ids.                                     *)
(*                                                                         *)
(* What is proved of tables Playlist and PlaylistEntity is taken over by   *)
(* INSTANCE.  The lemmas here show that the public calls use the tables    *)
(* the way those proofs ask for, which is the part that the callers'       *)
(* lookups, and the situations that Traps names, decide; from "Several     *)
(* sessions" on, what is left of that when others write between a lookup   *)
(* and the write that goes by it; and, from "The promises" on, that the    *)
(* calls of one caller do what DjLibrary promises.                         *)
(***************************************************************************)
EXTENDS Sessions, LibraryContract, RowProofs, FiniteSetTheorems, SequenceTheorems,
        TLAPS

(* What is proved of the two tables, taken over for Library: a handle is   *)
(* made for a persisted list, there is one database, and ids are numbers.  *)
PTP == INSTANCE PlaylistTableProofs
         WITH seq <- listSeq, Flags <- {TRUE}, PlainIds <- {}
PEP == INSTANCE PlaylistEntityProofs
         WITH seq <- entitySeq, Playlists <- 1 .. MaxId, Tracks <- 1 .. MaxTrack,
              Uuids <- {Uuid}

(* The assumptions under which that was proved hold here.                  *)
LEMMA Constants ==
  /\ BadTitle \notin Titles /\ {TRUE} \subseteq BOOLEAN /\ MaxId \in Nat
  /\ 1 .. MaxTrack \subseteq Nat \ {0} /\ MaxEntity \in Nat
  BY LibraryTitles, LibraryBounds, MaxTrackAssumption

(* The module of the table and that of its proofs mean the same things.    *)
LEMMA SameWords ==
  /\ PTP!None = None /\ PT!None = None
  /\ PTP!Ids = 1 .. MaxId /\ PT!Ids = 1 .. MaxId
  /\ PTP!Row = PT!Row
  /\ PTP!Row = [title : Titles, owner : 0 .. MaxId, next : 0 .. MaxId, persisted : BOOLEAN]
  /\ \A T, o : PTP!Kids(T, o) = Kids(T, o) /\ PT!Kids(T, o) = Kids(T, o)
<1>1. /\ PTP!None = None /\ PT!None = None
      /\ PTP!Ids = 1 .. MaxId /\ PT!Ids = 1 .. MaxId
  BY DEF PTP!None, PT!None, None, PTP!Ids, PT!Ids
<1>2. PTP!Row = PT!Row
  BY DEF PTP!Row, PT!Row, PTP!Ids, PT!Ids, PTP!None, PT!None
<1>3. (1 .. MaxId) \cup {None} = 0 .. MaxId
  BY LibraryBounds DEF None
<1>4. PTP!Row = [title : Titles, owner : 0 .. MaxId, next : 0 .. MaxId, persisted : BOOLEAN]
  BY <1>1, <1>3 DEF PTP!Row
<1>5. \A T, o : PTP!Kids(T, o) = Kids(T, o) /\ PT!Kids(T, o) = Kids(T, o)
  BY DEF PTP!Kids, PT!Kids, Kids
<1>6. QED
  BY <1>1, <1>2, <1>4, <1>5

(* The statements of add are the same in both.                             *)
LEMMA SameAdd ==
  ASSUME NEW T, NEW id, NEW row
  PROVE  PT!AddTables(T, id, row) = PTP!AddTables(T, id, row)
  BY DEF PTP!AddTables, PT!AddTables, PTP!BeforeInsert, PT!BeforeInsert,
         PTP!Inserted, PT!Inserted, PTP!AfterInsert, PT!AfterInsert,
         PTP!AfterInsertPersist, PT!AfterInsertPersist, PTP!SetPersisted,
         PT!SetPersisted, PTP!Ancestors, PT!Ancestors, PTP!SetNext, PT!SetNext,
         PTP!Before, PT!Before, PTP!Kids, PT!Kids, PTP!Inverted, PT!Inverted,
         PTP!None, PT!None

(* The statements of remove are the same in both.                          *)
LEMMA SameRemove ==
  ASSUME NEW T, NEW id
  PROVE  PT!RemoveTables(T, id) = PTP!RemoveTables(T, id)
  BY DEF PTP!RemoveTables, PT!RemoveTables, PTP!SetNext, PT!SetNext,
         PTP!Without, PT!Without, PTP!Kids, PT!Kids

(* The one statement of an update in place is the same in both.            *)
LEMMA SameUpdated ==
  ASSUME NEW T, NEW id, NEW row
  PROVE  PT!Updated(T, id, row) = PTP!Updated(T, id, row)
  BY DEF PTP!Updated, PT!Updated, PTP!AfterUpdatePersist, PT!AfterUpdatePersist,
         PTP!SetPersisted, PT!SetPersisted, PTP!Ancestors, PT!Ancestors,
         PTP!Descendants, PT!Descendants

(* The four statements of a move are the same in both.                     *)
LEMMA SameMove ==
  ASSUME NEW T, NEW id, NEW row
  PROVE  PT!MoveTables(T, id, row) = PTP!MoveTables(T, id, row)
  BY SameUpdated
     DEF PTP!MoveTables, PT!MoveTables, PTP!SetNext, PT!SetNext,
         PTP!Before, PT!Before, PTP!Kids, PT!Kids, PTP!Inverted, PT!Inverted

(* add rolls back, or leaves what its last trigger leaves.                 *)
LEMMA AddSteps ==
  ASSUME NEW row, PT!Add(PT!None, row)
  PROVE  \/ lists' = lists /\ listSeq' = listSeq
         \/ /\ row.title # BadTitle
            /\ lists' = PTP!AddTables(lists, listSeq + 1, row)[3] /\ listSeq' = listSeq + 1
  BY SameAdd DEF PT!Add, PT!Throw, PT!Run, PT!AddTables

(* remove does nothing, or deletes a row that is there.                    *)
LEMMA RemoveSteps ==
  ASSUME NEW id, PT!Remove(id)
  PROVE  \/ lists' = lists /\ listSeq' = listSeq
         \/ /\ id \in DOMAIN lists
            /\ lists' = PTP!RemoveTables(lists, id)[2] /\ listSeq' = listSeq
  BY SameRemove DEF PT!Remove, PT!Run, PT!RemoveTables

(* update rolls back, changes the row where it is, or moves it.            *)
LEMMA UpdateSteps ==
  ASSUME NEW id, NEW row, PT!Update(id, row)
  PROVE  \/ lists' = lists /\ listSeq' = listSeq
         \/ /\ row.title # BadTitle /\ id \in DOMAIN lists /\ listSeq' = listSeq
            /\ \/ /\ row.owner = lists[id].owner /\ row.next = lists[id].next
                  /\ lists' = PTP!Updated(lists, id, row)
               \/ /\ ~(row.owner = lists[id].owner /\ row.next = lists[id].next)
                  /\ lists' = PTP!MoveTables(lists, id, row)[4]
<1>1. CASE row.owner = lists[id].owner /\ row.next = lists[id].next
  BY <1>1, SameUpdated DEF PT!Update, PT!Throw, PT!Run, PT!UpdateTables
<1>2. CASE ~(row.owner = lists[id].owner /\ row.next = lists[id].next)
  BY <1>2, SameMove DEF PT!Update, PT!Throw, PT!Run, PT!UpdateTables, PT!MoveTables
<1>3. QED
  BY <1>1, <1>2

(* The caller keeps clear of the two situations in which a call breaks the *)
(* links or the parents: set_parent on a list that is not last             *)
(* (playlist_impl.cpp:213, crate_impl.cpp:212), and remove with lists two  *)
(* levels below, since the DELETE trigger goes down one level only.        *)
Careful == Traps \cap {"stale_next", "deep_remove"} = {}

(* What every call on playlists keeps: the chains, ids from the sequence,  *)
(* and a parent for every list.                                            *)
ListsOK(T, s) ==
  /\ PTP!Sound(T) /\ s \in 0 .. MaxId /\ DOMAIN T \subseteq 1 .. s
  /\ \A i \in DOMAIN T : T[i].owner \in {None} \cup DOMAIN T

(* The parts of ListsOK in the words of Library.                           *)
LEMMA ListsOKFacts ==
  ASSUME NEW T, NEW s, ListsOK(T, s)
  PROVE  /\ T \in [DOMAIN T -> PTP!Row] /\ DOMAIN T \subseteq 1 .. MaxId
         /\ None \notin DOMAIN T
         /\ \A p \in 0 .. MaxId : \A i \in Kids(T, p) : T[i].next \in Kids(T, p) \cup {None}
         /\ \A p \in 0 .. MaxId : Kids(T, p) # {} => \E i \in Kids(T, p) : T[i].next = None
<1>1. /\ T \in [DOMAIN T -> PTP!Row] /\ DOMAIN T \subseteq 1 .. MaxId
      /\ None \notin DOMAIN T
  BY SameWords DEF ListsOK, PTP!Sound, None
<1>2. ASSUME NEW p \in 0 .. MaxId
      PROVE  /\ \A i \in Kids(T, p) : T[i].next \in Kids(T, p) \cup {None}
             /\ \A S \in SUBSET Kids(T, p) : S # {} => \E i \in S : T[i].next \notin S
  <2>1. p \in PTP!Ids \cup {PTP!None}
    BY SameWords, LibraryBounds DEF None
  <2>2. PTP!Chain(T, p)
    BY <2>1 DEF ListsOK, PTP!Sound
  <2>3. QED
    BY <2>2, SameWords DEF PTP!Chain
<1>3. QED
  BY <1>1, <1>2

(* A new list before a sibling or at the end.                              *)
LEMMA AddKeepsLists ==
  ASSUME ListsOK(lists, listSeq), NEW p \in Owners, NEW n \in PT!AnyTitle,
         NEW next \in Kids(lists, p) \cup {None},
         listSeq < MaxId \/ n = BadTitle,
         AddList(n, p, next)
  PROVE  ListsOK(lists', listSeq')
<1> DEFINE row == PT!MakeRow(n, <<p, next>>, TRUE)
<1>1. CASE lists' = lists /\ listSeq' = listSeq
  BY <1>1
<1>2. CASE ~(lists' = lists /\ listSeq' = listSeq)
  <2>1. /\ row.title # BadTitle
        /\ lists' = PTP!AddTables(lists, listSeq + 1, row)[3] /\ listSeq' = listSeq + 1
    BY <1>2, AddSteps, SameWords DEF AddList
  <2>2. /\ lists \in [DOMAIN lists -> PTP!Row] /\ DOMAIN lists \subseteq 1 .. MaxId
        /\ DOMAIN lists \subseteq 1 .. listSeq /\ listSeq \in 0 .. MaxId
    BY ListsOKFacts DEF ListsOK
  <2>3. row.title = n /\ row.owner = p /\ row.next = next /\ n \in Titles /\ listSeq < MaxId
    BY <2>1 DEF PT!MakeRow, PT!AnyTitle
  <2>4. row \in PTP!Row
    BY <2>2, <2>3, SameWords, LibraryBounds DEF PT!MakeRow, Owners, Kids, None
  <2>5. listSeq + 1 \in PTP!Ids \ DOMAIN lists /\ listSeq + 1 \in 0 .. MaxId
    BY <2>2, <2>3, SameWords, LibraryBounds
  <2>6. row.next \in PTP!Kids(lists, row.owner) \cup {PTP!None}
    BY <2>3, SameWords
  <2> HIDE DEF row
  <2>7. PTP!Sound(lists')
    BY <2>1, <2>4, <2>5, <2>6, Constants, PTP!AddKeepsSound DEF ListsOK
  <2>8. PTP!PutBefore(lists', lists, listSeq + 1, row.owner, row.next)
    BY <2>1, <2>2, <2>4, <2>5, Constants, PTP!AddShape
  <2>9. /\ DOMAIN lists' = DOMAIN lists \cup {listSeq + 1}
        /\ lists'[listSeq + 1].owner = p
        /\ \A i \in DOMAIN lists : lists'[i].owner = lists[i].owner
    BY <2>3, <2>8 DEF PTP!PutBefore
  <2>10. DOMAIN lists' \subseteq 1 .. listSeq'
    BY <2>1, <2>2, <2>9, LibraryBounds
  <2>11. QED
    BY <2>1, <2>5, <2>7, <2>9, <2>10 DEF ListsOK, Owners
<1>3. QED
  BY <1>1, <1>2

(* A list goes with its children; none of those has children.              *)
LEMMA RemoveKeepsLists ==
  ASSUME ListsOK(lists, listSeq), NEW i \in DOMAIN lists, ~DeepRemove(i), PT!Remove(i)
  PROVE  ListsOK(lists', listSeq')
<1>1. CASE lists' = lists /\ listSeq' = listSeq
  BY <1>1
<1>2. CASE ~(lists' = lists /\ listSeq' = listSeq)
  <2>1. lists' = PTP!RemoveTables(lists, i)[2] /\ listSeq' = listSeq
    BY <1>2, RemoveSteps
  <2>2. lists \in [DOMAIN lists -> PTP!Row]
    BY ListsOKFacts
  <2>3. PTP!Sound(lists')
    BY <2>1, Constants, PTP!RemoveKeepsSound DEF ListsOK
  <2>4. PTP!TakenOut(lists', lists, i, {i} \cup PTP!Kids(lists, i))
    BY <2>1, <2>2, Constants, PTP!RemoveShape
  <2>5. /\ DOMAIN lists' = DOMAIN lists \ ({i} \cup Kids(lists, i))
        /\ \A j \in DOMAIN lists' : lists'[j].owner = lists[j].owner
    BY <2>4, SameWords DEF PTP!TakenOut
  <2>6. ASSUME NEW j \in DOMAIN lists'
        PROVE  lists'[j].owner \in {None} \cup DOMAIN lists'
    <3>1. lists[j].owner \in {None} \cup DOMAIN lists /\ j \in DOMAIN lists \ Kids(lists, i)
      BY <2>5 DEF ListsOK
    <3>2. lists[j].owner # i
      BY <3>1 DEF Kids
    <3>3. lists[j].owner \notin Kids(lists, i)
      BY <3>1 DEF DeepRemove, Kids
    <3>4. QED
      BY <2>5, <3>1, <3>2, <3>3
  <2>7. QED
    BY <2>1, <2>3, <2>5, <2>6 DEF ListsOK
<1>3. QED
  BY <1>1, <1>2

(* A list is changed in place, or moved before a sibling or to an end.     *)
LEMMA UpdateKeepsLists ==
  ASSUME ListsOK(lists, listSeq), NEW i \in DOMAIN lists, NEW row \in PTP!Row,
         row.owner \in Owners,
         \/ row.owner = lists[i].owner /\ row.next = lists[i].next
         \/ row.next \in Kids(lists, row.owner) \cup {None} /\ row.next # i,
         PT!Update(i, row)
  PROVE  ListsOK(lists', listSeq')
<1>1. /\ lists \in [DOMAIN lists -> PTP!Row] /\ DOMAIN lists \subseteq PTP!Ids
      /\ PTP!Sound(lists)
  BY ListsOKFacts, SameWords DEF ListsOK
<1>2. CASE lists' = lists /\ listSeq' = listSeq
  BY <1>2
<1>3. CASE /\ listSeq' = listSeq /\ row.owner = lists[i].owner /\ row.next = lists[i].next
           /\ lists' = PTP!Updated(lists, i, row)
  <2>1. PTP!Sound(lists')
    BY <1>1, <1>3, Constants, PTP!UpdateInPlaceKeepsSound
  <2>2. PTP!Loose(lists)
    BY <1>1, LibraryBounds DEF PTP!Loose, PTP!LooseRow, PTP!Row, PTP!Ids, PTP!None
  <2>3. PTP!SameLinks(lists', [lists EXCEPT ![i] = row])
    BY <1>3, <2>2, Constants, PTP!UpdatedShape
  <2>4. /\ DOMAIN lists' = DOMAIN lists
        /\ \A j \in DOMAIN lists : lists'[j].owner = lists[j].owner
    BY <1>3, <2>3 DEF PTP!SameLinks
  <2>5. QED
    BY <1>3, <2>1, <2>4 DEF ListsOK
<1>4. CASE /\ listSeq' = listSeq
           /\ ~(row.owner = lists[i].owner /\ row.next = lists[i].next)
           /\ lists' = PTP!MoveTables(lists, i, row)[4]
  <2>1. row.next \in PTP!Kids(lists, row.owner) \cup {PTP!None} /\ row.next # i
    BY <1>4, SameWords
  <2>2. PTP!Sound(lists')
    BY <1>1, <1>4, <2>1, Constants, PTP!MoveKeepsSound
  <2>3. \A p \in PTP!Ids \cup {PTP!None} : PTP!Chain(lists, p)
    BY <1>1 DEF PTP!Sound
  <2>4. PTP!PutBefore(lists', PTP!Unlinked(lists, i), i, row.owner, row.next)
    BY <1>1, <1>4, <2>3, Constants, PTP!MoveShape
  <2>5. PTP!TakenOut(PTP!Unlinked(lists, i), lists, i, {i})
    BY <1>1, Constants, PTP!UnlinkedShape
  <2>6. /\ DOMAIN lists' = DOMAIN lists /\ lists'[i].owner = row.owner
        /\ \A j \in DOMAIN lists \ {i} : lists'[j].owner = lists[j].owner
    BY <2>4, <2>5 DEF PTP!PutBefore, PTP!TakenOut
  <2>7. QED
    BY <1>4, <2>2, <2>6 DEF ListsOK, Owners
<1>5. QED
  BY <1>2, <1>3, <1>4, UpdateSteps

(* Every call on playlists.                                                *)
LEMMA ListCallKeepsLists ==
  ASSUME ListsOK(lists, listSeq), Careful, ListCall
  PROVE  ListsOK(lists', listSeq')
<1>0. /\ "stale_next" \notin Traps /\ "deep_remove" \notin Traps
  BY DEF Careful
<1>2. ASSUME NEW what, Fail(what)
      PROVE  ListsOK(lists', listSeq')
  BY <1>2 DEF Fail, listVars
<1>3. ASSUME NEW p \in Owners, NEW n \in PT!AnyTitle, MayInsertList(n), Create(p, n)
      PROVE  ListsOK(lists', listSeq')
  BY <1>2, <1>3, AddKeepsLists DEF Create, MayInsertList
<1>4. ASSUME NEW p \in Owners, NEW n \in PT!AnyTitle, NEW a \in DOMAIN lists,
             MayInsertList(n), CreateAfter(p, n, a)
      PROVE  ListsOK(lists', listSeq')
  <2>1. CASE \E what : Fail(what)
    BY <1>2, <2>1
  <2>2. CASE lists[a].owner = p /\ AddList(n, p, lists[a].next)
    <3>1. p \in 0 .. MaxId /\ a \in Kids(lists, p)
      BY <2>2, ListsOKFacts, LibraryBounds DEF Owners, None, Kids
    <3>2. lists[a].next \in Kids(lists, p) \cup {None}
      BY <3>1, ListsOKFacts
    <3>3. QED
      BY <1>4, <2>2, <3>2, AddKeepsLists DEF MayInsertList
  <2>3. QED
    BY <1>4, <2>1, <2>2 DEF CreateAfter
<1>5. ASSUME NEW i \in DOMAIN lists, NEW n \in PT!AnyTitle, SetName(i, n)
      PROVE  ListsOK(lists', listSeq')
  <2> DEFINE row == [lists[i] EXCEPT !.title = n]
  <2>1. PT!Update(i, row)
    BY <1>5 DEF SetName
  <2>2. lists[i] \in PTP!Row
    BY ListsOKFacts
  <2>3. CASE n = BadTitle
    <3>1. row.title = BadTitle
      BY <2>2, <2>3 DEF PTP!Row
    <3>2. lists' = lists /\ listSeq' = listSeq
      BY <2>1, <3>1, UpdateSteps
    <3>3. QED
      BY <3>2
  <2>4. CASE n \in Titles
    <3>1. row \in PTP!Row /\ row.owner = lists[i].owner /\ row.next = lists[i].next
      BY <2>2, <2>4 DEF PTP!Row
    <3>2. row.owner \in Owners
      BY <3>1 DEF ListsOK, Owners
    <3> HIDE DEF row
    <3>3. QED
      BY <2>1, <3>1, <3>2, UpdateKeepsLists
  <2>5. QED
    BY <1>5, <2>3, <2>4 DEF PT!AnyTitle
<1>6. ASSUME NEW i \in DOMAIN lists, NEW p \in Owners,
             Unless("stale_next", StaleNext(i, p)), SetParent(i, p)
      PROVE  ListsOK(lists', listSeq')
  <2> DEFINE row == [lists[i] EXCEPT !.owner = p]
  <2>1. CASE \E what : Fail(what)
    BY <1>2, <2>1
  <2>2. CASE PT!Update(i, row)
    <3>1. lists[i] \in PTP!Row /\ p \in 0 .. MaxId /\ i # None
      BY ListsOKFacts, LibraryBounds DEF Owners, None
    <3>2. row \in PTP!Row /\ row.owner = p /\ row.next = lists[i].next
      BY <3>1, SameWords
    <3>3. p = lists[i].owner \/ lists[i].next = None
      BY <1>0, <1>6 DEF Unless, StaleNext
    <3>4. \/ row.owner = lists[i].owner /\ row.next = lists[i].next
          \/ row.next \in Kids(lists, row.owner) \cup {None} /\ row.next # i
      BY <3>1, <3>2, <3>3
    <3> HIDE DEF row
    <3>5. QED
      BY <2>2, <3>2, <3>4, UpdateKeepsLists
  <2>3. QED
    BY <1>6, <2>1, <2>2 DEF SetParent
<1>7. ASSUME NEW i \in DOMAIN lists, Unless("deep_remove", DeepRemove(i)), RemoveList(i)
      PROVE  ListsOK(lists', listSeq')
  BY <1>0, <1>7, RemoveKeepsLists DEF Unless, RemoveList
<1>8. QED
  BY <1>3, <1>4, <1>5, <1>6, <1>7 DEF ListCall

-----------------------------------------------------------------------------
(* What every call on the tracks of a playlist keeps.                      *)
EntitiesOK(T, s) ==
  PEP!Sound(T) /\ s \in 0 .. MaxEntity /\ DOMAIN T \subseteq 1 .. s

(* As SameWords, for table PlaylistEntity.                                 *)
LEMMA SameEntityWords ==
  /\ PEP!None = None /\ PE!None = None
  /\ PEP!EntityIds = 1 .. MaxEntity
  /\ PEP!Row = PE!Row
  /\ PEP!Row = [owner : 1 .. MaxId, track : 1 .. MaxTrack, uuid : {Uuid}, next : 0 .. MaxEntity]
  /\ \A T, o : PEP!Kids(T, o) = Kids(T, o) /\ PE!Kids(T, o) = Kids(T, o)
<1>1. PEP!None = None /\ PE!None = None /\ PEP!EntityIds = 1 .. MaxEntity
  BY DEF PEP!None, PE!None, None, PEP!EntityIds
<1>2. PEP!Row = PE!Row
  BY DEF PEP!Row, PE!Row, PEP!EntityIds, PE!EntityIds, PEP!None, PE!None
<1>3. (1 .. MaxEntity) \cup {None} = 0 .. MaxEntity
  BY LibraryBounds DEF None
<1>4. PEP!Row = [owner : 1 .. MaxId, track : 1 .. MaxTrack, uuid : {Uuid}, next : 0 .. MaxEntity]
  BY <1>1, <1>3 DEF PEP!Row
<1>5. \A T, o : PEP!Kids(T, o) = Kids(T, o) /\ PE!Kids(T, o) = Kids(T, o)
  BY DEF PEP!Kids, PE!Kids, Kids
<1>6. QED
  BY <1>1, <1>2, <1>4, <1>5

(* The statements on entities are the same in both modules.                *)
LEMMA SameEntityTables ==
  ASSUME NEW T, NEW id, NEW row
  PROVE  /\ PE!Added(T, id, row) = PEP!Added(T, id, row)
         /\ PE!Deleted(T, id) = PEP!Deleted(T, id)
         /\ PE!Existing(T, row) = PEP!Existing(T, row)
<1>1. PE!Added(T, id, row) = PEP!Added(T, id, row)
  BY DEF PE!Added, PEP!Added, PE!Inserted, PEP!Inserted, PE!SetNext, PEP!SetNext,
         PE!Before, PEP!Before, PE!Kids, PEP!Kids
<1>2. PE!Deleted(T, id) = PEP!Deleted(T, id)
  BY DEF PE!Deleted, PEP!Deleted, PE!SetNext, PEP!SetNext, PE!Before, PEP!Before,
         PE!Kids, PEP!Kids, PE!Without, PEP!Without
<1>3. PE!Existing(T, row) = PEP!Existing(T, row)
  BY DEF PE!Existing, PEP!Existing, PE!Kids, PEP!Kids
<1>4. QED
  BY <1>1, <1>2, <1>3

(* A new entity before another of its playlist or at the end.              *)
LEMMA AddKeepsEntities ==
  ASSUME EntitiesOK(entities, entitySeq), NEW p \in 1 .. MaxId, NEW t \in 1 .. MaxTrack,
         NEW next \in Kids(entities, p) \cup {None}, NEW throw,
         entitySeq < MaxEntity, AddEntity(p, t, next, throw)
  PROVE  EntitiesOK(entities', entitySeq')
<1> DEFINE row == PE!MakeRow(<<p, next>>, t, Uuid)
<1>1. \/ entities' = entities /\ entitySeq' = entitySeq
      \/ /\ PEP!Existing(entities, row) = {}
         /\ entities' = PEP!Added(entities, entitySeq + 1, row)
         /\ entitySeq' = entitySeq + 1
  BY SameEntityTables DEF AddEntity, PE!Add
<1>2. CASE entities' = entities /\ entitySeq' = entitySeq
  BY <1>2
<1>3. CASE /\ PEP!Existing(entities, row) = {}
           /\ entities' = PEP!Added(entities, entitySeq + 1, row)
           /\ entitySeq' = entitySeq + 1
  <2>1. /\ PEP!Sound(entities) /\ DOMAIN entities \subseteq 1 .. entitySeq
        /\ entitySeq \in 0 .. MaxEntity
    BY DEF EntitiesOK
  <2>2. entitySeq + 1 \in PEP!EntityIds \ DOMAIN entities /\ entitySeq + 1 \in 0 .. MaxEntity
    BY <2>1, SameEntityWords, LibraryBounds
  <2>3. row \in PEP!Row
    <3>1. next \in 0 .. MaxEntity
      BY <2>1, LibraryBounds DEF Kids, None
    <3>2. QED
      BY <3>1, SameEntityWords DEF PE!MakeRow
  <2>4. row.next \in PEP!Kids(entities, row.owner) \cup {PEP!None}
    BY SameEntityWords DEF PE!MakeRow
  <2> HIDE DEF row
  <2>5. PEP!Unique(PEP!Inserted(entities, entitySeq + 1, row))
    BY <1>3, <2>1, <2>2, <2>3, Constants, PEP!NotFoundIsUnique
  <2>6. PEP!Sound(entities')
    BY <1>3, <2>1, <2>2, <2>3, <2>4, <2>5, Constants, PEP!AddedIsSound
  <2>7. PEP!PutBefore(entities', entities, entitySeq + 1, row.owner, row.next)
    BY <1>3, <2>1, <2>2, <2>3, Constants, PEP!AddedShape
  <2>8. DOMAIN entities' \subseteq 1 .. entitySeq'
    BY <1>3, <2>1, <2>7, LibraryBounds DEF PEP!PutBefore
  <2>9. QED
    BY <1>3, <2>2, <2>6, <2>8 DEF EntitiesOK
<1>4. QED
  BY <1>1, <1>2, <1>3

(* Every call on the tracks of a playlist. remove_track hands the id of a  *)
(* track to the table as that of an entity: whichever entity that is, and  *)
(* whether there is one, the chains stay whole.                            *)
LEMMA EntityCallKeepsEntities ==
  ASSUME ListsOK(lists, listSeq), EntitiesOK(entities, entitySeq),
         tracks \subseteq 1 .. MaxTrack, EntityCall
  PROVE  EntitiesOK(entities', entitySeq')
<1>0. /\ DOMAIN lists \subseteq 1 .. MaxId /\ None \notin DOMAIN lists
      /\ PEP!Sound(entities) /\ DOMAIN entities \subseteq 1 .. entitySeq
      /\ entitySeq \in 0 .. MaxEntity
  BY ListsOKFacts DEF EntitiesOK
<1>1. ASSUME NEW p \in DOMAIN lists, NEW t \in tracks, MayInsertEntity,
             AddTrackBack(p, t) \/ AddTrack(p, t)
      PROVE  EntitiesOK(entities', entitySeq')
  BY <1>0, <1>1, AddKeepsEntities DEF AddTrackBack, AddTrack, MayInsertEntity
<1>2. ASSUME NEW p \in DOMAIN lists, NEW t \in tracks, NEW a \in tracks,
             MayInsertEntity, AddTrackAfter(p, t, a)
      PROVE  EntitiesOK(entities', entitySeq')
  <2> DEFINE found == PE!Found(entities, p, a)
  <2>1. CASE found = {}
    BY <1>2, <2>1 DEF AddTrackAfter, Fail, entityVars
  <2>2. CASE found # {}
    <3>1. PICK e \in found : e = CHOOSE x \in found : TRUE
      BY <2>2
    <3>2. AddEntity(p, t, entities[e].next, TRUE)
      BY <1>2, <2>2, <3>1 DEF AddTrackAfter
    <3>3. e \in Kids(entities, p)
      BY <3>1, SameEntityWords DEF PE!Found
    <3>4. PEP!Chain(entities, p)
      BY <1>0 DEF PEP!Sound
    <3>5. entities[e].next \in Kids(entities, p) \cup {None}
      BY <3>3, <3>4, SameEntityWords DEF PEP!Chain
    <3>6. QED
      BY <1>0, <1>2, <3>2, <3>5, AddKeepsEntities DEF MayInsertEntity
  <2>3. QED
    BY <2>1, <2>2
<1>3. ASSUME NEW p \in DOMAIN lists, NEW t \in tracks, RemoveTrack(p, t)
      PROVE  EntitiesOK(entities', entitySeq')
  <2>1. CASE entities' = entities /\ entitySeq' = entitySeq
    BY <2>1
  <2>2. CASE /\ t \in DOMAIN entities /\ entities' = PEP!Deleted(entities, t)
             /\ entitySeq' = entitySeq
    <3>1. PEP!Sound(entities')
      BY <1>0, <2>2, Constants, PEP!DeletedIsSound
    <3>2. PEP!TakenOut(entities', entities, t, {t})
      BY <1>0, <2>2, Constants, PEP!DeletedShape
    <3>3. QED
      BY <1>0, <2>2, <3>1, <3>2 DEF PEP!TakenOut, EntitiesOK
  <2>3. QED
    BY <1>3, <2>1, <2>2, SameEntityTables, SameEntityWords
       DEF RemoveTrack, PE!Remove, Kids
<1>4. ASSUME NEW p \in DOMAIN lists, ClearTracks(p)
      PROVE  EntitiesOK(entities', entitySeq')
  <2>1. /\ entities' = PEP!Without(entities, PEP!Kids(entities, p))
        /\ entitySeq' = entitySeq
    BY <1>4 DEF ClearTracks, PE!Clear, PE!Without, PEP!Without, PE!Kids, PEP!Kids
  <2>2. PEP!Sound(entities')
    BY <1>0, <2>1, Constants, PEP!ClearedIsSound
  <2>3. DOMAIN entities' \subseteq DOMAIN entities
    BY <2>1 DEF PEP!Without
  <2>4. QED
    BY <1>0, <2>1, <2>2, <2>3 DEF EntitiesOK
<1>5. QED
  BY <1>1, <1>2, <1>3, <1>4 DEF EntityCall

-----------------------------------------------------------------------------
(* Ids of tracks come from their sequence.                                 *)
TracksOK == trackSeq \in 0 .. MaxTrack /\ tracks \subseteq 1 .. trackSeq

(* The inductive invariant: the tables do not depend on each other, but    *)
(* for the ids of the playlists that calls are made on.                    *)
LInv ==
  ListsOK(lists, listSeq) /\ EntitiesOK(entities, entitySeq) /\ TracksOK

(* A call changes one table.                                               *)
LEMMA CallsLeaveAlone ==
  /\ ListCall => UNCHANGED <<entityVars, trackVars>>
  /\ EntityCall => UNCHANGED <<listVars, trackVars>>
  /\ TrackCall => UNCHANGED <<listVars, entityVars>>
<1>1. ListCall => UNCHANGED <<entityVars, trackVars>>
  BY DEF ListCall, Create, CreateAfter, AddList, SetName, SetParent, RemoveList, Fail
<1>2. EntityCall => UNCHANGED <<listVars, trackVars>>
  BY DEF EntityCall, AddTrackBack, AddTrack, AddTrackAfter, AddEntity, RemoveTrack,
         ClearTracks, Fail
<1>3. TrackCall => UNCHANGED <<listVars, entityVars>>
  BY DEF TrackCall, CreateTrack, DropTrack
<1>4. QED
  BY <1>1, <1>2, <1>3

(* Creating and removing tracks.                                           *)
LEMMA TrackCallKeepsTracks ==
  ASSUME TracksOK, TrackCall
  PROVE  TracksOK'
<1>1. ASSUME MayInsertTrack, CreateTrack
      PROVE  TracksOK'
  <2>1. trackSeq < MaxTrack /\ trackSeq' = trackSeq + 1 /\ tracks' = tracks \cup {trackSeq + 1}
    BY <1>1 DEF MayInsertTrack, CreateTrack
  <2>2. QED
    BY <2>1, MaxTrackAssumption DEF TracksOK
<1>2. ASSUME NEW t \in tracks, DropTrack(t)
      PROVE  TracksOK'
  BY <1>2 DEF DropTrack, TracksOK
<1>3. QED
  BY <1>1, <1>2 DEF TrackCall

(* An empty library.                                                       *)
LEMMA InitLInv ==
  ASSUME Init
  PROVE  LInv
<1>1. /\ DOMAIN lists = {} /\ listSeq = 0 /\ DOMAIN entities = {} /\ entitySeq = 0
      /\ tracks = {} /\ trackSeq = 0
  BY DEF Init, PT!Init, PE!Init
<1>2. ListsOK(lists, listSeq)
  <2>1. lists \in [DOMAIN lists -> PTP!Row]
    BY <1>1 DEF Init, PT!Init
  <2>2. \A p : PTP!Chain(lists, p)
    BY <1>1 DEF PTP!Chain, PTP!Kids
  <2>3. QED
    BY <1>1, <2>1, <2>2, LibraryBounds DEF ListsOK, PTP!Sound
<1>3. EntitiesOK(entities, entitySeq)
  <2>1. entities \in [DOMAIN entities -> PEP!Row]
    BY <1>1 DEF Init, PE!Init
  <2>2. \A l : PEP!Chain(entities, l)
    BY <1>1 DEF PEP!Chain, PEP!Kids
  <2>3. PEP!Unique(entities)
    BY <1>1 DEF PEP!Unique
  <2>4. QED
    BY <1>1, <2>1, <2>2, <2>3, LibraryBounds DEF EntitiesOK, PEP!Sound
<1>4. QED
  BY <1>1, <1>2, <1>3, MaxTrackAssumption DEF LInv, TracksOK

(* Every public call.                                                      *)
LEMMA NextKeepsLInv ==
  ASSUME Careful, LInv, [Next]_vars
  PROVE  LInv'
<1>1. CASE UNCHANGED vars
  BY <1>1 DEF vars, listVars, entityVars, trackVars, LInv, TracksOK
<1>2. CASE ListCall
  <2>1. UNCHANGED <<entities, entitySeq, tracks, trackSeq>>
    BY <1>2, CallsLeaveAlone DEF entityVars, trackVars
  <2>2. ListsOK(lists', listSeq')
    BY <1>2, ListCallKeepsLists DEF LInv
  <2>3. QED
    BY <2>1, <2>2 DEF LInv, TracksOK
<1>3. CASE EntityCall
  <2>1. UNCHANGED <<lists, listSeq, tracks, trackSeq>>
    BY <1>3, CallsLeaveAlone DEF listVars, trackVars
  <2>2. tracks \subseteq 1 .. MaxTrack
    BY MaxTrackAssumption DEF LInv, TracksOK
  <2>3. EntitiesOK(entities', entitySeq')
    BY <1>3, <2>2, EntityCallKeepsEntities DEF LInv
  <2>4. QED
    BY <2>1, <2>3 DEF LInv, TracksOK
<1>4. CASE TrackCall
  <2>1. UNCHANGED <<lists, listSeq, entities, entitySeq>>
    BY <1>4, CallsLeaveAlone DEF listVars, entityVars
  <2>2. TracksOK'
    BY <1>4, TrackCallKeepsTracks DEF LInv
  <2>3. QED
    BY <2>1, <2>2 DEF LInv
<1>5. QED
  BY <1>1, <1>2, <1>3, <1>4 DEF Next

(* What is sound in the words of Library.                                  *)
LEMMA LInvIsSound ==
  ASSUME LInv
  PROVE  ListsAreSound
<1>1. TypeOK
  <2>1. lists \in [DOMAIN lists -> PT!Row]
    BY ListsOKFacts, SameWords DEF LInv
  <2>2. entities \in [DOMAIN entities -> PE!Row]
    BY SameEntityWords DEF LInv, EntitiesOK, PEP!Sound
  <2>3. QED
    BY <2>1, <2>2 DEF TypeOK, LInv, ListsOK, EntitiesOK, TracksOK
<1>2. ListsCanBeSorted
  <2>1. Owners \subseteq 0 .. MaxId
    BY ListsOKFacts, LibraryBounds DEF LInv, Owners, None
  <2>2. QED
    BY <2>1, ListsOKFacts DEF LInv, ListsCanBeSorted, Before
<1>3. ParentExists
  BY DEF LInv, ListsOK, ParentExists, Owners
<1>4. QED
  BY <1>1, <1>2, <1>3 DEF ListsAreSound

(* After any sequence of public calls on playlists, crates and tracks      *)
(* (playlist_impl.cpp, crate_impl.cpp, database_impl.cpp), by a caller who *)
(* avoids the two situations of Careful, whatever else he does: every list *)
(* has a parent that exists, and every parent with children has a last one,*)
(* so that sort_ids (playlist_table.cpp:56) does not fail its assertion.   *)
THEOREM CarefulCallersKeepListsSound ==
  ASSUME Careful
  PROVE  Spec => []ListsAreSound
<1>1. Init => LInv
  BY InitLInv
<1>2. LInv /\ [Next]_vars => LInv'
  BY NextKeepsLInv
<1>3. LInv => ListsAreSound
  BY LInvIsSound
<1>4. QED
  BY <1>1, <1>2, <1>3, PTL DEF Spec
-----------------------------------------------------------------------------
(* Several sessions.  The invariant of Sessions has, first, what the       *)
(* tables keep even when a call has led one of them astray.                *)

(* No list is below itself: whichever lists one takes, from one of them    *)
(* the way up leads out of them.                                           *)
Acyclic(T) == \A S \in SUBSET DOMAIN T : S # {} => \E i \in S : T[i].owner \notin S

TypedLists(T, s) ==
  /\ s \in 0 .. MaxId /\ DOMAIN T \subseteq 1 .. s
  /\ T \in [DOMAIN T -> PTP!Row]
  /\ \A i \in DOMAIN T : T[i].owner \in 0 .. s

KeptLists(T, s) == TypedLists(T, s) /\ PTP!Unique(T) /\ Acyclic(T)

ListsKept ==
  /\ KeptLists(lists, listSeq)
  /\ "lists" \notin astray => PTP!Sound(lists)

EntitiesKept ==
  /\ entitySeq \in 0 .. MaxEntity /\ DOMAIN entities \subseteq 1 .. entitySeq
  /\ PEP!Kept(entities)
  /\ "entities" \notin astray => PEP!Sound(entities)

(* Then what is known of a call: the steps it may be at, its arguments,    *)
(* which are ids that have been given out, and the row that it has read.   *)
Looking  == {"create", "create_after"}
Changing == {"set_name", "set_parent"}
Adding   == {"add_track_back", "add_track", "add_track_after"}

AnyRow ==
  {NoRow} \cup PTP!Row \cup PEP!Row \cup [next : 0 .. MaxId, owner : 0 .. MaxId]

Calling ==
  [op : Operations \cup {"none"}, list : 0 .. MaxId, name : PT!AnyTitle,
   other : 0 .. MaxId, track : 0 .. MaxTrack, after : 0 .. MaxTrack,
   at : {"idle", "look up", "get", "look for", "write", "hanging"},
   row : AnyRow, seen : AnyRow, met : BOOLEAN]

InStep(c) ==
  /\ c.at = "idle" => c = Idle
  /\ c.op = "none" => c.at = "idle"
  /\ c.at = "look up" => c.op \in Looking
  /\ c.at = "get" => c.op \in {"create_after", "add_track_after"} \cup Changing
  /\ c.at = "look for" => c.op \in Adding
  /\ c.at = "hanging" => c.op \in Changing /\ c.met

Arguments(c) ==
  /\ c.op \in Looking => c.name \in Titles /\ c.list \in 0 .. listSeq
  /\ c.op = "create_after" => c.other \in 1 .. listSeq
  /\ c.op \in Changing => c.list \in 1 .. listSeq /\ c.seen \in PTP!Row
  /\ c.op = "set_name" => c.name \in Titles
  /\ c.op = "set_parent" => /\ c.other \in (0 .. listSeq) \ {c.list}
                            /\ c.seen.next = None \/ c.seen.owner = c.other
  /\ c.op \in Adding => c.list \in 1 .. listSeq /\ c.track \in 1 .. MaxTrack

HasRead(c) ==
  /\ c.at \in {"look up", "get"} => c.row = NoRow
  /\ c.op \notin {"create_after", "add_track_after"} \cup Changing => c.row = NoRow
  /\ c.op = "create_after" /\ c.at = "write" =>
       c.row \in PTP!Row \cup [next : 0 .. MaxId, owner : 0 .. MaxId] /\ c.row.owner = c.list
  /\ c.op \in Changing /\ c.at = "write" =>
       /\ c.row \in PTP!Row /\ c.row.owner \in (0 .. listSeq) \ {c.list}
       /\ "lists" \notin astray => c.row.next # c.list
  /\ c.op = "add_track_after" /\ c.at \in {"look for", "write"} =>
       c.row \in PEP!Row /\ c.row.owner = c.list

(* As long as no other session has written, all is as the call found it.   *)
Undisturbed(c) ==
  c.at # "idle" /\ ~c.met =>
    /\ RowOf(c) = c.seen
    /\ c.op = "create_after" => c.other \in DOMAIN lists
    /\ c.op \in Changing => c.list \in DOMAIN lists
    /\ c.op = "set_parent" => c.other \notin PTP!Descendants(lists, c.list)
    /\ c.op = "add_track_after" /\ c.at = "look for" => c.row = c.seen
    /\ c.op \in Looking /\ c.at \in {"get", "write"} => Named(c.list, c.name) = {}
    /\ c.at = "write" =>
         /\ c.row = c.seen
         /\ c.op \in Adding => PEP!Existing(entities, NewEntity(c)) = {}

CallOK(c) == InStep(c) /\ Arguments(c) /\ HasRead(c) /\ Undisturbed(c)

(* There are ids for what the calls on their way may still insert.         *)
Going == {s \in Users : Busy(s)}
Room ==
  /\ IsFiniteSet(Going)
  /\ listSeq + Cardinality(Going) <= 3 + calls
  /\ entitySeq + Cardinality(Going) <= 2 + calls

SInv ==
  /\ ListsKept /\ EntitiesKept
  /\ tracks = 1 .. MaxTrack /\ trackSeq = MaxTrack
  /\ menu \in Menus /\ calls \in 0 .. menu.calls /\ astray \subseteq {"lists", "entities"}
  /\ call \in [Users -> Calling] /\ \A s \in Users : CallOK(call[s])
  /\ Room

-----------------------------------------------------------------------------
(* What the statements on table Playlist keep, whatever the links.         *)
LEMMA SameUnique ==
  ASSUME NEW T
  PROVE  PT!Unique(T) <=> PTP!Unique(T)
  BY DEF PT!Unique, PTP!Unique

LEMMA SameDescendants ==
  ASSUME NEW T, NEW i
  PROVE  PT!Descendants(T, i) = PTP!Descendants(T, i)
  BY DEF PT!Descendants, PTP!Descendants

(* A call meets the constraints or does nothing.                           *)
LEMMA ListsStayUnique ==
  ASSUME PTP!Unique(lists), NEW id, NEW row,
         PT!Add(id, row) \/ PT!Remove(id) \/ PT!Update(id, row)
  PROVE  PTP!Unique(lists')
<1>1. \A a, b, c : PT!Run(<<a, b, c>>) => lists' = lists \/ PT!Unique(lists')
  BY DEF PT!Run, PT!Accepted
<1>2. \A a, b : PT!Run(<<a, b>>) => lists' = lists \/ PT!Unique(lists')
  BY DEF PT!Run, PT!Accepted
<1>3. \A a : PT!Run(<<a>>) => lists' = lists \/ PT!Unique(lists')
  BY DEF PT!Run, PT!Accepted
<1>4. \A a, b, c, d : PT!Run(<<a, b, c, d>>) => lists' = lists \/ PT!Unique(lists')
  BY DEF PT!Run, PT!Accepted
<1>5. lists' = lists \/ PT!Unique(lists')
  <2>1. CASE PT!Add(id, row)
    BY <1>1, <2>1 DEF PT!Add, PT!Throw, PT!AddTables
  <2>2. CASE PT!Remove(id)
    BY <1>2, <1>3, <2>2 DEF PT!Remove, PT!RemoveTables
  <2>3. CASE PT!Update(id, row)
    BY <1>3, <1>4, <2>3 DEF PT!Update, PT!Throw, PT!UpdateTables, PT!MoveTables
  <2>4. QED
    BY <2>1, <2>2, <2>3
<1>6. QED
  BY <1>5, SameUnique

(* No list is below itself, in particular its parent is not.               *)
LEMMA ParentIsNotBelow ==
  ASSUME NEW T, Acyclic(T), NEW i \in DOMAIN T
  PROVE  T[i].owner # i /\ T[i].owner \notin PTP!Descendants(T, i)
<1>1. T[i].owner # i
  <2>1. \E j \in {i} : T[j].owner \notin {i}
    BY DEF Acyclic
  <2>2. QED
    BY <2>1
<1>2. ASSUME T[i].owner \in PTP!Descendants(T, i)
      PROVE  FALSE
  <2> DEFINE D == PTP!Descendants(T, i)
  <2>0. D \subseteq DOMAIN T
    BY DEF PTP!Descendants
  <2>1. i \in D
    <3>1. T[i].owner \in PTP!Descendants(T, i) \cup {i}
      BY <1>2
    <3>2. QED
      BY <3>1, PTP!DescendantsAreClosed, Constants
  <2>2. \A S \in SUBSET DOMAIN T :
          (\A j \in DOMAIN T : T[j].owner \in S \cup {i} => j \in S) => D \subseteq S
    BY DEF PTP!Descendants
  <2> HIDE DEF D
  <2>3. PICK j \in D : T[j].owner \notin D
    BY <2>0, <2>1 DEF Acyclic
  <2>4. T[j].owner # i
    BY <2>1, <2>3
  <2>5. \A k \in DOMAIN T : T[k].owner \in (D \ {j}) \cup {i} => k \in D \ {j}
    <3>1. SUFFICES ASSUME NEW k \in DOMAIN T, T[k].owner \in (D \ {j}) \cup {i}
                   PROVE  k \in D \ {j}
      OBVIOUS
    <3>2. k \in D
      <4>1. T[k].owner \in PTP!Descendants(T, i) \cup {i}
        BY <3>1 DEF D
      <4>2. QED
        BY <4>1, PTP!DescendantsAreClosed, Constants DEF D
    <3>3. k # j
      BY <2>1, <2>3, <3>1
    <3>4. QED
      BY <3>2, <3>3
  <2>6. D \ {j} \in SUBSET DOMAIN T
    BY <2>0
  <2>7. D \subseteq D \ {j}
    BY <2>2, <2>5, <2>6
  <2>8. QED
    BY <2>7
<1>3. QED
  BY <1>1, <1>2

(* Where owners stay, and where rows go, no list gets below itself; ...    *)
LEMMA FewerStayAcyclic ==
  ASSUME NEW T, NEW F, Acyclic(T), DOMAIN F \subseteq DOMAIN T,
         \A i \in DOMAIN F : F[i].owner = T[i].owner
  PROVE  Acyclic(F)
  BY DEF Acyclic

(* ... nor does a new one, as nothing is below it yet; ...                 *)
LEMMA OneMoreStaysAcyclic ==
  ASSUME NEW T, NEW F, NEW id, Acyclic(T), DOMAIN F = DOMAIN T \cup {id}, id \notin DOMAIN T,
         F[id].owner # id, \A i \in DOMAIN T : F[i].owner = T[i].owner /\ T[i].owner # id
  PROVE  Acyclic(F)
<1>1. SUFFICES ASSUME NEW S \in SUBSET DOMAIN F, S # {}
               PROVE  \E i \in S : F[i].owner \notin S
  BY DEF Acyclic
<1>2. CASE S \ {id} = {}
  BY <1>1, <1>2
<1>3. CASE S \ {id} # {}
  <2>1. PICK i \in S \ {id} : T[i].owner \notin S \ {id}
    BY <1>3 DEF Acyclic
  <2>2. QED
    BY <2>1
<1>4. QED
  BY <1>2, <1>3

(* ... nor one that goes to a parent which is not below it.                *)
LEMMA MovedStaysAcyclic ==
  ASSUME NEW T, NEW F, NEW id \in DOMAIN T, Acyclic(T), DOMAIN F = DOMAIN T,
         F[id].owner # id, F[id].owner \notin PTP!Descendants(T, id),
         \A i \in DOMAIN T \ {id} : F[i].owner = T[i].owner
  PROVE  Acyclic(F)
<1> DEFINE D == PTP!Descendants(T, id) \cup {id}
<1>1. SUFFICES ASSUME NEW S \in SUBSET DOMAIN F, S # {}
               PROVE  \E i \in S : F[i].owner \notin S
  BY DEF Acyclic
<1>2. \A j \in DOMAIN T : T[j].owner \in D => j \in D
  BY PTP!DescendantsAreClosed, Constants
<1>3. id \in D /\ F[id].owner \notin D
  OBVIOUS
<1> HIDE DEF D
<1>4. CASE S \ D # {}
  <2>1. PICK i \in S \ D : T[i].owner \notin S \ D
    BY <1>4 DEF Acyclic
  <2>2. T[i].owner \notin D /\ i # id
    BY <1>2, <1>3, <2>1
  <2>3. QED
    BY <2>1, <2>2
<1>5. CASE S \subseteq D
  <2>1. CASE id \in S
    BY <1>3, <1>5, <2>1
  <2>2. CASE id \notin S
    <3>1. PICK i \in S : T[i].owner \notin S
      BY <1>1 DEF Acyclic
    <3>2. QED
      BY <2>2, <3>1
  <2>3. QED
    BY <2>1, <2>2
<1>6. QED
  BY <1>4, <1>5

LEMMA AddKeepsKept ==
  ASSUME KeptLists(lists, listSeq), listSeq < MaxId,
         NEW row \in PTP!Row, row.owner \in 0 .. listSeq, PT!Add(PT!None, row)
  PROVE  KeptLists(lists', listSeq') /\ listSeq' \in {listSeq, listSeq + 1}
<1>1. PTP!Unique(lists')
  BY ListsStayUnique DEF KeptLists
<1>2. CASE lists' = lists /\ listSeq' = listSeq
  BY <1>2
<1>3. CASE lists' = PTP!AddTables(lists, listSeq + 1, row)[3] /\ listSeq' = listSeq + 1
  <2>1. /\ lists \in [DOMAIN lists -> PTP!Row] /\ DOMAIN lists \subseteq 1 .. listSeq
        /\ listSeq \in 0 .. MaxId /\ Acyclic(lists)
        /\ \A i \in DOMAIN lists : lists[i].owner \in 0 .. listSeq
    BY DEF KeptLists, TypedLists
  <2>2. listSeq + 1 \in PTP!Ids \ DOMAIN lists
    BY <2>1, SameWords, LibraryBounds
  <2>3. /\ lists' \in [DOMAIN lists' -> PTP!Row] /\ DOMAIN lists' = DOMAIN lists \cup {listSeq + 1}
        /\ lists'[listSeq + 1].owner = row.owner
        /\ \A i \in DOMAIN lists : lists'[i].owner = lists[i].owner
    BY <1>3, <2>1, <2>2, Constants, PTP!AddTyped
  <2>4. Acyclic(lists')
    <3>1. /\ listSeq + 1 \notin DOMAIN lists /\ lists'[listSeq + 1].owner # listSeq + 1
          /\ \A i \in DOMAIN lists : lists[i].owner # listSeq + 1
      BY <2>1, <2>2, <2>3, LibraryBounds
    <3>2. QED
      BY <2>1, <2>3, <3>1, OneMoreStaysAcyclic
  <2>5. TypedLists(lists', listSeq')
    BY <1>3, <2>1, <2>2, <2>3, LibraryBounds DEF TypedLists
  <2>6. QED
    BY <1>1, <1>3, <2>4, <2>5 DEF KeptLists
<1>4. QED
  BY <1>2, <1>3, AddSteps

LEMMA RemoveKeepsKept ==
  ASSUME KeptLists(lists, listSeq), NEW i, PT!Remove(i)
  PROVE  KeptLists(lists', listSeq') /\ listSeq' = listSeq
<1>1. PTP!Unique(lists')
  BY ListsStayUnique DEF KeptLists
<1>2. CASE lists' = lists /\ listSeq' = listSeq
  BY <1>2
<1>3. CASE /\ i \in DOMAIN lists /\ lists' = PTP!RemoveTables(lists, i)[2]
           /\ listSeq' = listSeq
  <2>1. lists \in [DOMAIN lists -> PTP!Row] /\ Acyclic(lists)
    BY DEF KeptLists, TypedLists
  <2>2. /\ lists' \in [DOMAIN lists' -> PTP!Row] /\ DOMAIN lists' \subseteq DOMAIN lists
        /\ \A j \in DOMAIN lists' : lists'[j].owner = lists[j].owner
    BY <1>3, <2>1, Constants, PTP!RemoveTyped
  <2>3. Acyclic(lists')
    BY <2>1, <2>2, FewerStayAcyclic
  <2>4. QED
    BY <1>1, <1>3, <2>2, <2>3 DEF KeptLists, TypedLists
<1>4. QED
  BY <1>2, <1>3, RemoveSteps

LEMMA UpdateKeepsKept ==
  ASSUME KeptLists(lists, listSeq), NEW i, NEW row \in PTP!Row,
         row.owner \in 0 .. listSeq, row.owner # i,
         lists' # lists => row.owner \notin PTP!Descendants(lists, i),
         PT!Update(i, row)
  PROVE  KeptLists(lists', listSeq') /\ listSeq' = listSeq
<1>1. PTP!Unique(lists')
  BY ListsStayUnique DEF KeptLists
<1>2. CASE lists' = lists /\ listSeq' = listSeq
  BY <1>2
<1>3. CASE /\ lists' # lists /\ i \in DOMAIN lists /\ listSeq' = listSeq
           /\ \/ lists' = PTP!Updated(lists, i, row)
              \/ lists' = PTP!MoveTables(lists, i, row)[4]
  <2>1. /\ lists \in [DOMAIN lists -> PTP!Row] /\ DOMAIN lists \subseteq PTP!Ids
        /\ Acyclic(lists)
    BY SameWords, LibraryBounds DEF KeptLists, TypedLists
  <2>2. /\ lists' \in [DOMAIN lists -> PTP!Row] /\ lists'[i].owner = row.owner
        /\ \A j \in DOMAIN lists \ {i} : lists'[j].owner = lists[j].owner
    <3>1. CASE lists' = PTP!Updated(lists, i, row)
      <4> DEFINE F == PTP!Updated(lists, i, row)
      <4>1. /\ F \in [DOMAIN lists -> PTP!Row] /\ F[i].owner = row.owner
            /\ \A j \in DOMAIN lists \ {i} : F[j].owner = lists[j].owner
        BY <1>3, <2>1, Constants, PTP!UpdatedTyped
      <4>2. QED
        BY <3>1, <4>1
    <3>2. CASE lists' = PTP!MoveTables(lists, i, row)[4]
      BY <1>3, <2>1, <3>2, Constants, PTP!MoveTyped
    <3>3. QED
      BY <1>3, <3>1, <3>2
  <2>3. DOMAIN lists' = DOMAIN lists
    BY <2>2
  <2>4. Acyclic(lists')
    <3> DEFINE F == lists'
    <3>1. /\ DOMAIN F = DOMAIN lists /\ F[i].owner # i
          /\ F[i].owner \notin PTP!Descendants(lists, i)
          /\ \A j \in DOMAIN lists \ {i} : F[j].owner = lists[j].owner
      BY <1>3, <2>2, <2>3
    <3> HIDE DEF F
    <3>2. Acyclic(F)
      BY <1>3, <2>1, <3>1, MovedStaysAcyclic
    <3>3. QED
      BY <3>2 DEF F
  <2>5. TypedLists(lists', listSeq')
    BY <1>3, <2>2, <2>3 DEF KeptLists, TypedLists
  <2>6. QED
    BY <1>1, <1>3, <2>4, <2>5 DEF KeptLists
<1>4. QED
  BY <1>2, <1>3, UpdateSteps

(* Table PlaylistEntity likewise.                                          *)
LEMMA SameInserted ==
  ASSUME NEW T, NEW id, NEW row
  PROVE  PE!Unique(Inserted(T, id, row)) <=> PEP!Unique(PEP!Inserted(T, id, row))
<1>1. Inserted(T, id, row) = PEP!Inserted(T, id, row)
  BY DEF Inserted, PEP!Inserted
<1>2. \A U : PE!Unique(U) <=> PEP!Unique(U)
  BY SameEntityTables DEF PE!Unique, PEP!Unique
<1>3. QED
  BY <1>1, <1>2

LEMMA InsertSteps ==
  ASSUME NEW row, Insert(row)
  PROVE  \/ entities' = entities /\ entitySeq' = entitySeq
         \/ /\ PEP!Unique(PEP!Inserted(entities, entitySeq + 1, row))
            /\ entities' = PEP!Added(entities, entitySeq + 1, row)
            /\ entitySeq' = entitySeq + 1
  BY SameInserted, SameEntityTables DEF Insert

LEMMA InsertKeepsEntities ==
  ASSUME EntitiesKept, NEW row \in PEP!Row, entitySeq < MaxEntity, Insert(row),
         astray' = astray \/ "entities" \in astray',
         "entities" \notin astray' => row.next \in Kids(entities, row.owner) \cup {None}
  PROVE  EntitiesKept' /\ entitySeq' \in {entitySeq, entitySeq + 1}
<1>1. CASE entities' = entities /\ entitySeq' = entitySeq
  BY <1>1 DEF EntitiesKept
<1>2. CASE /\ PEP!Unique(PEP!Inserted(entities, entitySeq + 1, row))
           /\ entities' = PEP!Added(entities, entitySeq + 1, row)
           /\ entitySeq' = entitySeq + 1
  <2>1. /\ PEP!Kept(entities) /\ DOMAIN entities \subseteq 1 .. entitySeq
        /\ entitySeq \in 0 .. MaxEntity
    BY DEF EntitiesKept
  <2>2. entitySeq + 1 \in PEP!EntityIds \ DOMAIN entities /\ entitySeq + 1 \in 0 .. MaxEntity
    BY <2>1, SameEntityWords, LibraryBounds
  <2>3. PEP!Kept(entities') /\ DOMAIN entities' = DOMAIN entities \cup {entitySeq + 1}
    BY <1>2, <2>1, <2>2, Constants, PEP!AddedIsKept
  <2>4. DOMAIN entities' \subseteq 1 .. entitySeq'
    BY <1>2, <2>1, <2>3, LibraryBounds
  <2>5. ASSUME "entities" \notin astray'
        PROVE  PEP!Sound(entities')
    <3>1. PEP!Sound(entities) /\ row.next \in PEP!Kids(entities, row.owner) \cup {PEP!None}
      BY <2>5, SameEntityWords DEF EntitiesKept
    <3>2. QED
      BY <1>2, <2>2, <3>1, Constants, PEP!AddedIsSound
  <2>6. QED
    BY <1>2, <2>2, <2>3, <2>4, <2>5 DEF EntitiesKept
<1>3. QED
  BY <1>1, <1>2, InsertSteps

LEMMA RemoveTrackKeepsEntities ==
  ASSUME EntitiesKept, NEW p, NEW t, RemoveTrack(p, t), astray' = astray
  PROVE  EntitiesKept' /\ entitySeq' = entitySeq
<1>1. CASE entities' = entities /\ entitySeq' = entitySeq
  BY <1>1 DEF EntitiesKept
<1>2. CASE /\ t \in DOMAIN entities /\ entities' = PEP!Deleted(entities, t)
           /\ entitySeq' = entitySeq
  <2>1. PEP!Kept(entities') /\ DOMAIN entities' = DOMAIN entities \ {t}
    BY <1>2, Constants, PEP!DeletedIsKept DEF EntitiesKept
  <2>2. "entities" \notin astray => PEP!Sound(entities')
    BY <1>2, Constants, PEP!DeletedIsSound DEF EntitiesKept
  <2>3. QED
    BY <1>2, <2>1, <2>2 DEF EntitiesKept
<1>3. QED
  BY <1>1, <1>2, SameEntityTables, SameEntityWords DEF RemoveTrack, PE!Remove, Kids

LEMMA ClearTracksKeepsEntities ==
  ASSUME EntitiesKept, NEW p, ClearTracks(p), astray' = astray
  PROVE  EntitiesKept' /\ entitySeq' = entitySeq
<1>1. /\ entities' = PEP!Without(entities, PEP!Kids(entities, p))
      /\ entitySeq' = entitySeq
  BY DEF ClearTracks, PE!Clear, PE!Without, PEP!Without, PE!Kids, PEP!Kids
<1>2. PEP!Kept(entities')
  BY <1>1, Constants, PEP!ClearedIsKept DEF EntitiesKept
<1>3. "entities" \notin astray => PEP!Sound(entities')
  BY <1>1, Constants, PEP!ClearedIsSound DEF EntitiesKept
<1>4. DOMAIN entities' \subseteq DOMAIN entities
  BY <1>1 DEF PEP!Without
<1>5. QED
  BY <1>1, <1>2, <1>3, <1>4 DEF EntitiesKept

-----------------------------------------------------------------------------
(* Table Playlist, links included, where none has led astray.              *)
LEMMA LinksOfKids ==
  ASSUME NEW T, PTP!Sound(T), NEW p \in 0 .. MaxId, NEW i \in Kids(T, p)
  PROVE  T[i].next \in Kids(T, p) \cup {None} /\ T[i].next # i
<1>1. PTP!Chain(T, p)
  BY SameWords, LibraryBounds DEF PTP!Sound, None
<1>2. T[i].next \in Kids(T, p) \cup {None}
  BY <1>1, SameWords DEF PTP!Chain
<1>3. \E j \in {i} : T[j].next \notin {i}
  <2>1. {i} \in SUBSET PTP!Kids(T, p) /\ {i} # {}
    BY SameWords
  <2>2. QED
    BY <1>1, <2>1 DEF PTP!Chain
<1>4. QED
  BY <1>2, <1>3

LEMMA AddKeepsListsSound ==
  ASSUME KeptLists(lists, listSeq), PTP!Sound(lists), listSeq < MaxId,
         NEW row \in PTP!Row, row.next \in Kids(lists, row.owner) \cup {None},
         PT!Add(PT!None, row)
  PROVE  PTP!Sound(lists')
<1>1. listSeq + 1 \in PTP!Ids \ DOMAIN lists
  BY SameWords, LibraryBounds DEF KeptLists, TypedLists
<1>2. row.next \in PTP!Kids(lists, row.owner) \cup {PTP!None}
  BY SameWords
<1>3. PTP!Sound(PTP!AddTables(lists, listSeq + 1, row)[3])
  BY <1>1, <1>2, Constants, PTP!AddKeepsSound
<1>4. QED
  BY <1>3, AddSteps

LEMMA RemoveKeepsListsSound ==
  ASSUME PTP!Sound(lists), NEW i, PT!Remove(i)
  PROVE  PTP!Sound(lists')
  BY RemoveSteps, Constants, PTP!RemoveKeepsSound

LEMMA UpdateKeepsListsSound ==
  ASSUME PTP!Sound(lists), NEW i, NEW row \in PTP!Row, PT!Update(i, row),
         i \in DOMAIN lists =>
           \/ row.owner = lists[i].owner /\ row.next = lists[i].next
           \/ row.next \in Kids(lists, row.owner) \cup {None} /\ row.next # i
  PROVE  PTP!Sound(lists')
<1>1. CASE lists' = lists
  BY <1>1
<1>2. CASE /\ i \in DOMAIN lists /\ row.owner = lists[i].owner /\ row.next = lists[i].next
           /\ lists' = PTP!Updated(lists, i, row)
  BY <1>2, Constants, PTP!UpdateInPlaceKeepsSound
<1>3. CASE /\ i \in DOMAIN lists
           /\ ~(row.owner = lists[i].owner /\ row.next = lists[i].next)
           /\ lists' = PTP!MoveTables(lists, i, row)[4]
  <2>1. row.next \in PTP!Kids(lists, row.owner) \cup {PTP!None} /\ row.next # i
    BY <1>3, SameWords
  <2>2. QED
    BY <1>3, <2>1, Constants, PTP!MoveKeepsSound
<1>4. QED
  BY <1>1, <1>2, <1>3, UpdateSteps

-----------------------------------------------------------------------------
(* The calls of the other sessions.                                        *)

(* While the tables stay as they are, so does what is known of a call.     *)
LEMMA CallsUnmoved ==
  ASSUME UNCHANGED <<lists, listSeq, entities, astray>>
  PROVE  \A c : CallOK(c) <=> CallOK(c)'
<1>1. \A c : RowOf(c) = RowOf(c)'
  BY DEF RowOf, ListRow, EntityOf
<1>2. \A p, n : Named(p, n) = Named(p, n)'
  BY DEF Named
<1>3. \A c : Undisturbed(c) <=> Undisturbed(c)'
  BY <1>1, <1>2 DEF Undisturbed
<1>4. \A c : InStep(c) <=> InStep(c)'
  BY DEF InStep
<1>5. \A c : Arguments(c) <=> Arguments(c)'
  BY DEF Arguments
<1>6. \A c : HasRead(c) <=> HasRead(c)'
  BY DEF HasRead
<1>7. QED
  BY <1>3, <1>4, <1>5, <1>6 DEF CallOK

(* A session that is in no call.                                           *)
LEMMA IdleIsOK ==
  ASSUME listSeq \in Nat
  PROVE  CallOK(Idle) /\ Idle \in Calling
<1>1. Idle \in Calling
  BY LibraryBounds, MaxTrackAssumption DEF Idle, Calling, AnyRow, NoRow, None, PT!AnyTitle
<1>2. CallOK(Idle)
  BY DEF CallOK, Idle, InStep, Arguments, HasRead, Undisturbed, Looking, Changing, Adding
<1>3. QED
  BY <1>1, <1>2

(* A call that has met a write: nothing is known any more of the rows it   *)
(* is on, but that their ids have been given out.                          *)
LEMMA MetCallIsOK ==
  ASSUME NEW c \in Calling, CallOK(c), c.at # "idle", listSeq \in Nat,
         listSeq' \in {listSeq, listSeq + 1}, astray \subseteq astray'
  PROVE  /\ [c EXCEPT !.met = TRUE] \in Calling
         /\ CallOK([c EXCEPT !.met = TRUE])'
<1> DEFINE d == [c EXCEPT !.met = TRUE]
<1>1. d \in Calling
  BY DEF Calling
<1>2. /\ d.op = c.op /\ d.list = c.list /\ d.name = c.name /\ d.other = c.other
      /\ d.track = c.track /\ d.at = c.at /\ d.row = c.row /\ d.seen = c.seen /\ d.met
  BY DEF Calling
<1>3. 0 .. listSeq \subseteq 0 .. listSeq' /\ 1 .. listSeq \subseteq 1 .. listSeq'
  OBVIOUS
<1> HIDE DEF d
<1>4. InStep(d)'
  BY <1>2 DEF CallOK, InStep
<1>5. Arguments(d)'
  BY <1>2, <1>3 DEF CallOK, Arguments
<1>6. HasRead(d)'
  BY <1>2, <1>3 DEF CallOK, HasRead
<1>7. Undisturbed(d)'
  BY <1>2 DEF Undisturbed
<1>8. QED
  BY <1>1, <1>4, <1>5, <1>6, <1>7 DEF CallOK, d

(* The rows that a call reads.                                             *)
LEMMA NoRowIsNoRow ==
  /\ \A r \in PTP!Row : r # NoRow
  /\ \A r \in PEP!Row : r # NoRow
  /\ \A r \in [next : 0 .. MaxId, owner : 0 .. MaxId] : r # NoRow
<1>1. "owner" \notin DOMAIN NoRow
  BY DEF NoRow
<1>2. \A r \in PTP!Row : "owner" \in DOMAIN r
  BY DEF PTP!Row
<1>3. \A r \in PEP!Row : "owner" \in DOMAIN r
  BY DEF PEP!Row
<1>4. \A r \in [next : 0 .. MaxId, owner : 0 .. MaxId] : "owner" \in DOMAIN r
  OBVIOUS
<1>5. QED
  BY <1>1, <1>2, <1>3, <1>4

LEMMA EntityIsFound ==
  ASSUME NEW p, NEW t, EntityOf(p, t) # NoRow
  PROVE  /\ PE!Found(entities, p, t) # {}
         /\ \E e \in Kids(entities, p) : EntityOf(p, t) = entities[e]
  BY SameEntityWords DEF EntityOf, PE!Found

LEMMA RowsAreRows ==
  ASSUME KeptLists(lists, listSeq), PEP!Kept(entities), NEW c
  PROVE  /\ RowOf(c) \in {NoRow} \cup PTP!Row \cup PEP!Row
         /\ c.op \notin {"create_after", "add_track_after"} \cup Changing => RowOf(c) = NoRow
         /\ c.op = "create_after" /\ RowOf(c) # NoRow =>
              c.other \in DOMAIN lists /\ RowOf(c) = lists[c.other] /\ RowOf(c) \in PTP!Row
         /\ c.op \in Changing /\ RowOf(c) # NoRow =>
              c.list \in DOMAIN lists /\ RowOf(c) = lists[c.list] /\ RowOf(c) \in PTP!Row
         /\ c.op \in Changing /\ c.list \in DOMAIN lists => RowOf(c) = lists[c.list]
         /\ c.op = "create_after" /\ c.other \in DOMAIN lists => RowOf(c) = lists[c.other]
         /\ c.op = "add_track_after" /\ RowOf(c) # NoRow =>
              /\ RowOf(c) \in PEP!Row
              /\ \E e \in Kids(entities, c.list) : RowOf(c) = entities[e]
<1>1. lists \in [DOMAIN lists -> PTP!Row] /\ entities \in [DOMAIN entities -> PEP!Row]
  BY DEF KeptLists, TypedLists, PEP!Kept
<1>2. \A i : ListRow(i) # NoRow => i \in DOMAIN lists /\ ListRow(i) = lists[i]
  BY DEF ListRow
<1>3. \A i \in DOMAIN lists : ListRow(i) = lists[i] /\ lists[i] \in PTP!Row
  BY <1>1 DEF ListRow
<1>4. \A p, t : EntityOf(p, t) # NoRow =>
        /\ \E e \in Kids(entities, p) : EntityOf(p, t) = entities[e]
        /\ EntityOf(p, t) \in PEP!Row
  BY <1>1, EntityIsFound DEF Kids
<1>5. CASE c.op = "create_after"
  BY <1>2, <1>3, <1>5 DEF RowOf, Changing
<1>6. CASE c.op \in Changing
  BY <1>2, <1>3, <1>6 DEF RowOf, Changing
<1>7. CASE c.op = "add_track_after"
  BY <1>4, <1>7 DEF RowOf, Changing
<1>8. CASE c.op \notin {"create_after", "add_track_after"} \cup Changing
  BY <1>8 DEF RowOf, Changing
<1>9. QED
  BY <1>5, <1>6, <1>7, <1>8

-----------------------------------------------------------------------------
(* A step of one session that leaves the tables: the call begins, goes on  *)
(* or ends, and all the others are where they were.                        *)
LEMMA OneGoesOn ==
  ASSUME SInv, NEW s \in Users, NEW d \in Calling, CallOK(d),
         call' = [call EXCEPT ![s] = d], UNCHANGED <<tables, menu, astray>>,
         \/ calls' = calls /\ (d.at # "idle" => Busy(s))
         \/ calls' = calls + 1 /\ calls < menu.calls
  PROVE  SInv'
<1>1. /\ listSeq \in Nat /\ entitySeq \in Nat /\ call \in [Users -> Calling]
      /\ calls \in Nat /\ menu.calls \in Nat /\ IsFiniteSet(Going)
      /\ listSeq + Cardinality(Going) <= 3 + calls
      /\ entitySeq + Cardinality(Going) <= 2 + calls
      /\ \A t \in Users : CallOK(call[t])
  <2>1. menu \in Menus /\ calls \in 0 .. menu.calls
    BY DEF SInv
  <2>2. menu.calls \in Nat
    BY <2>1, SessionsBounds
  <2>3. QED
    BY <2>1, <2>2 DEF SInv, ListsKept, KeptLists, TypedLists, EntitiesKept, Room
<1>2. call' \in [Users -> Calling] /\ \A t \in Users : call'[t] = IF t = s THEN d ELSE call[t]
  BY <1>1
<1>3. (\A t \in Users : CallOK(call[t]))'
  <2>1. \A c : CallOK(c) <=> CallOK(c)'
    BY CallsUnmoved DEF tables
  <2>2. QED
    BY <1>1, <1>2, <2>1
<1>4. Room'
  <2>1. Going' \subseteq Going \cup {s} /\ (calls' = calls => Going' \subseteq Going)
    BY <1>1, <1>2 DEF Going, Busy
  <2>2. /\ IsFiniteSet(Going \cup {s}) /\ Cardinality(Going) \in Nat
        /\ Cardinality(Going \cup {s}) <= Cardinality(Going) + 1
        /\ Cardinality(Going \cup {s}) \in Nat
    <3>1. Cardinality(Going) \in Nat
      BY <1>1, FS_CardinalityType
    <3>2. /\ IsFiniteSet(Going \cup {s})
          /\ \/ Cardinality(Going \cup {s}) = Cardinality(Going)
             \/ Cardinality(Going \cup {s}) = Cardinality(Going) + 1
      BY <1>1, FS_AddElement
    <3>3. QED
      BY <3>1, <3>2
  <2>3. CASE calls' = calls + 1
    <3>1. IsFiniteSet(Going') /\ Cardinality(Going') <= Cardinality(Going \cup {s})
          /\ Cardinality(Going') \in Nat
      BY <2>1, <2>2, FS_Subset, FS_CardinalityType
    <3>2. QED
      BY <1>1, <2>2, <2>3, <3>1 DEF Room, tables
  <2>4. CASE calls' = calls
    <3>1. IsFiniteSet(Going') /\ Cardinality(Going') <= Cardinality(Going)
          /\ Cardinality(Going') \in Nat
      BY <1>1, <2>1, <2>4, FS_Subset, FS_CardinalityType
    <3>2. QED
      BY <1>1, <2>2, <2>4, <3>1 DEF Room, tables
  <2>5. QED
    BY <2>3, <2>4
<1>5. ListsKept' /\ EntitiesKept'
  BY DEF SInv, ListsKept, EntitiesKept, tables
<1>6. QED
  BY <1>1, <1>2, <1>3, <1>4, <1>5 DEF SInv, tables

(* A write: the call is over, its session in none, and the others that are *)
(* in one have met it.                                                     *)
LEMMA OneHasWritten ==
  ASSUME SInv, NEW s \in Users, Busy(s), ListsKept', EntitiesKept',
         listSeq' \in {listSeq, listSeq + 1}, entitySeq' \in {entitySeq, entitySeq + 1},
         astray \subseteq astray', astray' \subseteq {"lists", "entities"},
         call' = Noticed(s), UNCHANGED <<tracks, trackSeq, menu, calls>>
  PROVE  SInv'
<1>1. /\ listSeq \in Nat /\ entitySeq \in Nat /\ call \in [Users -> Calling]
      /\ listSeq' \in Nat /\ calls \in Nat
      /\ IsFiniteSet(Going)
      /\ listSeq + Cardinality(Going) <= 3 + calls
      /\ entitySeq + Cardinality(Going) <= 2 + calls
      /\ \A t \in Users : CallOK(call[t])
  <2>1. menu \in Menus /\ calls \in 0 .. menu.calls
    BY DEF SInv
  <2>2. menu.calls \in Nat
    BY <2>1, SessionsBounds
  <2>3. QED
    BY <2>1, <2>2 DEF SInv, ListsKept, KeptLists, TypedLists, EntitiesKept, Room
<1>2. \A t \in Users : call'[t] = IF t # s /\ Busy(t) THEN [call[t] EXCEPT !.met = TRUE] ELSE Idle
  BY DEF Noticed
<1>3. CallOK(Idle)' /\ Idle \in Calling
  <2>1. Idle \in Calling
    BY <1>1, IdleIsOK
  <2>2. CallOK(Idle)'
    BY DEF CallOK, Idle, InStep, Arguments, HasRead, Undisturbed, Looking, Changing, Adding
  <2>3. QED
    BY <2>1, <2>2
<1>4. \A c \in Calling : CallOK(c) /\ c.at # "idle" =>
        [c EXCEPT !.met = TRUE] \in Calling /\ CallOK([c EXCEPT !.met = TRUE])'
  BY <1>1, MetCallIsOK
<1>5. \A t \in Users : call'[t] \in Calling
  BY <1>1, <1>2, <1>3, <1>4 DEF Busy
<1>6. call' \in [Users -> Calling]
  <2>1. call' = [t \in Users |-> call'[t]]
    BY DEF Noticed
  <2>2. QED
    BY <1>5, <2>1
<1>7. (\A t \in Users : CallOK(call[t]))'
  <2>1. SUFFICES ASSUME NEW t \in Users
                 PROVE  CallOK(call[t])'
    OBVIOUS
  <2>2. CASE t # s /\ Busy(t)
    <3>1. call[t] \in Calling /\ CallOK(call[t]) /\ call[t].at # "idle"
      BY <1>1, <2>2 DEF Busy
    <3>2. call'[t] = [call[t] EXCEPT !.met = TRUE]
      BY <1>2, <2>2
    <3>3. QED
      BY <1>4, <3>1, <3>2
  <2>3. CASE ~(t # s /\ Busy(t))
    <3>1. call'[t] = Idle
      BY <1>2, <2>3
    <3>2. QED
      BY <1>3, <3>1
  <2>4. QED
    BY <2>2, <2>3
<1>8. Room'
  <2>1. Going' \subseteq Going \ {s} /\ s \in Going
    <3>1. Idle.at = "idle"
      BY DEF Idle
    <3>2. \A t \in Users : call'[t].at # "idle" => t # s /\ Busy(t)
      BY <1>2, <3>1
    <3>3. QED
      BY <3>2 DEF Going, Busy
  <2>2. /\ IsFiniteSet(Going \ {s}) /\ Cardinality(Going \ {s}) = Cardinality(Going) - 1
        /\ Cardinality(Going) \in Nat /\ Cardinality(Going \ {s}) \in Nat
    BY <1>1, <2>1, FS_RemoveElement, FS_CardinalityType
  <2>3. /\ IsFiniteSet(Going') /\ Cardinality(Going') <= Cardinality(Going \ {s})
        /\ Cardinality(Going') \in Nat
    BY <2>1, <2>2, FS_Subset, FS_CardinalityType
  <2>4. QED
    BY <1>1, <2>2, <2>3 DEF Room
<1>9. QED
  BY <1>1, <1>6, <1>7, <1>8 DEF SInv

-----------------------------------------------------------------------------
(* The steps of a call, first where it begins: what a session asks for.    *)
Asked(c) ==
  /\ c \in Calling /\ c.op \in Operations /\ c.row = NoRow /\ c.met = FALSE
  /\ c.op \in Looking => c.name \in Titles /\ c.list \in Owners
  /\ c.op = "create_after" => c.other \in DOMAIN lists
  /\ c.op \in Changing => c.list \in DOMAIN lists
  /\ c.op = "set_name" => c.name \in Titles
  /\ c.op = "set_parent" => /\ c.other \in Owners \ {c.list}
                            /\ ~StaleNext(c.list, c.other) /\ ~Cycle(c.list, c.other)
  /\ c.op \in Adding => c.list \in DOMAIN lists /\ c.track \in tracks

LEMMA CallsAreAsked ==
  ASSUME SInv, NEW s \in Users, ListCallBy(s) \/ EntityCallBy(s)
  PROVE  \E c : Asked(c) /\ Begin(s, c)
<1>0. /\ Owners \subseteq 0 .. MaxId /\ DOMAIN lists \subseteq 0 .. MaxId
      /\ tracks \subseteq 0 .. MaxTrack /\ Idle \in Calling
  <2>1. listSeq \in 0 .. MaxId /\ DOMAIN lists \subseteq 1 .. listSeq /\ tracks = 1 .. MaxTrack
    BY DEF SInv, ListsKept, KeptLists, TypedLists
  <2>2. DOMAIN lists \subseteq 0 .. MaxId
    BY <2>1, LibraryBounds
  <2>3. Owners \subseteq 0 .. MaxId
    BY <2>1, <2>2, LibraryBounds DEF Owners, None
  <2>4. tracks \subseteq 0 .. MaxTrack
    BY <2>1, MaxTrackAssumption
  <2>5. QED
    BY <2>1, <2>2, <2>3, <2>4, IdleIsOK, LibraryBounds
<1>1. /\ Idle.row = NoRow /\ Idle.met = FALSE
  BY DEF Idle
<1>2. CASE ListCallBy(s)
  <2>1. ASSUME NEW p \in Owners, NEW n \in Titles,
               Begin(s, [Idle EXCEPT !.op = "create", !.list = p, !.name = n])
        PROVE  \E c : Asked(c) /\ Begin(s, c)
    <3> DEFINE c == [Idle EXCEPT !.op = "create", !.list = p, !.name = n]
    <3>1. /\ c \in Calling /\ c.op = "create" /\ c.list = p /\ c.name = n
          /\ c.row = NoRow /\ c.met = FALSE
      BY <1>0, <1>1 DEF Calling, Operations, PT!AnyTitle
    <3> HIDE DEF c
    <3>2. Asked(c)
      BY <3>1 DEF Asked, Operations, Looking, Changing, Adding
    <3>3. QED
      BY <2>1, <3>2 DEF c
  <2>2. ASSUME NEW p \in Owners, NEW n \in Titles, NEW a \in DOMAIN lists,
               Begin(s, [Idle EXCEPT !.op = "create_after", !.list = p, !.name = n, !.other = a])
        PROVE  \E c : Asked(c) /\ Begin(s, c)
    <3> DEFINE c == [Idle EXCEPT !.op = "create_after", !.list = p, !.name = n, !.other = a]
    <3>1. /\ c \in Calling /\ c.op = "create_after" /\ c.list = p /\ c.name = n
          /\ c.other = a /\ c.row = NoRow /\ c.met = FALSE
      BY <1>0, <1>1 DEF Calling, Operations, PT!AnyTitle
    <3> HIDE DEF c
    <3>2. Asked(c)
      BY <3>1 DEF Asked, Operations, Looking, Changing, Adding
    <3>3. QED
      BY <2>2, <3>2 DEF c
  <2>3. ASSUME NEW i \in DOMAIN lists, NEW n \in Titles,
               Begin(s, [Idle EXCEPT !.op = "set_name", !.list = i, !.name = n])
        PROVE  \E c : Asked(c) /\ Begin(s, c)
    <3> DEFINE c == [Idle EXCEPT !.op = "set_name", !.list = i, !.name = n]
    <3>1. /\ c \in Calling /\ c.op = "set_name" /\ c.list = i /\ c.name = n
          /\ c.row = NoRow /\ c.met = FALSE
      BY <1>0, <1>1 DEF Calling, Operations, PT!AnyTitle
    <3> HIDE DEF c
    <3>2. Asked(c)
      BY <3>1 DEF Asked, Operations, Looking, Changing, Adding
    <3>3. QED
      BY <2>3, <3>2 DEF c
  <2>4. ASSUME NEW i \in DOMAIN lists, NEW p \in Owners,
               ~StaleNext(i, p), ~Cycle(i, p), p # i,
               Begin(s, [Idle EXCEPT !.op = "set_parent", !.list = i, !.other = p])
        PROVE  \E c : Asked(c) /\ Begin(s, c)
    <3> DEFINE c == [Idle EXCEPT !.op = "set_parent", !.list = i, !.other = p]
    <3>1. /\ c \in Calling /\ c.op = "set_parent" /\ c.list = i /\ c.other = p
          /\ c.row = NoRow /\ c.met = FALSE
      BY <1>0, <1>1 DEF Calling, Operations
    <3> HIDE DEF c
    <3>2. Asked(c)
      BY <2>4, <3>1 DEF Asked, Operations, Looking, Changing, Adding
    <3>3. QED
      BY <2>4, <3>2 DEF c
  <2>5. ASSUME NEW i \in DOMAIN lists,
               Begin(s, [Idle EXCEPT !.op = "remove_list", !.list = i])
        PROVE  \E c : Asked(c) /\ Begin(s, c)
    <3> DEFINE c == [Idle EXCEPT !.op = "remove_list", !.list = i]
    <3>1. /\ c \in Calling /\ c.op = "remove_list" /\ c.row = NoRow /\ c.met = FALSE
      BY <1>0, <1>1 DEF Calling, Operations
    <3> HIDE DEF c
    <3>2. Asked(c)
      BY <3>1 DEF Asked, Operations, Looking, Changing, Adding
    <3>3. QED
      BY <2>5, <3>2 DEF c
  <2>6. QED
    BY <1>2, <2>1, <2>2, <2>3, <2>4, <2>5 DEF ListCallBy
<1>3. CASE EntityCallBy(s)
  <2>1. PICK p \in DOMAIN lists, t \in tracks :
          \/ \E op \in {"add_track_back", "add_track"} :
               Begin(s, [Idle EXCEPT !.op = op, !.list = p, !.track = t])
          \/ \E a \in tracks :
               Begin(s, [Idle EXCEPT !.op = "add_track_after", !.list = p, !.track = t, !.after = a])
          \/ Begin(s, [Idle EXCEPT !.op = "remove_track", !.list = p, !.track = t])
          \/ Begin(s, [Idle EXCEPT !.op = "clear_tracks", !.list = p])
    BY <1>3 DEF EntityCallBy
  <2>2. ASSUME NEW op \in {"add_track_back", "add_track", "remove_track"},
               Begin(s, [Idle EXCEPT !.op = op, !.list = p, !.track = t])
        PROVE  \E c : Asked(c) /\ Begin(s, c)
    <3> DEFINE c == [Idle EXCEPT !.op = op, !.list = p, !.track = t]
    <3>1. /\ c \in Calling /\ c.op = op /\ c.list = p /\ c.track = t
          /\ c.row = NoRow /\ c.met = FALSE
      BY <1>0, <1>1 DEF Calling, Operations
    <3> HIDE DEF c
    <3>2. Asked(c)
      BY <3>1 DEF Asked, Operations, Looking, Changing, Adding
    <3>3. QED
      BY <2>2, <3>2 DEF c
  <2>3. ASSUME NEW a \in tracks,
               Begin(s, [Idle EXCEPT !.op = "add_track_after", !.list = p, !.track = t, !.after = a])
        PROVE  \E c : Asked(c) /\ Begin(s, c)
    <3> DEFINE c == [Idle EXCEPT !.op = "add_track_after", !.list = p, !.track = t, !.after = a]
    <3>1. /\ c \in Calling /\ c.op = "add_track_after" /\ c.list = p /\ c.track = t
          /\ c.row = NoRow /\ c.met = FALSE
      BY <1>0, <1>1 DEF Calling, Operations
    <3> HIDE DEF c
    <3>2. Asked(c)
      BY <3>1 DEF Asked, Operations, Looking, Changing, Adding
    <3>3. QED
      BY <2>3, <3>2 DEF c
  <2>4. ASSUME Begin(s, [Idle EXCEPT !.op = "clear_tracks", !.list = p])
        PROVE  \E c : Asked(c) /\ Begin(s, c)
    <3> DEFINE c == [Idle EXCEPT !.op = "clear_tracks", !.list = p]
    <3>1. /\ c \in Calling /\ c.op = "clear_tracks" /\ c.list = p
          /\ c.row = NoRow /\ c.met = FALSE
      BY <1>0, <1>1 DEF Calling, Operations
    <3> HIDE DEF c
    <3>2. Asked(c)
      BY <3>1 DEF Asked, Operations, Looking, Changing, Adding
    <3>3. QED
      BY <2>4, <3>2 DEF c
  <2>5. QED
    BY <2>1, <2>2, <2>3, <2>4
<1>4. QED
  BY <1>2, <1>3

(* What holds of both tables in every state, taken out of the invariant.   *)
LEMMA SInvFacts ==
  ASSUME SInv
  PROVE  /\ KeptLists(lists, listSeq) /\ PEP!Kept(entities)
         /\ listSeq \in 0 .. MaxId /\ DOMAIN lists \subseteq 1 .. listSeq
         /\ lists \in [DOMAIN lists -> PTP!Row] /\ Acyclic(lists) /\ PTP!Unique(lists)
         /\ \A i \in DOMAIN lists : lists[i].owner \in 0 .. listSeq
         /\ entitySeq \in 0 .. MaxEntity /\ DOMAIN entities \subseteq 1 .. entitySeq
         /\ call \in [Users -> Calling] /\ \A s \in Users : CallOK(call[s])
  BY DEF SInv, ListsKept, KeptLists, TypedLists, EntitiesKept

LEMMA BeginKeepsSInv ==
  ASSUME SInv, NEW s \in Users, NEW c, Asked(c), Begin(s, c)
  PROVE  SInv'
<1> DEFINE d == [c EXCEPT !.at = FirstStep(c.op), !.seen = RowOf(c)]
<1>0. c \in Calling
  BY DEF Asked
<1>1. RowOf(c) \in AnyRow
  BY SInvFacts, RowsAreRows DEF AnyRow
<1>2. FirstStep(c.op) \in {"look up", "get", "look for", "write"}
  BY DEF FirstStep
<1>3. /\ d \in Calling /\ d.op = c.op /\ d.list = c.list /\ d.name = c.name
      /\ d.other = c.other /\ d.track = c.track /\ d.after = c.after /\ d.row = NoRow /\ d.met = FALSE
      /\ d.at = FirstStep(c.op) /\ d.seen = RowOf(c)
  BY <1>0, <1>1, <1>2 DEF Calling, Asked
<1>4. call' = [call EXCEPT ![s] = d] /\ UNCHANGED <<tables, menu, astray>>
      /\ calls' = calls + 1 /\ calls < menu.calls
  BY DEF Begin, Goes
<1> HIDE DEF d
<1>5. RowOf(d) = RowOf(c)
  BY <1>3 DEF RowOf
<1>6. InStep(d)
  BY <1>3 DEF InStep, FirstStep, Asked, Operations, Looking, Changing, Adding
<1>7. Arguments(d)
  <2>1. d.op \in Changing => RowOf(c) = lists[c.list] /\ c.list \in DOMAIN lists
    BY <1>3, SInvFacts, RowsAreRows DEF Asked
  <2>2. d.op \in Changing => d.list \in 1 .. listSeq /\ d.seen \in PTP!Row
    BY <1>3, <2>1, SInvFacts
  <2>3. Owners \subseteq 0 .. listSeq /\ DOMAIN lists \subseteq 1 .. listSeq
        /\ tracks = 1 .. MaxTrack
    BY SInvFacts DEF Owners, None, SInv
  <2>4. d.op = "set_parent" => /\ d.other \in (0 .. listSeq) \ {d.list}
                               /\ d.seen.next = None \/ d.seen.owner = d.other
    BY <1>3, <2>1, <2>3 DEF Asked, StaleNext, Changing
  <2>5. QED
    BY <1>3, <2>2, <2>3, <2>4 DEF Arguments, Asked
<1>8. HasRead(d)
  BY <1>3 DEF HasRead, FirstStep, Looking, Changing
<1>9. Undisturbed(d)
  <2>1. d.at = "write" => d.op \notin Looking \cup Adding /\ d.row = d.seen
    <3>1. d.at = "write" => c.op \notin {"create_after", "add_track_after"} \cup Changing \cup Looking \cup Adding
      BY <1>3 DEF FirstStep, Looking, Changing, Adding
    <3>2. QED
      BY <1>3, <3>1, SInvFacts, RowsAreRows
  <2>2. d.op \in Looking => d.at = "look up"
    BY <1>3 DEF FirstStep, Looking
  <2>3. d.op = "add_track_after" => d.at = "get"
    BY <1>3 DEF FirstStep
  <2>4. d.op = "set_parent" => d.other \notin PTP!Descendants(lists, d.list)
    BY <1>3, SameDescendants DEF Asked, Cycle
  <2>5. QED
    BY <1>3, <1>5, <2>1, <2>2, <2>3, <2>4 DEF Undisturbed, Asked
<1>10. CallOK(d)
  BY <1>6, <1>7, <1>8, <1>9 DEF CallOK
<1>11. QED
  BY <1>3, <1>4, <1>10, OneGoesOn

(* An error, a lock held by another, or the end of the process.            *)
LEMMA ThrowsKeepsSInv ==
  ASSUME SInv, NEW s \in Users, NEW e, Throws(s, e)
  PROVE  SInv'
<1>1. /\ call' = [call EXCEPT ![s] = Idle] /\ UNCHANGED <<tables, menu, astray>>
      /\ calls' = calls
  BY DEF Throws, Ends, Goes
<1>2. Idle \in Calling /\ CallOK(Idle) /\ Idle.at = "idle"
  BY SInvFacts, IdleIsOK, LibraryBounds DEF Idle
<1>3. QED
  BY <1>1, <1>2, OneGoesOn

(* A query: what it finds is noted.                                        *)
LEMMA ReadsKeepsSInv ==
  ASSUME SInv, NEW s \in Users, Busy(s), NEW d \in Calling, CallOK(d), Reads(s, d)
  PROVE  SInv'
<1>1. /\ call' = [call EXCEPT ![s] = d] /\ UNCHANGED <<tables, menu, astray>>
      /\ calls' = calls
  BY DEF Reads, Goes
<1>2. QED
  BY <1>1, OneGoesOn

LEMMA LookUpKeepsSInv ==
  ASSUME SInv, NEW s \in Users, LookUp(s)
  PROVE  SInv'
<1> DEFINE c == call[s]
           a == IF c.op = "create" THEN "write" ELSE "get"
           d == [c EXCEPT !.at = a]
<1>1. /\ c \in Calling /\ CallOK(c) /\ c.at = "look up" /\ Busy(s)
  BY SInvFacts DEF LookUp, Busy
<1>2. CASE \E e : Throws(s, e)
  BY <1>2, ThrowsKeepsSInv
<1>3. CASE Named(c.list, c.name) = {} /\ Reads(s, d)
  <2>1. c.op \in Looking /\ c.row = NoRow
    BY <1>1 DEF CallOK, InStep, HasRead
  <2>2. /\ d \in Calling /\ d.op = c.op /\ d.list = c.list /\ d.name = c.name
        /\ d.other = c.other /\ d.track = c.track /\ d.after = c.after /\ d.row = c.row
        /\ d.met = c.met /\ d.seen = c.seen /\ d.at = a
    BY <1>1 DEF Calling
  <2> HIDE DEF d
  <2>3. RowOf(d) = RowOf(c)
    BY <2>2 DEF RowOf
  <2>4. InStep(d)
    BY <2>1, <2>2 DEF InStep, Looking
  <2>5. Arguments(d)
    BY <1>1, <2>2 DEF CallOK, Arguments
  <2>6. HasRead(d)
    BY <2>1, <2>2 DEF HasRead, Looking, Changing
  <2>7. Undisturbed(d)
    <3>1. c.op = "create" => RowOf(c) = NoRow
      BY SInvFacts, RowsAreRows DEF Changing
    <3>2. Undisturbed(c)
      BY <1>1 DEF CallOK
    <3> HIDE DEF c
    <3>3. QED
      BY <1>1, <1>3, <2>1, <2>2, <2>3, <3>1, <3>2 DEF Undisturbed, Looking, Changing, Adding
  <2>8. QED
    BY <1>1, <1>3, <2>2, <2>4, <2>5, <2>6, <2>7, ReadsKeepsSInv DEF CallOK, d
<1>4. QED
  BY <1>2, <1>3 DEF LookUp

(* A row that is not there any more, when create_after looks for its next. *)
LEMMA GetUndefinedKeepsSInv ==
  ASSUME SInv, NEW s \in Users, call[s].at = "get", call[s].op = "create_after",
         RowOf(call[s]) = NoRow, GetUndefined(s)
  PROVE  SInv'
<1> DEFINE c == call[s]
<1>1. /\ c \in Calling /\ CallOK(c) /\ Busy(s) /\ c.op = "create_after"
  BY SInvFacts DEF Busy
<1>2. CASE \E e : Throws(s, e)
  BY <1>2, ThrowsKeepsSInv
<1>3. ASSUME NEW n \in {None} \cup PT!Ids,
             Reads(s, [c EXCEPT !.row = [next |-> n, owner |-> c.list], !.at = "write"])
      PROVE  SInv'
  <2> DEFINE r == [next |-> n, owner |-> c.list]
             d == [c EXCEPT !.row = r, !.at = "write"]
  <2>1. r \in [next : 0 .. MaxId, owner : 0 .. MaxId] /\ r.owner = c.list
    <3>1. n \in 0 .. MaxId
      BY SameWords, LibraryBounds DEF None
    <3>2. c.list \in 0 .. MaxId
      BY <1>1 DEF Calling
    <3>3. QED
      BY <3>1, <3>2
  <2> HIDE DEF r
  <2>2. /\ d \in Calling /\ d.op = c.op /\ d.list = c.list /\ d.name = c.name
        /\ d.other = c.other /\ d.track = c.track /\ d.after = c.after /\ d.row = r
        /\ d.met = c.met /\ d.seen = c.seen /\ d.at = "write"
    BY <1>1, <2>1 DEF Calling, AnyRow
  <2> HIDE DEF d
  <2>3. c.met
    <3>1. ~c.met => c.other \in DOMAIN lists
      BY <1>1 DEF CallOK, Undisturbed
    <3>2. c.other \in DOMAIN lists => RowOf(c) \in PTP!Row
      BY <1>1, SInvFacts, RowsAreRows
    <3>3. QED
      BY <1>1, <3>1, <3>2, NoRowIsNoRow DEF Calling
  <2>4. InStep(d)
    BY <1>1, <2>2 DEF InStep
  <2>5. Arguments(d)
    BY <1>1, <2>2 DEF CallOK, Arguments
  <2>6. HasRead(d)
    BY <1>1, <2>1, <2>2 DEF HasRead, Changing
  <2>7. Undisturbed(d)
    BY <2>2, <2>3 DEF Undisturbed
  <2>8. QED
    BY <1>1, <1>3, <2>2, <2>4, <2>5, <2>6, <2>7, ReadsKeepsSInv DEF CallOK, d, r
<1>4. QED
  BY <1>2, <1>3 DEF GetUndefined

LEMMA GetKeepsSInv ==
  ASSUME SInv, NEW s \in Users, Get(s)
  PROVE  SInv'
<1> DEFINE c == call[s]
           r == RowOf(c)
           a == IF c.op = "add_track_after" THEN "look for" ELSE "write"
           d == [c EXCEPT !.row = r, !.at = a]
<1>1. /\ c \in Calling /\ CallOK(c) /\ c.at = "get" /\ Busy(s)
  BY SInvFacts DEF Get, Busy
<1>2. CASE \E e : Throws(s, e)
  BY <1>2, ThrowsKeepsSInv
<1>3. CASE r = NoRow /\ c.op = "create_after" /\ GetUndefined(s)
  BY <1>1, <1>3, GetUndefinedKeepsSInv
<1>4. CASE r # NoRow /\ ~(c.op = "create_after" /\ r.owner # c.list) /\ Reads(s, d)
  <2>1. c.op \in {"create_after", "add_track_after"} \cup Changing
    BY <1>1 DEF CallOK, InStep
  <2>2. /\ r \in AnyRow
        /\ c.op = "create_after" => r \in PTP!Row /\ r.owner = c.list
        /\ c.op = "add_track_after" => r \in PEP!Row /\ r.owner = c.list
        /\ c.op \in Changing => /\ r \in PTP!Row /\ r.owner \in (0 .. listSeq) \ {c.list}
                                /\ "lists" \notin astray => r.next # c.list
    <3>1. r \in AnyRow
      BY SInvFacts, RowsAreRows DEF AnyRow
    <3>2. c.op = "create_after" => r \in PTP!Row /\ r.owner = c.list
      BY <1>4, SInvFacts, RowsAreRows
    <3>3. c.op = "add_track_after" => r \in PEP!Row /\ r.owner = c.list
      BY <1>4, SInvFacts, RowsAreRows DEF Kids
    <3>4. ASSUME c.op \in Changing
          PROVE  /\ r \in PTP!Row /\ r.owner \in (0 .. listSeq) \ {c.list}
                 /\ "lists" \notin astray => r.next # c.list
      <4>1. c.list \in DOMAIN lists /\ r = lists[c.list] /\ r \in PTP!Row
        BY <1>4, <3>4, SInvFacts, RowsAreRows
      <4>2. r.owner \in 0 .. listSeq /\ r.owner # c.list
        BY <4>1, SInvFacts, ParentIsNotBelow
      <4>3. ASSUME "lists" \notin astray
            PROVE  r.next # c.list
        <5>1. PTP!Sound(lists) /\ r.owner \in 0 .. MaxId /\ c.list \in Kids(lists, r.owner)
          BY <4>1, <4>2, <4>3, SInvFacts, LibraryBounds DEF SInv, ListsKept, Kids
        <5>2. QED
          BY <4>1, <5>1, LinksOfKids
      <4>4. QED
        BY <4>1, <4>2, <4>3
    <3>5. QED
      BY <3>1, <3>2, <3>3, <3>4
  <2>3. /\ d \in Calling /\ d.op = c.op /\ d.list = c.list /\ d.name = c.name
        /\ d.other = c.other /\ d.track = c.track /\ d.after = c.after /\ d.row = r
        /\ d.met = c.met /\ d.seen = c.seen /\ d.at = a
    BY <1>1, <2>2 DEF Calling
  <2> HIDE DEF d
  <2>4. RowOf(d) = r
    BY <2>3 DEF RowOf
  <2>5. CallOK(c) /\ Undisturbed(c)
    BY <1>1 DEF CallOK
  <2> HIDE DEF c, r
  <2>6. InStep(d)
    BY <2>1, <2>3 DEF InStep, Looking, Changing, Adding
  <2>7. Arguments(d)
    BY <2>3, <2>5 DEF CallOK, Arguments
  <2>8. HasRead(d)
    BY <2>1, <2>2, <2>3 DEF HasRead, Changing
  <2>9. Undisturbed(d)
    <3>1. RowOf(c) = r
      BY DEF r
    <3>2. QED
      BY <1>1, <2>1, <2>3, <2>4, <2>5, <3>1 DEF Undisturbed, Looking, Changing, Adding
  <2>10. QED
    BY <1>1, <1>4, <2>3, <2>6, <2>7, <2>8, <2>9, ReadsKeepsSInv DEF CallOK, c, d
<1>5. QED
  BY <1>1, <1>2, <1>3, <1>4 DEF Get

LEMMA LookForKeepsSInv ==
  ASSUME SInv, NEW s \in Users, LookFor(s)
  PROVE  SInv'
<1> DEFINE c == call[s]
           d == [c EXCEPT !.at = "write"]
<1>1. /\ c \in Calling /\ CallOK(c) /\ c.at = "look for" /\ Busy(s)
  BY SInvFacts DEF LookFor, Busy
<1>2. CASE \E e : Throws(s, e)
  BY <1>2, ThrowsKeepsSInv
<1>3. CASE PE!Existing(entities, NewEntity(c)) = {} /\ Reads(s, d)
  <2>1. c.op \in Adding
    BY <1>1 DEF CallOK, InStep
  <2>2. /\ d \in Calling /\ d.op = c.op /\ d.list = c.list /\ d.name = c.name
        /\ d.other = c.other /\ d.track = c.track /\ d.after = c.after /\ d.row = c.row
        /\ d.met = c.met /\ d.seen = c.seen /\ d.at = "write"
    BY <1>1 DEF Calling
  <2>3. c.op # "add_track_after" => RowOf(c) = NoRow /\ c.row = NoRow
    BY <1>1, <2>1, SInvFacts, RowsAreRows DEF CallOK, HasRead, Adding, Changing
  <2>4. CallOK(c) /\ Undisturbed(c) /\ HasRead(c) /\ PEP!Existing(entities, NewEntity(c)) = {}
    BY <1>1, <1>3, SameEntityTables DEF CallOK
  <2> HIDE DEF c, d
  <2>5. RowOf(d) = RowOf(c) /\ NewEntity(d) = NewEntity(c)
    BY <2>2 DEF RowOf, NewEntity
  <2>6. InStep(d)
    BY <2>1, <2>2 DEF InStep, Looking, Changing, Adding
  <2>7. Arguments(d)
    BY <2>2, <2>4 DEF CallOK, Arguments
  <2>8. HasRead(d)
    BY <1>1, <2>1, <2>2, <2>4 DEF HasRead, Changing, Adding
  <2>9. Undisturbed(d)
    BY <1>1, <2>1, <2>2, <2>3, <2>4, <2>5 DEF Undisturbed, Looking, Changing, Adding
  <2>10. QED
    BY <1>1, <1>3, <2>2, <2>6, <2>7, <2>8, <2>9, ReadsKeepsSInv DEF CallOK, c, d
<1>4. QED
  BY <1>1, <1>2, <1>3 DEF LookFor

-----------------------------------------------------------------------------
(* The write of a call.  There is an id left for what it inserts.          *)
LEMMA RoomForOne ==
  ASSUME SInv, NEW s \in Users, Busy(s)
  PROVE  listSeq < MaxId /\ entitySeq < MaxEntity
<1>1. /\ listSeq \in Nat /\ entitySeq \in Nat /\ IsFiniteSet(Going)
      /\ listSeq + Cardinality(Going) <= 3 + calls
      /\ entitySeq + Cardinality(Going) <= 2 + calls
      /\ menu \in Menus /\ calls \in 0 .. menu.calls
  BY SInvFacts DEF SInv, Room
<1>2. /\ menu.calls \in Nat /\ MaxId >= 3 + menu.calls /\ MaxEntity >= 2 + menu.calls
      /\ MaxId \in Nat /\ MaxEntity \in Nat
  BY <1>1, SessionsBounds, LibraryBounds
<1>3. Cardinality(Going) \in Nat /\ Cardinality(Going) # 0
  <2>1. s \in Going
    BY DEF Going
  <2>2. QED
    BY <1>1, <2>1, FS_CardinalityType, FS_EmptySet
<1>4. QED
  BY <1>1, <1>2, <1>3

(* What each step of a write says of the tables that a call has led astray.*)
LEMMA NotAstray ==
  ASSUME NEW s \in Users,
         astray' = IF Overtaken(s) /\ ~InPlace(call[s]) THEN astray \cup {TableOf(call[s])}
                   ELSE astray
  PROVE  /\ TableOf(call[s]) \notin astray' =>
              InPlace(call[s]) \/ /\ RowOf(call[s]) = call[s].row
                                  /\ RowOf(call[s]) = call[s].seen
         /\ astray' \in {astray, astray \cup {TableOf(call[s])}}
         /\ InPlace(call[s]) => astray' = astray
  BY DEF Overtaken, Stale

(* The new playlist of a create: at the end, or before the row that has    *)
(* been read.                                                              *)
LEMMA CreateWrites ==
  ASSUME SInv, NEW s \in Users, call[s].at = "write", call[s].op \in Looking,
         AddList(call[s].name, call[s].list, call[s].row.next),
         astray' = IF Overtaken(s) /\ ~InPlace(call[s]) THEN astray \cup {TableOf(call[s])}
                   ELSE astray
  PROVE  ListsKept' /\ listSeq' \in {listSeq, listSeq + 1}
<1> DEFINE c   == call[s]
           row == PT!MakeRow(c.name, <<c.list, c.row.next>>, TRUE)
<1>1. c \in Calling /\ Arguments(c) /\ HasRead(c) /\ listSeq < MaxId
  BY SInvFacts, RoomForOne DEF CallOK, Busy
<1>2. /\ c.name \in Titles /\ c.list \in 0 .. listSeq /\ c.op \in {"create", "create_after"}
      /\ c.op = "create" => c.row = NoRow
      /\ c.op = "create_after" => /\ c.row \in PTP!Row \cup [next : 0 .. MaxId, owner : 0 .. MaxId]
                                  /\ c.row.owner = c.list
  BY <1>1 DEF Arguments, HasRead, Looking, Changing
<1>3. c.row.next \in 0 .. MaxId /\ c.list \in 0 .. MaxId
  <2>1. NoRow.next \in 0 .. MaxId
    BY LibraryBounds DEF NoRow, None
  <2>2. c.op = "create_after" => c.row.next \in 0 .. MaxId
    BY <1>2, SameWords
  <2>3. QED
    BY <1>1, <1>2, <2>1, <2>2 DEF Calling
<1>4. /\ row \in PTP!Row /\ row.owner = c.list /\ row.next = c.row.next
      /\ PT!Add(PT!None, row)
  BY <1>2, <1>3, SameWords DEF PT!MakeRow, AddList
<1> HIDE DEF row
<1>5. KeptLists(lists', listSeq') /\ listSeq' \in {listSeq, listSeq + 1}
  BY <1>1, <1>2, <1>4, SInvFacts, AddKeepsKept
<1>6. ASSUME "lists" \notin astray'
      PROVE  PTP!Sound(lists')
  <2>1. TableOf(c) = "lists" /\ "lists" \notin astray
    BY <1>2, <1>6, NotAstray DEF TableOf
  <2>2. c.row.next \in Kids(lists, c.list) \cup {None}
    <3>1. CASE c.op = "create"
      BY <1>2, <3>1 DEF NoRow
    <3>2. CASE c.op = "create_after" /\ InPlace(c)
      BY <3>2 DEF InPlace
    <3>3. CASE c.op = "create_after" /\ RowOf(c) = c.row
      <4>1. c.other \in DOMAIN lists /\ lists[c.other] = c.row
        BY <1>2, <3>3, SInvFacts, RowsAreRows, NoRowIsNoRow
      <4>2. c.other \in Kids(lists, c.list) /\ PTP!Sound(lists)
        BY <1>2, <2>1, <3>3, <4>1 DEF Kids, SInv, ListsKept
      <4>3. QED
        BY <1>3, <4>1, <4>2, LinksOfKids
    <3>4. QED
      BY <1>2, <1>6, <2>1, <3>1, <3>2, <3>3, NotAstray
  <2>3. PTP!Sound(lists)
    BY <2>1 DEF SInv, ListsKept
  <2>4. QED
    BY <1>1, <1>4, <2>2, <2>3, SInvFacts, AddKeepsListsSound
<1>7. QED
  BY <1>5, <1>6 DEF ListsKept

(* The row that has been read is written back: with another name where the *)
(* list was, or at a new parent before the list it was before.  It may be  *)
(* somewhere else by then, but not below itself.                           *)
LEMMA ChangeWrites ==
  ASSUME SInv, NEW s \in Users, call[s].at = "write", call[s].op \in Changing,
         ~Circle(call[s]), PT!Update(call[s].list, NewRow(call[s])),
         astray' = IF Overtaken(s) /\ ~InPlace(call[s]) THEN astray \cup {TableOf(call[s])}
                   ELSE astray
  PROVE  ListsKept' /\ listSeq' \in {listSeq, listSeq + 1}
<1> DEFINE c   == call[s]
           row == NewRow(c)
<1>1. c \in Calling /\ Arguments(c) /\ HasRead(c) /\ c.op \in Changing /\ c.at = "write"
  BY SInvFacts DEF CallOK
<1>2. /\ c.op \in {"set_name", "set_parent"}
      /\ c.list \in 1 .. listSeq /\ c.seen \in PTP!Row
      /\ c.op = "set_name" => c.name \in Titles
      /\ c.op = "set_parent" => /\ c.other \in (0 .. listSeq) \ {c.list}
                                /\ c.seen.next = None \/ c.seen.owner = c.other
      /\ c.row \in PTP!Row /\ c.row.owner \in (0 .. listSeq) \ {c.list}
      /\ "lists" \notin astray => c.row.next # c.list
  BY <1>1 DEF Arguments, HasRead, Changing
<1>3. /\ row \in PTP!Row /\ row.next = c.row.next
      /\ row.owner \in (0 .. listSeq) \ {c.list}
      /\ c.op = "set_name" => row.owner = c.row.owner
      /\ c.op = "set_parent" => row.owner = c.other
  <2>1. 0 .. listSeq \subseteq 0 .. MaxId
    BY SInvFacts, LibraryBounds
  <2>2. QED
    BY <1>2, <2>1, SameWords DEF NewRow
<1>4. lists' # lists => row.owner \notin PTP!Descendants(lists, c.list)
  <2>1. SUFFICES ASSUME lists' # lists
                 PROVE  row.owner \notin PTP!Descendants(lists, c.list)
    OBVIOUS
  <2>2. /\ row.title # BadTitle /\ c.list \in DOMAIN lists
        /\ PT!Accepted(PT!UpdateTables(lists, c.list, row))
    BY <2>1 DEF PT!Update, PT!Throw, PT!Run
  <2>3. QED
    BY <1>2, <2>2, SameDescendants DEF Circle
<1> HIDE DEF row
<1>5. KeptLists(lists', listSeq') /\ listSeq' = listSeq
  BY <1>3, <1>4, SInvFacts, UpdateKeepsKept DEF row
<1>6. ASSUME "lists" \notin astray'
      PROVE  PTP!Sound(lists')
  <2>1. TableOf(c) = "lists" /\ "lists" \notin astray
    BY <1>2, <1>6, NotAstray DEF TableOf
  <2>2. ASSUME c.list \in DOMAIN lists
        PROVE  \/ row.owner = lists[c.list].owner /\ row.next = lists[c.list].next
               \/ row.next \in Kids(lists, row.owner) \cup {None} /\ row.next # c.list
    <3>1. CASE InPlace(c)
      <4>1. row.next = None \/ row.next \in Kids(lists, row.owner)
        BY <1>2, <1>3, <3>1 DEF InPlace, row
      <4>2. row.next # c.list
        BY <1>2, <1>3, <2>1
      <4>3. QED
        BY <4>1, <4>2
    <3>2. CASE RowOf(c) = c.row /\ RowOf(c) = c.seen
      <4>1. lists[c.list] = c.row /\ c.row = c.seen
        BY <1>1, <2>2, <3>2, SInvFacts, RowsAreRows
      <4>2. c.list # None
        BY <1>2, SInvFacts DEF None
      <4>3. QED
        BY <1>2, <1>3, <4>1, <4>2
    <3>3. QED
      BY <1>6, <2>1, <3>1, <3>2, NotAstray
  <2>3. PTP!Sound(lists)
    BY <2>1 DEF SInv, ListsKept
  <2>4. QED
    BY <1>3, <2>2, <2>3, UpdateKeepsListsSound DEF row
<1>7. QED
  BY <1>5, <1>6 DEF ListsKept

LEMMA RemoveWrites ==
  ASSUME SInv, NEW s \in Users, PT!Remove(call[s].list), astray' = astray
  PROVE  ListsKept' /\ listSeq' \in {listSeq, listSeq + 1}
<1>1. KeptLists(lists', listSeq') /\ listSeq' = listSeq
  BY SInvFacts, RemoveKeepsKept
<1>2. "lists" \notin astray => PTP!Sound(lists')
  BY RemoveKeepsListsSound DEF SInv, ListsKept
<1>3. QED
  BY <1>1, <1>2 DEF ListsKept

(* The new entity of an add.                                               *)
LEMMA NewEntityIsRow ==
  ASSUME SInv, NEW s \in Users, call[s].at = "write", call[s].op \in Adding
  PROVE  /\ NewEntity(call[s]) \in PEP!Row
         /\ NewEntity(call[s]).owner = call[s].list
         /\ NewEntity(call[s]).next = call[s].row.next
         /\ call[s].op # "add_track_after" => call[s].row = NoRow
<1> DEFINE c == call[s]
<1>1. c \in Calling /\ Arguments(c) /\ HasRead(c)
  BY SInvFacts DEF CallOK
<1>2. /\ c.list \in 1 .. listSeq /\ c.track \in 1 .. MaxTrack
      /\ c.op = "add_track_after" => c.row \in PEP!Row
      /\ c.op # "add_track_after" => c.row = NoRow
  BY <1>1 DEF Arguments, HasRead, Adding, Changing
<1>3. c.row.next \in 0 .. MaxEntity
  <2>1. NoRow.next \in 0 .. MaxEntity
    <3>1. NoRow.next = 0
      BY DEF NoRow, None
    <3>2. QED
      BY <3>1, LibraryBounds
  <2>2. \A r \in PEP!Row : r.next \in 0 .. MaxEntity
    BY SameEntityWords
  <2>3. QED
    BY <1>2, <2>1, <2>2
<1>4. c.list \in 1 .. MaxId
  <2>1. listSeq \in 0 .. MaxId
    BY SInvFacts
  <2>2. QED
    BY <1>2, <2>1, LibraryBounds
<1> HIDE DEF c
<1>5. NewEntity(c) \in PEP!Row /\ NewEntity(c).owner = c.list /\ NewEntity(c).next = c.row.next
  BY <1>2, <1>3, <1>4, SameEntityWords DEF NewEntity, PE!MakeRow
<1>6. QED
  BY <1>2, <1>5 DEF c

LEMMA AddWrites ==
  ASSUME SInv, NEW s \in Users, call[s].at = "write", call[s].op \in Adding,
         Insert(NewEntity(call[s])),
         astray' = IF Overtaken(s) /\ ~InPlace(call[s]) THEN astray \cup {TableOf(call[s])}
                   ELSE astray
  PROVE  EntitiesKept' /\ entitySeq' \in {entitySeq, entitySeq + 1}
<1> DEFINE c   == call[s]
           row == NewEntity(c)
<1>1. /\ row \in PEP!Row /\ row.owner = c.list /\ row.next = c.row.next
      /\ c.op # "add_track_after" => c.row = NoRow
  BY NewEntityIsRow
<1>2. c.op = "add_track_after" => c.row \in PEP!Row /\ c.row.owner = c.list
  BY SInvFacts DEF CallOK, HasRead
<1>3. astray' = astray \/ "entities" \in astray'
  <2>1. CASE c.op = "add_track_after"
    BY <2>1, NotAstray DEF TableOf
  <2>2. CASE c.op # "add_track_after"
    <3>1. InPlace(c)
      BY <1>1, <2>2 DEF InPlace, NoRow
    <3>2. QED
      BY <3>1, NotAstray
  <2>3. QED
    BY <2>1, <2>2
<1> HIDE DEF row
<1>4. ASSUME "entities" \notin astray'
      PROVE  row.next \in Kids(entities, row.owner) \cup {None}
  <2>1. CASE c.op # "add_track_after"
    BY <1>1, <2>1 DEF NoRow
  <2>2. CASE c.op = "add_track_after" /\ InPlace(c)
    BY <1>1, <2>2 DEF InPlace
  <2>3. CASE c.op = "add_track_after" /\ RowOf(c) = c.row
    <3>1. PICK e \in Kids(entities, c.list) : c.row = entities[e]
      BY <1>2, <2>3, SInvFacts, RowsAreRows, NoRowIsNoRow
    <3>2. PEP!Sound(entities) /\ c.list \in 1 .. MaxId
      BY <1>1, <1>3, <1>4, SameEntityWords DEF SInv, EntitiesKept
    <3>3. PEP!Chain(entities, c.list)
      BY <3>2 DEF PEP!Sound
    <3>4. QED
      BY <1>1, <3>1, <3>3, SameEntityWords DEF PEP!Chain
  <2>4. TableOf(c) = "entities" \/ c.op # "add_track_after"
    BY DEF TableOf
  <2>5. QED
    BY <1>4, <2>1, <2>2, <2>3, <2>4, NotAstray
<1>5. EntitiesKept
  BY DEF SInv
<1>6. QED
  BY <1>1, <1>3, <1>4, <1>5, RoomForOne, InsertKeepsEntities DEF row, Busy

(* A move below itself is begun only by a call that has met a write.       *)
LEMMA CircleKeepsSInv ==
  ASSUME SInv, NEW s \in Users, call[s].at = "write", Circle(call[s]),
         Reads(s, [call[s] EXCEPT !.at = "hanging"])
  PROVE  SInv'
<1> DEFINE c == call[s]
           d == [c EXCEPT !.at = "hanging"]
<1>1. /\ c \in Calling /\ CallOK(c) /\ c.at = "write" /\ Busy(s) /\ c.op \in Changing
  BY SInvFacts DEF Busy, Circle, Changing
<1>2. /\ d \in Calling /\ d.op = c.op /\ d.list = c.list /\ d.name = c.name
      /\ d.other = c.other /\ d.track = c.track /\ d.after = c.after /\ d.row = c.row
      /\ d.met = c.met /\ d.seen = c.seen /\ d.at = "hanging"
  BY <1>1 DEF Calling
<1>3. c.met
  <2>1. SUFFICES ASSUME ~c.met
                 PROVE  FALSE
    BY <1>1 DEF Calling
  <2>2. /\ c.list \in DOMAIN lists /\ c.row = c.seen /\ RowOf(c) = c.seen
        /\ c.op = "set_parent" => c.other \notin PTP!Descendants(lists, c.list)
    BY <1>1, <2>1 DEF CallOK, Undisturbed
  <2>3. c.row = lists[c.list] /\ lists[c.list] \in PTP!Row
    BY <1>1, <2>2, SInvFacts, RowsAreRows
  <2>4. c.row.owner \notin PTP!Descendants(lists, c.list)
    BY <2>2, <2>3, SInvFacts, ParentIsNotBelow
  <2>5. NewRow(c).owner \in PTP!Descendants(lists, c.list)
    BY SameDescendants DEF Circle
  <2>6. NewRow(c).owner = IF c.op = "set_name" THEN c.row.owner ELSE c.other
    BY <2>3, SameWords DEF NewRow
  <2>7. QED
    BY <1>1, <2>2, <2>4, <2>5, <2>6 DEF Changing
<1> HIDE DEF d
<1>4. InStep(d)
  BY <1>1, <1>2, <1>3 DEF InStep, Changing
<1>5. Arguments(d)
  BY <1>1, <1>2 DEF CallOK, Arguments
<1>6. HasRead(d)
  BY <1>1, <1>2 DEF HasRead, Changing
<1>7. Undisturbed(d)
  BY <1>2, <1>3 DEF Undisturbed
<1>8. QED
  BY <1>1, <1>2, <1>4, <1>5, <1>6, <1>7, ReadsKeepsSInv DEF CallOK, d

(* A call that writes is one of these, and one table stays as it is.       *)
LEMMA WrittenKeepsTables ==
  ASSUME SInv, NEW s \in Users, call[s].at = "write", ~Circle(call[s]), Written(call[s]),
         astray' = IF Overtaken(s) /\ ~InPlace(call[s]) THEN astray \cup {TableOf(call[s])}
                   ELSE astray
  PROVE  /\ ListsKept' /\ EntitiesKept' /\ UNCHANGED <<tracks, trackSeq>>
         /\ listSeq' \in {listSeq, listSeq + 1} /\ entitySeq' \in {entitySeq, entitySeq + 1}
<1> DEFINE c == call[s]
<1>1. c.op \in Operations /\ HasRead(c)
  BY SInvFacts DEF Calling, CallOK, InStep
<1>2. astray' \in {astray, astray \cup {TableOf(c)}} /\ (InPlace(c) => astray' = astray)
  BY NotAstray
<1>3. ASSUME UNCHANGED <<lists, listSeq>>, TableOf(c) = "entities" \/ astray' = astray
      PROVE  ListsKept' /\ listSeq' \in {listSeq, listSeq + 1}
  BY <1>2, <1>3 DEF SInv, ListsKept
<1>4. ASSUME UNCHANGED <<entities, entitySeq>>, TableOf(c) = "lists"
      PROVE  EntitiesKept' /\ entitySeq' \in {entitySeq, entitySeq + 1}
  BY <1>2, <1>4 DEF SInv, EntitiesKept
<1>5. c.row = NoRow => astray' = astray
  BY <1>2 DEF InPlace, NoRow
<1>6. CASE c.op \in {"create", "create_after"}
  <2>1. AddList(c.name, c.list, c.row.next) /\ TableOf(c) = "lists"
    BY <1>6 DEF Written, TableOf
  <2>2. UNCHANGED <<entities, entitySeq, tracks, trackSeq>>
    BY <2>1 DEF AddList, entityVars, trackVars
  <2>3. ListsKept' /\ listSeq' \in {listSeq, listSeq + 1}
    BY <1>6, <2>1, CreateWrites DEF Looking
  <2>4. QED
    BY <1>4, <2>1, <2>2, <2>3
<1>7. CASE c.op \in {"set_name", "set_parent"}
  <2>1. /\ PT!Update(c.list, NewRow(c)) /\ TableOf(c) = "lists"
        /\ UNCHANGED <<entities, entitySeq, tracks, trackSeq>>
    BY <1>7 DEF Written, TableOf
  <2>2. ListsKept' /\ listSeq' \in {listSeq, listSeq + 1}
    BY <1>7, <2>1, ChangeWrites DEF Changing
  <2>3. QED
    BY <1>4, <2>1, <2>2
<1>8. CASE c.op = "remove_list"
  <2>1. PT!Remove(c.list) /\ UNCHANGED <<entities, entitySeq, tracks, trackSeq>>
        /\ TableOf(c) = "lists"
    BY <1>8 DEF Written, TableOf, RemoveList, entityVars, trackVars
  <2>2. astray' = astray
    BY <1>1, <1>5, <1>8 DEF HasRead, Changing
  <2>3. ListsKept' /\ listSeq' \in {listSeq, listSeq + 1}
    BY <2>1, <2>2, RemoveWrites
  <2>4. QED
    BY <1>4, <2>1, <2>3
<1>9. CASE c.op \in Adding
  <2>1. /\ Insert(NewEntity(c)) /\ UNCHANGED <<lists, listSeq, tracks, trackSeq>>
    BY <1>9 DEF Written, Adding
  <2>2. c.op # "add_track_after" => c.row = NoRow
    BY <1>1, <1>9 DEF HasRead, Changing, Adding
  <2>3. TableOf(c) = "entities" \/ astray' = astray
    BY <1>5, <2>2 DEF TableOf
  <2>4. EntitiesKept' /\ entitySeq' \in {entitySeq, entitySeq + 1}
    BY <1>9, <2>1, AddWrites
  <2>5. QED
    BY <1>3, <2>1, <2>3, <2>4
<1>10. CASE c.op \in {"remove_track", "clear_tracks"}
  <2>1. /\ RemoveTrack(c.list, c.track) \/ ClearTracks(c.list)
    BY <1>10 DEF Written
  <2>2. UNCHANGED <<lists, listSeq, tracks, trackSeq>>
    BY <2>1 DEF RemoveTrack, ClearTracks, listVars, trackVars
  <2>3. astray' = astray
    BY <1>1, <1>5, <1>10 DEF HasRead, Changing
  <2>4. EntitiesKept' /\ entitySeq' \in {entitySeq, entitySeq + 1}
    BY <2>1, <2>3, RemoveTrackKeepsEntities, ClearTracksKeepsEntities DEF SInv
  <2>5. QED
    BY <1>3, <2>2, <2>3, <2>4
<1>11. QED
  BY <1>1, <1>6, <1>7, <1>8, <1>9, <1>10 DEF Operations, Adding

LEMMA WriteKeepsSInv ==
  ASSUME SInv, NEW s \in Users, Write(s)
  PROVE  SInv'
<1> DEFINE c == call[s]
<1>1. CASE \E e : Throws(s, e)
  BY <1>1, ThrowsKeepsSInv
<1>2. CASE Circle(c) /\ Reads(s, [c EXCEPT !.at = "hanging"])
  BY <1>2, CircleKeepsSInv DEF Write
<1>3. CASE /\ ~Circle(c) /\ Written(c) /\ call' = Noticed(s)
           /\ astray' = IF Overtaken(s) /\ ~InPlace(c) THEN astray \cup {TableOf(c)}
                        ELSE astray
           /\ UNCHANGED <<menu, calls>>
  <2>1. Busy(s) /\ c.at = "write"
    BY DEF Write, Busy
  <2>2. /\ ListsKept' /\ EntitiesKept' /\ UNCHANGED <<tracks, trackSeq>>
        /\ listSeq' \in {listSeq, listSeq + 1} /\ entitySeq' \in {entitySeq, entitySeq + 1}
    BY <1>3, <2>1, WrittenKeepsTables
  <2>3. astray \subseteq astray' /\ astray' \subseteq {"lists", "entities"}
    <3>1. TableOf(c) \in {"lists", "entities"} /\ astray \subseteq {"lists", "entities"}
      BY DEF TableOf, SInv
    <3>2. astray' \in {astray, astray \cup {TableOf(c)}}
      BY <1>3, NotAstray
    <3> HIDE DEF c
    <3>3. QED
      BY <3>1, <3>2
  <2>4. QED
    BY <1>3, <2>1, <2>2, <2>3, OneHasWritten
<1>4. QED
  BY <1>1, <1>2, <1>3 DEF Write

LEMMA SharedNextKeepsSInv ==
  ASSUME SInv, [SharedNext]_sharedVars
  PROVE  SInv'
<1>1. CASE UNCHANGED sharedVars
  <2>1. /\ UNCHANGED <<lists, listSeq, entities, entitySeq, tracks, trackSeq>>
        /\ UNCHANGED <<call, menu, calls, astray>>
    BY <1>1 DEF sharedVars, tables
  <2>2. ListsKept' /\ EntitiesKept' /\ Room'
    BY <2>1 DEF SInv, ListsKept, EntitiesKept, Room, Going, Busy
  <2>3. (\A s \in Users : CallOK(call[s]))'
    BY <2>1, SInvFacts, CallsUnmoved
  <2>4. QED
    BY <2>1, <2>2, <2>3 DEF SInv
<1>2. ASSUME NEW s \in Users, ListCallBy(s) \/ EntityCallBy(s)
      PROVE  SInv'
  BY <1>2, CallsAreAsked, BeginKeepsSInv
<1>3. ASSUME NEW s \in Users, Proceed(s)
      PROVE  SInv'
  BY <1>3, LookUpKeepsSInv, GetKeepsSInv, LookForKeepsSInv, WriteKeepsSInv DEF Proceed
<1>4. ASSUME NEW s \in Users, Stop(s)
      PROVE  SInv'
  BY <1>4, ThrowsKeepsSInv DEF Stop
<1>5. QED
  BY <1>1, <1>2, <1>3, <1>4 DEF SharedNext, Rest

(* The two lists below no other, the third in the first, and two tracks.   *)
LEMMA InitSInv ==
  ASSUME SharedInit
  PROVE  SInv
<1>1. PICK n, m \in Titles : m # n /\
        lists = << PT!MakeRow(n, <<None, 2>>, TRUE), PT!MakeRow(m, <<None, None>>, TRUE),
                   PT!MakeRow(n, <<1, None>>, TRUE) >>
  <2> DEFINE n == CHOOSE n \in Titles : TRUE
             m == CHOOSE k \in Titles : k # n
  <2>1. n \in Titles /\ \E k \in Titles : k # n
    BY SessionsTitles
  <2>2. m \in Titles /\ m # n
    BY <2>1
  <2>3. QED
    BY <2>1, <2>2 DEF SharedInit
<1>2. /\ DOMAIN lists = {1, 2, 3}
      /\ lists[1] = PT!MakeRow(n, <<None, 2>>, TRUE)
      /\ lists[2] = PT!MakeRow(m, <<None, None>>, TRUE)
      /\ lists[3] = PT!MakeRow(n, <<1, None>>, TRUE)
      /\ lists = [i \in DOMAIN lists |-> lists[i]]
  BY <1>1
<1>3. PICK k \in Menus : menu = k
  BY DEF SharedInit
<1>4. /\ MaxId \in Nat /\ MaxId >= 3 /\ MaxEntity \in Nat /\ MaxEntity >= 2
      /\ MaxTrack \in Nat /\ MaxTrack >= 2 /\ menu.calls \in Nat
  BY <1>3, SessionsBounds, LibraryBounds
<1>5. /\ lists[1].owner = 0 /\ lists[1].next = 2 /\ lists[1].title = n
      /\ lists[2].owner = 0 /\ lists[2].next = 0 /\ lists[2].title = m
      /\ lists[3].owner = 1 /\ lists[3].next = 0 /\ lists[3].title = n
      /\ lists[1] \in PTP!Row /\ lists[2] \in PTP!Row /\ lists[3] \in PTP!Row
  BY <1>2, <1>4, SameWords DEF PT!MakeRow, None
<1>6. listSeq = 3 /\ entitySeq = 2 /\ astray = {} /\ calls = 0
  BY DEF SharedInit
<1>7. lists \in [DOMAIN lists -> PTP!Row]
  BY <1>2, <1>5
<1>8. TypedLists(lists, listSeq)
  <2>1. DOMAIN lists = {1, 2, 3} /\ {1, 2, 3} \subseteq 1 .. 3
    BY <1>2
  <2>2. \A i \in {1, 2, 3} : lists[i].owner \in 0 .. 3
    BY <1>5
  <2>3. listSeq \in 0 .. MaxId
    BY <1>4, <1>6
  <2>4. QED
    BY <1>6, <1>7, <2>1, <2>2, <2>3 DEF TypedLists
<1>9. PTP!Unique(lists)
  <2>1. DOMAIN lists = {1, 2, 3}
    BY <1>2
  <2>2. lists[1].title # lists[2].title
    BY <1>1, <1>5
  <2>3. QED
    BY <1>5, <2>1, <2>2 DEF PTP!Unique
<1>10. Acyclic(lists)
  <2>1. SUFFICES ASSUME NEW S \in SUBSET {1, 2, 3}, S # {}
                 PROVE  \E i \in S : lists[i].owner \notin S
    BY <1>2 DEF Acyclic
  <2>2. CASE 1 \in S
    BY <1>5, <2>1, <2>2
  <2>3. CASE 1 \notin S
    BY <1>5, <2>1, <2>3
  <2>4. QED
    BY <2>2, <2>3
<1>11. PTP!Sound(lists)
  <2>1. ASSUME NEW p \in 0 .. MaxId
        PROVE  PTP!Chain(lists, p)
    <3>1. CASE p = 0
      <4>1. PTP!Kids(lists, p) = {1, 2}
        BY <1>2, <1>5, <3>1 DEF PTP!Kids
      <4>2. \A S \in SUBSET {1, 2} : S # {} => \E i \in S : lists[i].next \notin S
        <5>1. SUFFICES ASSUME NEW S \in SUBSET {1, 2}, S # {}
                       PROVE  \E i \in S : lists[i].next \notin S
          OBVIOUS
        <5>2. CASE 2 \in S
          BY <1>5, <5>2
        <5>3. CASE 2 \notin S
          BY <1>5, <5>1, <5>3
        <5>4. QED
          BY <5>2, <5>3
      <4>3. QED
        BY <1>5, <4>1, <4>2, SameWords DEF PTP!Chain, None
    <3>2. CASE p = 1
      <4>1. PTP!Kids(lists, p) = {3}
        BY <1>2, <1>5, <3>2 DEF PTP!Kids
      <4>2. QED
        BY <1>5, <4>1, SameWords DEF PTP!Chain, None
    <3>3. CASE p \notin {0, 1}
      <4>1. PTP!Kids(lists, p) = {}
        BY <1>2, <1>5, <3>3 DEF PTP!Kids
      <4>2. QED
        BY <4>1 DEF PTP!Chain
    <3>4. QED
      BY <3>1, <3>2, <3>3
  <2>2. DOMAIN lists \subseteq PTP!Ids
    BY <1>2, <1>4, SameWords
  <2>3. PTP!Ids \cup {PTP!None} \subseteq 0 .. MaxId
    BY <1>4, SameWords DEF None
  <2>4. QED
    BY <1>7, <2>1, <2>2, <2>3 DEF PTP!Sound
<1>12. /\ DOMAIN entities = {1, 2}
       /\ entities[1] = PE!MakeRow(<<1, 2>>, 1, Uuid)
       /\ entities[2] = PE!MakeRow(<<1, None>>, 2, Uuid)
       /\ entities = [i \in DOMAIN entities |-> entities[i]]
  BY DEF SharedInit
<1>13. /\ entities[1].owner = 1 /\ entities[1].next = 2 /\ entities[1].track = 1
       /\ entities[2].owner = 1 /\ entities[2].next = 0 /\ entities[2].track = 2
       /\ entities[1].uuid = Uuid /\ entities[2].uuid = Uuid
       /\ entities[1] \in PEP!Row /\ entities[2] \in PEP!Row
  BY <1>4, <1>12, SameEntityWords DEF PE!MakeRow, None
<1>14. entities \in [DOMAIN entities -> PEP!Row]
  BY <1>12, <1>13
<1>15. PEP!Unique(entities)
  BY <1>12, <1>13 DEF PEP!Unique, PEP!Existing, PEP!Kids
<1>16. PEP!Sound(entities)
  <2>1. ASSUME NEW p \in 1 .. MaxId
        PROVE  PEP!Chain(entities, p)
    <3>1. CASE p = 1
      <4>1. PEP!Kids(entities, p) = {1, 2}
        BY <1>12, <1>13, <3>1 DEF PEP!Kids
      <4>2. \A S \in SUBSET {1, 2} : S # {} => \E i \in S : entities[i].next \notin S
        <5>1. SUFFICES ASSUME NEW S \in SUBSET {1, 2}, S # {}
                       PROVE  \E i \in S : entities[i].next \notin S
          OBVIOUS
        <5>2. CASE 2 \in S
          BY <1>13, <5>2
        <5>3. CASE 2 \notin S
          BY <1>13, <5>1, <5>3
        <5>4. QED
          BY <5>2, <5>3
      <4>3. QED
        BY <1>13, <4>1, <4>2, SameEntityWords DEF PEP!Chain, None
    <3>2. CASE p # 1
      <4>1. PEP!Kids(entities, p) = {}
        BY <1>12, <1>13, <3>2 DEF PEP!Kids
      <4>2. QED
        BY <4>1 DEF PEP!Chain
    <3>3. QED
      BY <3>1, <3>2
  <2>2. DOMAIN entities \subseteq PEP!EntityIds
    BY <1>4, <1>12, SameEntityWords
  <2>3. QED
    BY <1>14, <1>15, <2>1, <2>2 DEF PEP!Sound
<1>17. ListsKept
  BY <1>8, <1>9, <1>10, <1>11 DEF ListsKept, KeptLists
<1>18. EntitiesKept
  BY <1>4, <1>6, <1>12, <1>14, <1>15, <1>16 DEF EntitiesKept, PEP!Kept
<1>19. Idle \in Calling /\ CallOK(Idle) /\ Idle.at = "idle"
  BY <1>6, IdleIsOK DEF Idle
<1>20. call \in [Users -> Calling] /\ \A s \in Users : call[s] = Idle
  BY <1>19 DEF SharedInit
<1>21. Room
  <2>1. Going = {}
    BY <1>19, <1>20 DEF Going, Busy
  <2>2. QED
    BY <1>6, <2>1, FS_EmptySet DEF Room
<1>22. QED
  BY <1>3, <1>4, <1>6, <1>17, <1>18, <1>19, <1>20, <1>21 DEF SInv, SharedInit

(* The invariant, then, in every state: ...                                *)
THEOREM SessionsInvariant == SharedSpec => []SInv
<1>1. SharedInit => SInv
  BY InitSInv
<1>2. SInv /\ [SharedNext]_sharedVars => SInv'
  BY SharedNextKeepsSInv
<1>3. QED
  BY <1>1, <1>2, PTL DEF SharedSpec

LEMMA SInvIsSound ==
  ASSUME SInv
  PROVE  TablesAreSound
<1>1. SharedTypeOK
  <2>1. \A s \in Users : call[s] \in Calling /\ InStep(call[s])
    BY SInvFacts DEF CallOK
  <2>2. \A s \in Users :
          /\ call[s].op \in Operations \cup {"none"}
          /\ call[s].at \in {"idle", "look up", "get", "look for", "write", "hanging"}
    BY <2>1 DEF Calling
  <2>3. Idle.op = "none"
    BY DEF Idle
  <2>4. \A s \in Users : Busy(s) <=> call[s].op # "none"
    BY <2>1, <2>3 DEF InStep, Busy
  <2>5. lists \in [DOMAIN lists -> PT!Row] /\ entities \in [DOMAIN entities -> PE!Row]
    BY SInvFacts, SameWords, SameEntityWords DEF PEP!Kept
  <2>6. QED
    BY <2>2, <2>4, <2>5, SInvFacts DEF SharedTypeOK, SInv
<1>2. ListChains
  <2>1. SUFFICES ASSUME "lists" \notin astray, NEW p \in PT!Ids \cup {None}
                 PROVE  Chain(lists, p)
    BY DEF ListChains
  <2>2. PTP!Chain(lists, p)
    BY <2>1, SameWords DEF SInv, ListsKept, PTP!Sound
  <2>3. QED
    BY <2>2, SameWords DEF PTP!Chain, Chain
<1>3. EntityChains
  <2>1. SUFFICES ASSUME "entities" \notin astray, NEW p \in PT!Ids
                 PROVE  Chain(entities, p)
    BY DEF EntityChains
  <2>2. PEP!Chain(entities, p)
    BY <2>1, SameWords DEF SInv, EntitiesKept, PEP!Sound
  <2>3. QED
    BY <2>2, SameEntityWords DEF PEP!Chain, Chain
<1>4. QED
  BY <1>1, <1>2, <1>3 DEF TablesAreSound

(* ... whatever sessions write with what they read before, without a       *)
(* transaction around the two (playlist_impl.cpp, crate_impl.cpp), the     *)
(* playlists of a parent and the tracks of a playlist stay one chain as    *)
(* long as no call has linked a row to one that has gone in the meantime;  *)
(* and when one has, the rows still hold legal values.                     *)
THEOREM SessionsKeepTablesSound == SharedSpec => []TablesAreSound
<1>1. SInv => TablesAreSound
  BY SInvIsSound
<1>2. QED
  BY <1>1, SessionsInvariant, PTL

-----------------------------------------------------------------------------
(* A busy session that gets on does so by a step of its own.               *)
LEMMA OwnStep ==
  ASSUME SInv, SharedNext, NEW s \in Users, Busy(s), Acts(s)
  PROVE  Proceed(s) \/ Stop(s)
<1>0. call \in [Users -> Calling] /\ \A t \in Users : CallOK(call[t])
  BY SInvFacts
<1>1. ASSUME NEW t \in Users, t # s, NEW d, call' = [call EXCEPT ![t] = d]
      PROVE  FALSE
  <2>1. call'[s] = call[s]
    BY <1>0, <1>1
  <2>2. QED
    BY <2>1 DEF Acts
<1>2. ASSUME NEW t \in Users, t # s, call' = Noticed(t)
      PROVE  FALSE
  <2>1. call'[s] = [call[s] EXCEPT !.met = TRUE] /\ call[s] \in Calling
    BY <1>0, <1>2 DEF Noticed
  <2>2. call'[s].at = call[s].at
    BY <2>1 DEF Calling
  <2>3. QED
    BY <2>2 DEF Acts
<1>3. ASSUME NEW t \in Users, ListCallBy(t) \/ EntityCallBy(t)
      PROVE  t # s /\ \E d : call' = [call EXCEPT ![t] = d]
  <2>1. PICK c : Begin(t, c)
    BY <1>3, CallsAreAsked
  <2>2. QED
    BY <2>1 DEF Begin, Goes
<1>4. ASSUME NEW t \in Users, Proceed(t) \/ Stop(t)
      PROVE  (\E d : call' = [call EXCEPT ![t] = d]) \/ call' = Noticed(t)
  <2>1. \A e : Throws(t, e) => \E d : call' = [call EXCEPT ![t] = d]
    BY DEF Throws, Ends, Goes
  <2>2. \A d : Reads(t, d) => call' = [call EXCEPT ![t] = d]
    BY DEF Reads, Goes
  <2>3. LookUp(t) \/ LookFor(t) \/ Stop(t) => \E d : call' = [call EXCEPT ![t] = d]
    BY <2>1, <2>2 DEF LookUp, LookFor, Stop
  <2>4. Get(t) => \E d : call' = [call EXCEPT ![t] = d]
    BY <2>1, <2>2 DEF Get, GetUndefined
  <2>5. Write(t) => (\E d : call' = [call EXCEPT ![t] = d]) \/ call' = Noticed(t)
    BY <2>1, <2>2 DEF Write
  <2>6. QED
    BY <1>4, <2>3, <2>4, <2>5 DEF Proceed
<1>5. CASE Rest
  BY <1>5 DEF Rest, sharedVars, Acts
<1>6. CASE \E t \in Users : ListCallBy(t) \/ EntityCallBy(t)
  BY <1>1, <1>3, <1>6
<1>7. CASE \E t \in Users : Proceed(t) \/ Stop(t)
  BY <1>1, <1>2, <1>4, <1>7
<1>8. QED
  BY <1>5, <1>6, <1>7 DEF SharedNext

(* A create that gets its row in would not have found its name.            *)
LEMMA AddedNameWasFree ==
  ASSUME SInv, NEW s \in Users, Busy(s), NEW n \in Titles, NEW p \in 0 .. listSeq,
         NEW next \in 0 .. MaxId, AddList(n, p, next), tables' # tables
  PROVE  Named(p, n) = {}
<1> DEFINE row == PT!MakeRow(n, <<p, next>>, TRUE)
<1>1. listSeq \in 0 .. MaxId /\ listSeq < MaxId /\ DOMAIN lists \subseteq 1 .. listSeq
      /\ lists \in [DOMAIN lists -> PTP!Row]
  BY SInvFacts, RoomForOne
<1>2. row \in PTP!Row /\ row.owner = p /\ row.title = n
  <2>1. p \in 0 .. MaxId
    BY <1>1, LibraryBounds
  <2>2. QED
    BY <2>1, SameWords DEF PT!MakeRow
<1>3. listSeq + 1 \in PTP!Ids \ DOMAIN lists
  BY <1>1, SameWords, LibraryBounds
<1> HIDE DEF row
<1>4. PTP!Accepted(PTP!AddTables(lists, listSeq + 1, row))
  <2>1. PT!Add(None, row) /\ UNCHANGED <<entities, entitySeq, tracks, trackSeq>>
    BY DEF AddList, entityVars, trackVars, row
  <2>2. lists' # lists \/ listSeq' # listSeq
    BY <2>1 DEF tables
  <2>3. PT!Accepted(PT!AddTables(lists, listSeq + 1, row))
    BY <2>1, <2>2 DEF PT!Add, PT!Throw, PT!Run
  <2>4. QED
    BY <2>3, SameAdd, SameUnique DEF PT!Accepted, PTP!Accepted
<1>5. \A i \in PTP!Kids(lists, row.owner) : lists[i].title # row.title
  BY <1>1, <1>2, <1>3, <1>4, Constants, PTP!AcceptedNameIsFree
<1>6. QED
  BY <1>2, <1>5, SameWords DEF Named

(* An add that gets its entity in would not have found one.                *)
LEMMA InsertedWasNotFound ==
  ASSUME SInv, NEW s \in Users, call[s].at = "write", call[s].op \in Adding,
         NEW throw, Insert(NewEntity(call[s])), entities' # entities \/ entitySeq' # entitySeq
  PROVE  PE!Add(None, NewEntity(call[s]), throw)
<1> DEFINE row == NewEntity(call[s])
<1>1. row \in PEP!Row /\ entitySeq + 1 \notin DOMAIN entities /\ PEP!Kept(entities)
  <2>1. entitySeq \in 0 .. MaxEntity /\ DOMAIN entities \subseteq 1 .. entitySeq
    BY SInvFacts
  <2>2. entitySeq + 1 \notin DOMAIN entities
    BY <2>1, LibraryBounds
  <2>3. QED
    BY <2>2, NewEntityIsRow, SInvFacts
<1> HIDE DEF row
<1>2. /\ PE!Unique(Inserted(entities, entitySeq + 1, row))
      /\ entities' = PE!Added(entities, entitySeq + 1, row)
      /\ entitySeq' = entitySeq + 1 /\ outcome' = "ok"
  BY DEF Insert, row
<1>3. PE!Existing(entities, row) = {}
  BY <1>1, <1>2, SameInserted, SameEntityTables, Constants, PEP!NotFoundOrUnique
<1>4. PE!Unique(PE!Inserted(entities, entitySeq + 1, row))
  BY <1>2 DEF PE!Inserted, Inserted
<1>5. PE!Add(None, row, throw)
  BY <1>2, <1>3, <1>4, SameEntityWords DEF PE!Add
<1>6. QED
  BY <1>5 DEF row

LEMMA ChangeIsAtOnce ==
  ASSUME SInv, NEW s \in Users, call[s].at = "write", Write(s), tables' # tables, ~Stale(s)
  PROVE  AtOnce(call[s])
<1> DEFINE c == call[s]
<1>1. c \in Calling /\ HasRead(c) /\ Arguments(c) /\ c.op \in Operations /\ Busy(s)
  BY SInvFacts DEF CallOK, InStep, Calling, Busy
<1>2. ~Circle(c) /\ Written(c)
  <2>1. \A e : ~Throws(s, e)
    BY DEF Throws, tables
  <2>2. \A d : ~Reads(s, d)
    BY DEF Reads, tables
  <2>3. QED
    BY <2>1, <2>2 DEF Write
<1>3. RowOf(c) = c.row
  BY DEF Stale
<1>4. CASE c.op = "create"
  <2>1. /\ AddList(c.name, c.list, None) /\ c.name \in Titles /\ c.list \in 0 .. listSeq
    BY <1>1, <1>2, <1>4 DEF Written, HasRead, Arguments, NoRow, Looking, Changing
  <2>2. None \in 0 .. MaxId
    BY LibraryBounds DEF None
  <2>3. Named(c.list, c.name) = {}
    BY <1>1, <2>1, <2>2, AddedNameWasFree
  <2>4. QED
    BY <1>4, <2>1, <2>3 DEF AtOnce, Create
<1>5. CASE c.op = "create_after"
  <2>1. /\ AddList(c.name, c.list, c.row.next) /\ c.name \in Titles /\ c.list \in 0 .. listSeq
        /\ c.row \in PTP!Row \cup [next : 0 .. MaxId, owner : 0 .. MaxId]
        /\ c.row.owner = c.list
    BY <1>1, <1>2, <1>5 DEF Written, HasRead, Arguments, Looking
  <2>2. c.row.next \in 0 .. MaxId
    BY <2>1, SameWords
  <2>3. Named(c.list, c.name) = {}
    BY <1>1, <2>1, <2>2, AddedNameWasFree
  <2>4. lists[c.other] = c.row
    BY <1>3, <1>5, <2>1, SInvFacts, RowsAreRows, NoRowIsNoRow
  <2>5. QED
    BY <1>5, <2>1, <2>3, <2>4 DEF AtOnce, CreateAfter
<1>6. CASE c.op \in {"set_name", "set_parent"}
  <2>1. /\ PT!Update(c.list, NewRow(c))
        /\ UNCHANGED <<entities, entitySeq, tracks, trackSeq>>
        /\ c.row \in PTP!Row
        /\ c.op = "set_parent" => c.other # c.list
    BY <1>1, <1>2, <1>6 DEF Written, HasRead, Arguments, Changing
  <2>2. c.list \in DOMAIN lists /\ lists[c.list] = c.row
    BY <1>3, <1>6, <2>1, SInvFacts, RowsAreRows, NoRowIsNoRow DEF Changing
  <2>3. CASE c.op = "set_name"
    <3>1. NewRow(c) = [lists[c.list] EXCEPT !.title = c.name]
      BY <2>2, <2>3 DEF NewRow
    <3>2. QED
      BY <2>1, <2>3, <3>1 DEF AtOnce, SetName, entityVars, trackVars
  <2>4. CASE c.op = "set_parent"
    <3>1. NewRow(c) = [lists[c.list] EXCEPT !.owner = c.other]
      BY <2>2, <2>4 DEF NewRow
    <3>2. lists' # lists \/ listSeq' # listSeq
      BY <2>1 DEF tables
    <3>3. /\ NewRow(c).title # BadTitle /\ PT!Accepted(PT!UpdateTables(lists, c.list, NewRow(c)))
      BY <2>1, <3>2 DEF PT!Update, PT!Throw, PT!Run
    <3>4. NewRow(c).owner = c.other
      BY <2>1, <2>2, <3>1, SameWords
    <3>5. c.other \notin PT!Descendants(lists, c.list)
      BY <1>2, <2>2, <2>4, <3>3, <3>4 DEF Circle
    <3>6. SetParent(c.list, c.other)
      BY <2>1, <2>4, <3>1, <3>5 DEF SetParent, entityVars, trackVars
    <3>7. QED
      BY <2>4, <3>6 DEF AtOnce
  <2>5. QED
    BY <1>6, <2>3, <2>4
<1>7. CASE c.op \in Adding
  <2>1. /\ Insert(NewEntity(c)) /\ UNCHANGED <<lists, listSeq, tracks, trackSeq>>
    BY <1>2, <1>7 DEF Written, Adding
  <2>2. entities' # entities \/ entitySeq' # entitySeq
    BY <2>1 DEF tables
  <2>3. \A throw : PE!Add(None, NewEntity(c), throw)
    BY <1>7, <2>1, <2>2, InsertedWasNotFound
  <2>4. CASE c.op \in {"add_track_back", "add_track"}
    <3>1. c.row = NoRow
      BY <1>1, <2>4 DEF HasRead, Changing
    <3>2. NewEntity(c) = PE!MakeRow(<<c.list, None>>, c.track, Uuid)
      BY <3>1 DEF NewEntity, NoRow
    <3>3. \A throw : AddEntity(c.list, c.track, None, throw)
      BY <2>1, <2>3, <3>2 DEF AddEntity, listVars, trackVars
    <3>4. QED
      BY <2>4, <3>3 DEF AtOnce, AddTrackBack, AddTrack
  <2>5. CASE c.op = "add_track_after"
    <3>1. c.row \in PEP!Row
      BY <1>1, <2>5 DEF HasRead
    <3>2. EntityOf(c.list, c.after) = c.row
      BY <1>3, <2>5 DEF RowOf
    <3> DEFINE found == PE!Found(entities, c.list, c.after)
    <3>3. found # {} /\ c.row = entities[CHOOSE e \in found : TRUE]
      BY <3>1, <3>2, NoRowIsNoRow DEF EntityOf
    <3>4. AddEntity(c.list, c.track, entities[CHOOSE e \in found : TRUE].next, TRUE)
      BY <2>1, <2>3, <3>3 DEF AddEntity, NewEntity, listVars, trackVars
    <3>5. AddTrackAfter(c.list, c.track, c.after)
      BY <3>3, <3>4 DEF AddTrackAfter
    <3>6. QED
      BY <2>5, <3>5 DEF AtOnce
  <2>6. QED
    BY <1>7, <2>4, <2>5 DEF Adding
<1>8. CASE c.op \in {"remove_list", "remove_track", "clear_tracks"}
  BY <1>2, <1>8 DEF Written, AtOnce
<1>9. QED
  BY <1>1, <1>4, <1>5, <1>6, <1>7, <1>8 DEF Operations, Adding

(* A write that changes a table, by a row that is still what the call had  *)
(* read, does what the whole call would have done at that moment: what its *)
(* lookups had found, the constraints and the row itself confirm.          *)
THEOREM UnchangedRowsMakeCallsAtomic == SharedSpec => AsIfAtOnce
<1>1. SInv /\ [SharedNext]_sharedVars
      => [\A s \in Users :
            call[s].at = "write" /\ Acts(s) /\ tables' # tables /\ ~Stale(s)
              => AtOnce(call[s])]_sharedVars
  <2> SUFFICES ASSUME SInv, [SharedNext]_sharedVars, NEW s \in Users,
                      call[s].at = "write", Acts(s), tables' # tables, ~Stale(s)
               PROVE  AtOnce(call[s])
    OBVIOUS
  <2>1. SharedNext
    BY DEF sharedVars
  <2>2. Proceed(s) \/ Stop(s)
    BY <2>1, OwnStep DEF Busy
  <2>3. ~Stop(s)
    BY DEF Stop, Throws, tables
  <2>4. Write(s)
    BY <2>2, <2>3 DEF Proceed, LookUp, Get, LookFor
  <2>5. QED
    BY <2>4, ChangeIsAtOnce
<1>2. QED
  BY <1>1, SessionsInvariant, PTL DEF SharedSpec, AsIfAtOnce

-----------------------------------------------------------------------------
(* Only the writes of others make a call one that has met a write.         *)
LEMMA MetByOthersOnly ==
  ASSUME SInv, NEW s \in Users, Proceed(s) \/ Stop(s)
  PROVE  call'[s].met => call[s].met
<1> DEFINE c == call[s]
<1>1. call \in [Users -> Calling] /\ c \in Calling /\ Idle.met = FALSE
  BY SInvFacts DEF Idle
<1>2. \A e : Throws(s, e) => ~call'[s].met
  BY <1>1 DEF Throws, Ends, Goes
<1>3. \A d : Reads(s, d) => call'[s] = d
  BY <1>1 DEF Reads, Goes
<1>4. \A r, a : /\ [c EXCEPT !.row = r, !.at = a].met = c.met
                /\ [c EXCEPT !.at = a].met = c.met
  BY <1>1 DEF Calling
<1> HIDE DEF c
<1>5. CASE LookUp(s)
  <2>1. (\E e : Throws(s, e)) \/ \E a : Reads(s, [c EXCEPT !.at = a])
    BY <1>5 DEF LookUp, c
  <2>2. QED
    BY <1>2, <1>3, <1>4, <2>1 DEF c
<1>6. CASE Get(s)
  <2>1. (\E e : Throws(s, e)) \/ \E r, a : Reads(s, [c EXCEPT !.row = r, !.at = a])
    BY <1>6 DEF Get, GetUndefined, c
  <2>2. QED
    BY <1>2, <1>3, <1>4, <2>1 DEF c
<1>7. CASE LookFor(s)
  <2>1. (\E e : Throws(s, e)) \/ \E a : Reads(s, [c EXCEPT !.at = a])
    BY <1>7 DEF LookFor, c
  <2>2. QED
    BY <1>2, <1>3, <1>4, <2>1 DEF c
<1>8. CASE Write(s)
  <2>1. \/ \E e : Throws(s, e)
        \/ \E a : Reads(s, [c EXCEPT !.at = a])
        \/ call' = Noticed(s)
    BY <1>8 DEF Write, c
  <2>2. call' = Noticed(s) => call'[s] = Idle
    BY DEF Noticed
  <2>3. QED
    BY <1>1, <1>2, <1>3, <1>4, <2>1, <2>2 DEF c
<1>9. CASE Stop(s)
  BY <1>2, <1>9 DEF Stop
<1>10. QED
  BY <1>5, <1>6, <1>7, <1>8, <1>9 DEF Proceed

(* Errors that a caller without company cannot foresee.                    *)
Unforeseen(e, op) ==
  \/ e \in {"deleted", "no_rows"}
  \/ e = "constraint" /\ op \notin {"set_name", "set_parent"}

(* A create finds no row by its name and goes before one that is there.    *)
LEMMA CreateAloneIsForeseen ==
  ASSUME SInv, NEW s \in Users, call[s].at = "write", call[s].op \in Looking,
         ~call[s].met, "lists" \notin astray,
         AddList(call[s].name, call[s].list, call[s].row.next)
  PROVE  outcome' = "ok"
<1> DEFINE c   == call[s]
           row == PT!MakeRow(c.name, <<c.list, c.row.next>>, TRUE)
           id  == listSeq + 1
<1>1. /\ c \in Calling /\ Arguments(c) /\ HasRead(c) /\ Undisturbed(c) /\ listSeq < MaxId
      /\ c.at = "write" /\ c.op \in {"create", "create_after"}
  BY SInvFacts, RoomForOne DEF CallOK, Busy, Looking
<1>2. /\ c.name \in Titles /\ c.list \in 0 .. listSeq
      /\ c.op = "create" => c.row = NoRow
      /\ c.op = "create_after" => /\ c.row \in PTP!Row \cup [next : 0 .. MaxId, owner : 0 .. MaxId]
                                  /\ c.row.owner = c.list
  BY <1>1 DEF Arguments, HasRead, Looking, Changing
<1>3. /\ RowOf(c) = c.seen /\ c.row = c.seen /\ Named(c.list, c.name) = {}
      /\ c.op = "create_after" => c.other \in DOMAIN lists
  BY <1>1 DEF Undisturbed, Looking
<1>4. c.row.next \in 0 .. MaxId /\ c.list \in 0 .. MaxId
  <2>1. NoRow.next \in 0 .. MaxId
    BY LibraryBounds DEF NoRow, None
  <2>2. c.op = "create_after" => c.row.next \in 0 .. MaxId
    BY <1>2, SameWords
  <2>3. QED
    BY <1>1, <1>2, <2>1, <2>2 DEF Calling
<1>5. PTP!Sound(lists) /\ PTP!Unique(lists)
  BY DEF SInv, ListsKept, KeptLists
<1>6. c.row.next \in Kids(lists, c.list) \cup {None}
  <2>1. CASE c.op = "create"
    BY <1>2, <2>1 DEF NoRow
  <2>2. CASE c.op = "create_after"
    <3>1. lists[c.other] = c.row /\ c.other \in Kids(lists, c.list)
      BY <1>2, <1>3, <2>2, SInvFacts, RowsAreRows DEF Kids
    <3>2. QED
      BY <1>4, <1>5, <3>1, LinksOfKids
  <2>3. QED
    BY <1>1, <2>1, <2>2
<1>7. /\ row \in PTP!Row /\ row.owner = c.list /\ row.next = c.row.next /\ row.title = c.name
      /\ PT!Add(PT!None, row)
  BY <1>2, <1>4, SameWords DEF PT!MakeRow, AddList
<1>8. id \in Nat \ {0} /\ id \notin DOMAIN lists
  <2>1. listSeq \in 0 .. MaxId /\ DOMAIN lists \subseteq 1 .. listSeq
    BY SInvFacts
  <2>2. QED
    BY <2>1, LibraryBounds
<1> HIDE DEF row, id
<1>9. row.next \in PTP!Kids(lists, row.owner) \cup {PTP!None}
  BY <1>6, <1>7, SameWords
<1>10. \A i \in PTP!Kids(lists, row.owner) : lists[i].title # row.title
  BY <1>3, <1>7, SameWords DEF Named
<1>11. PTP!Accepted(PTP!AddTables(lists, id, row))
  BY <1>5, <1>7, <1>8, <1>9, <1>10, Constants, PTP!AddIsAccepted
<1>12. PT!Accepted(PT!AddTables(lists, id, row))
  BY <1>11, SameAdd, SameUnique DEF PT!Accepted, PTP!Accepted
<1>13. row.title # BadTitle
  BY <1>2, <1>7, LibraryTitles
<1>14. QED
  BY <1>7, <1>12, <1>13 DEF PT!Add, PT!Run, id

(* A playlist that is there, or not there any more, can be removed.        *)
LEMMA RemoveIsForeseen ==
  ASSUME SInv, "lists" \notin astray, NEW i, RemoveList(i)
  PROVE  outcome' = "ok"
<1>1. PTP!Sound(lists) /\ PTP!Unique(lists)
  BY DEF SInv, ListsKept, KeptLists
<1> DEFINE steps == IF i \in DOMAIN lists THEN PT!RemoveTables(lists, i) ELSE <<lists>>
<1>2. CASE i \in DOMAIN lists
  <2>1. PTP!Accepted(PTP!RemoveTables(lists, i))
    BY <1>1, <1>2, Constants, PTP!RemoveIsAccepted
  <2>2. QED
    BY <1>2, <2>1, SameRemove, SameUnique
       DEF RemoveList, PT!Remove, PT!Run, PT!Accepted, PTP!Accepted
<1>3. CASE i \notin DOMAIN lists
  <2>1. PT!Accepted(<<lists>>)
    BY <1>1, SameUnique DEF PT!Accepted
  <2>2. QED
    BY <1>3, <2>1 DEF RemoveList, PT!Remove, PT!Run
<1>4. QED
  BY <1>2, <1>3

LEMMA WriteAloneIsForeseen ==
  ASSUME SInv, NEW s \in Users, call[s].at = "write", ~call[s].met, "lists" \notin astray,
         Written(call[s])
  PROVE  ~Unforeseen(outcome', call[s].op)
<1> DEFINE c == call[s]
<1>1. c \in Calling /\ Undisturbed(c) /\ c.op \in Operations /\ c.at = "write"
  BY SInvFacts DEF CallOK, InStep, Calling
<1>2. CASE c.op \in Looking
  <2>1. AddList(c.name, c.list, c.row.next)
    BY <1>2 DEF Written, Looking
  <2>2. outcome' = "ok"
    BY <1>2, <2>1, CreateAloneIsForeseen
  <2>3. QED
    BY <2>2 DEF Unforeseen
<1>3. CASE c.op \in Changing
  <2>1. PT!Update(c.list, NewRow(c)) /\ c.op \in {"set_name", "set_parent"}
    BY <1>3 DEF Written, Changing
  <2>2. c.list \in DOMAIN lists
    BY <1>1, <1>3 DEF Undisturbed
  <2>3. outcome' \in {"row_id_error", "invalid_title", "ok", "constraint"}
    BY <2>1, <2>2 DEF PT!Update, PT!Throw, PT!Run
  <2>4. QED
    BY <2>1, <2>3 DEF Unforeseen
<1>4. CASE c.op = "remove_list"
  <2>1. outcome' = "ok"
    BY <1>4, RemoveIsForeseen DEF Written
  <2>2. QED
    BY <2>1 DEF Unforeseen
<1>5. CASE c.op \in Adding
  <2> DEFINE row == NewEntity(c)
  <2>1. Insert(row) /\ PEP!Existing(entities, row) = {}
    BY <1>1, <1>5 DEF Written, Undisturbed, Adding
  <2>2. row \in PEP!Row /\ entitySeq + 1 \notin DOMAIN entities /\ PEP!Kept(entities)
    <3>1. entitySeq \in 0 .. MaxEntity /\ DOMAIN entities \subseteq 1 .. entitySeq
      BY SInvFacts
    <3>2. entitySeq + 1 \notin DOMAIN entities
      BY <3>1, LibraryBounds
    <3>3. QED
      BY <1>5, <3>2, NewEntityIsRow, SInvFacts
  <2> HIDE DEF row
  <2>3. PE!Unique(Inserted(entities, entitySeq + 1, row))
    BY <2>1, <2>2, SameInserted, Constants, PEP!NotFoundOrUnique
  <2>4. outcome' = "ok"
    BY <2>1, <2>3 DEF Insert
  <2>5. QED
    BY <2>4 DEF Unforeseen
<1>6. CASE c.op \in {"remove_track", "clear_tracks"}
  <2>1. outcome' = "ok"
    BY <1>6 DEF Written, RemoveTrack, ClearTracks, PE!Remove, PE!Clear
  <2>2. QED
    BY <2>1 DEF Unforeseen
<1>7. QED
  BY <1>1, <1>2, <1>3, <1>4, <1>5, <1>6 DEF Operations, Looking, Changing, Adding

(* A playlist that no other session has written to is where it was.        *)
LEMMA GetAloneIsForeseen ==
  ASSUME SInv, NEW s \in Users, ~call[s].met, Get(s)
  PROVE  ~Unforeseen(outcome', call[s].op)
<1> DEFINE c == call[s]
<1>1. /\ c \in Calling /\ Undisturbed(c) /\ c.at = "get"
      /\ c.op \in {"create_after", "add_track_after"} \cup Changing
  BY SInvFacts DEF CallOK, InStep, Get
<1>2. c.op \in Changing => RowOf(c) # NoRow
  <2>1. c.op \in Changing => c.list \in DOMAIN lists
    BY <1>1 DEF Undisturbed
  <2>2. c.op \in Changing => RowOf(c) = lists[c.list] /\ lists[c.list] \in PTP!Row
    BY <2>1, SInvFacts, RowsAreRows
  <2>3. QED
    BY <2>2, NoRowIsNoRow
<1>3. \/ outcome' \in {"ok", "invalid_parent", "track_deleted"}
      \/ outcome' = "deleted" /\ RowOf(c) = NoRow /\ c.op \notin {"create_after", "add_track_after"}
  BY DEF Get, GetUndefined, Reads, Throws
<1>4. outcome' \in {"ok", "invalid_parent", "track_deleted"}
  BY <1>1, <1>2, <1>3
<1>5. QED
  BY <1>4 DEF Unforeseen

(* Without company a call gets no error that it could not foresee, and it  *)
(* returns; one that does has met the write of another, or finds playlists *)
(* that an earlier one has linked wrongly (playlist_impl.cpp, crate_impl.cpp).*)
THEOREM NoTroubleWithoutCompany == SharedSpec => TroubleMeansCompany
<1>1. SInv /\ SInv' /\ [SharedNext]_sharedVars
      => [\A s \in Users :
            Busy(s) /\ Acts(s) /\
              (\/ outcome' \in {"deleted", "no_rows"}
               \/ outcome' = "constraint" /\ call[s].op \notin {"set_name", "set_parent"}
               \/ call'[s].at = "hanging")
            => call[s].met \/ "lists" \in astray]_sharedVars
  <2> SUFFICES ASSUME SInv, SInv', [SharedNext]_sharedVars, NEW s \in Users,
                      Busy(s), Acts(s),
                      Unforeseen(outcome', call[s].op) \/ call'[s].at = "hanging",
                      ~call[s].met, "lists" \notin astray
               PROVE  FALSE
    BY DEF Unforeseen
  <2>1. SharedNext
    BY DEF sharedVars, Acts
  <2>2. Proceed(s) \/ Stop(s)
    BY <2>1, OwnStep
  <2>3. call'[s].at # "hanging"
    <3>1. InStep(call'[s]) /\ call'[s] \in Calling
      BY DEF SInv, CallOK, InStep
    <3>2. call'[s].at = "hanging" => call'[s].met
      BY <3>1 DEF InStep
    <3>3. QED
      BY <2>2, <3>2, MetByOthersOnly
  <2>4. Unforeseen(outcome', call[s].op)
    BY <2>3
  <2>5. ~Stop(s)
    BY <2>4 DEF Stop, Throws, Unforeseen
  <2>6. ~LookUp(s) /\ ~LookFor(s)
    BY <2>4 DEF LookUp, LookFor, Throws, Reads, Unforeseen
  <2>7. ~Get(s)
    BY <2>4, GetAloneIsForeseen
  <2>8. ~Write(s)
    <3>1. SUFFICES ASSUME Write(s)
                   PROVE  FALSE
      OBVIOUS
    <3>2. call[s].at = "write" /\ (outcome' \in {"locked", "ok"} \/ Written(call[s]))
      BY <3>1 DEF Write, Throws, Reads
    <3>3. QED
      BY <2>4, <3>2, WriteAloneIsForeseen DEF Unforeseen
  <2>9. QED
    BY <2>2, <2>5, <2>6, <2>7, <2>8 DEF Proceed
<1>2. QED
  BY <1>1, SessionsInvariant, PTL DEF SharedSpec, TroubleMeansCompany

-----------------------------------------------------------------------------
(* The promises.  The calls of one caller, as DjLibrary has them: the      *)
(* tables are read back by their links, and what each statement does to a  *)
(* chain is what the call promises of the sequence.                        *)

(* What DjLibrary and RowProofs call putting into a sequence is the same.  *)
LEMMA InsertAtIsAt ==
  ASSUME NEW S, NEW s \in Seq(S), NEW x, NEW k \in 1 .. Len(s) + 1
  PROVE  Promise!InsertAt(s, k, x) = At(s, k, x)
<1>1. SubSeq(s, 1, k - 1) \o <<x>> \o SubSeq(s, k, Len(s)) = At(s, k, x)
  BY BetweenIsAt, Zenon
<1>2. QED
  BY <1>1, Zenon DEF Promise!InsertAt

(* To put something new in and to take it out again changes nothing.       *)
LEMMA DropFromAt ==
  ASSUME NEW S, NEW s \in Seq(S), NEW x, NEW k \in 1 .. Len(s) + 1,
         \A j \in DOMAIN s : s[j] # x
  PROVE  Promise!Drop(At(s, k, x), x) = s
<1> DEFINE t == At(s, k, x)
<1>1. Len(s) \in Nat /\ DOMAIN s = 1 .. Len(s)
  BY LenProperties
<1>2. DOMAIN t = 1 .. Len(s) + 1
  BY AtIsSeq
<1>3. \A i \in DOMAIN t : t[i] = IF i < k THEN s[i] ELSE IF i = k THEN x ELSE s[i - 1]
  BY <1>2 DEF At
<1>4. \A i \in DOMAIN t : t[i] = x <=> i = k
  BY <1>1, <1>2, <1>3
<1>5. Promise!RemoveAt(t, k) = s
  BY OutOfAt DEF Promise!RemoveAt
<1> HIDE DEF t
<1>6. k \in DOMAIN t /\ Promise!Position(t, x) = k
  BY <1>1, <1>2, <1>4 DEF Promise!Position
<1>7. x \in Promise!ToSet(t)
  BY <1>4, <1>6 DEF Promise!ToSet
<1>8. Promise!Drop(t, x) = s
  BY <1>5, <1>6, <1>7 DEF Promise!Drop
<1>9. QED
  BY <1>8 DEF t

(* What is not there is not taken out.                                     *)
LEMMA DropNothing ==
  ASSUME NEW s, NEW x, \A j \in DOMAIN s : s[j] # x
  PROVE  Promise!Drop(s, x) = s
  BY DEF Promise!Drop, Promise!ToSet

(* In a sequence that holds nothing twice.                                 *)
LEMMA PositionIsPlace ==
  ASSUME NEW s, \A j, k \in DOMAIN s : s[j] = s[k] => j = k, NEW k \in DOMAIN s
  PROVE  Promise!Position(s, s[k]) = k
  BY DEF Promise!Position

(* What a caller sees of the tables: the playlists in order, their names,  *)
(* and the tracks of each in order.                                        *)
Tree(T)        == [p \in {None} \cup DOMAIN T |-> Sorted(T, p)]
Names(T)       == [i \in DOMAIN T |-> T[i].title]
Shown(E, p)    == [k \in DOMAIN Sorted(E, p) |-> E[Sorted(E, p)[k]].track]
Contents(T, E) == [p \in DOMAIN T |-> Shown(E, p)]

(* Sorted is the same operator in all modules.                             *)
LEMMA SameSorted ==
  ASSUME NEW T, NEW p
  PROVE  /\ PT!Sorted(T, p) = Sorted(T, p) /\ PE!Sorted(T, p) = Sorted(T, p)
  BY DEF PT!Sorted, PE!Sorted, Sorted, PT!Kids, PE!Kids, Kids, None, PT!None, PE!None

(* The variables of DjLibrary are read from the tables.                    *)
LEMMA Views ==
  /\ [p \in Owners |-> PT!ChildIds(lists, p)] = Tree(lists)
  /\ [i \in DOMAIN lists |-> lists[i].title] = Names(lists)
  /\ [p \in DOMAIN lists |-> PE!TrackIds(entities, p)] = Contents(lists, entities)
  /\ [p \in Owners' |-> PT!ChildIds(lists', p)] = Tree(lists')
  /\ [i \in DOMAIN lists' |-> lists'[i].title] = Names(lists')
  /\ [p \in DOMAIN lists' |-> PE!TrackIds(entities', p)] = Contents(lists', entities')
<1>1. \A T : [p \in {None} \cup DOMAIN T |-> PT!ChildIds(T, p)] = Tree(T)
  BY SameSorted DEF Tree, PT!ChildIds
<1>2. \A T, E : [p \in DOMAIN T |-> PE!TrackIds(E, p)] = Contents(T, E)
  <2>1. \A E, p : PE!TrackIds(E, p) = Shown(E, p)
    BY SameSorted DEF PE!TrackIds, PE!GetForList, Shown
  <2>2. QED
    BY <2>1 DEF Contents
<1>3. QED
  BY <1>1, <1>2 DEF Names, Owners

(* Between calls the entities belong to lists that there are or were.      *)
EntitiesGiven == \A e \in DOMAIN entities : entities[e].owner \in 1 .. listSeq

(* The inductive invariant: a playlist that is new has no entities yet.    *)
KInv == LInv /\ EntitiesGiven

(* A call that leaves the tables leaves all that a caller sees.            *)
LEMMA Unseen ==
  ASSUME lists' = lists, entities' = entities, tracks' = tracks
  PROVE  UNCHANGED Promise!all
  BY Views DEF Promise!all

ParentIds == 0 .. MaxId
ListIds   == 1 .. MaxId

(* The playlists of every parent are in a chain.                           *)
LEMMA ListsAreChained ==
  ASSUME NEW T, NEW s, ListsOK(T, s)
  PROVE  Chained(T, ParentIds)
<1>1. PTP!Parents = 0 .. MaxId
  BY SameWords, LibraryBounds DEF PTP!Parents, None
<1>2. PTP!Chained(T, PTP!Parents)
  BY Constants, PTP!SoundIsChained DEF ListsOK
<1>3. IsFiniteSet(DOMAIN T)
  <2>1. MaxId \in Int /\ 1 \in Int
    BY LibraryBounds
  <2>2. IsFiniteSet(1 .. MaxId) /\ DOMAIN T \in SUBSET (1 .. MaxId)
    BY <2>1, ListsOKFacts, FS_Interval
  <2>3. QED
    BY <2>2, FS_Subset
<1>4. \A o : PTP!Chain(T, o) <=> Chain(T, o)
  BY SameWords DEF PTP!Chain, Chain
<1>5. QED
  BY <1>1, <1>2, <1>3, <1>4, SameWords DEF PTP!Chained, Chained, ParentIds

(* The entities of every playlist are in a chain.                          *)
LEMMA EntitiesAreChained ==
  ASSUME NEW T, NEW s, EntitiesOK(T, s)
  PROVE  Chained(T, ListIds)
<1>1. PEP!Chained(T, 1 .. MaxId)
  BY Constants, PEP!SoundIsChained DEF EntitiesOK
<1>2. IsFiniteSet(DOMAIN T)
  <2>1. DOMAIN T \subseteq 1 .. MaxEntity
    BY SameEntityWords DEF EntitiesOK, PEP!Sound
  <2>2. QED
    <3>1. MaxEntity \in Int /\ 1 \in Int
      BY LibraryBounds
    <3>2. IsFiniteSet(1 .. MaxEntity) /\ DOMAIN T \in SUBSET (1 .. MaxEntity)
      BY <2>1, <3>1, FS_Interval
    <3>3. QED
      BY <3>2, FS_Subset
<1>3. \A o : PEP!Chain(T, o) <=> Chain(T, o)
  BY SameEntityWords DEF PEP!Chain, Chain
<1>4. QED
  BY <1>1, <1>2, <1>3, SameEntityWords DEF PEP!Chained, Chained, ListIds

(* Where there are no rows, none are read.                                 *)
LEMMA NoKidsNoOrder ==
  ASSUME NEW T, NEW O, Chained(T, O), NEW o \in O, Kids(T, o) = {}
  PROVE  Sorted(T, o) = << >>
<1>1. Sorted(T, o) \in Seq({})
  BY SortedHoldsKids
<1>2. QED
  BY <1>1

(* A playlist without entities has no tracks.                              *)
LEMMA NothingShown ==
  ASSUME NEW E, NEW O, Chained(E, O), NEW o \in O, Kids(E, o) = {}
  PROVE  Shown(E, o) = << >>
<1>1. Sorted(E, o) = << >>
  BY NoKidsNoOrder
<1>2. QED
  BY <1>1 DEF Shown

(* Parents that calls are made with are ids, or none.                      *)
LEMMA OwnersAreIds ==
  ASSUME ListsOK(lists, listSeq)
  PROVE  Owners \subseteq ParentIds /\ DOMAIN lists \subseteq ListIds /\ None \notin DOMAIN lists
<1>1. DOMAIN lists \subseteq 1 .. MaxId /\ None \notin DOMAIN lists
  BY ListsOKFacts
<1>2. 1 .. MaxId \subseteq 0 .. MaxId /\ 0 \in 0 .. MaxId
  BY LibraryBounds
<1>3. QED
  BY <1>1, <1>2 DEF Owners, ParentIds, ListIds, None

(* How playlist_table::add ends.                                           *)
LEMMA AddOutcome ==
  ASSUME NEW row, PT!Add(PT!None, row)
  PROVE  IF outcome' = "ok"
         THEN /\ row.title # BadTitle /\ listSeq' = listSeq + 1
              /\ lists' = PTP!AddTables(lists, listSeq + 1, row)[3]
         ELSE lists' = lists
  BY SameAdd DEF PT!Add, PT!Throw, PT!Run, PT!AddTables

(* How playlist_table::remove ends.                                        *)
LEMMA RemoveOutcome ==
  ASSUME NEW id \in DOMAIN lists, PT!Remove(id)
  PROVE  IF outcome' = "ok" THEN lists' = PTP!RemoveTables(lists, id)[2] ELSE lists' = lists
  BY SameRemove DEF PT!Remove, PT!Run, PT!RemoveTables

(* How playlist_table::update ends.                                        *)
LEMMA UpdateOutcome ==
  ASSUME NEW id \in DOMAIN lists, NEW row, PT!Update(id, row)
  PROVE  IF outcome' = "ok"
         THEN /\ row.title # BadTitle
              /\ \/ /\ row.owner = lists[id].owner /\ row.next = lists[id].next
                    /\ lists' = PTP!Updated(lists, id, row)
                 \/ /\ ~(row.owner = lists[id].owner /\ row.next = lists[id].next)
                    /\ lists' = PTP!MoveTables(lists, id, row)[4]
         ELSE lists' = lists
<1>1. CASE row.owner = lists[id].owner /\ row.next = lists[id].next
  BY <1>1, SameUpdated DEF PT!Update, PT!Throw, PT!Run, PT!UpdateTables
<1>2. CASE ~(row.owner = lists[id].owner /\ row.next = lists[id].next)
  BY <1>2, SameMove DEF PT!Update, PT!Throw, PT!Run, PT!UpdateTables, PT!MoveTables
<1>3. QED
  BY <1>1, <1>2

(* A new playlist before next, or at the end, comes to stand where next did.*)
LEMMA CreatePromised ==
  ASSUME KInv, NEW p \in Owners, NEW n \in PT!AnyTitle, Named(p, n) = {},
         NEW next \in Kids(lists, p) \cup {None}, NEW k \in 1 .. Len(Sorted(lists, p)) + 1,
         k \in DOMAIN Sorted(lists, p) => Sorted(lists, p)[k] = next,
         k = Len(Sorted(lists, p)) + 1 => next = None,
         listSeq < MaxId \/ n = BadTitle, AddList(n, p, next)
  PROVE  IF outcome' = "ok" THEN Promise!CreateAt(p, n, k) ELSE UNCHANGED Promise!all
<1> DEFINE row == PT!MakeRow(n, <<p, next>>, TRUE)
<1> PICK i : i = listSeq + 1
  OBVIOUS
<1>0. /\ ListsOK(lists, listSeq) /\ EntitiesOK(entities, entitySeq)
      /\ entities' = entities /\ tracks' = tracks /\ PT!Add(PT!None, row)
  BY SameWords DEF KInv, LInv, AddList, entityVars, trackVars
<1>1. CASE outcome' # "ok"
  BY <1>0, <1>1, AddOutcome, Unseen
<1>2. CASE outcome' = "ok"
  <2>1. /\ row.title # BadTitle /\ listSeq' = listSeq + 1
        /\ lists' = PTP!AddTables(lists, i, row)[3]
    BY <1>0, <1>2, AddOutcome
  <2>2. /\ lists \in [DOMAIN lists -> PTP!Row] /\ DOMAIN lists \subseteq 1 .. MaxId
        /\ DOMAIN lists \subseteq 1 .. listSeq /\ listSeq \in 0 .. MaxId
        /\ \A j \in DOMAIN lists : lists[j].owner \in Owners
    BY <1>0, ListsOKFacts DEF ListsOK, Owners
  <2>3. row.title = n /\ row.owner = p /\ row.next = next /\ n \in Titles /\ listSeq < MaxId
    BY <2>1 DEF PT!MakeRow, PT!AnyTitle
  <2>4. row \in PTP!Row
    BY <2>2, <2>3, SameWords, LibraryBounds DEF PT!MakeRow, Owners, Kids, None
  <2>5. i \in PTP!Ids \ DOMAIN lists /\ i \in ListIds /\ i \in ParentIds /\ i \notin Owners
    BY <2>2, <2>3, SameWords, LibraryBounds DEF Owners, None, ListIds, ParentIds
  <2> HIDE DEF row
  <2>6. PutBefore(lists', lists, i, p, next)
    <3>1. PTP!PutBefore(lists', lists, i, row.owner, row.next)
      BY <2>1, <2>2, <2>4, <2>5, Constants, PTP!AddShape
    <3>2. QED
      BY <2>3, <3>1 DEF PTP!PutBefore, PutBefore
  <2>7. /\ DOMAIN lists' = DOMAIN lists \cup {i} /\ lists'[i].title = n
        /\ \A j \in DOMAIN lists : lists'[j].title = lists[j].title
    <3>1. PTP!SameNames(lists', PTP!Inserted(lists, i, row))
      BY <2>1, <2>2, <2>4, <2>5, Constants, PTP!AddNames
    <3>2. QED
      BY <2>3, <2>5, <3>1 DEF PTP!SameNames, PTP!Inserted
  <2>8. /\ Chained(lists, ParentIds) /\ Chained(lists', ParentIds)
        /\ Chained(entities, ListIds)
    BY <1>0, AddKeepsLists, ListsAreChained, EntitiesAreChained
  <2>9. /\ \A o \in ParentIds \ {p} : Sorted(lists', o) = Sorted(lists, o)
        /\ Sorted(lists', p) = At(Sorted(lists, p), k, i)
    <3>1. p \in ParentIds /\ next \in Kids(lists, p) \cup {None}
      BY <1>0, OwnersAreIds
    <3>2. \A o \in ParentIds \ {p} : Sorted(lists', o) = Sorted(lists, o)
      BY <2>6, <2>8, <3>1, PutOrderElsewhere
    <3>3. Sorted(lists', p) = At(Sorted(lists, p), k, i)
      BY <2>6, <2>8, <3>1, PutOrder
    <3>4. QED
      BY <3>2, <3>3
  <2>10. Sorted(lists', i) = << >>
    <3>1. Kids(lists', i) = {}
      BY <2>2, <2>5, <2>6 DEF Kids, PutBefore
    <3>2. QED
      BY <2>5, <2>8, <3>1, NoKidsNoOrder
  <2>11. At(Sorted(lists, p), k, i) = Promise!InsertAt(Sorted(lists, p), k, i)
    <3>1. Sorted(lists, p) \in Seq(Kids(lists, p))
      BY <1>0, <2>8, OwnersAreIds, SortedHoldsKids
    <3>2. QED
      BY <3>1, InsertAtIsAt
  <2>12. Tree(lists') = Promise!With([Tree(lists) EXCEPT ![p] = Promise!InsertAt(@, k, i)], i, << >>)
    <3>1. Owners \subseteq ParentIds /\ Owners = {None} \cup DOMAIN lists
      BY <1>0, OwnersAreIds DEF Owners
    <3>2. {None} \cup DOMAIN lists' = Owners \cup {i}
      BY <2>7 DEF Owners
    <3>3. \A o \in Owners \cup {i} : Sorted(lists', o) =
            IF o = i THEN << >>
            ELSE IF o = p THEN Promise!InsertAt(Sorted(lists, p), k, i) ELSE Sorted(lists, o)
      BY <2>5, <2>9, <2>10, <2>11, <3>1
    <3>4. QED
      BY <2>5, <3>1, <3>2, <3>3 DEF Tree, Promise!With
  <2>13. Names(lists') = Promise!With(Names(lists), i, n)
    BY <2>5, <2>7 DEF Names, Promise!With, Owners
  <2>14. Contents(lists', entities') = Promise!With(Contents(lists, entities), i, << >>)
    <3>1. Kids(entities, i) = {}
      BY <2>2 DEF Kids, KInv, EntitiesGiven
    <3>2. Shown(entities, i) = << >>
      BY <2>5, <2>8, <3>1, NothingShown
    <3>3. QED
      BY <1>0, <2>7, <3>2 DEF Contents, Promise!With
  <2>15. \A j \in Promise!ToSet(Tree(lists)[p]) : Names(lists)[j] # n
    <3>1. Tree(lists)[p] = Sorted(lists, p)
      BY DEF Tree, Owners
    <3>2. Sorted(lists, p) \in Seq(Kids(lists, p))
      BY <1>0, <2>8, OwnersAreIds, SortedHoldsKids
    <3>3. \A j \in Promise!ToSet(Tree(lists)[p]) : j \in Kids(lists, p)
      BY <3>1, <3>2 DEF Promise!ToSet
    <3>4. QED
      BY <3>3 DEF Named, Kids, Names
  <2>16. i \in DOMAIN Names(lists') \ DOMAIN Names(lists)
    BY <2>5, <2>7 DEF Names, Owners
  <2>17. Promise!CreateAt(p, n, k)
    BY <1>0, <2>12, <2>13, <2>14, <2>15, <2>16, Views DEF Promise!CreateAt, Promise!NewName
  <2>18. QED
    BY <1>2, <2>17
<1>3. QED
  BY <1>1, <1>2

(* The rows that are read are those of the owner.                          *)
LEMMA SortedIsKids ==
  ASSUME NEW T, NEW O, Chained(T, O), NEW o \in O
  PROVE  Promise!ToSet(Sorted(T, o)) = Kids(T, o)
<1>1. /\ Sorted(T, o) \in Seq(Kids(T, o))
      /\ \A x \in Kids(T, o) : Leq(Sorted(T, o), x, x)
  BY SortedHoldsKids
<1>2. \A k \in DOMAIN Sorted(T, o) : Sorted(T, o)[k] \in Kids(T, o)
  BY <1>1
<1>3. QED
  BY <1>1, <1>2 DEF Promise!ToSet, Leq

(* What is taken out of the rows is dropped from what is read.             *)
LEMMA SortedDrops ==
  ASSUME NEW O, NEW F, NEW G, Chained(F, O), Chained(G, O), NEW id, NEW X,
         TakenOut(F, G, id, X), NEW o \in O, Kids(G, o) \cap X \subseteq {id}
  PROVE  Sorted(F, o) = Promise!Drop(Sorted(G, o), id)
<1>1. /\ Sorted(F, o) \in Seq(Kids(F, o)) /\ Promise!ToSet(Sorted(F, o)) = Kids(F, o)
      /\ Promise!ToSet(Sorted(G, o)) = Kids(G, o)
  BY SortedHoldsKids, SortedIsKids
<1>2. CASE id \notin Kids(G, o)
  <2>1. Sorted(F, o) = Sorted(G, o)
    BY <1>2, TakenOrder
  <2>2. QED
    BY <1>1, <1>2, <2>1 DEF Promise!Drop
<1>3. CASE id \in Kids(G, o)
  <2>1. PICK k \in 1 .. Len(Sorted(F, o)) + 1 : Sorted(G, o) = At(Sorted(F, o), k, id)
    BY <1>3, TakenOrder
  <2>2. id \notin Kids(F, o)
    BY DEF TakenOut, Kids
  <2>3. \A j \in DOMAIN Sorted(F, o) : Sorted(F, o)[j] # id
    BY <1>1, <2>2 DEF Promise!ToSet
  <2>4. QED
    BY <1>1, <2>1, <2>3, DropFromAt
<1>4. QED
  BY <1>2, <1>3

(* The playlist i and all below it, by parentListId.                       *)
Below(T, i) ==
  {j \in DOMAIN T : \A S \in SUBSET DOMAIN T :
     i \in S /\ (\A k \in S : Kids(T, k) \subseteq S) => j \in S}

(* The branch of a playlist, by the rows.                                  *)
LEMMA BranchIsBelow ==
  ASSUME ListsOK(lists, listSeq), NEW i
  PROVE  Promise!Branch(i) = Below(lists, i)
<1>1. \A k \in DOMAIN lists : Promise!ToSet(Tree(lists)[k]) = Kids(lists, k)
  <2>1. \A k \in DOMAIN lists : Tree(lists)[k] = Sorted(lists, k)
    BY DEF Tree
  <2>2. Chained(lists, ParentIds) /\ DOMAIN lists \subseteq ParentIds
    BY ListsAreChained, OwnersAreIds DEF Owners
  <2>3. QED
    BY <2>1, <2>2, SortedIsKids
<1>2. Promise!Branch(i) =
        {j \in DOMAIN lists : \A S \in SUBSET DOMAIN lists :
           i \in S /\ (\A k \in S : Promise!ToSet(Tree(lists)[k]) \subseteq S) => j \in S}
  BY Views DEF Promise!Branch, Names
<1>3. QED
  BY <1>1, <1>2 DEF Below

(* remove_playlist and remove_crate, of a playlist without grandchildren.  *)
LEMMA RemoveListPromised ==
  ASSUME KInv, NEW i \in DOMAIN lists, ~DeepRemove(i), RemoveList(i)
  PROVE  IF outcome' = "ok" THEN Promise!RemoveList(i) ELSE UNCHANGED Promise!all
<1> DEFINE gone == {i} \cup Kids(lists, i)
<1>0. /\ ListsOK(lists, listSeq) /\ entities' = entities /\ tracks' = tracks /\ PT!Remove(i)
  BY DEF KInv, LInv, RemoveList, entityVars, trackVars
<1>1. CASE outcome' # "ok"
  BY <1>0, <1>1, RemoveOutcome, Unseen
<1>2. CASE outcome' = "ok"
  <2>1. lists' = PTP!RemoveTables(lists, i)[2]
    BY <1>0, <1>2, RemoveOutcome
  <2>2. lists \in [DOMAIN lists -> PTP!Row] /\ None \notin DOMAIN lists
    BY <1>0, ListsOKFacts
  <2>3. TakenOut(lists', lists, i, gone)
    <3>1. PTP!TakenOut(lists', lists, i, {i} \cup PTP!Kids(lists, i))
      BY <2>1, <2>2, Constants, PTP!RemoveShape
    <3>2. QED
      BY <3>1, SameWords DEF PTP!TakenOut, TakenOut
  <2>4. \A j \in DOMAIN lists' : lists'[j].title = lists[j].title
    BY <2>1, <2>2, Constants, PTP!RemoveNames
  <2>5. Chained(lists, ParentIds) /\ Chained(lists', ParentIds)
    BY <1>0, RemoveKeepsLists, ListsAreChained
  <2>6. DOMAIN lists' = DOMAIN lists \ gone /\ {None} \cup DOMAIN lists' = Owners \ gone
    <3>1. DOMAIN lists' = DOMAIN lists \ gone
      BY <2>3 DEF TakenOut
    <3>2. None \notin gone
      BY <2>2 DEF Kids
    <3>3. QED
      BY <3>1, <3>2 DEF Owners
  <2>7. gone = Promise!Branch(i)
    <3>1. ASSUME NEW j \in gone, NEW S \in SUBSET DOMAIN lists,
                 i \in S, \A k \in S : Kids(lists, k) \subseteq S
          PROVE  j \in S
      BY <3>1
    <3>2. gone \in SUBSET DOMAIN lists /\ i \in gone
      BY DEF Kids
    <3>3. \A k \in gone : Kids(lists, k) \subseteq gone
      BY DEF DeepRemove
    <3>4. gone = Below(lists, i)
      BY <3>1, <3>2, <3>3 DEF Below
    <3>5. QED
      BY <1>0, <3>4, BranchIsBelow
  <2>8. \A o \in Owners \ gone : Sorted(lists', o) = Promise!Drop(Sorted(lists, o), i)
    <3>1. SUFFICES ASSUME NEW o \in Owners \ gone
                   PROVE  Sorted(lists', o) = Promise!Drop(Sorted(lists, o), i)
      OBVIOUS
    <3>2. Kids(lists, o) \cap gone \subseteq {i}
      BY DEF Kids
    <3>3. o \in ParentIds
      BY <1>0, OwnersAreIds
    <3> HIDE DEF gone
    <3>4. QED
      BY <2>3, <2>5, <3>2, <3>3, SortedDrops
  <2> HIDE DEF gone
  <2>9. Tree(lists') = [o \in DOMAIN Tree(lists) \ gone |-> Promise!Drop(Tree(lists)[o], i)]
    BY <2>6, <2>8 DEF Tree, Owners
  <2>10. Names(lists') = [j \in DOMAIN Names(lists) \ gone |-> Names(lists)[j]]
    BY <2>4, <2>6 DEF Names
  <2>11. Contents(lists', entities')
           = [j \in DOMAIN Contents(lists, entities) \ gone |-> Contents(lists, entities)[j]]
    BY <1>0, <2>6 DEF Contents
  <2>12. Promise!RemoveList(i)
    BY <1>0, <2>7, <2>9, <2>10, <2>11, Views DEF Promise!RemoveList
  <2>13. QED
    BY <1>2, <2>12
<1>3. QED
  BY <1>1, <1>2

(* A row that is changed where it is: nothing moves.                       *)
LEMMA ChangedInPlace ==
  ASSUME ListsOK(lists, listSeq), NEW i \in DOMAIN lists, NEW row \in PTP!Row,
         row.owner = lists[i].owner, row.next = lists[i].next,
         lists' = PTP!Updated(lists, i, row)
  PROVE  /\ DOMAIN lists' = DOMAIN lists /\ lists'[i].title = row.title
         /\ \A j \in DOMAIN lists \ {i} : lists'[j].title = lists[j].title
         /\ Chained(lists', ParentIds)
         /\ \A o \in ParentIds : Sorted(lists', o) = Sorted(lists, o)
<1>1. lists \in [DOMAIN lists -> PTP!Row]
  BY ListsOKFacts
<1>2. PTP!Loose(lists)
  BY <1>1, LibraryBounds DEF PTP!Loose, PTP!LooseRow, PTP!Row, PTP!Ids, PTP!None
<1>3. PTP!SameLinks(lists', [lists EXCEPT ![i] = row])
  BY <1>2, Constants, PTP!UpdatedShape
<1>4. PTP!SameNames(lists', [lists EXCEPT ![i] = row])
  BY <1>2, Constants, PTP!UpdatedNames
<1>5. /\ DOMAIN lists' = DOMAIN lists /\ lists'[i].title = row.title
      /\ \A j \in DOMAIN lists \ {i} : lists'[j].title = lists[j].title
      /\ \A j \in DOMAIN lists : lists'[j].owner = lists[j].owner /\ lists'[j].next = lists[j].next
  BY <1>3, <1>4 DEF PTP!SameLinks, PTP!SameNames
<1>6. /\ Chained(lists, ParentIds)
      /\ \A o : Kids(lists', o) = Kids(lists, o)
  BY <1>5, ListsAreChained DEF Kids
<1>7. Chained(lists', ParentIds)
  <2>1. \A o \in ParentIds : Chain(lists, o)
    BY <1>6 DEF Chained
  <2>2. \A o : \A j \in Kids(lists, o) : lists'[j].next = lists[j].next
    BY <1>5 DEF Kids
  <2>3. \A o \in ParentIds : Chain(lists', o)
    BY <1>6, <2>1, <2>2 DEF Chain
  <2>4. QED
    BY <1>5, <1>6, <2>3 DEF Chained
<1>8. \A o \in ParentIds : Sorted(lists', o) = Sorted(lists, o)
  <2>1. \A o \in ParentIds : \A j \in Kids(lists, o) : lists'[j].next = lists[j].next
    BY <1>5 DEF Kids
  <2>2. QED
    BY <1>6, <1>7, <2>1, SameLinksSameOrder DEF Chained
<1>9. QED
  BY <1>5, <1>7, <1>8

(* set_name.                                                               *)
LEMMA SetNamePromised ==
  ASSUME KInv, NEW i \in DOMAIN lists, NEW n \in PT!AnyTitle, SetName(i, n)
  PROVE  IF outcome' = "ok" THEN Promise!SetName(i, n) ELSE UNCHANGED Promise!all
<1> DEFINE row == [lists[i] EXCEPT !.title = n]
<1>0. /\ ListsOK(lists, listSeq) /\ entities' = entities /\ tracks' = tracks
      /\ PT!Update(i, row)
  BY DEF KInv, LInv, SetName, entityVars, trackVars
<1>1. CASE outcome' # "ok"
  BY <1>0, <1>1, UpdateOutcome, Unseen
<1>2. CASE outcome' = "ok"
  <2>1. lists[i] \in PTP!Row
    BY <1>0, ListsOKFacts
  <2>2. row.owner = lists[i].owner /\ row.next = lists[i].next /\ row.title = n
    BY <2>1 DEF PTP!Row
  <2> HIDE DEF row
  <2>3. row.title # BadTitle /\ lists' = PTP!Updated(lists, i, row)
    BY <1>0, <1>2, <2>2, UpdateOutcome
  <2>4. row \in PTP!Row
    <3>1. n \in Titles
      BY <2>2, <2>3 DEF PT!AnyTitle
    <3>2. QED
      BY <2>1, <3>1, SameWords DEF row
  <2>5. /\ DOMAIN lists' = DOMAIN lists /\ lists'[i].title = n
        /\ \A j \in DOMAIN lists \ {i} : lists'[j].title = lists[j].title
        /\ \A o \in ParentIds : Sorted(lists', o) = Sorted(lists, o)
    BY <1>0, <2>2, <2>3, <2>4, ChangedInPlace
  <2>6. Tree(lists') = Tree(lists)
    BY <1>0, <2>5, OwnersAreIds DEF Tree, Owners
  <2>7. Names(lists') = [Names(lists) EXCEPT ![i] = n]
    BY <2>5 DEF Names
  <2>8. Contents(lists', entities') = Contents(lists, entities)
    BY <1>0, <2>5 DEF Contents
  <2>9. Promise!SetName(i, n)
    BY <1>0, <2>6, <2>7, <2>8, Views DEF Promise!SetName
  <2>10. QED
    BY <1>2, <2>9
<1>3. QED
  BY <1>1, <1>2

(* The table while the row is out of its chain.                            *)
LEMMA UnlinkedIsChained ==
  ASSUME ListsOK(lists, listSeq), NEW i \in DOMAIN lists
  PROVE  /\ TakenOut(PTP!Unlinked(lists, i), lists, i, {i})
         /\ Chained(PTP!Unlinked(lists, i), ParentIds)
<1> DEFINE U == PTP!Unlinked(lists, i)
<1>1. TakenOut(U, lists, i, {i})
  <2>1. PTP!TakenOut(U, lists, i, {i})
    BY ListsOKFacts, Constants, PTP!UnlinkedShape
  <2>2. QED
    BY <2>1 DEF PTP!TakenOut, TakenOut
<1>2. Chained(lists, ParentIds)
  BY ListsAreChained
<1> HIDE DEF U
<1>3. DOMAIN U \subseteq DOMAIN lists /\ \A j \in DOMAIN U : U[j].owner = lists[j].owner
  BY <1>1 DEF TakenOut
<1>4. \A o \in ParentIds : Chain(U, o)
  BY <1>1, <1>2, TakenOutKeepsChain DEF Chained
<1>5. IsFiniteSet(DOMAIN U)
  BY <1>2, <1>3, FS_Subset DEF Chained
<1>6. Chained(U, ParentIds)
  BY <1>2, <1>3, <1>4, <1>5 DEF Chained
<1>7. QED
  BY <1>1, <1>6 DEF U

(* Where the move may go is not in the branch that moves.                  *)
LEMMA NotBelow ==
  ASSUME NEW i \in DOMAIN lists, NEW p, p # i, p \notin PT!Descendants(lists, i)
  PROVE  p \notin Below(lists, i)
<1> DEFINE S == PTP!Descendants(lists, i) \cup {i}
<1>1. p \notin S
  BY SameDescendants
<1>2. S \in SUBSET DOMAIN lists /\ i \in S
  BY DEF PTP!Descendants
<1>3. \A k \in S : Kids(lists, k) \subseteq S
  BY Constants, PTP!DescendantsAreClosed DEF Kids
<1>4. QED
  BY <1>1, <1>2, <1>3 DEF Below

(* set_parent, of the last of its siblings or to the parent it has.        *)
LEMMA SetParentPromised ==
  ASSUME KInv, NEW i \in DOMAIN lists, NEW p \in Owners, ~StaleNext(i, p), SetParent(i, p)
  PROVE  IF outcome' = "ok" THEN Promise!SetParent(i, p) ELSE UNCHANGED Promise!all
<1> DEFINE row == [lists[i] EXCEPT !.owner = p]
           U == PTP!Unlinked(lists, i)
<1>0. ListsOK(lists, listSeq)
  BY DEF KInv, LInv
<1>1. CASE p = i \/ p \in PT!Descendants(lists, i)
  <2>1. outcome' # "ok" /\ lists' = lists /\ entities' = entities /\ tracks' = tracks
    BY <1>1 DEF SetParent, Fail, listVars, entityVars, trackVars
  <2>2. QED
    BY <2>1, Unseen
<1>2. CASE ~(p = i \/ p \in PT!Descendants(lists, i))
  <2>0. entities' = entities /\ tracks' = tracks /\ PT!Update(i, row)
    BY <1>2 DEF SetParent, entityVars, trackVars
  <2>1. CASE outcome' # "ok"
    BY <2>0, <2>1, UpdateOutcome, Unseen
  <2>2. CASE outcome' = "ok"
    <3>1. /\ lists \in [DOMAIN lists -> PTP!Row] /\ DOMAIN lists \subseteq PTP!Ids
          /\ lists[i] \in PTP!Row
      BY <1>0, ListsOKFacts, SameWords
    <3>2. row.owner = p /\ row.next = lists[i].next /\ row.title = lists[i].title
      BY <3>1 DEF PTP!Row
    <3>3. row \in PTP!Row
      BY <1>0, <3>1, OwnersAreIds, SameWords DEF ParentIds
    <3> HIDE DEF row
    <3>4. /\ TakenOut(U, lists, i, {i})
          /\ Chained(U, ParentIds) /\ Chained(lists, ParentIds)
          /\ Owners \subseteq ParentIds /\ i \in ParentIds
      BY <1>0, UnlinkedIsChained, ListsAreChained, OwnersAreIds DEF Owners
    <3> HIDE DEF U
    <3>5. \A o \in Owners : Sorted(U, o) = Promise!Drop(Sorted(lists, o), i)
      BY <3>4, SortedDrops
    <3> DEFINE Moved ==
                 /\ DOMAIN lists' = DOMAIN lists
                 /\ \A j \in DOMAIN lists : lists'[j].title = lists[j].title
                 /\ \A o \in Owners \ {p} : Sorted(lists', o) = Sorted(U, o)
                 /\ \E k \in 1 .. Len(Sorted(U, p)) + 1 : Sorted(lists', p) = At(Sorted(U, p), k, i)
    <3>6. ASSUME p = lists[i].owner
          PROVE  Moved
      <4>1. lists' = PTP!Updated(lists, i, row)
        BY <2>0, <2>2, <3>2, <3>6, UpdateOutcome
      <4>2. /\ DOMAIN lists' = DOMAIN lists /\ lists'[i].title = lists[i].title
            /\ \A j \in DOMAIN lists \ {i} : lists'[j].title = lists[j].title
            /\ \A o \in ParentIds : Sorted(lists', o) = Sorted(lists, o)
        BY <1>0, <3>2, <3>3, <3>6, <4>1, ChangedInPlace
      <4>3. i \in Kids(lists, p) /\ \A o \in Owners \ {p} : i \notin Kids(lists, o)
        BY <3>6 DEF Kids
      <4>4. \A o \in Owners \ {p} : Sorted(U, o) = Sorted(lists, o)
        BY <3>4, <4>3, TakenOrder
      <4>5. \E k \in 1 .. Len(Sorted(U, p)) + 1 : Sorted(lists, p) = At(Sorted(U, p), k, i)
        BY <3>4, <4>3, TakenOrder
      <4>6. QED
        BY <3>4, <4>2, <4>4, <4>5
    <3>7. ASSUME p # lists[i].owner
          PROVE  Moved
      <4>1. row.next = None
        BY <3>2, <3>7 DEF StaleNext
      <4>2. lists' = PTP!MoveTables(lists, i, row)[4]
        BY <2>0, <2>2, <3>2, <3>7, UpdateOutcome
      <4>3. PutBefore(lists', U, i, p, None)
        <5>1. \A o \in PTP!Ids \cup {PTP!None} : PTP!Chain(lists, o)
          BY <1>0 DEF ListsOK, PTP!Sound
        <5>2. PTP!PutBefore(lists', PTP!Unlinked(lists, i), i, row.owner, row.next)
          BY <3>1, <3>3, <4>2, <5>1, Constants, PTP!MoveShape
        <5>3. QED
          BY <3>2, <4>1, <5>2 DEF PTP!PutBefore, PutBefore, U
      <4>4. PTP!SameNames(lists', [lists EXCEPT ![i] = row])
        BY <3>1, <3>3, <4>2, SameWords, Constants, PTP!MoveNames
      <4>5. /\ DOMAIN lists' = DOMAIN lists
            /\ \A j \in DOMAIN lists : lists'[j].title = lists[j].title
        BY <3>2, <4>4 DEF PTP!SameNames
      <4>6. Chained(lists', ParentIds)
        <5>1. row.next \in Kids(lists, row.owner) \cup {None} /\ row.next # i /\ row.owner \in Owners
          BY <1>0, <3>2, <4>1, ListsOKFacts
        <5>2. ListsOK(lists', listSeq')
          BY <1>0, <2>0, <3>3, <5>1, UpdateKeepsLists
        <5>3. QED
          BY <5>2, ListsAreChained
      <4>7. \A o \in Owners \ {p} : Sorted(lists', o) = Sorted(U, o)
        BY <3>4, <4>3, <4>6, PutOrderElsewhere
      <4> DEFINE k == Len(Sorted(U, p)) + 1
      <4>8. k \in 1 .. Len(Sorted(U, p)) + 1 /\ k \notin DOMAIN Sorted(U, p)
        <5>1. Sorted(U, p) \in Seq(Kids(U, p))
          BY <3>4, SortedHoldsKids
        <5>2. QED
          BY <5>1
      <4>9. Sorted(lists', p) = At(Sorted(U, p), k, i)
        <5>1. p \in ParentIds
          BY <3>4
        <5>2. QED
          BY <3>4, <4>3, <4>6, <4>8, <5>1, PutOrder
      <4>10. QED
        BY <4>5, <4>7, <4>8, <4>9
    <3>8. Moved
      BY <3>6, <3>7
    <3>9. PICK k \in 1 .. Len(Sorted(U, p)) + 1 : Sorted(lists', p) = At(Sorted(U, p), k, i)
      BY <3>8
    <3>10. At(Sorted(U, p), k, i) = Promise!InsertAt(Sorted(U, p), k, i)
      <4>1. Sorted(U, p) \in Seq(Kids(U, p))
        BY <3>4, SortedHoldsKids
      <4>2. QED
        BY <4>1, InsertAtIsAt
    <3> DEFINE taken == [o \in DOMAIN Tree(lists) |-> Promise!Drop(Tree(lists)[o], i)]
    <3>11. DOMAIN taken = Owners /\ \A o \in Owners : taken[o] = Sorted(U, o)
      BY <3>5 DEF Tree, Owners
    <3> HIDE DEF taken
    <3>12. Tree(lists') = [taken EXCEPT ![p] = Promise!InsertAt(@, k, i)]
      <4>1. Tree(lists') = [o \in Owners |-> Sorted(lists', o)]
        BY <3>8 DEF Tree, Owners
      <4>2. \A o \in Owners : Sorted(lists', o) =
              IF o = p THEN Promise!InsertAt(taken[p], k, i) ELSE taken[o]
        BY <3>8, <3>9, <3>10, <3>11
      <4>3. taken = [o \in Owners |-> taken[o]]
        BY <3>11 DEF taken
      <4>4. QED
        BY <4>1, <4>2, <4>3
    <3>13. Names(lists') = Names(lists) /\ Contents(lists', entities') = Contents(lists, entities)
      BY <2>0, <3>8 DEF Names, Contents
    <3>14. p \notin Promise!Branch(i)
      BY <1>0, <1>2, NotBelow, BranchIsBelow
    <3>15. k \in 1 .. Len(taken[p]) + 1
      BY <3>9, <3>11
    <3>16. Promise!SetParent(i, p)
      <4>1. UNCHANGED <<Names(lists), Contents(lists, entities), tracks>>
        BY <2>0, <3>13
      <4>2. \E m \in 1 .. Len(taken[p]) + 1 :
              Tree(lists)' = [taken EXCEPT ![p] = Promise!InsertAt(taken[p], m, i)]
        BY <3>12, <3>15
      <4>3. taken = [o \in DOMAIN [q \in Owners |-> PT!ChildIds(lists, q)] |->
                      Promise!Drop([q \in Owners |-> PT!ChildIds(lists, q)][o], i)]
        BY Views DEF taken
      <4>4. QED
        BY <3>14, <4>1, <4>2, <4>3, Views DEF Promise!SetParent
    <3>17. QED
      BY <2>2, <3>16
  <2>3. QED
    BY <2>1, <2>2
<1>3. QED
  BY <1>1, <1>2

(* The tracks of a playlist, each once, in the order of its entities.      *)
LEMMA ShownIsSeq ==
  ASSUME NEW E, NEW s, EntitiesOK(E, s), NEW p \in ListIds
  PROVE  /\ Shown(E, p) \in Seq(1 .. MaxTrack)
         /\ DOMAIN Shown(E, p) = DOMAIN Sorted(E, p) /\ Len(Shown(E, p)) = Len(Sorted(E, p))
         /\ \A k \in DOMAIN Sorted(E, p) : Shown(E, p)[k] = E[Sorted(E, p)[k]].track
         /\ \A t : t \in Promise!ToSet(Shown(E, p)) <=> \E e \in Kids(E, p) : E[e].track = t
         /\ \A e, f \in Kids(E, p) : E[e].track = E[f].track => e = f
         /\ \A j, k \in DOMAIN Shown(E, p) : Shown(E, p)[j] = Shown(E, p)[k] => j = k
<1>1. /\ E \in [DOMAIN E -> PEP!Row] /\ PEP!Unique(E) /\ Chained(E, ListIds)
  BY EntitiesAreChained DEF EntitiesOK, PEP!Sound
<1>2. /\ Sorted(E, p) \in Seq(Kids(E, p)) /\ Promise!ToSet(Sorted(E, p)) = Kids(E, p)
      /\ \A j, k \in DOMAIN Sorted(E, p) : Sorted(E, p)[j] = Sorted(E, p)[k] => j = k
  BY <1>1, SortedHoldsKids, SortedIsKids
<1>3. /\ DOMAIN Sorted(E, p) = 1 .. Len(Sorted(E, p)) /\ Len(Sorted(E, p)) \in Nat
      /\ \A k \in DOMAIN Sorted(E, p) : Sorted(E, p)[k] \in Kids(E, p)
  BY <1>2
<1>4. \A e \in Kids(E, p) : E[e].track \in 1 .. MaxTrack /\ E[e].uuid = Uuid
  BY <1>1, SameEntityWords DEF Kids
<1>5. \A e, f \in Kids(E, p) : E[e].track = E[f].track => e = f
  BY <1>1, <1>4, SameEntityWords DEF PEP!Unique, PEP!Existing, Kids
<1>6. /\ DOMAIN Shown(E, p) = DOMAIN Sorted(E, p)
      /\ \A k \in DOMAIN Sorted(E, p) : Shown(E, p)[k] = E[Sorted(E, p)[k]].track
  BY DEF Shown
<1>7. Shown(E, p) \in [1 .. Len(Sorted(E, p)) -> 1 .. MaxTrack]
  BY <1>3, <1>4 DEF Shown
<1>8. Shown(E, p) \in Seq(1 .. MaxTrack) /\ Len(Shown(E, p)) = Len(Sorted(E, p))
  <2>1. PICK S : S = 1 .. MaxTrack
    OBVIOUS
  <2>2. PICK f : f = Shown(E, p)
    OBVIOUS
  <2>3. PICK m \in Nat : m = Len(Sorted(E, p))
    BY <1>3
  <2>4. f \in [1 .. m -> S]
    BY <1>7, <2>1, <2>2, <2>3
  <2>5. f \in Seq(S) /\ Len(f) = m
    BY <2>4
  <2>6. QED
    BY <2>1, <2>2, <2>3, <2>5
<1>9. \A t : t \in Promise!ToSet(Shown(E, p)) <=> \E e \in Kids(E, p) : E[e].track = t
  BY <1>2, <1>3, <1>6 DEF Promise!ToSet
<1>10. \A j, k \in DOMAIN Shown(E, p) : Shown(E, p)[j] = Shown(E, p)[k] => j = k
  BY <1>2, <1>3, <1>5, <1>6
<1>11. QED
  BY <1>5, <1>6, <1>8, <1>9, <1>10

(* The same entities in the same order are the same tracks.                *)
LEMMA ShownSame ==
  ASSUME NEW E, NEW F, NEW O, Chained(E, O), NEW p \in O, Sorted(F, p) = Sorted(E, p),
         \A e \in Kids(E, p) : F[e].track = E[e].track
  PROVE  Shown(F, p) = Shown(E, p)
<1>1. Sorted(E, p) \in Seq(Kids(E, p))
  BY SortedHoldsKids
<1>2. \A k \in DOMAIN Sorted(E, p) : Sorted(E, p)[k] \in Kids(E, p)
  BY <1>1
<1>3. QED
  BY <1>2 DEF Shown

(* One entity more in the order is its track more in the same place.       *)
LEMMA ShownAt ==
  ASSUME NEW E, NEW s, EntitiesOK(E, s), NEW p \in ListIds, NEW F, NEW id,
         NEW k \in 1 .. Len(Sorted(E, p)) + 1, Sorted(F, p) = At(Sorted(E, p), k, id),
         \A e \in Kids(E, p) : F[e].track = E[e].track
  PROVE  Shown(F, p) = At(Shown(E, p), k, F[id].track)
<1>1. /\ Chained(E, ListIds) /\ Len(Shown(E, p)) = Len(Sorted(E, p))
      /\ \A j \in DOMAIN Sorted(E, p) : Shown(E, p)[j] = E[Sorted(E, p)[j]].track
  BY EntitiesAreChained, ShownIsSeq
<1>2. Sorted(E, p) \in Seq(Kids(E, p))
  BY <1>1, SortedHoldsKids
<1>3. /\ DOMAIN Sorted(E, p) = 1 .. Len(Sorted(E, p)) /\ Len(Sorted(E, p)) \in Nat
      /\ \A j \in DOMAIN Sorted(E, p) : Sorted(E, p)[j] \in Kids(E, p)
  BY <1>2
<1>4. DOMAIN Sorted(F, p) = 1 .. Len(Sorted(E, p)) + 1
  BY DEF At
<1>5. ASSUME NEW j \in 1 .. Len(Sorted(E, p)) + 1
      PROVE  F[Sorted(F, p)[j]].track =
               IF j < k THEN Shown(E, p)[j]
               ELSE IF j = k THEN F[id].track ELSE Shown(E, p)[j - 1]
  <2>1. CASE j < k
    <3>1. j \in DOMAIN Sorted(E, p) /\ Sorted(F, p)[j] = Sorted(E, p)[j]
      BY <1>3, <2>1 DEF At
    <3>2. QED
      BY <1>1, <1>3, <2>1, <3>1
  <2>2. CASE j = k
    BY <2>2 DEF At
  <2>3. CASE j > k
    <3>1. j - 1 \in DOMAIN Sorted(E, p) /\ Sorted(F, p)[j] = Sorted(E, p)[j - 1]
      BY <1>3, <2>3 DEF At
    <3>2. QED
      BY <1>1, <1>3, <2>3, <3>1
  <2>4. QED
    BY <1>3, <2>1, <2>2, <2>3
<1>6. QED
  BY <1>1, <1>4, <1>5 DEF Shown, At

(* A new entity before next, or at the end, puts its track there, or the   *)
(* call changes nothing.                                                   *)
LEMMA EntityPromised ==
  ASSUME KInv, NEW p \in DOMAIN lists, NEW t \in tracks,
         NEW next \in Kids(entities, p) \cup {None}, NEW k \in 1 .. Len(Sorted(entities, p)) + 1,
         k \in DOMAIN Sorted(entities, p) => Sorted(entities, p)[k] = next,
         k = Len(Sorted(entities, p)) + 1 => next = None,
         NEW throw \in BOOLEAN, MayInsertEntity, AddEntity(p, t, next, throw)
  PROVE  /\ lists' = lists /\ tracks' = tracks
         /\ \/ /\ outcome' = "ok" /\ t \notin Promise!ToSet(Shown(entities, p))
               /\ Contents(lists', entities')
                    = [Contents(lists, entities) EXCEPT ![p] = At(Shown(entities, p), k, t)]
            \/ /\ entities' = entities
               /\ outcome' = "ok" => ~throw /\ t \in Promise!ToSet(Shown(entities, p))
<1> DEFINE row == PE!MakeRow(<<p, next>>, t, Uuid)
<1> PICK id : id = entitySeq + 1
  OBVIOUS
<1>0. /\ ListsOK(lists, listSeq) /\ EntitiesOK(entities, entitySeq) /\ TracksOK
      /\ lists' = lists /\ tracks' = tracks
      /\ PE!Add(None, row, throw)
  BY DEF KInv, LInv, AddEntity, listVars, trackVars
<1>1. /\ p \in ListIds /\ p \in 1 .. MaxId /\ t \in 1 .. MaxTrack
      /\ DOMAIN lists \subseteq ListIds /\ entitySeq < MaxEntity
  <2>1. p \in ListIds /\ DOMAIN lists \subseteq ListIds
    BY <1>0, OwnersAreIds
  <2>2. t \in 1 .. MaxTrack
    BY <1>0, MaxTrackAssumption DEF TracksOK
  <2>3. QED
    BY <2>1, <2>2 DEF ListIds, MayInsertEntity
<1>2. /\ PEP!Sound(entities) /\ DOMAIN entities \subseteq 1 .. entitySeq
      /\ entitySeq \in 0 .. MaxEntity /\ entities \in [DOMAIN entities -> PEP!Row]
  BY <1>0 DEF EntitiesOK, PEP!Sound
<1>3. row \in PEP!Row
  <2>1. next \in 0 .. MaxEntity
    BY <1>2, LibraryBounds DEF Kids, None
  <2>2. QED
    BY <1>1, <2>1, SameEntityWords DEF PE!MakeRow
<1>4. row.owner = p /\ row.next = next /\ row.track = t /\ row.uuid = Uuid
  BY DEF PE!MakeRow
<1> HIDE DEF row
<1>5. PEP!Existing(entities, row) # {} <=> t \in Promise!ToSet(Shown(entities, p))
  <2>1. \A e \in Kids(entities, p) : entities[e].uuid = Uuid
    BY <1>2, SameEntityWords DEF Kids
  <2>2. QED
    BY <1>0, <1>1, <1>4, <2>1, ShownIsSeq, SameEntityWords DEF PEP!Existing
<1>6. CASE PEP!Existing(entities, row) # {}
  BY <1>0, <1>5, <1>6, SameEntityTables, SameEntityWords DEF PE!Add
<1>7. CASE PEP!Existing(entities, row) = {} /\ ~PE!Unique(PE!Inserted(entities, entitySeq + 1, row))
  BY <1>0, <1>7, SameEntityTables, SameEntityWords DEF PE!Add
<1>8. CASE PEP!Existing(entities, row) = {} /\ PE!Unique(PE!Inserted(entities, entitySeq + 1, row))
  <2>1. entities' = PEP!Added(entities, id, row) /\ outcome' = "ok"
    BY <1>0, <1>8, SameEntityTables, SameEntityWords DEF PE!Add
  <2>2. id \in PEP!EntityIds \ DOMAIN entities
    BY <1>1, <1>2, SameEntityWords, LibraryBounds
  <2>3. /\ PutBefore(entities', entities, id, p, next)
        /\ PEP!SameData(entities', PEP!Inserted(entities, id, row))
    <3>1. /\ PEP!PutBefore(entities', entities, id, row.owner, row.next)
          /\ PEP!SameData(entities', PEP!Inserted(entities, id, row))
      BY <1>2, <1>3, <2>1, <2>2, Constants, PEP!AddedShape
    <3>2. QED
      BY <1>4, <3>1 DEF PEP!PutBefore, PutBefore
  <2>4. /\ DOMAIN entities' = DOMAIN entities \cup {id} /\ entities'[id].track = t
        /\ \A e \in DOMAIN entities : entities'[e].track = entities[e].track
    BY <1>4, <2>2, <2>3 DEF PEP!SameData, PEP!Inserted, PutBefore
  <2>5. EntitiesOK(entities', entitySeq')
    BY <1>0, <1>1, AddKeepsEntities
  <2>6. Chained(entities, ListIds) /\ Chained(entities', ListIds)
    BY <1>0, <2>5, EntitiesAreChained
  <2>7. /\ \A o \in ListIds \ {p} : Sorted(entities', o) = Sorted(entities, o)
        /\ Sorted(entities', p) = At(Sorted(entities, p), k, id)
    <3>1. \A o \in ListIds \ {p} : Sorted(entities', o) = Sorted(entities, o)
      BY <2>3, <2>6, PutOrderElsewhere
    <3>2. Sorted(entities', p) = At(Sorted(entities, p), k, id)
      BY <1>1, <2>3, <2>6, PutOrder
    <3>3. QED
      BY <3>1, <3>2
  <2>8. \A o : \A e \in Kids(entities, o) : entities'[e].track = entities[e].track
    BY <2>4 DEF Kids
  <2>9. \A o \in ListIds \ {p} : Shown(entities', o) = Shown(entities, o)
    BY <2>6, <2>7, <2>8, ShownSame
  <2>10. Shown(entities', p) = At(Shown(entities, p), k, t)
    BY <1>0, <1>1, <2>4, <2>7, <2>8, ShownAt
  <2>11. Contents(lists', entities')
           = [Contents(lists, entities) EXCEPT ![p] = At(Shown(entities, p), k, t)]
    BY <1>0, <1>1, <2>9, <2>10 DEF Contents
  <2>12. QED
    BY <1>0, <1>5, <1>8, <2>1, <2>11
<1>9. QED
  BY <1>6, <1>7, <1>8

(* playlist::add_track_back, and crate::add_track of a track not there yet.*)
LEMMA AddTrackBackPromised ==
  ASSUME KInv, NEW p \in DOMAIN lists, NEW t \in tracks, MayInsertEntity,
         NEW throw \in BOOLEAN, AddEntity(p, t, None, throw)
  PROVE  IF outcome' = "ok" /\ (throw \/ t \notin Promise!ToSet(Contents(lists, entities)[p]))
         THEN Promise!AddTrackBack(p, t) ELSE UNCHANGED Promise!all
<1>1. ListsOK(lists, listSeq) /\ EntitiesOK(entities, entitySeq) /\ p \in ListIds
  BY OwnersAreIds DEF KInv, LInv
<1> DEFINE k == Len(Sorted(entities, p)) + 1
           s == Shown(entities, p)
<1>2. /\ k \in 1 .. Len(Sorted(entities, p)) + 1 /\ k \notin DOMAIN Sorted(entities, p)
      /\ s \in Seq(1 .. MaxTrack) /\ k = Len(s) + 1
  <2>1. Sorted(entities, p) \in Seq(Kids(entities, p))
    BY <1>1, EntitiesAreChained, SortedHoldsKids
  <2>2. QED
    BY <1>1, <2>1, ShownIsSeq
<1>3. Contents(lists, entities)[p] = s
  BY DEF Contents
<1>4. At(s, k, t) = Append(s, t)
  BY <1>2, AppendIsAt
<1> HIDE DEF k, s
<1>5. /\ lists' = lists /\ tracks' = tracks
      /\ \/ /\ outcome' = "ok" /\ t \notin Promise!ToSet(s)
            /\ Contents(lists', entities')
                 = [Contents(lists, entities) EXCEPT ![p] = At(s, k, t)]
         \/ /\ entities' = entities
            /\ outcome' = "ok" => ~throw /\ t \in Promise!ToSet(s)
  BY <1>2, EntityPromised DEF k, s
<1>6. CASE entities' = entities /\ (outcome' = "ok" => ~throw /\ t \in Promise!ToSet(s))
  <2>1. UNCHANGED Promise!all
    BY <1>5, <1>6, Unseen
  <2>2. QED
    BY <1>3, <1>6, <2>1
<1>7. CASE /\ outcome' = "ok" /\ t \notin Promise!ToSet(s)
           /\ Contents(lists', entities')
                = [Contents(lists, entities) EXCEPT ![p] = Append(Contents(lists, entities)[p], t)]
  <2>1. t \notin Promise!ToSet(Contents(lists, entities)[p])
    BY <1>3, <1>7
  <2>2. Promise!AddTrackBack(p, t)
    BY <1>5, <1>7, <2>1, Views DEF Promise!AddTrackBack, Promise!SetContent
  <2>3. QED
    BY <1>7, <2>1, <2>2
<1>8. QED
  BY <1>3, <1>4, <1>5, <1>6, <1>7

(* The place after the k-th row is before the row it is linked to.         *)
LEMMA PlaceAfter ==
  ASSUME NEW T, NEW O, Chained(T, O), NEW o \in O, NEW k \in DOMAIN Sorted(T, o)
  PROVE  /\ k + 1 \in 1 .. Len(Sorted(T, o)) + 1
         /\ T[Sorted(T, o)[k]].next \in Kids(T, o) \cup {None}
         /\ k + 1 \in DOMAIN Sorted(T, o) => Sorted(T, o)[k + 1] = T[Sorted(T, o)[k]].next
         /\ k + 1 = Len(Sorted(T, o)) + 1 => T[Sorted(T, o)[k]].next = None
<1> DEFINE s == Sorted(T, o)
<1>1. Walk(Kids(T, o), Links(T, o), s, None) /\ Chain(T, o)
  BY ChainIsLinked DEF Chained
<1> HIDE DEF s
<1>2. /\ s \in Seq(Kids(T, o)) /\ DOMAIN s = 1 .. Len(s) /\ Len(s) \in Nat
      /\ s # << >> => Links(T, o)[s[Len(s)]] = None
      /\ \A j \in 1 .. Len(s) - 1 : Links(T, o)[s[j]] = s[j + 1]
  BY <1>1 DEF Walk
<1>3. k \in 1 .. Len(s) /\ s[k] \in Kids(T, o) /\ s # << >>
  BY <1>2 DEF s
<1>4. Links(T, o)[s[k]] = T[s[k]].next
  BY <1>3 DEF Links
<1>5. T[s[k]].next \in Kids(T, o) \cup {None}
  BY <1>1, <1>3 DEF Chain
<1>6. k + 1 \in DOMAIN s => s[k + 1] = T[s[k]].next
  BY <1>2, <1>3, <1>4
<1>7. k + 1 = Len(s) + 1 => T[s[k]].next = None
  BY <1>2, <1>3, <1>4
<1>8. QED
  BY <1>2, <1>3, <1>5, <1>6, <1>7 DEF s

(* crate::add_track.                                                       *)
LEMMA AddTrackPromised ==
  ASSUME KInv, NEW p \in DOMAIN lists, NEW t \in tracks, MayInsertEntity, AddTrack(p, t)
  PROVE  IF outcome' = "ok" THEN Promise!AddTrack(p, t) ELSE UNCHANGED Promise!all
<1>1. IF outcome' = "ok" /\ (FALSE \/ t \notin Promise!ToSet(Contents(lists, entities)[p]))
      THEN Promise!AddTrackBack(p, t) ELSE UNCHANGED Promise!all
  BY AddTrackBackPromised DEF AddTrack
<1>2. QED
  BY <1>1, Views DEF Promise!AddTrack

(* playlist::add_track_after.                                              *)
LEMMA AddTrackAfterPromised ==
  ASSUME KInv, NEW p \in DOMAIN lists, NEW t \in tracks, NEW a \in tracks, MayInsertEntity,
         AddTrackAfter(p, t, a)
  PROVE  IF outcome' = "ok" THEN Promise!AddTrackAfter(p, t, a) ELSE UNCHANGED Promise!all
<1> DEFINE found == PE!Found(entities, p, a)
           s == Shown(entities, p)
<1>1. /\ ListsOK(lists, listSeq) /\ EntitiesOK(entities, entitySeq) /\ p \in ListIds
      /\ Chained(entities, ListIds)
  BY OwnersAreIds, EntitiesAreChained DEF KInv, LInv
<1>2. CASE found = {}
  <2>1. outcome' # "ok" /\ lists' = lists /\ entities' = entities /\ tracks' = tracks
    BY <1>2 DEF AddTrackAfter, Fail, listVars, entityVars, trackVars
  <2>2. QED
    BY <2>1, Unseen
<1>3. CASE found # {}
  <2>1. PICK e \in found : e = CHOOSE x \in found : TRUE
    BY <1>3
  <2>2. AddEntity(p, t, entities[e].next, TRUE)
    BY <1>3, <2>1 DEF AddTrackAfter
  <2>3. e \in Kids(entities, p) /\ entities[e].track = a
    BY <2>1, SameEntityWords DEF PE!Found
  <2>4. PICK j \in DOMAIN Sorted(entities, p) : Sorted(entities, p)[j] = e
    BY <1>1, <2>3, SortedIsKids DEF Promise!ToSet
  <2>5. /\ j + 1 \in 1 .. Len(Sorted(entities, p)) + 1
        /\ entities[e].next \in Kids(entities, p) \cup {None}
        /\ j + 1 \in DOMAIN Sorted(entities, p) => Sorted(entities, p)[j + 1] = entities[e].next
        /\ j + 1 = Len(Sorted(entities, p)) + 1 => entities[e].next = None
    BY <1>1, <2>4, PlaceAfter
  <2>6. /\ lists' = lists /\ tracks' = tracks
        /\ \/ /\ outcome' = "ok" /\ t \notin Promise!ToSet(s)
              /\ Contents(lists', entities')
                   = [Contents(lists, entities) EXCEPT ![p] = At(s, j + 1, t)]
           \/ entities' = entities /\ outcome' # "ok"
    BY <2>2, <2>5, EntityPromised
  <2>7. /\ s \in Seq(1 .. MaxTrack) /\ Len(s) = Len(Sorted(entities, p))
        /\ j \in DOMAIN s /\ s[j] = a /\ a \in Promise!ToSet(s)
        /\ \A m, n \in DOMAIN s : s[m] = s[n] => m = n
    BY <1>1, <2>3, <2>4, ShownIsSeq
  <2> HIDE DEF s
  <2>8. Promise!Position(s, a) = j
    BY <2>7, PositionIsPlace
  <2>9. At(s, j + 1, t) = Promise!InsertAt(s, j + 1, t)
    BY <2>5, <2>7, InsertAtIsAt
  <2>10. Contents(lists, entities)[p] = s
    BY DEF Contents, s
  <2>11. CASE entities' = entities /\ outcome' # "ok"
    BY <2>6, <2>11, Unseen
  <2>12. CASE /\ outcome' = "ok" /\ t \notin Promise!ToSet(s)
              /\ Contents(lists', entities')
                   = [Contents(lists, entities) EXCEPT ![p] = At(s, j + 1, t)]
    <3>1. /\ t \notin Promise!ToSet(Contents(lists, entities)[p])
          /\ a \in Promise!ToSet(Contents(lists, entities)[p])
          /\ Contents(lists', entities') =
               [Contents(lists, entities) EXCEPT ![p] =
                  Promise!InsertAt(Contents(lists, entities)[p],
                                   Promise!Position(Contents(lists, entities)[p], a) + 1, t)]
      BY <2>7, <2>8, <2>9, <2>10, <2>12
    <3>2. Promise!AddTrackAfter(p, t, a)
      BY <2>6, <3>1, Views DEF Promise!AddTrackAfter, Promise!SetContent
    <3>3. QED
      BY <2>12, <3>2
  <2>13. QED
    BY <2>6, <2>11, <2>12
<1>4. QED
  BY <1>2, <1>3

(* remove_track, where the id of the track is that of its entity.          *)
LEMMA RemoveTrackPromised ==
  ASSUME KInv, NEW p \in DOMAIN lists, NEW t \in tracks, ~EntityId(p, t), RemoveTrack(p, t)
  PROVE  IF outcome' = "ok" THEN Promise!RemoveTrack(p, t) ELSE UNCHANGED Promise!all
<1>0. /\ ListsOK(lists, listSeq) /\ EntitiesOK(entities, entitySeq) /\ p \in ListIds
      /\ DOMAIN lists \subseteq ListIds /\ tracks \subseteq 1 .. MaxTrack
      /\ Chained(entities, ListIds) /\ outcome' = "ok" /\ lists' = lists /\ tracks' = tracks
  BY OwnersAreIds, EntitiesAreChained, MaxTrackAssumption
     DEF KInv, LInv, TracksOK, RemoveTrack, PE!Remove, listVars, trackVars
<1>1. \A e \in Kids(entities, p) : entities[e].track = t <=> e = t
  BY SameEntityWords DEF EntityId, PE!Found
<1> DEFINE Taken == Contents(lists', entities')
                     = [Contents(lists, entities) EXCEPT ![p] = Promise!Drop(Shown(entities, p), t)]
<1>2. ASSUME t \notin Kids(entities, p)
      PROVE  Taken
  <2>1. entities' = entities
    BY <1>2, SameEntityWords DEF RemoveTrack, PE!Remove
  <2>2. \A k \in DOMAIN Shown(entities, p) : Shown(entities, p)[k] # t
    <3>1. t \notin Promise!ToSet(Shown(entities, p))
      BY <1>0, <1>1, <1>2, ShownIsSeq
    <3>2. QED
      BY <3>1 DEF Promise!ToSet
  <2>3. Promise!Drop(Shown(entities, p), t) = Shown(entities, p)
    BY <2>2, DropNothing
  <2>4. QED
    BY <1>0, <2>1, <2>3 DEF Contents
<1>3. ASSUME t \in Kids(entities, p)
      PROVE  Taken
  <2>1. entities' = PEP!Deleted(entities, t) /\ entitySeq' = entitySeq
    BY <1>3, SameEntityWords, SameEntityTables DEF RemoveTrack, PE!Remove
  <2>2. t \in DOMAIN entities /\ PEP!Sound(entities)
    BY <1>0, <1>3 DEF Kids, EntitiesOK
  <2>3. TakenOut(entities', entities, t, {t}) /\ PEP!SameData(entities', entities)
    <3>1. PEP!TakenOut(entities', entities, t, {t}) /\ PEP!SameData(entities', entities)
      BY <2>1, <2>2, Constants, PEP!DeletedShape
    <3>2. QED
      BY <3>1 DEF PEP!TakenOut, TakenOut
  <2>4. /\ DOMAIN entities' = DOMAIN entities \ {t}
        /\ \A e \in DOMAIN entities' : entities'[e].track = entities[e].track
    BY <2>3 DEF TakenOut, PEP!SameData
  <2>5. EntitiesOK(entities', entitySeq')
    <3>1. PEP!Sound(entities')
      BY <2>1, <2>2, Constants, PEP!DeletedIsSound
    <3>2. QED
      BY <1>0, <2>1, <2>4, <3>1 DEF EntitiesOK
  <2>6. Chained(entities', ListIds)
    BY <2>5, EntitiesAreChained
  <2>7. ASSUME NEW o \in ListIds \ {p}
        PROVE  Shown(entities', o) = Shown(entities, o)
    <3>1. t \notin Kids(entities, o)
      BY <1>3 DEF Kids
    <3>2. Sorted(entities', o) = Sorted(entities, o)
      BY <1>0, <2>3, <2>6, <3>1, TakenOrder
    <3>3. \A e \in Kids(entities, o) : entities'[e].track = entities[e].track
      BY <2>4, <3>1 DEF Kids
    <3>4. QED
      BY <1>0, <3>2, <3>3, ShownSame
  <2>8. PICK k \in 1 .. Len(Sorted(entities', p)) + 1 :
          Sorted(entities, p) = At(Sorted(entities', p), k, t)
    BY <1>0, <1>3, <2>3, <2>6, TakenOrder
  <2>9. Shown(entities, p) = At(Shown(entities', p), k, t)
    <3>1. \A e \in Kids(entities', p) : entities[e].track = entities'[e].track
      BY <2>4 DEF Kids
    <3>2. Shown(entities, p) = At(Shown(entities', p), k, entities[t].track)
      BY <1>0, <2>5, <2>8, <3>1, ShownAt
    <3>3. QED
      BY <1>1, <1>3, <3>2
  <2>10. /\ Shown(entities', p) \in Seq(1 .. MaxTrack) /\ k \in 1 .. Len(Shown(entities', p)) + 1
         /\ \A j \in DOMAIN Shown(entities', p) : Shown(entities', p)[j] # t
    <3>1. \A e \in Kids(entities', p) : entities'[e].track # t
      BY <1>1, <2>3, <2>4 DEF Kids, TakenOut
    <3>2. /\ Shown(entities', p) \in Seq(1 .. MaxTrack)
          /\ Len(Shown(entities', p)) = Len(Sorted(entities', p))
          /\ t \notin Promise!ToSet(Shown(entities', p))
      BY <1>0, <2>5, <3>1, ShownIsSeq
    <3>3. \A j \in DOMAIN Shown(entities', p) : Shown(entities', p)[j] # t
      BY <3>2 DEF Promise!ToSet
    <3>4. QED
      BY <2>8, <3>2, <3>3
  <2>11. Promise!Drop(Shown(entities, p), t) = Shown(entities', p)
    BY <2>9, <2>10, DropFromAt
  <2>12. QED
    BY <1>0, <2>7, <2>11 DEF Contents
<1>4. Taken
  BY <1>2, <1>3
<1>5. Shown(entities, p) = Contents(lists, entities)[p]
  BY DEF Contents
<1>6. Promise!RemoveTrack(p, t)
  BY <1>0, <1>4, <1>5, Views DEF Promise!RemoveTrack, Promise!SetContent
<1>7. QED
  BY <1>0, <1>6

(* clear_tracks.                                                           *)
LEMMA ClearTracksPromised ==
  ASSUME KInv, NEW p \in DOMAIN lists, ClearTracks(p)
  PROVE  IF outcome' = "ok" THEN Promise!ClearTracks(p) ELSE UNCHANGED Promise!all
<1>0. /\ ListsOK(lists, listSeq) /\ EntitiesOK(entities, entitySeq) /\ p \in ListIds
      /\ DOMAIN lists \subseteq ListIds /\ Chained(entities, ListIds) /\ outcome' = "ok"
      /\ lists' = lists /\ tracks' = tracks /\ entitySeq' = entitySeq
      /\ entities' = Without(entities, Kids(entities, p))
  BY OwnersAreIds, EntitiesAreChained
     DEF KInv, LInv, ClearTracks, PE!Clear, listVars, trackVars, PE!Without, PE!Kids, Without, Kids
<1>1. /\ DOMAIN entities' = DOMAIN entities \ Kids(entities, p)
      /\ \A e \in DOMAIN entities' : entities'[e] = entities[e]
  BY <1>0 DEF Without
<1>2. Chained(entities', ListIds)
  <2>1. entities' = PEP!Without(entities, PEP!Kids(entities, p))
    BY <1>0 DEF Without, Kids, PEP!Without, PEP!Kids
  <2>2. PEP!Sound(entities')
    BY <1>0, <2>1, Constants, PEP!ClearedIsSound DEF EntitiesOK
  <2>3. EntitiesOK(entities', entitySeq')
    BY <1>0, <1>1, <2>2 DEF EntitiesOK
  <2>4. QED
    BY <2>3, EntitiesAreChained
<1>3. Shown(entities', p) = << >>
  <2>1. Kids(entities', p) = {}
    BY <1>1 DEF Kids
  <2>2. QED
    BY <1>0, <1>2, <2>1, NothingShown
<1>4. ASSUME NEW o \in ListIds \ {p}
      PROVE  Shown(entities', o) = Shown(entities, o)
  <2>1. /\ Kids(entities', o) = Kids(entities, o)
        /\ \A e \in Kids(entities, o) : entities'[e] = entities[e]
    BY <1>1 DEF Kids
  <2>2. Sorted(entities', o) = Sorted(entities, o)
    BY <1>0, <1>2, <2>1, SameLinksSameOrder DEF Chained
  <2>3. QED
    BY <1>0, <2>1, <2>2, ShownSame
<1>5. Contents(lists', entities') = [Contents(lists, entities) EXCEPT ![p] = << >>]
  BY <1>0, <1>3, <1>4 DEF Contents
<1>6. Promise!ClearTracks(p)
  BY <1>0, <1>5, Views DEF Promise!ClearTracks, Promise!SetContent
<1>7. QED
  BY <1>0, <1>6

(* database::create_track.                                                 *)
LEMMA CreateTrackPromised ==
  ASSUME KInv, CreateTrack
  PROVE  IF outcome' = "ok" THEN Promise!CreateTrack ELSE UNCHANGED Promise!all
<1>1. /\ lists' = lists /\ entities' = entities /\ outcome' = "ok"
      /\ tracks' = tracks \cup {trackSeq + 1}
  BY DEF CreateTrack, listVars, entityVars
<1>2. trackSeq + 1 \notin tracks
  BY MaxTrackAssumption DEF KInv, LInv, TracksOK
<1>3. Promise!CreateTrack
  BY <1>1, <1>2, Views DEF Promise!CreateTrack
<1>4. QED
  BY <1>1, <1>3

(* database::remove_track, of a track in no playlist.                      *)
LEMMA DropTrackPromised ==
  ASSUME KInv, NEW t \in tracks, ~ListedTrack(t), DropTrack(t)
  PROVE  IF outcome' = "ok" THEN Promise!DropTrack(t) ELSE UNCHANGED Promise!all
<1>1. /\ lists' = lists /\ entities' = entities /\ outcome' = "ok" /\ tracks' = tracks \ {t}
      /\ ListsOK(lists, listSeq) /\ EntitiesOK(entities, entitySeq)
  BY DEF DropTrack, listVars, entityVars, KInv, LInv
<1>2. \A p \in DOMAIN lists : Promise!Drop(Contents(lists, entities)[p], t) = Contents(lists, entities)[p]
  <2> SUFFICES ASSUME NEW p \in DOMAIN lists
               PROVE  Promise!Drop(Contents(lists, entities)[p], t) = Contents(lists, entities)[p]
    OBVIOUS
  <2>1. p \in ListIds
    BY <1>1, OwnersAreIds
  <2>2. \A e \in Kids(entities, p) : entities[e].track # t
    BY DEF ListedTrack, Kids
  <2>3. t \notin Promise!ToSet(Shown(entities, p))
    BY <1>1, <2>1, <2>2, ShownIsSeq
  <2>4. \A k \in DOMAIN Shown(entities, p) : Shown(entities, p)[k] # t
    BY <2>3 DEF Promise!ToSet
  <2>5. Promise!Drop(Shown(entities, p), t) = Shown(entities, p)
    BY <2>4, DropNothing
  <2>6. QED
    BY <2>5 DEF Contents
<1>3. Contents(lists', entities')
        = [p \in DOMAIN Contents(lists, entities) |-> Promise!Drop(Contents(lists, entities)[p], t)]
  BY <1>1, <1>2 DEF Contents
<1>4. Promise!DropTrack(t)
  BY <1>1, <1>3, Views DEF Promise!DropTrack
<1>5. QED
  BY <1>1, <1>4

(* create_root_playlist, create_sub_playlist and those of crates.          *)
LEMMA CreateCallPromised ==
  ASSUME KInv, NEW p \in Owners, NEW n \in PT!AnyTitle, MayInsertList(n), Create(p, n)
  PROVE  IF outcome' = "ok" THEN Promise!Create(p, n) ELSE UNCHANGED Promise!all
<1>1. CASE Named(p, n) # {}
  <2>1. outcome' # "ok" /\ lists' = lists /\ entities' = entities /\ tracks' = tracks
    BY <1>1 DEF Create, Fail, listVars, entityVars, trackVars
  <2>2. QED
    BY <2>1, Unseen
<1>2. CASE Named(p, n) = {}
  <2>1. AddList(n, p, None) /\ (listSeq < MaxId \/ n = BadTitle)
    BY <1>2 DEF Create, MayInsertList
  <2> PICK k : k = Len(Sorted(lists, p)) + 1
    OBVIOUS
  <2>2. k \in 1 .. Len(Sorted(lists, p)) + 1 /\ k \notin DOMAIN Sorted(lists, p)
    <3>1. Chained(lists, ParentIds) /\ p \in ParentIds
      BY ListsAreChained, OwnersAreIds DEF KInv, LInv
    <3>2. Sorted(lists, p) \in Seq(Kids(lists, p))
      BY <3>1, SortedHoldsKids
    <3>3. QED
      BY <3>2
  <2>3. IF outcome' = "ok" THEN Promise!CreateAt(p, n, k) ELSE UNCHANGED Promise!all
    BY <1>2, <2>1, <2>2, CreatePromised
  <2>4. [q \in Owners |-> PT!ChildIds(lists, q)][p] = Sorted(lists, p)
    BY Views DEF Tree, Owners
  <2>5. QED
    BY <2>3, <2>4 DEF Promise!Create, Promise!CreateAt
<1>3. QED
  BY <1>1, <1>2

(* create_root_playlist_after, create_sub_playlist_after and those of crates.*)
LEMMA CreateAfterPromised ==
  ASSUME KInv, NEW p \in Owners, NEW n \in PT!AnyTitle, NEW a \in DOMAIN lists,
         MayInsertList(n), CreateAfter(p, n, a)
  PROVE  IF outcome' = "ok" THEN Promise!CreateAfter(p, n, a) ELSE UNCHANGED Promise!all
<1>1. CASE Named(p, n) # {} \/ lists[a].owner # p
  <2>1. outcome' # "ok" /\ lists' = lists /\ entities' = entities /\ tracks' = tracks
    BY <1>1 DEF CreateAfter, Fail, listVars, entityVars, trackVars
  <2>2. QED
    BY <2>1, Unseen
<1>2. CASE Named(p, n) = {} /\ lists[a].owner = p
  <2>1. AddList(n, p, lists[a].next) /\ (listSeq < MaxId \/ n = BadTitle)
    BY <1>2 DEF CreateAfter, MayInsertList
  <2>2. Chained(lists, ParentIds) /\ p \in ParentIds /\ a \in Kids(lists, p)
    BY <1>2, ListsAreChained, OwnersAreIds DEF KInv, LInv, Kids
  <2>3. PICK j \in DOMAIN Sorted(lists, p) : Sorted(lists, p)[j] = a
    BY <2>2, SortedIsKids DEF Promise!ToSet
  <2>4. /\ j + 1 \in 1 .. Len(Sorted(lists, p)) + 1
        /\ lists[a].next \in Kids(lists, p) \cup {None}
        /\ j + 1 \in DOMAIN Sorted(lists, p) => Sorted(lists, p)[j + 1] = lists[a].next
        /\ j + 1 = Len(Sorted(lists, p)) + 1 => lists[a].next = None
    BY <2>2, <2>3, PlaceAfter
  <2>5. IF outcome' = "ok" THEN Promise!CreateAt(p, n, j + 1) ELSE UNCHANGED Promise!all
    BY <1>2, <2>1, <2>4, CreatePromised
  <2>6. Promise!Position(Sorted(lists, p), a) = j /\ a \in Promise!ToSet(Sorted(lists, p))
    BY <2>2, <2>3, SortedHoldsKids, SortedIsKids, PositionIsPlace
  <2>7. [q \in Owners |-> PT!ChildIds(lists, q)][p] = Sorted(lists, p)
    BY Views DEF Tree, Owners
  <2>8. QED
    BY <2>5, <2>6, <2>7 DEF Promise!CreateAfter, Promise!CreateAt
<1>3. QED
  BY <1>1, <1>2

-----------------------------------------------------------------------------
(* A new entity belongs to a playlist that there is.                       *)
LEMMA AddKeepsGiven ==
  ASSUME KInv, NEW p \in DOMAIN lists, NEW t \in tracks, MayInsertEntity,
         NEW next \in Kids(entities, p) \cup {None}, NEW throw, AddEntity(p, t, next, throw)
  PROVE  EntitiesGiven'
<1> DEFINE row == PE!MakeRow(<<p, next>>, t, Uuid)
<1> PICK id : id = entitySeq + 1
  OBVIOUS
<1>0. /\ ListsOK(lists, listSeq) /\ EntitiesOK(entities, entitySeq) /\ TracksOK
      /\ lists' = lists /\ listSeq' = listSeq
      /\ PE!Add(None, row, throw)
  BY DEF KInv, LInv, AddEntity, listVars, trackVars
<1>1. p \in 1 .. listSeq /\ p \in 1 .. MaxId /\ t \in 1 .. MaxTrack /\ entitySeq < MaxEntity
  BY <1>0, ListsOKFacts, MaxTrackAssumption DEF ListsOK, TracksOK, MayInsertEntity
<1>2. /\ PEP!Sound(entities) /\ DOMAIN entities \subseteq 1 .. entitySeq
      /\ entitySeq \in 0 .. MaxEntity /\ entities \in [DOMAIN entities -> PEP!Row]
  BY <1>0 DEF EntitiesOK, PEP!Sound
<1>3. CASE entities' = entities
  BY <1>0, <1>3 DEF KInv, EntitiesGiven
<1>4. CASE entities' = PEP!Added(entities, id, row)
  <2>1. row \in PEP!Row /\ row.owner = p
    <3>1. next \in 0 .. MaxEntity
      BY <1>2, LibraryBounds DEF Kids, None
    <3>2. QED
      BY <1>1, <3>1, SameEntityWords DEF PE!MakeRow
  <2>2. id \in PEP!EntityIds \ DOMAIN entities
    BY <1>1, <1>2, SameEntityWords, LibraryBounds
  <2> HIDE DEF row
  <2>3. PEP!PutBefore(entities', entities, id, row.owner, row.next)
    BY <1>2, <1>4, <2>1, <2>2, Constants, PEP!AddedShape
  <2>4. QED
    BY <1>0, <1>1, <2>1, <2>3 DEF PEP!PutBefore, KInv, EntitiesGiven
<1>5. QED
  BY <1>0, <1>3, <1>4, SameEntityTables, SameEntityWords DEF PE!Add

(* So does every other, after every call on the tracks of a playlist.      *)
LEMMA EntityCallKeepsGiven ==
  ASSUME KInv, EntityCall
  PROVE  EntitiesGiven'
<1>0. /\ ListsOK(lists, listSeq) /\ EntitiesOK(entities, entitySeq) /\ EntitiesGiven
      /\ PEP!Sound(entities) /\ lists' = lists /\ listSeq' = listSeq
  BY CallsLeaveAlone DEF KInv, LInv, EntitiesOK, listVars
<1>1. ASSUME NEW p \in DOMAIN lists, NEW t \in tracks, MayInsertEntity,
             AddTrackBack(p, t) \/ AddTrack(p, t)
      PROVE  EntitiesGiven'
  BY <1>1, AddKeepsGiven DEF AddTrackBack, AddTrack
<1>2. ASSUME NEW p \in DOMAIN lists, NEW t \in tracks, NEW a \in tracks, MayInsertEntity,
             AddTrackAfter(p, t, a)
      PROVE  EntitiesGiven'
  <2> DEFINE found == PE!Found(entities, p, a)
  <2>1. CASE found = {}
    BY <1>0, <1>2, <2>1 DEF AddTrackAfter, Fail, entityVars, EntitiesGiven
  <2>2. CASE found # {}
    <3>1. PICK e \in found : e = CHOOSE x \in found : TRUE
      BY <2>2
    <3>2. AddEntity(p, t, entities[e].next, TRUE)
      BY <1>2, <2>2, <3>1 DEF AddTrackAfter
    <3>3. e \in Kids(entities, p)
      BY <3>1, SameEntityWords DEF PE!Found
    <3>4. Chain(entities, p)
      BY <1>0, OwnersAreIds, EntitiesAreChained DEF Chained
    <3>5. entities[e].next \in Kids(entities, p) \cup {None}
      BY <3>3, <3>4 DEF Chain
    <3>6. QED
      BY <1>2, <3>2, <3>5, AddKeepsGiven
  <2>3. QED
    BY <2>1, <2>2
<1>3. ASSUME \A e \in DOMAIN entities' :
               e \in DOMAIN entities /\ entities'[e].owner = entities[e].owner
      PROVE  EntitiesGiven'
  BY <1>0, <1>3 DEF EntitiesGiven
<1>4. ASSUME NEW p \in DOMAIN lists, NEW t \in tracks, RemoveTrack(p, t)
      PROVE  EntitiesGiven'
  <2>1. CASE entities' = entities
    BY <1>3, <2>1
  <2>2. CASE t \in DOMAIN entities /\ entities' = PEP!Deleted(entities, t)
    <3>1. PEP!TakenOut(entities', entities, t, {t})
      BY <1>0, <2>2, Constants, PEP!DeletedShape
    <3>2. QED
      BY <1>3, <3>1 DEF PEP!TakenOut
  <2>3. QED
    BY <1>4, <2>1, <2>2, SameEntityTables, SameEntityWords
       DEF RemoveTrack, PE!Remove, Kids
<1>5. ASSUME NEW p \in DOMAIN lists, ClearTracks(p)
      PROVE  EntitiesGiven'
  <2>1. entities' = Without(entities, PE!Kids(entities, p))
    BY <1>5 DEF ClearTracks, PE!Clear, PE!Without, Without
  <2>2. QED
    BY <1>3, <2>1 DEF Without
<1>6. QED
  BY <1>1, <1>2, <1>4, <1>5 DEF EntityCall

(* Ids of lists are not given out again.                                   *)
LEMMA ListCallKeepsGiven ==
  ASSUME KInv, ListCall
  PROVE  EntitiesGiven'
<1>1. listSeq \in Nat /\ EntitiesGiven
  BY LibraryBounds DEF KInv, LInv, ListsOK
<1>2. entities' = entities
  BY CallsLeaveAlone DEF entityVars
<1>3. listSeq' = listSeq \/ listSeq' = listSeq + 1
  BY DEF ListCall, Create, CreateAfter, SetName, SetParent, RemoveList, AddList, Fail, listVars,
         PT!Add, PT!Update, PT!Remove, PT!Throw
<1>4. QED
  BY <1>1, <1>2, <1>3 DEF EntitiesGiven

(* Every public call keeps the invariant.                                  *)
LEMMA NextKeepsKInv ==
  ASSUME Careful, KInv, [Next]_vars
  PROVE  KInv'
<1>1. LInv'
  BY NextKeepsLInv DEF KInv
<1>2. EntitiesGiven'
  <2>1. CASE UNCHANGED vars
    BY <2>1 DEF vars, listVars, entityVars, KInv, EntitiesGiven
  <2>2. CASE TrackCall
    BY <2>2, CallsLeaveAlone DEF listVars, entityVars, KInv, EntitiesGiven
  <2>3. QED
    BY <2>1, <2>2, ListCallKeepsGiven, EntityCallKeepsGiven DEF Next
<1>3. QED
  BY <1>1, <1>2 DEF KInv

(* An empty library.                                                       *)
LEMMA InitKInv ==
  ASSUME Init
  PROVE  KInv
<1>1. LInv
  BY InitLInv
<1>2. EntitiesGiven
  BY DEF Init, PE!Init, EntitiesGiven
<1>3. QED
  BY <1>1, <1>2 DEF KInv

(* An empty library shows no playlist and no track.                        *)
LEMMA InitPromised ==
  ASSUME Init
  PROVE  Promise!Init
<1>1. DOMAIN lists = {} /\ DOMAIN entities = {} /\ tracks = {}
  BY DEF Init, PT!Init, PE!Init
<1>2. Sorted(lists, None) = << >>
  <2>1. Chained(lists, ParentIds) /\ None \in ParentIds
    BY InitLInv, ListsAreChained, OwnersAreIds DEF LInv, Owners
  <2>2. Kids(lists, None) = {}
    BY <1>1 DEF Kids
  <2>3. QED
    BY <2>1, <2>2, NoKidsNoOrder
<1>3. Tree(lists) = [o \in {None} |-> << >>]
  BY <1>1, <1>2 DEF Tree
<1>4. Names(lists) = [i \in {} |-> None] /\ Contents(lists, entities) = Names(lists)
  BY <1>1 DEF Names, Contents
<1>5. QED
  BY <1>1, <1>3, <1>4, Views DEF Promise!Init

(* Every call on playlists does what it promises.                          *)
LEMMA ListCallPromised ==
  ASSUME KInv, Traps \cap {"stale_next", "deep_remove"} = {}, ListCall
  PROVE  IF outcome' = "ok" THEN Promise!Promised(call') ELSE UNCHANGED Promise!all
<1>1. ASSUME NEW p \in Owners, NEW n \in PT!AnyTitle, MayInsertList(n), Create(p, n),
             call' = <<"create", p, n>>
      PROVE  IF outcome' = "ok" THEN Promise!Promised(call') ELSE UNCHANGED Promise!all
  <2>1. IF outcome' = "ok" THEN Promise!Create(p, n) ELSE UNCHANGED Promise!all
    BY <1>1, CreateCallPromised
  <2>2. Promise!Promised(call') <=> Promise!Create(p, n)
    BY <1>1 DEF Promise!Promised, Promise!Create, Promise!CreateAt, Promise!NewName
  <2>3. QED
    BY <2>1, <2>2
<1>2. ASSUME NEW p \in Owners, NEW n \in PT!AnyTitle, NEW a \in DOMAIN lists, MayInsertList(n),
             CreateAfter(p, n, a), call' = <<"create_after", p, n, a>>
      PROVE  IF outcome' = "ok" THEN Promise!Promised(call') ELSE UNCHANGED Promise!all
  <2>1. IF outcome' = "ok" THEN Promise!CreateAfter(p, n, a) ELSE UNCHANGED Promise!all
    BY <1>2, CreateAfterPromised
  <2>2. Promise!Promised(call') <=> Promise!CreateAfter(p, n, a)
    BY <1>2 DEF Promise!Promised, Promise!CreateAfter, Promise!CreateAt, Promise!NewName
  <2>3. QED
    BY <2>1, <2>2
<1>3. ASSUME NEW i \in DOMAIN lists, NEW n \in PT!AnyTitle, SetName(i, n),
             call' = <<"set_name", i, n>>
      PROVE  IF outcome' = "ok" THEN Promise!Promised(call') ELSE UNCHANGED Promise!all
  <2>1. IF outcome' = "ok" THEN Promise!SetName(i, n) ELSE UNCHANGED Promise!all
    BY <1>3, SetNamePromised
  <2>2. Promise!Promised(call') <=> Promise!SetName(i, n)
    BY <1>3 DEF Promise!Promised, Promise!SetName
  <2>3. QED
    BY <2>1, <2>2
<1>4. ASSUME NEW i \in DOMAIN lists, NEW p \in Owners, Unless("stale_next", StaleNext(i, p)),
             SetParent(i, p), call' = <<"set_parent", i, p>>
      PROVE  IF outcome' = "ok" THEN Promise!Promised(call') ELSE UNCHANGED Promise!all
  <2>1. ~StaleNext(i, p)
    BY <1>4 DEF Unless
  <2>2. QED
    BY <1>4, <2>1, SetParentPromised DEF Promise!Promised
<1>5. ASSUME NEW i \in DOMAIN lists, Unless("deep_remove", DeepRemove(i)), RemoveList(i),
             call' = <<"remove_list", i>>
      PROVE  IF outcome' = "ok" THEN Promise!Promised(call') ELSE UNCHANGED Promise!all
  <2>1. ~DeepRemove(i)
    BY <1>5 DEF Unless
  <2>2. IF outcome' = "ok" THEN Promise!RemoveList(i) ELSE UNCHANGED Promise!all
    BY <1>5, <2>1, RemoveListPromised
  <2>3. Promise!Promised(call') <=> Promise!RemoveList(i)
    BY <1>5 DEF Promise!Promised, Promise!RemoveList
  <2>4. QED
    BY <2>2, <2>3
<1>6. QED
  BY <1>1, <1>2, <1>3, <1>4, <1>5 DEF ListCall

(* Every call on the tracks of a playlist does what it promises.           *)
LEMMA EntityCallPromised ==
  ASSUME KInv, "entity_id" \notin Traps, EntityCall
  PROVE  IF outcome' = "ok" THEN Promise!Promised(call') ELSE UNCHANGED Promise!all
<1>1. ASSUME NEW p \in DOMAIN lists, NEW t \in tracks, MayInsertEntity, AddTrackBack(p, t),
             call' = <<"add_track_back", p, t>>
      PROVE  IF outcome' = "ok" THEN Promise!Promised(call') ELSE UNCHANGED Promise!all
  <2>1. IF outcome' = "ok" /\ (TRUE \/ t \notin Promise!ToSet(Contents(lists, entities)[p]))
        THEN Promise!AddTrackBack(p, t) ELSE UNCHANGED Promise!all
    BY <1>1, AddTrackBackPromised DEF AddTrackBack
  <2>2. QED
    BY <1>1, <2>1 DEF Promise!Promised
<1>2. ASSUME NEW p \in DOMAIN lists, NEW t \in tracks, MayInsertEntity, AddTrack(p, t),
             call' = <<"add_track", p, t>>
      PROVE  IF outcome' = "ok" THEN Promise!Promised(call') ELSE UNCHANGED Promise!all
  BY <1>2, AddTrackPromised DEF Promise!Promised
<1>3. ASSUME NEW p \in DOMAIN lists, NEW t \in tracks, NEW a \in tracks, MayInsertEntity,
             AddTrackAfter(p, t, a), call' = <<"add_track_after", p, t, a>>
      PROVE  IF outcome' = "ok" THEN Promise!Promised(call') ELSE UNCHANGED Promise!all
  BY <1>3, AddTrackAfterPromised DEF Promise!Promised
<1>4. ASSUME NEW p \in DOMAIN lists, NEW t \in tracks, Unless("entity_id", EntityId(p, t)),
             RemoveTrack(p, t), call' = <<"remove_track", p, t>>
      PROVE  IF outcome' = "ok" THEN Promise!Promised(call') ELSE UNCHANGED Promise!all
  <2>1. ~EntityId(p, t)
    BY <1>4 DEF Unless
  <2>2. QED
    BY <1>4, <2>1, RemoveTrackPromised DEF Promise!Promised
<1>5. ASSUME NEW p \in DOMAIN lists, ClearTracks(p), call' = <<"clear_tracks", p>>
      PROVE  IF outcome' = "ok" THEN Promise!Promised(call') ELSE UNCHANGED Promise!all
  BY <1>5, ClearTracksPromised DEF Promise!Promised
<1>6. QED
  BY <1>1, <1>2, <1>3, <1>4, <1>5 DEF EntityCall

(* Creating and removing tracks does what it promises.                     *)
LEMMA TrackCallPromised ==
  ASSUME KInv, "listed_track" \notin Traps, TrackCall
  PROVE  IF outcome' = "ok" THEN Promise!Promised(call') ELSE UNCHANGED Promise!all
<1>1. ASSUME CreateTrack, call' = <<"create_track">>
      PROVE  IF outcome' = "ok" THEN Promise!Promised(call') ELSE UNCHANGED Promise!all
  BY <1>1, CreateTrackPromised DEF Promise!Promised
<1>2. ASSUME NEW t \in tracks, Unless("listed_track", ListedTrack(t)), DropTrack(t),
             call' = <<"drop_track", t>>
      PROVE  IF outcome' = "ok" THEN Promise!Promised(call') ELSE UNCHANGED Promise!all
  <2>1. ~ListedTrack(t)
    BY <1>2 DEF Unless
  <2>2. QED
    BY <1>2, <2>1, DropTrackPromised DEF Promise!Promised
<1>3. QED
  BY <1>1, <1>2 DEF TrackCall

(* Of a caller who stays clear of the four situations that the two tables  *)
(* do not provide for (set_parent of a playlist that is not the last of its*)
(* siblings, removing one with grandchildren, remove_track where the id of *)
(* the track is not that of its entity, removing a track that is in a      *)
(* playlist), whatever else he calls: every call that succeeds does to the *)
(* tree, the names and the tracks exactly what it promises, to the place,  *)
(* and one that fails, or that moves a playlist below itself and does not  *)
(* return, changes nothing (playlist_impl.cpp, crate_impl.cpp,             *)
(* database_impl.cpp).                                                     *)
THEOREM PromisesAreKept ==
  ASSUME Traps \subseteq {"cycle"}
  PROVE  Spec => KeepsPromises
<1>1. Init => KInv /\ Promise!Init
  BY InitKInv, InitPromised
<1>2. KInv /\ [Next]_vars => KInv'
  BY NextKeepsKInv DEF Careful
<1>3. KInv /\ [Next]_vars =>
        [IF outcome' = "ok" THEN Promise!Promised(call') ELSE UNCHANGED Promise!all]_vars
  BY ListCallPromised, EntityCallPromised, TrackCallPromised DEF Next
<1>4. QED
  BY <1>1, <1>2, <1>3, PTL DEF Spec, KeepsPromises
=============================================================================
