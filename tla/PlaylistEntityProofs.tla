------------------------- MODULE PlaylistEntityProofs -------------------------
(***************************************************************************)
(* Proofs about PlaylistEntity, for every set of playlists, tracks and     *)
(* databases and every MaxEntity.                                          *)
(***************************************************************************)
EXTENDS PlaylistEntity, RowProofs, TLAPS

(* What every call keeps. *)
Sound(T) ==
  /\ DOMAIN T \subseteq EntityIds
  /\ T \in [DOMAIN T -> Row]
  /\ \A l \in Playlists : Chain(T, l)
  /\ Unique(T)

(* The values of a row that chains do not depend on. *)
SameData(F, T) ==
  \A i \in DOMAIN F \cap DOMAIN T :
    F[i].owner = T[i].owner /\ F[i].track = T[i].track /\ F[i].uuid = T[i].uuid

LEMMA AddedShape ==
  ASSUME NEW T, Sound(T), NEW id \in EntityIds \ DOMAIN T, NEW row \in Row
  PROVE  /\ PutBefore(Added(T, id, row), T, id, row.owner, row.next)
         /\ Added(T, id, row) \in [DOMAIN T \cup {id} -> Row]
         /\ SameData(Added(T, id, row), Inserted(T, id, row))
<1> DEFINE added == Inserted(T, id, row)
           S == Before(added, row.owner, row.next) \ {id}
<1>1. /\ added \in [DOMAIN T \cup {id} -> Row]
      /\ added[id] = row
      /\ \A i \in DOMAIN T : added[i] = T[i]
  BY DEF Inserted, Sound
<1>2. \A i \in DOMAIN T : i \in S <=> T[i].owner = row.owner /\ T[i].next = row.next
  BY <1>1 DEF Before, Kids
<1>3. id \notin S
  OBVIOUS
<1> HIDE DEF added, S
<1>4. /\ SetNext(added, S, id) \in [DOMAIN T \cup {id} -> Row]
      /\ \A i \in DOMAIN T \cup {id} :
           /\ SetNext(added, S, id)[i].owner = added[i].owner
           /\ SetNext(added, S, id)[i].track = added[i].track
           /\ SetNext(added, S, id)[i].uuid = added[i].uuid
           /\ SetNext(added, S, id)[i].next = IF i \in S THEN id ELSE added[i].next
  BY <1>1 DEF SetNext, Row
<1>5. PutBefore(SetNext(added, S, id), T, id, row.owner, row.next)
  BY <1>1, <1>2, <1>3, <1>4 DEF PutBefore
<1>6. SameData(SetNext(added, S, id), added)
  BY <1>4 DEF SameData
<1>7. Added(T, id, row) = SetNext(added, S, id)
  BY DEF Added, added, S
<1>8. QED
  BY <1>4, <1>5, <1>6, <1>7 DEF added

LEMMA DeletedShape ==
  ASSUME NEW T, Sound(T), NEW id \in DOMAIN T
  PROVE  /\ TakenOut(Deleted(T, id), T, id, {id})
         /\ Deleted(T, id) \in [DOMAIN T \ {id} -> Row]
         /\ SameData(Deleted(T, id), T)
<1> DEFINE S == Before(T, T[id].owner, id)
           relinked == SetNext(T, S, T[id].next)
<1>1. T \in [DOMAIN T -> Row] /\ None \notin DOMAIN T
  BY DEF Sound, EntityIds, None
<1>2. T[id].track > 0
  BY <1>1, TracksAssumption DEF Row
<1>3. \A i \in DOMAIN T : T[i].next = id => T[i].owner = T[id].owner
  <2>1. SUFFICES ASSUME NEW i \in DOMAIN T, T[i].next = id
                 PROVE  T[i].owner = T[id].owner
    OBVIOUS
  <2>2. T[i].owner \in Playlists /\ i \in Kids(T, T[i].owner)
    BY <1>1 DEF Row, Kids
  <2>3. id \in Kids(T, T[i].owner)
    BY <1>1, <2>1, <2>2 DEF Sound, Chain
  <2>4. QED
    BY <2>3 DEF Kids
<1>4. \A i \in DOMAIN T : i \in S <=> T[i].next = id
  BY <1>3 DEF Before, Kids
<1> HIDE DEF S
<1>5. /\ relinked \in [DOMAIN T -> Row]
      /\ \A i \in DOMAIN T :
           /\ relinked[i].owner = T[i].owner
           /\ relinked[i].track = T[i].track
           /\ relinked[i].uuid = T[i].uuid
           /\ relinked[i].next = IF i \in S THEN T[id].next ELSE T[i].next
  BY <1>1 DEF SetNext, Row
<1> HIDE DEF relinked
<1>6. Deleted(T, id) = Without(relinked, {id})
  BY <1>2 DEF Deleted, relinked, S
<1>7. QED
  BY <1>4, <1>5, <1>6 DEF Without, TakenOut, SameData

(* Adding a row that is not there yet, before another one of its playlist  *)
(* or at the end.                                                          *)
LEMMA AddedIsSound ==
  ASSUME NEW T, Sound(T), NEW id \in EntityIds \ DOMAIN T, NEW row \in Row,
         row.next \in Kids(T, row.owner) \cup {None},
         Unique(Inserted(T, id, row))
  PROVE  Sound(Added(T, id, row))
<1> DEFINE F == Added(T, id, row)
           G == Inserted(T, id, row)
<1>1. /\ PutBefore(F, T, id, row.owner, row.next)
      /\ F \in [DOMAIN T \cup {id} -> Row] /\ SameData(F, G)
  BY AddedShape
<1>2. DOMAIN G = DOMAIN T \cup {id}
  BY DEF Inserted
<1>3. Unique(G)
  OBVIOUS
<1> HIDE DEF F, G
<1>4. DOMAIN F = DOMAIN T \cup {id} /\ DOMAIN F \subseteq EntityIds
  BY <1>1 DEF Sound
<1>5. None \notin DOMAIN F
  BY <1>4 DEF EntityIds, None
<1>6. \A l \in Playlists : Chain(F, l)
  BY <1>1, <1>5, PutBeforeKeepsChain DEF Sound
<1>7. Unique(F)
  BY <1>1, <1>2, <1>3, <1>4 DEF Unique, Existing, Kids, SameData
<1>8. Sound(F)
  BY <1>1, <1>4, <1>6, <1>7 DEF Sound
<1>9. QED
  BY <1>8 DEF F

LEMMA DeletedIsSound ==
  ASSUME NEW T, Sound(T), NEW id \in DOMAIN T
  PROVE  Sound(Deleted(T, id))
<1> DEFINE F == Deleted(T, id)
<1>1. /\ TakenOut(F, T, id, {id}) /\ F \in [DOMAIN T \ {id} -> Row] /\ SameData(F, T)
  BY DeletedShape
<1> HIDE DEF F
<1>2. None \notin DOMAIN T
  BY DEF Sound, EntityIds, None
<1>3. \A l \in Playlists : Kids(T, l) \cap {id} \subseteq {id}
  OBVIOUS
<1>4. \A l \in Playlists : Chain(F, l)
  BY <1>1, <1>2, <1>3, TakenOutKeepsChain DEF Sound
<1>5. Unique(F)
  BY <1>1 DEF Sound, Unique, Existing, Kids, SameData
<1>6. Sound(F)
  BY <1>1, <1>4, <1>5 DEF Sound
<1>7. QED
  BY <1>6 DEF F

LEMMA ClearedIsSound ==
  ASSUME NEW T, Sound(T), NEW list
  PROVE  Sound(Without(T, Kids(T, list)))
<1> DEFINE F == Without(T, Kids(T, list))
<1>1. /\ DOMAIN F = DOMAIN T \ Kids(T, list)
      /\ \A i \in DOMAIN F : F[i] = T[i]
  BY DEF Without
<1> HIDE DEF F
<1>2. F \in [DOMAIN F -> Row] /\ DOMAIN F \subseteq EntityIds
  <2>1. F = [i \in DOMAIN F |-> T[i]]
    BY <1>1 DEF F, Without
  <2>2. QED
    BY <1>1, <2>1 DEF Sound
<1>3. ASSUME NEW l \in Playlists
      PROVE  Chain(F, l)
  <2>1. CASE l = list
    <3>1. Kids(F, l) = {}
      BY <1>1, <2>1 DEF Kids
    <3>2. QED
      BY <3>1 DEF Chain
  <2>2. CASE l # list
    <3>1. Kids(F, l) = Kids(T, l) /\ \A i \in Kids(T, l) : F[i].next = T[i].next
      BY <1>1, <2>2 DEF Kids
    <3>2. QED
      BY <3>1 DEF Sound, Chain
  <2>3. QED
    BY <2>1, <2>2
<1>4. Unique(F)
  BY <1>1 DEF Sound, Unique, Existing, Kids
<1>5. Sound(F)
  BY <1>2, <1>3, <1>4 DEF Sound
<1>6. QED
  BY <1>5 DEF F

(* A row that add does not find does not meet the constraint either.       *)
LEMMA NotFoundIsUnique ==
  ASSUME NEW T, Sound(T), NEW id \in EntityIds \ DOMAIN T, NEW row \in Row,
         Existing(T, row) = {}
  PROVE  Unique(Inserted(T, id, row))
<1> DEFINE G == Inserted(T, id, row)
<1>1. DOMAIN G = DOMAIN T \cup {id} /\ G[id] = row /\ \A i \in DOMAIN T : G[i] = T[i]
  BY DEF Inserted
<1> HIDE DEF G
<1>2. ASSUME NEW i \in DOMAIN G
      PROVE  Existing(G, G[i]) = {i}
  BY <1>1 DEF Sound, Unique, Existing, Kids
<1>3. QED
  BY <1>2 DEF Unique, G

(* What is left of this when the links are not chains, as other sessions   *)
(* may leave them: the columns hold legal values, and no track is in a     *)
(* playlist twice.                                                         *)
Kept(T) == T \in [DOMAIN T -> Row] /\ Unique(T)

LEMMA SoundIsKept ==
  ASSUME NEW T, Sound(T)
  PROVE  Kept(T)
  BY DEF Sound, Kept

(* To find no such row and to meet no constraint come to the same.         *)
LEMMA NotFoundOrUnique ==
  ASSUME NEW T, Kept(T), NEW id, id \notin DOMAIN T, NEW row \in Row
  PROVE  Existing(T, row) = {} <=> Unique(Inserted(T, id, row))
<1> DEFINE G == Inserted(T, id, row)
<1>1. DOMAIN G = DOMAIN T \cup {id} /\ G[id] = row /\ \A i \in DOMAIN T : G[i] = T[i]
  BY DEF Inserted
<1>2. Unique(T)
  BY DEF Kept
<1> HIDE DEF G
<1>3. ASSUME Existing(T, row) = {}, NEW i \in DOMAIN G
      PROVE  Existing(G, G[i]) = {i}
  BY <1>1, <1>2, <1>3 DEF Unique, Existing, Kids
<1>4. ASSUME Unique(G), NEW i \in Existing(T, row)
      PROVE  FALSE
  <2>1. Existing(G, G[id]) = {id}
    BY <1>1, <1>4 DEF Unique
  <2>2. i \in Existing(G, G[id]) /\ i # id
    BY <1>1 DEF Existing, Kids
  <2>3. QED
    BY <2>1, <2>2
<1>5. QED
  BY <1>3, <1>4 DEF Unique, G

LEMMA AddedIsKept ==
  ASSUME NEW T, Kept(T), NEW id \in EntityIds \ DOMAIN T, NEW row \in Row,
         Unique(Inserted(T, id, row))
  PROVE  Kept(Added(T, id, row)) /\ DOMAIN Added(T, id, row) = DOMAIN T \cup {id}
<1> DEFINE added == Inserted(T, id, row)
           S == Before(added, row.owner, row.next) \ {id}
           F == SetNext(added, S, id)
<1>1. added \in [DOMAIN T \cup {id} -> Row] /\ Unique(added)
  BY DEF Inserted, Kept
<1> HIDE DEF added, S
<1>2. F \in [DOMAIN T \cup {id} -> Row] /\ SameData(F, added)
  BY <1>1 DEF SetNext, Row, SameData
<1> HIDE DEF F
<1>3. Unique(F)
  BY <1>1, <1>2 DEF Unique, Existing, Kids, SameData
<1>4. Added(T, id, row) = F
  BY DEF Added, added, S, F
<1>5. QED
  BY <1>2, <1>3, <1>4 DEF Kept

LEMMA DeletedIsKept ==
  ASSUME NEW T, Kept(T), NEW id \in DOMAIN T
  PROVE  Kept(Deleted(T, id)) /\ DOMAIN Deleted(T, id) = DOMAIN T \ {id}
<1> DEFINE S == Before(T, T[id].owner, id)
           relinked == SetNext(T, S, T[id].next)
<1>1. T \in [DOMAIN T -> Row] /\ Unique(T) /\ T[id].track > 0
  BY TracksAssumption DEF Kept, Row
<1> HIDE DEF S
<1>2. relinked \in [DOMAIN T -> Row] /\ SameData(relinked, T)
  BY <1>1 DEF SetNext, Row, SameData
<1> HIDE DEF relinked
<1>3. Without(relinked, {id}) \in [DOMAIN T \ {id} -> Row]
  BY <1>2 DEF Without
<1>4. Unique(Without(relinked, {id}))
  BY <1>1, <1>2 DEF Without, Unique, Existing, Kids, SameData
<1>5. Deleted(T, id) = Without(relinked, {id})
  BY <1>1 DEF Deleted, relinked, S
<1>6. QED
  BY <1>3, <1>4, <1>5 DEF Kept

LEMMA ClearedIsKept ==
  ASSUME NEW T, Kept(T), NEW list
  PROVE  Kept(Without(T, Kids(T, list)))
<1> DEFINE F == Without(T, Kids(T, list))
<1>1. F \in [DOMAIN T \ Kids(T, list) -> Row] /\ \A i \in DOMAIN F : F[i] = T[i]
  BY DEF Without, Kept
<1> HIDE DEF F
<1>2. Unique(F)
  BY <1>1 DEF Kept, Unique, Existing, Kids
<1>3. QED
  BY <1>1, <1>2 DEF Kept, F

-----------------------------------------------------------------------------
(* The inductive invariant.  That the rows are unique is part of it: only  *)
(* then does the check of add foresee what the constraint would say.       *)
IInv == TypeOK /\ Chains /\ Unique(entities) /\ DuplicateIsForeseen

LEMMA SoundIsIInv ==
  ASSUME Sound(entities), seq \in 0 .. MaxEntity, DOMAIN entities \subseteq 1 .. seq,
         outcome \in Outcomes \ {"constraint"}
  PROVE  IInv
  BY DEF Sound, IInv, TypeOK, Chains, DuplicateIsForeseen

LEMMA IInvIsSound ==
  ASSUME IInv
  PROVE  /\ Sound(entities) /\ seq \in 0 .. MaxEntity /\ DOMAIN entities \subseteq 1 .. seq
         /\ outcome \in Outcomes \ {"constraint"}
  BY MaxEntityAssumption DEF IInv, TypeOK, Chains, Sound, EntityIds, DuplicateIsForeseen

LEMMA InitIInv ==
  ASSUME Init
  PROVE  IInv
<1>1. DOMAIN entities = {} /\ seq = 0 /\ outcome = "ok"
  BY DEF Init
<1>2. \A l \in Playlists : Kids(entities, l) = {}
  BY <1>1 DEF Kids
<1>3. Sound(entities)
  BY <1>1, <1>2 DEF Init, Sound, Chain, Unique
<1>4. QED
  BY <1>1, <1>3, SoundIsIInv, MaxEntityAssumption DEF Outcomes

LEMMA AddKeepsIInv ==
  ASSUME IInv, NEW id, NEW row, NEW throwIfDuplicate \in BOOLEAN,
         Add(id, row, throwIfDuplicate),
         id = None => /\ seq < MaxEntity /\ row \in Row
                      /\ row.next \in Kids(entities, row.owner) \cup {None}
  PROVE  IInv'
<1>1. /\ Sound(entities) /\ seq \in 0 .. MaxEntity /\ DOMAIN entities \subseteq 1 .. seq
      /\ outcome \in Outcomes \ {"constraint"}
  BY IInvIsSound
<1>2. CASE id # None \/ Existing(entities, row) # {}
  <2>1. /\ outcome' \in {"row_id_error", "track_already_in_playlist", "ok"}
        /\ entities' = entities /\ seq' = seq
    BY <1>2 DEF Add
  <2>2. QED
    BY <1>1, <2>1, SoundIsIInv DEF Outcomes, Sound, IInv, TypeOK, Chains, DuplicateIsForeseen
<1>3. CASE id = None /\ Existing(entities, row) = {}
  <2>1. /\ seq + 1 \in EntityIds \ DOMAIN entities /\ seq + 1 \in 0 .. MaxEntity
    BY <1>1, <1>3, MaxEntityAssumption DEF EntityIds
  <2>2. Unique(Inserted(entities, seq + 1, row))
    BY <1>1, <1>3, <2>1, NotFoundIsUnique
  <2>3. entities' = Added(entities, seq + 1, row) /\ seq' = seq + 1 /\ outcome' = "ok"
    BY <1>3, <2>2 DEF Add
  <2>4. Sound(entities')
    BY <1>1, <1>3, <2>1, <2>2, <2>3, AddedIsSound
  <2>5. DOMAIN entities' = DOMAIN entities \cup {seq + 1}
    <3>1. PutBefore(Added(entities, seq + 1, row), entities, seq + 1, row.owner, row.next)
      BY <1>1, <1>3, <2>1, AddedShape
    <3>2. QED
      BY <2>3, <3>1 DEF PutBefore
  <2>6. DOMAIN entities' \subseteq 1 .. seq'
    BY <1>1, <2>3, <2>5, MaxEntityAssumption
  <2>7. QED
    BY <2>1, <2>3, <2>4, <2>6 DEF Outcomes, Sound, IInv, TypeOK, Chains, DuplicateIsForeseen
<1>4. QED
  BY <1>2, <1>3

LEMMA RemoveKeepsIInv ==
  ASSUME IInv, NEW list, NEW id, Remove(list, id)
  PROVE  IInv'
<1>1. Sound(entities) /\ seq \in 0 .. MaxEntity /\ DOMAIN entities \subseteq 1 .. seq
  BY IInvIsSound
<1>2. outcome' = "ok" /\ seq' = seq
  BY DEF Remove
<1>3. Sound(entities') /\ DOMAIN entities' \subseteq DOMAIN entities
  <2>1. CASE id \in Kids(entities, list)
    <3>1. entities' = Deleted(entities, id) /\ id \in DOMAIN entities
      BY <2>1 DEF Remove, Kids
    <3>2. Sound(Deleted(entities, id)) /\ TakenOut(Deleted(entities, id), entities, id, {id})
      BY <1>1, <3>1, DeletedIsSound, DeletedShape
    <3>3. QED
      BY <3>1, <3>2 DEF TakenOut
  <2>2. CASE id \notin Kids(entities, list)
    BY <1>1, <2>2 DEF Remove
  <2>3. QED
    BY <2>1, <2>2
<1>4. QED
  BY <1>1, <1>2, <1>3 DEF Outcomes, Sound, IInv, TypeOK, Chains, DuplicateIsForeseen

LEMMA ClearKeepsIInv ==
  ASSUME IInv, NEW list, Clear(list)
  PROVE  IInv'
<1>1. Sound(entities) /\ seq \in 0 .. MaxEntity /\ DOMAIN entities \subseteq 1 .. seq
  BY IInvIsSound
<1>2. outcome' = "ok" /\ seq' = seq
  BY DEF Clear
<1>3. Sound(entities') /\ DOMAIN entities' \subseteq DOMAIN entities
  BY <1>1, ClearedIsSound DEF Clear, Without
<1>4. QED
  BY <1>1, <1>2, <1>3 DEF Outcomes, Sound, IInv, TypeOK, Chains, DuplicateIsForeseen

LEMMA PlacesAreLegal ==
  ASSUME Sound(entities), NEW place \in Places(entities), NEW track \in Tracks,
         NEW uuid \in Uuids
  PROVE  /\ MakeRow(place, track, uuid) \in Row
         /\ MakeRow(place, track, uuid).next
              \in Kids(entities, MakeRow(place, track, uuid).owner) \cup {None}
<1>1. PICK l \in Playlists : place \in {l} \X (Kids(entities, l) \cup {None})
  BY DEF Places
<1>2. place[1] = l /\ place[2] \in Kids(entities, l) \cup {None}
  BY <1>1
<1>3. QED
  BY <1>2 DEF MakeRow, Row, Sound, Kids

LEMMA NextKeepsIInv ==
  ASSUME IInv, [Next]_vars
  PROVE  IInv'
<1>1. CASE UNCHANGED vars
  BY <1>1 DEF vars, IInv, TypeOK, Chains, Unique, DuplicateIsForeseen
<1>2. ASSUME NEW id \in DOMAIN entities, Add(id, entities[id], TRUE)
      PROVE  IInv'
  <2>1. id # None
    BY IInvIsSound DEF Sound, EntityIds, None
  <2>2. QED
    BY <1>2, <2>1, AddKeepsIInv
<1>3. ASSUME NEW place \in Places(entities), NEW track \in Tracks, NEW uuid \in Uuids,
             NEW throwIfDuplicate \in BOOLEAN, seq < MaxEntity,
             Add(None, MakeRow(place, track, uuid), throwIfDuplicate)
      PROVE  IInv'
  BY <1>3, IInvIsSound, PlacesAreLegal, AddKeepsIInv
<1>4. ASSUME NEW list \in Playlists, NEW id \in EntityIds, Remove(list, id)
      PROVE  IInv'
  BY <1>4, RemoveKeepsIInv
<1>5. ASSUME NEW list \in Playlists, Clear(list)
      PROVE  IInv'
  BY <1>5, ClearKeepsIInv
<1>6. QED
  BY <1>1, <1>2, <1>3, <1>4, <1>5 DEF Next

(* The inductive invariant holds: a call finds one chain and unique rows,  *)
(* and leaves them so.                                                     *)
THEOREM InvariantHolds == Spec => []IInv
<1>1. Init => IInv
  BY InitIInv
<1>2. IInv /\ [Next]_vars => IInv'
  BY NextKeepsIInv
<1>3. QED
  BY <1>1, <1>2, PTL DEF Spec

(* The columns of the table always hold legal values.                      *)
THEOREM TypeCorrect == Spec => []TypeOK
<1>1. IInv => TypeOK
  BY DEF IInv
<1>2. QED
  BY <1>1, InvariantHolds, PTL

(* The entities of every playlist always form one chain, whatever calls of *)
(* add, remove and clear came before, though the schema does not see to it.*)
THEOREM ChainsHold == Spec => []Chains
<1>1. IInv => Chains
  BY DEF IInv
<1>2. QED
  BY <1>1, InvariantHolds, PTL

(* No add ever meets the UNIQUE constraint of the table.                   *)
THEOREM DuplicatesAreForeseen == Spec => []DuplicateIsForeseen
<1>1. IInv => DuplicateIsForeseen
  BY DEF IInv
<1>2. QED
  BY <1>1, InvariantHolds, PTL

-----------------------------------------------------------------------------
(* F is T, but for rows of the playlist m. *)
OnlyIn(F, T, m) ==
  \A l \in Playlists \ {m} :
    Kids(F, l) = Kids(T, l) /\ \A i \in Kids(T, l) : F[i] = T[i]

LEMMA OnlyInIsOne ==
  ASSUME NEW m, OnlyIn(entities', entities, m)
  PROVE  \A k, l \in Playlists : Rows(k)' # Rows(k) /\ Rows(l)' # Rows(l) => k = l
<1>1. ASSUME NEW l \in Playlists, l # m
      PROVE  Rows(l)' = Rows(l)
  <2>1. Kids(entities', l) = Kids(entities, l)
        /\ \A i \in Kids(entities, l) : entities'[i] = entities[i]
    BY <1>1 DEF OnlyIn
  <2>2. QED
    BY <2>1 DEF Rows
<1>2. QED
  BY <1>1

LEMMA SetNextStaysIn ==
  ASSUME NEW T, Sound(T), NEW m, NEW S, NEW n, S \subseteq Kids(T, m)
  PROVE  OnlyIn(SetNext(T, S, n), T, m)
<1>1. ASSUME NEW i \in DOMAIN T
      PROVE  SetNext(T, S, n)[i].owner = T[i].owner
  BY DEF Sound, Row, SetNext
<1>2. DOMAIN SetNext(T, S, n) = DOMAIN T
      /\ \A i \in DOMAIN T \ S : SetNext(T, S, n)[i] = T[i]
  BY DEF SetNext
<1>3. QED
  BY <1>1, <1>2 DEF OnlyIn, Kids

LEMMA NextStaysInOne ==
  ASSUME IInv, Next
  PROVE  \E m : OnlyIn(entities', entities, m)
<1>0. Sound(entities) /\ None \notin DOMAIN entities
  BY IInvIsSound DEF Sound, EntityIds, None
<1>1. ASSUME entities' = entities
      PROVE  OnlyIn(entities', entities, None)
  BY <1>1 DEF OnlyIn
<1>2. ASSUME NEW id \in DOMAIN entities, Add(id, entities[id], TRUE)
      PROVE  entities' = entities
  BY <1>0, <1>2 DEF Add
<1>3. ASSUME NEW place \in Places(entities), NEW track \in Tracks, NEW uuid \in Uuids,
             NEW throwIfDuplicate \in BOOLEAN, seq < MaxEntity,
             Add(None, MakeRow(place, track, uuid), throwIfDuplicate)
      PROVE  \E m : OnlyIn(entities', entities, m)
  <2> DEFINE row == MakeRow(place, track, uuid)
             added == Inserted(entities, seq + 1, row)
  <2>1. CASE entities' = entities
    BY <1>1, <2>1
  <2>2. CASE entities' = Added(entities, seq + 1, row)
    <3>1. row \in Row /\ seq + 1 \notin DOMAIN entities
      BY <1>0, PlacesAreLegal, IInvIsSound
    <3> HIDE DEF row
    <3>2. /\ added \in [DOMAIN entities \cup {seq + 1} -> Row]
          /\ added[seq + 1] = row
          /\ \A i \in DOMAIN entities : added[i] = entities[i]
      BY <1>0, <3>1 DEF Inserted, Sound
    <3> DEFINE S == Before(added, row.owner, row.next) \ {seq + 1}
    <3>3. \A i \in S : added[i].owner = row.owner
      BY DEF Before, Kids
    <3>4. entities' = SetNext(added, S, seq + 1)
      BY <2>2 DEF Added
    <3> HIDE DEF added, S
    <3>5. /\ DOMAIN entities' = DOMAIN entities \cup {seq + 1}
          /\ \A i \in DOMAIN entities' : entities'[i].owner = added[i].owner
          /\ \A i \in DOMAIN entities' \ S : entities'[i] = added[i]
      BY <3>2, <3>4 DEF SetNext, Row
    <3>6. OnlyIn(entities', entities, row.owner)
      BY <3>1, <3>2, <3>3, <3>5 DEF OnlyIn, Kids
    <3>7. QED
      BY <3>6
  <2>3. QED
    BY <1>3, <2>1, <2>2 DEF Add
<1>4. ASSUME NEW list \in Playlists, NEW id \in EntityIds, Remove(list, id)
      PROVE  \E m : OnlyIn(entities', entities, m)
  <2>1. CASE id \notin Kids(entities, list)
    BY <1>1, <1>4, <2>1 DEF Remove
  <2>2. CASE id \in Kids(entities, list)
    <3> DEFINE S == Before(entities, list, id)
               relinked == SetNext(entities, S, entities[id].next)
    <3>1. /\ id \in DOMAIN entities /\ entities[id].owner = list
          /\ entities[id].track > 0
      BY <1>0, <2>2, TracksAssumption DEF Kids, Sound, Row
    <3>2. entities' = Without(relinked, {id})
      BY <1>4, <2>2, <3>1 DEF Remove, Deleted
    <3>3. S \subseteq Kids(entities, list)
      BY DEF Before
    <3>4. OnlyIn(relinked, entities, list)
      BY <1>0, <3>3, SetNextStaysIn
    <3> HIDE DEF S
    <3>5. DOMAIN relinked = DOMAIN entities
      BY DEF SetNext
    <3> HIDE DEF relinked
    <3>6. /\ DOMAIN entities' = DOMAIN relinked \ {id}
          /\ \A i \in DOMAIN entities' : entities'[i] = relinked[i]
      BY <3>2 DEF Without
    <3>7. OnlyIn(entities', entities, list)
      BY <3>1, <3>4, <3>5, <3>6 DEF OnlyIn, Kids
    <3>8. QED
      BY <3>7
  <2>3. QED
    BY <2>1, <2>2
<1>5. ASSUME NEW list \in Playlists, Clear(list)
      PROVE  \E m : OnlyIn(entities', entities, m)
  <2>1. /\ DOMAIN entities' = DOMAIN entities \ Kids(entities, list)
        /\ \A i \in DOMAIN entities' : entities'[i] = entities[i]
    BY <1>5 DEF Clear, Without
  <2>2. OnlyIn(entities', entities, list)
    BY <2>1 DEF OnlyIn, Kids
  <2>3. QED
    BY <2>2
<1>6. QED
  BY <1>1, <1>2, <1>3, <1>4, <1>5 DEF Next

(* No call ever changes the entities of two playlists.                     *)
THEOREM OthersStayAsTheyAre == Spec => OnePlaylistAtATime
<1>1. IInv /\ [Next]_vars =>
        [\A k, l \in Playlists : Rows(k)' # Rows(k) /\ Rows(l)' # Rows(l) => k = l]_vars
  BY NextStaysInOne, OnlyInIsOne
<1>2. QED
  BY <1>1, InvariantHolds, PTL DEF Spec, OnePlaylistAtATime

-----------------------------------------------------------------------------
(* The refinement of ordered lists. *)

(* What the lemmas about the order of chains ask of a table.              *)
LEMMA SoundIsChained ==
  ASSUME NEW T, Sound(T)
  PROVE  Chained(T, Playlists)
<1>1. DOMAIN T \subseteq EntityIds /\ None \notin DOMAIN T
  BY DEF Sound, EntityIds, None
<1>2. IsFiniteSet(EntityIds)
  BY FS_Interval, MaxEntityAssumption DEF EntityIds
<1>3. IsFiniteSet(DOMAIN T)
  BY <1>1, <1>2, FS_Subset
<1>4. \A i \in DOMAIN T : T[i].owner \in Playlists
  BY DEF Sound, Row
<1>5. QED
  BY <1>1, <1>3, <1>4 DEF Chained, Sound

(* get_for_list returns every entity of a playlist, once.                  *)
ListsEachOnce ==
  \A l \in Playlists :
    /\ GetForList(entities, l) \in Seq(Kids(entities, l))
    /\ \A i \in Kids(entities, l) :
         \E k \in DOMAIN GetForList(entities, l) : GetForList(entities, l)[k] = i
    /\ \A j, k \in DOMAIN GetForList(entities, l) :
         GetForList(entities, l)[j] = GetForList(entities, l)[k] => j = k

(* No row is ever lost from sight, and none is listed twice, whatever      *)
(* calls came before: the query reads the whole chain.                      *)
THEOREM NoRowIsLost == Spec => []ListsEachOnce
<1>1. ASSUME IInv
      PROVE  ListsEachOnce
  <2> SUFFICES ASSUME NEW l \in Playlists
               PROVE  LET s == GetForList(entities, l)
                      IN  /\ s \in Seq(Kids(entities, l))
                          /\ \A i \in Kids(entities, l) : \E k \in DOMAIN s : s[k] = i
                          /\ \A j, k \in DOMAIN s : s[j] = s[k] => j = k
    BY DEF ListsEachOnce
  <2>1. Chained(entities, Playlists)
    BY <1>1, IInvIsSound, SoundIsChained
  <2>2. QED
    BY <2>1, SortedHoldsKids DEF GetForList, Leq
<1>2. QED
  BY <1>1, InvariantHolds, PTL

(* What OrderedLists knows of the lists that get_for_list returns.         *)
LEMMA ListsAreOrdered ==
  ASSUME NEW T, Chained(T, Playlists),
         NEW l, l = [p \in Playlists |-> GetForList(T, p)]
  PROVE  /\ RanksOf(Order!Ranks(l), T, Playlists)
         /\ Order!Items(Order!Ranks(l)) = DOMAIN T
         /\ Order!OnePlaceEach(l)
<1>1. l = [p \in Playlists |-> Sorted(T, p)]
  BY DEF GetForList
<1>2. RanksOf(Order!Ranks(l), T, Playlists) /\ Order!OnePlaceEach(l)
  BY <1>1, ListsHaveRanks DEF Order!Ranks, Order!Pairs, Order!OnePlaceEach
<1>3. QED
  BY <1>2, RanksHoldRows DEF Order!Items

(* A step that changes the place of one row, or adds it. *)
LEMMA StepPuts ==
  ASSUME Chained(entities, Playlists), Chained(entities', Playlists),
         NEW id \in DOMAIN entities',
         \A o \in Playlists : Kids(entities', o) \ {id} = Kids(entities, o) \ {id},
         \A o \in Playlists : \A x, y \in Kids(entities', o) \ {id} :
           Leq(Sorted(entities', o), x, y) <=> Leq(Sorted(entities, o), x, y)
  PROVE  Order!Next
<1> DEFINE was == [l \in Playlists |-> GetForList(entities, l)]
           now == [l \in Playlists |-> GetForList(entities', l)]
           R == Order!Ranks(was)
           S == Order!Ranks(now)
           X == {id}
<1>0. /\ \A o \in Playlists : Kids(entities', o) \ X = Kids(entities, o) \ X
      /\ \A o \in Playlists : \A x, y \in Kids(entities', o) \ X :
           Leq(Sorted(entities', o), x, y) <=> Leq(Sorted(entities, o), x, y)
  OBVIOUS
<1>1. RanksOf(R, entities, Playlists)
  BY ListsAreOrdered
<1>2. RanksOf(S, entities', Playlists) /\ Order!Items(S) = DOMAIN entities'
      /\ Order!OnePlaceEach(now)
  BY ListsAreOrdered
<1> HIDE DEF R, S, X
<1>3. Order!Without(S, X) = Order!Without(R, X)
  BY <1>0, <1>1, <1>2, SameOrderSameRanks DEF Order!Without
<1>4. id \in Order!Items(S)
  BY <1>2
<1> HIDE DEF was, now
<1>5. \E x \in Order!Items(S) : Order!Put(R, S, x)
  BY <1>3, <1>4 DEF Order!Put, X
<1>6. QED
  BY <1>2, <1>5 DEF Order!Next, R, S, was, now

(* A step that takes rows away. *)
LEMMA StepTakes ==
  ASSUME Chained(entities, Playlists), Chained(entities', Playlists),
         DOMAIN entities' \subseteq DOMAIN entities,
         \A i \in DOMAIN entities' : entities'[i].owner = entities[i].owner,
         \A o \in Playlists : \A x, y \in Kids(entities', o) :
           Leq(Sorted(entities', o), x, y) <=> Leq(Sorted(entities, o), x, y)
  PROVE  Order!Next
<1> DEFINE was == [l \in Playlists |-> GetForList(entities, l)]
           now == [l \in Playlists |-> GetForList(entities', l)]
           R == Order!Ranks(was)
           S == Order!Ranks(now)
           X == DOMAIN entities \ DOMAIN entities'
<1>1. RanksOf(R, entities, Playlists) /\ Order!Items(R) = DOMAIN entities
  BY ListsAreOrdered
<1>2. RanksOf(S, entities', Playlists) /\ Order!Items(S) = DOMAIN entities'
      /\ Order!OnePlaceEach(now)
  BY ListsAreOrdered
<1> HIDE DEF R, S
<1>3. \A o \in Playlists : Kids(entities', o) \ X = Kids(entities, o) \ X
                           /\ Kids(entities', o) \ X \subseteq Kids(entities', o)
  BY DEF Kids
<1> HIDE DEF X
<1>4. Order!Without(S, X) = Order!Without(R, X)
  BY <1>1, <1>2, <1>3, SameOrderSameRanks DEF Order!Without
<1>5. Order!Without(S, X) = S
  <2>1. ASSUME NEW r \in S
        PROVE  r[2][1] \in DOMAIN entities' /\ r[2][2] \in DOMAIN entities'
    BY <1>2 DEF RanksOf, Kids
  <2>2. QED
    BY <2>1 DEF X, Order!Without
<1>6. Order!Take(R, S)
  BY <1>1, <1>2, <1>4, <1>5 DEF Order!Take, X
<1> HIDE DEF was, now
<1>7. QED
  BY <1>2, <1>6 DEF Order!Next, R, S, was, now

(* Every call is a step of OrderedLists, or none.                          *)
LEMMA StepIsOrdered ==
  ASSUME IInv, IInv', Next
  PROVE  Order!Next \/ UNCHANGED [l \in Playlists |-> GetForList(entities, l)]
<1>0. /\ Sound(entities) /\ Sound(entities')
      /\ Chained(entities, Playlists) /\ Chained(entities', Playlists)
  <2>1. Sound(entities) /\ Sound(entities')
    BY MaxEntityAssumption DEF IInv, TypeOK, Chains, Sound, EntityIds
  <2>2. QED
    BY <2>1, SoundIsChained
<1>1. ASSUME entities' = entities
      PROVE  UNCHANGED [l \in Playlists |-> GetForList(entities, l)]
  BY <1>1
<1>2. ASSUME NEW id \in DOMAIN entities, Add(id, entities[id], TRUE)
      PROVE  entities' = entities
  <2>1. id # None
    BY <1>0 DEF Chained
  <2>2. QED
    BY <1>2, <2>1 DEF Add
<1>3. ASSUME NEW place \in Places(entities), NEW track \in Tracks, NEW uuid \in Uuids,
             NEW throwIfDuplicate \in BOOLEAN, seq < MaxEntity,
             Add(None, MakeRow(place, track, uuid), throwIfDuplicate),
             entities' # entities
      PROVE  Order!Next
  <2> DEFINE row == MakeRow(place, track, uuid)
             id == seq + 1
  <2>1. entities' = Added(entities, id, row)
    BY <1>3 DEF Add
  <2>2. row \in Row /\ row.next \in Kids(entities, row.owner) \cup {None}
        /\ id \in EntityIds \ DOMAIN entities
    BY <1>0, <1>3, PlacesAreLegal, IInvIsSound, MaxEntityAssumption DEF EntityIds
  <2> HIDE DEF row, id
  <2>3. PutBefore(entities', entities, id, row.owner, row.next)
    BY <1>0, <2>1, <2>2, AddedShape
  <2>4. id \in DOMAIN entities'
        /\ \A o \in Playlists : /\ Kids(entities', o) \ {id} = Kids(entities, o) \ {id}
                                /\ Kids(entities', o) \ {id} \subseteq Kids(entities, o)
    BY <2>3 DEF PutBefore, Kids
  <2>5. \A o \in Playlists : \A x, y \in Kids(entities', o) \ {id} :
          Leq(Sorted(entities', o), x, y) <=> Leq(Sorted(entities, o), x, y)
    BY <1>0, <2>2, <2>3, <2>4, PutBeforeKeepsOrder
  <2>6. QED
    BY <1>0, <2>4, <2>5, StepPuts
<1>4. ASSUME NEW list \in Playlists, NEW id \in EntityIds, Remove(list, id),
             entities' # entities
      PROVE  Order!Next
  <2>1. entities' = Deleted(entities, id) /\ id \in DOMAIN entities
    BY <1>4 DEF Remove, Kids
  <2>2. TakenOut(entities', entities, id, {id})
    BY <1>0, <2>1, DeletedShape
  <2>3. DOMAIN entities' \subseteq DOMAIN entities
        /\ \A i \in DOMAIN entities' : entities'[i].owner = entities[i].owner
    BY <2>2 DEF TakenOut
  <2>4. \A o \in Playlists : \A x, y \in Kids(entities', o) :
          Leq(Sorted(entities', o), x, y) <=> Leq(Sorted(entities, o), x, y)
    <3>1. \A o \in Playlists : Kids(entities, o) \cap {id} \subseteq {id}
      OBVIOUS
    <3>2. QED
      BY <1>0, <2>2, <3>1, TakenOutKeepsOrder
  <2>5. QED
    BY <1>0, <2>3, <2>4, StepTakes
<1>5. ASSUME NEW list \in Playlists, Clear(list)
      PROVE  Order!Next
  <2>1. /\ DOMAIN entities' = DOMAIN entities \ Kids(entities, list)
        /\ \A i \in DOMAIN entities' : entities'[i] = entities[i]
    BY <1>5 DEF Clear, Without
  <2>2. ASSUME NEW o \in Playlists, NEW x \in Kids(entities', o)
        PROVE  Sorted(entities', o) = Sorted(entities, o)
    <3>1. Kids(entities', o) = Kids(entities, o)
          /\ \A i \in Kids(entities, o) : entities'[i].next = entities[i].next
      BY <2>1 DEF Kids
    <3>2. QED
      BY <1>0, <3>1, SameLinksSameOrder DEF Chained
  <2>3. QED
    BY <1>0, <2>1, <2>2, StepTakes
<1>6. QED
  BY <1>1, <1>2, <1>3, <1>4, <1>5 DEF Next

(* The table implements ordered lists: whatever calls come, every one puts *)
(* an entity in one place or takes entities away, in the order that        *)
(* get_for_list returns, and all others stay in the order they had.        *)
THEOREM ImplementsOrderedLists == Spec => ImplementsOrder
<1>1. Init => Order!Init
  <2> SUFFICES ASSUME Init, NEW l \in Playlists
               PROVE  GetForList(entities, l) = << >>
    BY DEF Order!Init
  <2>1. Sound(entities) /\ Kids(entities, l) = {}
    BY InitIInv, IInvIsSound DEF Init, Kids
  <2>2. Sorted(entities, l) \in Seq({})
    BY <2>1, SoundIsChained, SortedHoldsKids
  <2>3. QED
    BY <2>2 DEF GetForList
<1>2. IInv /\ IInv' /\ [Next]_vars
        => [Order!Next]_([l \in Playlists |-> GetForList(entities, l)])
  BY StepIsOrdered DEF vars
<1>3. QED
  BY <1>1, <1>2, InvariantHolds, PTL DEF Spec, ImplementsOrder, Order!Spec
=============================================================================
