---------------------------- MODULE PlaylistEntity ----------------------------
(***************************************************************************)
(* The PlaylistEntity table of an Engine Library 2.x/3.x database: which   *)
(* tracks are in which playlist and in what order, and the operations of   *)
(* class playlist_entity_table.                                            *)
(*                                                                         *)
(* The entities of a playlist are chained by nextEntityId.  There is no    *)
(* INSERT trigger here: add links the row before the new one itself, in a  *)
(* transaction; a trigger relinks upon DELETE.  Unlike the Playlist table, *)
(* the schema does not forbid two entities with the same next one.         *)
(***************************************************************************)
EXTENDS ChainedRows

CONSTANTS
  Playlists,  (* ids that listId may hold                                  *)
  Tracks,     (* ids that trackId may hold: they start at 1                *)
  Uuids,      (* the databases that tracks come from                       *)
  MaxEntity   (* bound: the number of INSERTs in a behaviour               *)

ASSUME TracksAssumption    == Tracks \subseteq Nat \ {0}
ASSUME MaxEntityAssumption == MaxEntity \in Nat

VARIABLES
  entities,   (* the table; owner is its column listId                     *)
  seq,        (* sqlite_sequence: the largest id ever given                *)
  outcome     (* how the last call ended                                   *)

vars == <<entities, seq, outcome>>

EntityIds == 1 .. MaxEntity

Row ==
  [owner : Playlists, track : Tracks, uuid : Uuids,
   next : EntityIds \cup {None}]

Outcomes == {"ok", "row_id_error", "track_already_in_playlist", "constraint"}

-----------------------------------------------------------------------------
(* Queries. *)

(* The rows that add takes for the one to add. *)
Existing(T, row) ==
  {i \in Kids(T, row.owner) : T[i].track = row.track /\ T[i].uuid = row.uuid}

(* get; the database that the track comes from is not looked at. *)
Found(T, list, track) == {i \in Kids(T, list) : T[i].track = track}

(* get_for_list and, for the tracks alone, track_ids. *)
GetForList(T, list) == Sorted(T, list)

TrackIds(T, list) ==
  LET order == GetForList(T, list)
  IN  [k \in DOMAIN order |-> T[order[k]].track]

-----------------------------------------------------------------------------
(* Statements. *)

(* Constraint C_NAME_UNIQUE_FOR_LIST. *)
Unique(T) == \A i \in DOMAIN T : Existing(T, T[i]) = {i}

(* Mutants: the UPDATE without AND id <> ?, and without listId = ?. *)
AddedToItself(T, id, row) ==
  LET added == Inserted(T, id, row)
  IN  SetNext(added, Before(added, row.owner, row.next), id)

AddedEverywhere(T, id, row) ==
  LET added == Inserted(T, id, row)
  IN  SetNext(added, {i \in DOMAIN T : T[i].next = row.next}, id)

(* The INSERT and the UPDATE of add. *)
Added(T, id, row) ==
  LET added == Inserted(T, id, row)
  IN  SetNext(added, Before(added, row.owner, row.next) \ {id}, id)

(* Mutants: without the trigger, and with a trigger that ends the chain. *)
DeletedUnlinked(T, id) == Without(T, {id})

DeletedToEnd(T, id) ==
  Without(SetNext(T, Before(T, T[id].owner, id), None), {id})

(* A DELETE of one row, with trigger_before_delete_PlaylistEntity. *)
Deleted(T, id) ==
  LET relinked == IF T[id].track > 0
                  THEN SetNext(T, Before(T, T[id].owner, id), T[id].next)
                  ELSE T
  IN  Without(relinked, {id})

-----------------------------------------------------------------------------
(* Mutants: without the SELECT, and without AUTOINCREMENT. *)
AddUnchecked(id, row, throwIfDuplicate) ==
  IF id # None
  THEN outcome' = "row_id_error" /\ UNCHANGED <<entities, seq>>
  ELSE IF ~Unique(Inserted(entities, seq + 1, row))
  THEN outcome' = "constraint" /\ UNCHANGED <<entities, seq>>
  ELSE entities' = Added(entities, seq + 1, row) /\ seq' = seq + 1 /\ outcome' = "ok"

AddUncounted(id, row, throwIfDuplicate) ==
  IF id # None \/ Existing(entities, row) # {}
  THEN outcome' = "ok" /\ UNCHANGED <<entities, seq>>
  ELSE entities' = Added(entities, seq + 1, row) /\ UNCHANGED seq /\ outcome' = "ok"

(* playlist_entity_table::add; id is the one the row to add carries. *)
Add(id, row, throwIfDuplicate) ==
  IF id # None
  THEN outcome' = "row_id_error" /\ UNCHANGED <<entities, seq>>
  ELSE IF Existing(entities, row) # {}
  THEN /\ outcome' = IF throwIfDuplicate THEN "track_already_in_playlist" ELSE "ok"
       /\ UNCHANGED <<entities, seq>>
  ELSE IF ~Unique(Inserted(entities, seq + 1, row))
  THEN outcome' = "constraint" /\ UNCHANGED <<entities, seq>>
  ELSE /\ entities' = Added(entities, seq + 1, row)
       /\ seq' = seq + 1
       /\ outcome' = "ok"

(* playlist_entity_table::remove. *)
Remove(list, id) ==
  /\ entities' = IF id \in Kids(entities, list) THEN Deleted(entities, id)
                 ELSE entities
  /\ outcome' = "ok"
  /\ UNCHANGED seq

(* playlist_entity_table::clear.  The trigger relinks rows of the same     *)
(* playlist only, all of which go.                                         *)
Clear(list) ==
  /\ entities' = Without(entities, Kids(entities, list))
  /\ outcome' = "ok"
  /\ UNCHANGED seq

-----------------------------------------------------------------------------
(* What a caller has to see to: the row goes before another one of the     *)
(* same playlist or at the end.                                            *)
Places(T) == UNION {{l} \X (Kids(T, l) \cup {None}) : l \in Playlists}

MakeRow(place, track, uuid) ==
  [owner |-> place[1], track |-> track, uuid |-> uuid, next |-> place[2]]

Init ==
  /\ entities = [i \in {} |-> None]
  /\ seq = 0
  /\ outcome = "ok"

Next ==
  \/ \E id \in DOMAIN entities : Add(id, entities[id], TRUE)
  \/ \E place \in Places(entities), track \in Tracks, uuid \in Uuids,
        throwIfDuplicate \in BOOLEAN :
       seq < MaxEntity /\ Add(None, MakeRow(place, track, uuid), throwIfDuplicate)
  \/ \E list \in Playlists, id \in EntityIds : Remove(list, id)
  \/ \E list \in Playlists : Clear(list)

Spec == Init /\ [][Next]_vars

-----------------------------------------------------------------------------
(* Properties. *)

(* The columns hold what the queries expect of them.                       *)
TypeOK ==
  /\ seq \in 0 .. MaxEntity
  /\ DOMAIN entities \subseteq 1 .. seq
  /\ entities \in [DOMAIN entities -> Row]
  /\ outcome \in Outcomes

(* After any sequence of add, remove and clear, the entities of every      *)
(* playlist form one chain; nothing in the schema would stop them from     *)
(* falling apart.                                                          *)
Chains == \A l \in Playlists : Chain(entities, l)

(* The check that add makes before its INSERT is as strict as the schema:  *)
(* a duplicate is met with the documented exception or an id, never with   *)
(* an SQLite error.                                                        *)
DuplicateIsForeseen == outcome # "constraint"

(* A call about one playlist leaves the entities of every other one alone, *)
(* though all of them end with the same next id and share one sequence.    *)
Rows(l) == {<<i, entities[i]>> : i \in Kids(entities, l)}

OnePlaylistAtATime ==
  [][\A k, l \in Playlists : Rows(k)' # Rows(k) /\ Rows(l)' # Rows(l) => k = l]_vars

(* The table implements ordered lists of entities: a call puts one entity  *)
(* in its place or takes some away, and reorders nothing.                  *)
Order == INSTANCE OrderedLists
           WITH Owners <- Playlists,
                order  <- [l \in Playlists |-> GetForList(entities, l)]

ImplementsOrder == Order!Spec
=============================================================================
