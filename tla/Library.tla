------------------------------- MODULE Library -------------------------------
(***************************************************************************)
(* The playlists and crates of an Engine Library 2.x/3.x database as the   *)
(* public classes database, playlist, crate and track present them, by one *)
(* caller that makes one call at a time.  It composes the Playlist and the *)
(* PlaylistEntity table; of the Track table it keeps the ids.              *)
(*                                                                         *)
(* Playlists and crates are the same rows, so playlist_impl and crate_impl *)
(* do the same, but for add_track_back and add_track.  The parent None     *)
(* stands for the database: create_root_playlist is Create(None, ..).      *)
(*                                                                         *)
(* The documentation forbids a call on a handle to something that has been *)
(* removed, so calls are about rows that exist.  Some calls do other than  *)
(* documented even so.  Those are made only as far as the constant Traps   *)
(* says: with no traps, the caller knows about them and keeps clear.       *)
(***************************************************************************)
EXTENDS ChainedRows

CONSTANTS
  Titles, BadTitle,              (* see PlaylistTable                      *)
  MaxId, MaxEntity, MaxTrack,    (* bounds: INSERTs into each of the tables*)
  MaxInserts,                    (* bound: INSERTs into all of them, weighed*)
  Traps                          (* what the caller does not keep clear of *)

VARIABLES
  lists, listSeq,                (* table Playlist                         *)
  entities, entitySeq,           (* table PlaylistEntity                   *)
  tracks, trackSeq,              (* the ids in table Track                 *)
  outcome,                       (* how the last call ended                *)
  call                           (* the last call: its name and arguments  *)

listVars   == <<lists, listSeq>>
entityVars == <<entities, entitySeq>>
trackVars  == <<tracks, trackSeq>>
vars       == <<listVars, entityVars, trackVars, outcome, call>>

AllTraps == {"stale_next", "cycle", "deep_remove", "entity_id", "listed_track"}

ASSUME TrapsAssumption    == Traps \subseteq AllTraps
ASSUME MaxTrackAssumption == MaxTrack \in Nat
ASSUME LibraryTitles      == BadTitle \notin Titles
ASSUME LibraryBounds      == {MaxId, MaxEntity, MaxInserts} \subseteq Nat

Uuid == "uuid of the database"

PT == INSTANCE PlaylistTable
        WITH seq <- listSeq, Flags <- {TRUE}, PlainIds <- {}
PE == INSTANCE PlaylistEntity
        WITH seq <- entitySeq, Playlists <- 1 .. MaxId, Tracks <- 1 .. MaxTrack,
             Uuids <- {Uuid}

Fail(what) ==
  /\ outcome' = what
  /\ UNCHANGED <<listVars, entityVars, trackVars>>

-----------------------------------------------------------------------------
(* Playlists. *)

Owners == {None} \cup DOMAIN lists

(* find_id and find_root_id. *)
Named(p, n) == {i \in Kids(lists, p) : lists[i].title = n}

AddList(n, p, next) ==
  /\ PT!Add(None, PT!MakeRow(n, <<p, next>>, TRUE))
  /\ UNCHANGED <<entityVars, trackVars>>

(* create_root_playlist, create_root_crate, create_sub_playlist and        *)
(* create_sub_crate.                                                       *)
Create(p, n) ==
  IF Named(p, n) # {} THEN Fail("already_exists") ELSE AddList(n, p, None)

(* Mutant: the new playlist goes before the given one. *)
CreateBefore(p, n, after) ==
  IF Named(p, n) # {} THEN Fail("already_exists")
  ELSE IF lists[after].owner # p THEN Fail("invalid_parent")
  ELSE AddList(n, p, after)

(* create_root_playlist_after, create_root_crate_after,                    *)
(* create_sub_playlist_after and create_sub_crate_after.                   *)
CreateAfter(p, n, after) ==
  IF Named(p, n) # {} THEN Fail("already_exists")
  ELSE IF lists[after].owner # p THEN Fail("invalid_parent")
  ELSE AddList(n, p, lists[after].next)

SetName(i, n) ==
  /\ PT!Update(i, [lists[i] EXCEPT !.title = n])
  /\ UNCHANGED <<entityVars, trackVars>>

(* set_parent changes the parent and leaves the next list as it is.  Below *)
(* itself, the last statement of the move fires the trigger that goes up   *)
(* through PlaylistAllParent, which over a circle has no end.              *)
SetParent(i, p) ==
  LET row == [lists[i] EXCEPT !.owner = p]
  IN  IF p = i THEN Fail("invalid_parent")
      ELSE IF p \notin PT!Descendants(lists, i)
      THEN PT!Update(i, row) /\ UNCHANGED <<entityVars, trackVars>>
      ELSE LET moved == PT!UpdateTables(lists, i, row)
           IN  Fail(IF PT!Accepted(moved)
                    THEN "never_returns" ELSE "constraint")

(* database::remove_playlist and remove_crate. *)
RemoveList(i) ==
  /\ PT!Remove(i)
  /\ UNCHANGED <<entityVars, trackVars>>

-----------------------------------------------------------------------------
(* Tracks in playlists. *)

AddEntity(p, t, next, throwIfDuplicate) ==
  /\ PE!Add(None, PE!MakeRow(<<p, next>>, t, Uuid), throwIfDuplicate)
  /\ UNCHANGED <<listVars, trackVars>>

(* playlist::add_track_back. *)
AddTrackBack(p, t) == AddEntity(p, t, None, TRUE)

(* crate::add_track. *)
AddTrack(p, t) == AddEntity(p, t, None, FALSE)

(* Mutant: the track goes before the given one. *)
AddTrackBefore(p, t, after) ==
  LET found == PE!Found(entities, p, after)
  IN  IF found = {} THEN Fail("track_deleted")
      ELSE AddEntity(p, t, CHOOSE e \in found : TRUE, TRUE)

(* playlist::add_track_after. *)
AddTrackAfter(p, t, after) ==
  LET found == PE!Found(entities, p, after)
  IN  IF found = {} THEN Fail("track_deleted")
      ELSE AddEntity(p, t, entities[CHOOSE e \in found : TRUE].next, TRUE)

(* playlist::remove_track and crate::remove_track: the entity to remove is *)
(* given as the id of the track.                                           *)
RemoveTrack(p, t) ==
  /\ PE!Remove(p, t)
  /\ UNCHANGED <<listVars, trackVars>>

ClearTracks(p) ==
  /\ PE!Clear(p)
  /\ UNCHANGED <<listVars, trackVars>>

-----------------------------------------------------------------------------
(* Tracks. *)

CreateTrack ==
  /\ tracks' = tracks \cup {trackSeq + 1}
  /\ trackSeq' = trackSeq + 1
  /\ outcome' = "ok"
  /\ UNCHANGED <<listVars, entityVars>>

(* database::remove_track; no other table refers to Track in a way that    *)
(* would remove the entities.                                              *)
DropTrack(t) ==
  /\ tracks' = tracks \ {t}
  /\ outcome' = "ok"
  /\ UNCHANGED <<listVars, entityVars, trackSeq>>

-----------------------------------------------------------------------------
(* What a careful caller stays away from. *)

(* A playlist that is not the last of its siblings takes the wrong next    *)
(* list along to its new parent.                                           *)
StaleNext(i, p) == p # lists[i].owner /\ lists[i].next # None

Cycle(i, p) == p \in PT!Descendants(lists, i)

(* The trigger takes the children along and leaves what is below them.     *)
DeepRemove(i) == \E k \in Kids(lists, i) : Kids(lists, k) # {}

(* The entity that goes is not the one that holds the track.               *)
EntityId(p, t) == PE!Found(entities, p, t) # Kids(entities, p) \cap {t}

ListedTrack(t) == \E e \in DOMAIN entities : entities[e].track = t

Unless(trap, danger) == danger => trap \in Traps

-----------------------------------------------------------------------------
Init ==
  /\ PT!Init
  /\ PE!Init
  /\ tracks = {} /\ trackSeq = 0
  /\ call = <<"open">>

(* Bounds: MaxId, MaxEntity and MaxTrack on each table, and MaxInserts on  *)
(* all of them, where a playlist weighs as much as two others.             *)
MayInsert(weight) == 2 * listSeq + entitySeq + trackSeq + weight <= MaxInserts
MayInsertList(n)  == (listSeq < MaxId /\ MayInsert(2)) \/ n = BadTitle
MayInsertEntity   == entitySeq < MaxEntity /\ MayInsert(1)
MayInsertTrack    == trackSeq < MaxTrack /\ MayInsert(1)

ListCall ==
  \/ \E p \in Owners, n \in PT!AnyTitle :
       MayInsertList(n) /\ Create(p, n) /\ call' = <<"create", p, n>>
  \/ \E p \in Owners, n \in PT!AnyTitle, a \in DOMAIN lists :
       MayInsertList(n) /\ CreateAfter(p, n, a) /\ call' = <<"create_after", p, n, a>>
  \/ \E i \in DOMAIN lists, n \in PT!AnyTitle :
       SetName(i, n) /\ call' = <<"set_name", i, n>>
  \/ \E i \in DOMAIN lists, p \in Owners :
       /\ Unless("stale_next", StaleNext(i, p)) /\ Unless("cycle", Cycle(i, p))
       /\ SetParent(i, p) /\ call' = <<"set_parent", i, p>>
  \/ \E i \in DOMAIN lists :
       /\ Unless("deep_remove", DeepRemove(i))
       /\ RemoveList(i) /\ call' = <<"remove_list", i>>

EntityCall ==
  \/ \E p \in DOMAIN lists, t \in tracks :
       MayInsertEntity /\ AddTrackBack(p, t) /\ call' = <<"add_track_back", p, t>>
  \/ \E p \in DOMAIN lists, t \in tracks :
       MayInsertEntity /\ AddTrack(p, t) /\ call' = <<"add_track", p, t>>
  \/ \E p \in DOMAIN lists, t, a \in tracks :
       /\ MayInsertEntity
       /\ AddTrackAfter(p, t, a) /\ call' = <<"add_track_after", p, t, a>>
  \/ \E p \in DOMAIN lists, t \in tracks :
       /\ Unless("entity_id", EntityId(p, t))
       /\ RemoveTrack(p, t) /\ call' = <<"remove_track", p, t>>
  \/ \E p \in DOMAIN lists : ClearTracks(p) /\ call' = <<"clear_tracks", p>>

TrackCall ==
  \/ MayInsertTrack /\ CreateTrack /\ call' = <<"create_track">>
  \/ \E t \in tracks :
       /\ Unless("listed_track", ListedTrack(t))
       /\ DropTrack(t) /\ call' = <<"drop_track", t>>

Next == outcome # "never_returns" /\ (ListCall \/ EntityCall \/ TrackCall)

Spec == Init /\ [][Next]_vars

-----------------------------------------------------------------------------
(* Properties. *)

(* Both tables hold legal values, and the tracks are ids given out.        *)
TypeOK ==
  /\ listSeq \in 0 .. MaxId /\ DOMAIN lists \subseteq 1 .. listSeq
  /\ lists \in [DOMAIN lists -> PT!Row]
  /\ entitySeq \in 0 .. MaxEntity /\ DOMAIN entities \subseteq 1 .. entitySeq
  /\ entities \in [DOMAIN entities -> PE!Row]
  /\ trackSeq \in 0 .. MaxTrack /\ tracks \subseteq 1 .. trackSeq

(* Where there are rows to list, there is one with no next row to start    *)
(* from: the assertion in sort_ids, behind children() and root_playlists().*)
ListsCanBeSorted == \A p \in Owners : Kids(lists, p) # {} => Before(lists, p, None) # {}

(* parent() gives a playlist that exists, or none.                         *)
ParentExists == \A i \in DOMAIN lists : lists[i].owner \in Owners

(* What the table alone does not see to, once its callers fill in the rows.*)
ListsAreSound == TypeOK /\ ListsCanBeSorted /\ ParentExists

(* After playlist::remove_track or crate::remove_track the track is not    *)
(* among the tracks any more.                                              *)
RemovedTrackIsGone ==
  [][call'[1] = "remove_track"
       => PE!Found(entities', call'[2], call'[3]) = {}]_vars

=============================================================================
