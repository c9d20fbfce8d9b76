------------------------------ MODULE Playlists1 ------------------------------
(***************************************************************************)
(* The tracks of playlists in an Engine Library 1.x database: the calls of *)
(* engine_playlist_impl and engine_database_impl on table                  *)
(* PlaylistTrackList, where a track number says which place a track has,   *)
(* and where one track may have several places.                            *)
(*                                                                         *)
(* From schema 1.9.1 on PlaylistTrackList is a view, and INSTEAD OF        *)
(* triggers carry the changes over to ListTrackList row by row.  Whether   *)
(* SQLite enforces foreign keys is up to its build; the library never asks *)
(* for it.                                                                 *)
(*                                                                         *)
(* As in Library, calls are about playlists and tracks that exist, and the *)
(* constant Traps says which calls are made that do not do as documented.  *)
(***************************************************************************)
EXTENDS RowTables, SequencesExt

CONSTANTS
  MaxPlaylist, MaxTrack, MaxRow,  (* bounds on ids: playlists, tracks, rows*)
  MaxNumber,                      (* bound on track numbers                *)
  Traps                           (* what the caller does not keep clear of*)

VARIABLES
  views,       (* is PlaylistTrackList a view (schema 1.9.1 or later)?     *)
  fkeys,       (* does SQLite enforce foreign keys?                        *)
  playlists,   (* the ids of the playlists there are                       *)
  tracks,      (* the ids of the tracks there are                          *)
  rows,        (* PlaylistTrackList or ListTrackList: rowids to rows       *)
  outcome,     (* how the last call ended                                  *)
  call         (* the last call: its name and arguments                    *)

build == <<views, fkeys>>
data  == <<playlists, tracks, rows>>
vars  == <<build, data, outcome, call>>

AllTraps == {"tied", "repeated", "dangling"}

ASSUME Playlists1Traps  == Traps \subseteq AllTraps
ASSUME Playlists1Bounds == {MaxPlaylist, MaxTrack, MaxRow, MaxNumber} \subseteq Nat

Row == [list : 1 .. MaxPlaylist, track : 1 .. MaxTrack, number : 0 .. MaxNumber]

Of(R, p)        == {k \in DOMAIN R : R[k].list = p}
Places(R, p, t) == {k \in Of(R, p) : R[k].track = t}

(* Row j comes before row k in tracks(): ORDER BY trackNumber. *)
Earlier(R, j, k) ==
  R[j].number < R[k].number \/ (R[j].number = R[k].number /\ j < k)

(* The place of row k among those of p. *)
Rank(R, p, k) == Cardinality({j \in Of(R, p) : Earlier(R, j, k)}) + 1

Content(R, p) ==
  [n \in 1 .. Cardinality(Of(R, p)) |-> R[CHOOSE k \in Of(R, p) : Rank(R, p, k) = n].track]

-----------------------------------------------------------------------------
(* Statements. *)

(* UPDATE .. SET trackNumber = trackNumber + 1 on the table. *)
TableShifted(R, p, n) ==
  [k \in DOMAIN R |-> IF k \in Of(R, p) /\ R[k].number > n
                      THEN [R[k] EXCEPT !.number = @ + 1] ELSE R[k]]

(* The same on the view.  Its rows are read first; then the trigger runs   *)
(* for each, and updates all rows that now look as this one looked.        *)
ViewShifted(R, p, n) ==
  LET shifted[id \in 0 .. MaxRow] ==
        IF id = 0 THEN R
        ELSE LET now == shifted[id - 1]
             IN  IF id \in Of(R, p) /\ R[id].number > n
                 THEN [k \in DOMAIN R |-> IF now[k] = R[id]
                                          THEN [now[k] EXCEPT !.number = @ + 1]
                                          ELSE now[k]]
                 ELSE now
  IN  shifted[MaxRow]

(* Mutant: the tracks that follow stay where they are. *)
Unshifted(R, p, n) == R

Shifted(R, p, n) == IF views THEN ViewShifted(R, p, n) ELSE TableShifted(R, p, n)

(* Mutant: the number of tracks, as if there were no gaps. *)
CountOf(R, p) == Cardinality(Of(R, p))

(* SELECT MAX(trackNumber) + 1, and 0 for no rows. *)
NextNumber(R, p) ==
  IF Of(R, p) = {} THEN 0 ELSE Highest({R[k].number : k \in Of(R, p)}) + 1

-----------------------------------------------------------------------------
(* Calls.  Each is one transaction or one statement. *)

Put(R) == rows' = R /\ outcome' = "ok" /\ UNCHANGED <<build, playlists, tracks>>

AddTrackBack(p, t) ==
  Put(InsertedLast(rows, [list |-> p, track |-> t, number |-> NextNumber(rows, p)]))

(* Mutant: the last place of the track counts. *)
FromLast(R, p, t) == Highest({R[k].number : k \in Places(R, p, t)})

(* ORDER BY trackNumber LIMIT 1. *)
FromFirst(R, p, t) ==
  CHOOSE n \in {R[k].number : k \in Places(R, p, t)} :
    \A k \in Places(R, p, t) : n <= R[k].number

AddTrackAfter(p, t, after) ==
  IF Places(rows, p, after) = {}
  THEN outcome' = "track_not_in_playlist" /\ UNCHANGED <<build, data>>
  ELSE LET n == FromFirst(rows, p, after)
       IN  Put(InsertedLast(Shifted(rows, p, n),
                        [list |-> p, track |-> t, number |-> n + 1]))

RemoveTrack(p, t) == Put(Lacking(rows, Places(rows, p, t)))

ClearTracks(p) == Put(Lacking(rows, Of(rows, p)))

(* An id above those of all playlists: the next one in table Playlist, or, *)
(* in table List, the next above those of other lists too.                 *)
CreatePlaylist ==
  /\ \E i \in 1 .. MaxPlaylist :
       /\ i > Highest(playlists)
       /\ views \/ i = Highest(playlists) + 1
       /\ playlists' = playlists \cup {i}
  /\ outcome' = "ok"
  /\ UNCHANGED <<build, tracks, rows>>

(* ON DELETE CASCADE, if foreign keys are enforced. *)
Cascade(K) == IF fkeys THEN Lacking(rows, K) ELSE rows

RemovePlaylist(p) ==
  /\ playlists' = playlists \ {p}
  /\ rows' = Cascade(Of(rows, p))
  /\ outcome' = "ok"
  /\ UNCHANGED <<build, tracks>>

(* Track ids are not always those of a sequence without gaps: some schemas *)
(* leave a row without a path behind.                                      *)
CreateTrack ==
  /\ \E t \in 1 .. MaxTrack : t > Highest(tracks) /\ tracks' = tracks \cup {t}
  /\ outcome' = "ok"
  /\ UNCHANGED <<build, playlists, rows>>

DropTrack(t) ==
  /\ tracks' = tracks \ {t}
  /\ rows' = Cascade({k \in DOMAIN rows : rows[k].track = t})
  /\ outcome' = "ok"
  /\ UNCHANGED <<build, playlists>>

-----------------------------------------------------------------------------
(* What a careful caller stays away from. *)

(* The track to add after shares its number with a later place of itself.  *)
Tied(p, a) ==
  \E j, k \in Places(rows, p, a) :
    j # k /\ rows[j].number = rows[k].number /\ rows[j].number = FromFirst(rows, p, a)

(* A track with two places: both go. *)
Repeated(p, t) == \E j, k \in Places(rows, p, t) : j # k

(* Without foreign keys rows stay when what they refer to goes.            *)
Dangling(K) == ~fkeys /\ K # {}

Unless(trap, danger) == danger => trap \in Traps

-----------------------------------------------------------------------------
Init ==
  /\ views \in BOOLEAN /\ fkeys \in BOOLEAN
  /\ playlists = {} /\ tracks = {}
  /\ rows = [k \in {} |-> k]
  /\ outcome = "ok"
  /\ call = <<"open">>

(* Bounds: MaxRow and MaxNumber. *)
RoomIn(p) == Highest(DOMAIN rows) < MaxRow /\ NextNumber(rows, p) <= MaxNumber

TrackCall ==
  \/ \E p \in playlists, t \in tracks :
       RoomIn(p) /\ AddTrackBack(p, t) /\ call' = <<"add_track_back", p, t>>
  \/ \E p \in playlists, t, a \in tracks :
       /\ RoomIn(p) /\ Unless("tied", Tied(p, a))
       /\ AddTrackAfter(p, t, a) /\ call' = <<"add_track_after", p, t, a>>
  \/ \E p \in playlists, t \in tracks :
       /\ Unless("repeated", Repeated(p, t))
       /\ RemoveTrack(p, t) /\ call' = <<"remove_track", p, t>>
  \/ \E p \in playlists : ClearTracks(p) /\ call' = <<"clear_tracks", p>>

DatabaseCall ==
  \/ CreatePlaylist /\ call' = <<"create_playlist">>
  \/ \E p \in playlists :
       /\ Unless("dangling", Dangling(Of(rows, p)))
       /\ RemovePlaylist(p) /\ call' = <<"remove_playlist", p>>
  \/ CreateTrack /\ call' = <<"create_track">>
  \/ \E t \in tracks :
       /\ Unless("dangling", Dangling({k \in DOMAIN rows : rows[k].track = t}))
       /\ DropTrack(t) /\ call' = <<"drop_track", t>>

Next == TrackCall \/ DatabaseCall

Spec == Init /\ [][Next]_vars

-----------------------------------------------------------------------------
(* Properties. *)

(* Rows hold legal values, and refer to a playlist and a track that exist  *)
(* for a caller that does not count on keys that are not enforced.         *)
TypeOK ==
  /\ playlists \subseteq 1 .. MaxPlaylist /\ tracks \subseteq 1 .. MaxTrack
  /\ DOMAIN rows \subseteq 1 .. MaxRow /\ rows \in [DOMAIN rows -> Row]
  /\ "dangling" \notin Traps =>
       \A k \in DOMAIN rows : rows[k].list \in playlists /\ rows[k].track \in tracks

(* tracks() is well defined: two rows of a playlist have the same number   *)
(* only if they hold the same track, and that only in a view, whose        *)
(* trigger cannot tell the places of one track apart once they meet.       *)
NumbersTellTracksApart ==
  \A p \in playlists : \A j, k \in Of(rows, p) :
    j # k /\ rows[j].number = rows[k].number => views /\ rows[j].track = rows[k].track

(* What the rows of a playlist have to be for its order to be definite.    *)
RowsAreSound == TypeOK /\ NumbersTellTracksApart

Shown == [p \in playlists |-> Content(rows, p)]

(* s without the first t. *)
FirstDropped(s, t) == IF \E k \in DOMAIN s : s[k] = t
                      THEN RemoveAt(s, CHOOSE k \in DOMAIN s : /\ s[k] = t
                                         /\ \A j \in 1 .. k - 1 : s[j] # t)
                      ELSE s

(* s without any t. *)
AllDropped(s, t) ==
  LET kept == Ascending({k \in DOMAIN s : s[k] # t})
  IN  [n \in DOMAIN kept |-> s[kept[n]]]

(* s with t right after the first a. *)
AfterFirst(s, a, t) ==
  LET k == CHOOSE k \in DOMAIN s : s[k] = a /\ \A j \in 1 .. k - 1 : s[j] # a
  IN  InsertAt(s, k + 1, t)

(* What the header promises of a call. *)
Promised(c) ==
  CASE c[1] = "add_track_back"  -> Shown' = [Shown EXCEPT ![c[2]] = Append(@, c[3])]
    [] c[1] = "add_track_after" -> Shown' = [Shown EXCEPT ![c[2]] = AfterFirst(@, c[4], c[3])]
    [] c[1] = "remove_track"    -> Shown' = [Shown EXCEPT ![c[2]] = FirstDropped(@, c[3])]
    [] c[1] = "clear_tracks"    -> Shown' = [Shown EXCEPT ![c[2]] = << >>]
    [] c[1] = "create_playlist" -> \E i \in playlists' \ playlists :
         Shown' = [p \in playlists \cup {i} |-> IF p = i THEN << >> ELSE Shown[p]]
    [] c[1] = "remove_playlist" -> Shown' = [p \in playlists \ {c[2]} |-> Shown[p]]
    [] c[1] = "create_track"    -> UNCHANGED Shown
    [] c[1] = "drop_track"      ->
         Shown' = [p \in playlists |-> AllDropped(Shown[p], c[2])]

(* Every call does with the sequence of tracks of every playlist what the  *)
(* header promises, whatever gaps and ties the track numbers have.         *)
KeepsPromises ==
  [][IF outcome' = "ok" THEN Promised(call') ELSE UNCHANGED Shown]_vars
=============================================================================
