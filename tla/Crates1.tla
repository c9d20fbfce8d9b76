------------------------------- MODULE Crates1 -------------------------------
(***************************************************************************)
(* The crates of an Engine Library 1.x database, and the names of its      *)
(* playlists: the calls of engine_crate_impl and engine_database_impl.     *)
(* Who is whose parent is recorded three times: in the path of a crate, in *)
(* CrateParentList and, closed under ancestors, in CrateHierarchy.         *)
(*                                                                         *)
(* From schema 1.9.1 on Crate and Playlist are views of one table, List,   *)
(* whose key is the type of the list and its id.                           *)
(*                                                                         *)
(* The caller keeps clear of what Traps does not name, as in Library.      *)
(***************************************************************************)
EXTENDS RowTables, SequencesExt

CONSTANTS
  Titles, BadTitle,    (* titles, and one that is empty or has a semicolon *)
  Tracks,              (* the tracks there are                             *)
  MaxId,               (* bound on ids                                     *)
  MaxOthers,           (* bound on playlists and rows of CrateTrackList    *)
  MaxMoved,            (* bound on the crates in moved                     *)
  ForeignKeys,         (* may SQLite enforce foreign keys, may it not?     *)
  Traps                (* what the caller does not keep clear of           *)

VARIABLES
  views,        (* are Crate and Playlist views (schema 1.9.1 or later)?   *)
  fkeys,        (* does SQLite enforce foreign keys?                       *)
  lists,        (* crates and playlists, by type and id                    *)
  parents,      (* CrateParentList; the parent of a root crate is itself   *)
  hierarchy,    (* CrateHierarchy                                          *)
  held,         (* CrateTrackList                                          *)
  outcome,      (* how the last call ended                                 *)
  call,         (* the last call: its name and arguments                   *)
  moved         (* history: the crates given a new parent since their path  *)
                (* was written                                             *)

build == <<views, fkeys>>
data  == <<lists, parents, hierarchy, held>>
vars  == <<build, data, outcome, call, moved>>

NoCrate == 0   \* the parent of a crate without a parent

AllTraps == {"stale_path", "deep_rename", "deep_move", "cycle", "remove", "twin"}

ASSUME Crates1Traps  == Traps \subseteq AllTraps
ASSUME Crates1Builds == ForeignKeys \subseteq BOOLEAN
ASSUME Crates1Titles == BadTitle \notin Titles
ASSUME Crates1Bounds == {MaxId, MaxOthers, MaxMoved} \subseteq Nat

Ids  == 1 .. MaxId
Keys == {"crate", "playlist"} \X Ids
C(i) == <<"crate", i>>

List == [title : Titles, path : Seq(Titles)]

IdsOf(L, type) == {x[2] : x \in {x \in DOMAIN L : x[1] = type}}
Crates         == IdsOf(lists, "crate")

With(L, x, row) == [y \in DOMAIN L \cup {x} |-> IF y = x THEN row ELSE L[y]]

ParentRows(i) == {k \in DOMAIN parents : parents[k].origin = i}

(* The rows of parent() and of descendants(), which lists the crates that  *)
(* have i for a parent.                                                    *)
ParentOf(i)    == {parents[k].parent : k \in ParentRows(i)} \ {i}
DirectBelow(i) == {parents[k].origin : k \in {k \in DOMAIN parents :
                     parents[k].parent = i /\ parents[k].origin # i}}

(* The rows of children(), which lists all that CrateHierarchy has below i.*)
Children(i) ==
  LET found == Ascending({k \in DOMAIN hierarchy : hierarchy[k].crate = i})
  IN  [n \in DOMAIN found |-> hierarchy[found[n]].child]

Above(i) == {hierarchy[k].crate : k \in {k \in DOMAIN hierarchy : hierarchy[k].child = i}}

-----------------------------------------------------------------------------
(* Statements. *)

(* Mutant: the row below the parent only. *)
LinkedToParent(H, p, i) == InsertedLast(H, [crate |-> p, child |-> i])

(* INSERT INTO CrateHierarchy SELECT .. UNION ..: p and all above it. *)
Linked(H, p, i) ==
  LET above == {H[k].crate : k \in {k \in DOMAIN H : H[k].child = p}} \cup {p}
      order == Ascending(above)
  IN  InsertedAll(H, [n \in DOMAIN order |-> [crate |-> order[n], child |-> i]])

(* Mutant: only the title is updated. *)
CrateRenamed(L, i, title, path) == [L EXCEPT ![C(i)].title = title]

(* UPDATE Crate SET title, path.  On the view, trigger_update_Crate looks  *)
(* for the old id, title and path and not for the type.                    *)
CrateUpdated(L, i, title, path) ==
  LET hit == IF views THEN {x \in DOMAIN L : x[2] = i /\ L[x] = L[C(i)]} ELSE {C(i)}
  IN  [x \in DOMAIN L |-> IF x \in hit THEN [title |-> title, path |-> path] ELSE L[x]]

(* UPDATE Playlist SET title.  trigger_update_Playlist looks for the old   *)
(* id and title and not for the type.                                      *)
PlaylistUpdated(L, i, title) ==
  LET old == L[<<"playlist", i>>].title
      hit == IF views THEN {x \in DOMAIN L : x[2] = i /\ L[x].title = old}
                      ELSE {<<"playlist", i>>}
  IN  [x \in DOMAIN L |-> IF x \in hit THEN [L[x] EXCEPT !.title = title] ELSE L[x]]

(* The crates that update_path visits, in order, each with its new path:   *)
(* the given one and then, in the same way, each of its children().  An id *)
(* NoCrate stands for a descent that has gone round in a circle.           *)
Visits(crate, above) ==
  LET visits[depth \in 0 .. MaxId] ==
        [v \in Ids \X Seq(Titles) |->
           IF depth = 0 THEN << <<NoCrate, v[2]>> >>
           ELSE IF v[1] \notin Crates THEN << v >>
           ELSE LET path == Append(v[2], lists[C(v[1])].title)
                    kids == Children(v[1])
                IN  << <<v[1], path>> >>
                    \o FlattenSeq([n \in DOMAIN kids |-> visits[depth - 1][<<kids[n], path>>]])]
  IN  visits[MaxId][<<crate, above>>]

-----------------------------------------------------------------------------
(* Calls on crates. *)

Fail(what) == outcome' = what /\ UNCHANGED <<build, data, moved>>

(* create_root_crate for the parent NoCrate, and create_sub_crate. *)
Create(p, n) ==
  IF n = BadTitle THEN Fail("crate_invalid_name")
  ELSE LET id    == Highest(Crates) + 1
           above == IF p = NoCrate THEN << >> ELSE lists[C(p)].path
       IN  /\ lists' = With(lists, C(id), [title |-> n, path |-> Append(above, n)])
           /\ parents' = InsertedLast(parents, [origin |-> id, parent |-> IF p = NoCrate THEN id ELSE p])
           /\ hierarchy' = IF p = NoCrate THEN hierarchy ELSE Linked(hierarchy, p, id)
           /\ outcome' = "ok"
           /\ UNCHANGED <<build, held, moved>>

(* The UPDATEs of update_path, one after the other. *)
Repathed(L, visit) ==
  LET repathed[n \in 0 .. Len(visit)] ==
        IF n = 0 THEN L
        ELSE LET now == repathed[n - 1]
                 i   == visit[n][1]
             IN  CrateUpdated(now, i, now[C(i)].title, visit[n][2])
  IN  repathed[Len(visit)]

SetName(i, n) ==
  LET above == {k \in ParentRows(i) : parents[k].parent \in Crates \ {i}}
      path  == Append(IF above = {} THEN << >>
                      ELSE lists[C(parents[CHOOSE k \in above : TRUE].parent)].path, n)
      kids  == Children(i)
      visit == FlattenSeq([k \in DOMAIN kids |-> Visits(kids[k], path)])
      wrong == {k \in DOMAIN visit : visit[k][1] \notin Crates}
  IN  IF n = BadTitle THEN Fail("crate_invalid_name")
      ELSE IF Cardinality(above) > 1 THEN Fail("crate_database_inconsistency")
      ELSE IF wrong # {}
      THEN Fail(IF visit[CHOOSE k \in wrong : \A j \in wrong : k <= j][1] = NoCrate
                THEN "never_returns" ELSE "crate_deleted")
      ELSE /\ lists' = AsUpdated(lists, Repathed(CrateUpdated(lists, i, n, path), visit))
           /\ outcome' = "ok"
           /\ moved' = moved \ ({i} \cup {v[1] : v \in ToSet(visit)})
           /\ UNCHANGED <<build, parents, hierarchy, held>>

(* DELETE FROM CrateHierarchy WHERE crateIdChild = i. *)
Unlinked(H, i) == Lacking(H, {k \in DOMAIN H : H[k].child = i})

(* Mutant: the row that tells the old parent stays. *)
SetParentAdded(i, p) ==
  IF p = i THEN Fail("crate_invalid_parent")
  ELSE /\ parents' = InsertedLast(parents, [origin |-> i, parent |-> IF p = NoCrate THEN i ELSE p])
       /\ outcome' = "ok"
       /\ UNCHANGED <<build, lists, hierarchy, held, moved>>

SetParent(i, p) ==
  IF p = i THEN Fail("crate_invalid_parent")
  ELSE /\ parents' = InsertedLast(Lacking(parents, ParentRows(i)),
                              [origin |-> i, parent |-> IF p = NoCrate THEN i ELSE p])
       /\ hierarchy' = IF p = NoCrate THEN Unlinked(hierarchy, i)
                                   ELSE Linked(Unlinked(hierarchy, i), p, i)
       /\ moved' = IF ParentOf(i) = {p} \ {NoCrate} THEN moved ELSE moved \cup {i}
       /\ outcome' = "ok"
       /\ UNCHANGED <<build, lists, held>>

(* Mutant: the tracks of the crate stay. *)
RemoveCrateOnly(i) ==
  /\ lists' = [x \in DOMAIN lists \ {C(i)} |-> lists[x]]
  /\ parents' = Lacking(parents, {k \in DOMAIN parents : parents[k].origin = i})
  /\ hierarchy' = Lacking(hierarchy, {k \in DOMAIN hierarchy : hierarchy[k].child = i})
  /\ outcome' = "ok"
  /\ UNCHANGED <<build, held, moved>>

(* database::remove_crate, and ON DELETE CASCADE if keys are enforced. *)
RemoveCrate(i) ==
  /\ lists' = [x \in DOMAIN lists \ {C(i)} |-> lists[x]]
  /\ IF fkeys
     THEN /\ parents' = Lacking(parents, {k \in DOMAIN parents :
                                            i \in {parents[k].origin, parents[k].parent}})
          /\ hierarchy' = Lacking(hierarchy, {k \in DOMAIN hierarchy :
                                                i \in {hierarchy[k].crate, hierarchy[k].child}})
          /\ held' = {h \in held : h[1] # i}
     ELSE UNCHANGED <<parents, hierarchy, held>>
  /\ moved' = moved \ {i}
  /\ outcome' = "ok"
  /\ UNCHANGED build

Hold(H) ==
  held' = H /\ outcome' = "ok" /\ UNCHANGED <<build, lists, parents, hierarchy, moved>>

(* The row that is there already is deleted first. *)
AddTrack(i, t)    == Hold(held \cup {<<i, t>>})
RemoveTrack(i, t) == Hold(held \ {<<i, t>>})
ClearTracks(i)    == Hold({h \in held : h[1] # i})

-----------------------------------------------------------------------------
(* Calls on playlists, as far as they meet the crates. *)

Relisted(L) ==
  lists' = L /\ outcome' = "ok" /\ UNCHANGED <<build, parents, hierarchy, held, moved>>

(* The first id in table List is that of the default prepare list. *)
NextPlaylist ==
  1 + IF views THEN Highest({x[2] : x \in DOMAIN lists} \cup {1})
               ELSE Highest(IdsOf(lists, "playlist"))

CreatePlaylist(n) ==
  IF n = BadTitle THEN Fail("playlist_invalid_name")
  ELSE Relisted(With(lists, <<"playlist", NextPlaylist>>, [title |-> n, path |-> <<n>>]))

SetPlaylistName(i, n) ==
  IF n = BadTitle THEN Fail("playlist_invalid_name")
  ELSE Relisted(PlaylistUpdated(lists, i, n))

RemovePlaylist(i) ==
  Relisted([x \in DOMAIN lists \ {<<"playlist", i>>} |-> lists[x]])

-----------------------------------------------------------------------------
(* What a careful caller stays away from. *)

BelowAll(i) == {hierarchy[k].child : k \in {k \in DOMAIN hierarchy : hierarchy[k].crate = i}}

(* The path stays as it is when the parent changes. *)
StalePath(i, p) == ParentOf(i) # {p} \ {NoCrate}

(* children() lists the crates further below as well, and those get a path *)
(* as if they were children.                                               *)
DeepRename(i) == \E j \in BelowAll(i) : BelowAll(j) # {}

(* Only the rows of the crate itself are redone, not of those below it. *)
DeepMove(i, p) == StalePath(i, p) /\ BelowAll(i) # {}

Cycle(i, p) == p \in BelowAll(i)

(* Rows that refer to the crate stay, or its children lose their parent. *)
Untidy(i) == ~fkeys \/ DirectBelow(i) # {}

(* The triggers take a list of the other type with the same id for it. *)
Twin(type, i) ==
  /\ views
  /\ \E x \in DOMAIN lists : x[2] = i /\ x[1] # type /\ lists[x].title = lists[<<type, i>>].title

Unless(trap, danger) == danger => trap \in Traps

-----------------------------------------------------------------------------
Init ==
  /\ views \in BOOLEAN /\ fkeys \in ForeignKeys
  /\ lists = [x \in {} |-> x]
  /\ parents = [k \in {} |-> k] /\ hierarchy = [k \in {} |-> k]
  /\ held = {}
  /\ outcome = "ok" /\ call = <<"open">> /\ moved = {}

RoomForOthers == Cardinality(held) + Cardinality(IdsOf(lists, "playlist")) < MaxOthers

CrateCall ==
  \/ \E p \in Crates \cup {NoCrate}, n \in Titles \cup {BadTitle} :
       Highest(Crates) < MaxId /\ Create(p, n) /\ call' = <<"create", p, n>>
  \/ \E i \in Crates, n \in Titles \cup {BadTitle} :
       /\ Unless("deep_rename", DeepRename(i)) /\ Unless("twin", Twin("crate", i))
       /\ SetName(i, n) /\ call' = <<"set_name", i, n>>
  \/ \E i \in Crates, p \in Crates \cup {NoCrate} :
       /\ Unless("stale_path", StalePath(i, p)) /\ Unless("deep_move", DeepMove(i, p))
       /\ Unless("cycle", Cycle(i, p))
       /\ StalePath(i, p) => Cardinality(moved \ {i}) < MaxMoved
       /\ SetParent(i, p) /\ call' = <<"set_parent", i, p>>
  \/ \E i \in Crates :
       Unless("remove", Untidy(i)) /\ RemoveCrate(i) /\ call' = <<"remove", i>>
  \/ \E i \in Crates, t \in Tracks :
       /\ <<i, t>> \in held \/ RoomForOthers
       /\ AddTrack(i, t) /\ call' = <<"add_track", i, t>>
  \/ \E i \in Crates, t \in Tracks : RemoveTrack(i, t) /\ call' = <<"remove_track", i, t>>
  \/ \E i \in Crates : ClearTracks(i) /\ call' = <<"clear_tracks", i>>

PlaylistCall ==
  \/ \E n \in Titles \cup {BadTitle} :
       /\ NextPlaylist <= MaxId
       /\ RoomForOthers
       /\ CreatePlaylist(n) /\ call' = <<"create_playlist", n>>
  \/ \E i \in IdsOf(lists, "playlist"), n \in Titles \cup {BadTitle} :
       /\ Unless("twin", Twin("playlist", i))
       /\ SetPlaylistName(i, n) /\ call' = <<"set_playlist_name", i, n>>
  \/ \E i \in IdsOf(lists, "playlist") :
       RemovePlaylist(i) /\ call' = <<"remove_playlist", i>>

Next == outcome # "never_returns" /\ (CrateCall \/ PlaylistCall)

Spec == Init /\ [][Next]_vars

-----------------------------------------------------------------------------
(* Properties. *)

(* Columns hold legal values. *)
TypeOK ==
  /\ DOMAIN lists \subseteq Keys /\ lists \in [DOMAIN lists -> List]
  /\ \A k \in DOMAIN parents : parents[k] \in [origin : Ids, parent : Ids]
  /\ \A k \in DOMAIN hierarchy : hierarchy[k] \in [crate : Ids, child : Ids]
  /\ held \subseteq Ids \X Tracks

(* "Every crate is specified as having precisely one immediate parent", and*)
(* no row of CrateParentList is about a crate that is gone.                *)
OneParent ==
  /\ \A i \in Crates : Cardinality(ParentRows(i)) = 1
  /\ \A k \in DOMAIN parents : {parents[k].origin, parents[k].parent} \subseteq Crates

(* "The id of every descendant (not child) of a crate is written to the    *)
(* crateIdChild field": CrateHierarchy is the closure of CrateParentList.  *)
HierarchyIsClosure ==
  /\ \A i \in Crates : Above(i) = ParentOf(i) \cup UNION {Above(p) : p \in ParentOf(i)}
  /\ \A i \in Crates : i \notin Above(i)
  /\ \A j, k \in DOMAIN hierarchy : hierarchy[j] = hierarchy[k] => j = k

(* The two tables of the tree, which calls and cascades keep in step. *)
TreeIsSound == OneParent /\ HierarchyIsClosure

(* "The path from the root to the current crate" in the column path of     *)
(* crate i: the path of its parent and its own title.                      *)
PathIsRight(i) ==
  lists[C(i)].path =
    Append(IF ParentOf(i) = {} THEN << >>
           ELSE lists[C(CHOOSE p \in ParentOf(i) : TRUE)].path, lists[C(i)].title)

(* A path is wrong only where the crate has moved since it was written.    *)
OnlyMovesMakePathsWrong == \A i \in Crates \ moved : PathIsRight(i)

(* What is in the columns, and that of path in particular. *)
ColumnsAreSound == TypeOK /\ OnlyMovesMakePathsWrong

Names   == [x \in DOMAIN lists |-> lists[x].title]
Tree    == [i \in Crates |-> ParentOf(i)]
Content == [i \in Crates |-> {h[2] : h \in {h \in held : h[1] = i}}]

(* What the header promises of a call: it changes what it is about and     *)
(* nothing else, a new crate is empty, and playlists and crates are        *)
(* distinct entities.                                                      *)
Promised(c) ==
  CASE c[1] = "create" ->
         \E i \in Crates' \ Crates :
           /\ Names'   = With(Names, C(i), c[3])
           /\ Tree'    = With(Tree, i, {c[2]} \ {NoCrate})
           /\ Content' = With(Content, i, {})
    [] c[1] = "set_name" ->
         Names' = [Names EXCEPT ![C(c[2])] = c[3]] /\ UNCHANGED <<Tree, Content>>
    [] c[1] = "set_parent" ->
         Tree' = [Tree EXCEPT ![c[2]] = {c[3]} \ {NoCrate}] /\ UNCHANGED <<Names, Content>>
    [] c[1] = "remove" ->
         /\ Names'   = [x \in DOMAIN Names \ {C(c[2])} |-> Names[x]]
         /\ Tree'    = [i \in DOMAIN Tree \ {c[2]} |-> Tree[i]]
         /\ Content' = [i \in DOMAIN Content \ {c[2]} |-> Content[i]]
    [] c[1] \in {"add_track", "remove_track", "clear_tracks"} ->
         /\ Content' = [Content EXCEPT ![c[2]] =
                          CASE c[1] = "add_track"    -> @ \cup {c[3]}
                            [] c[1] = "remove_track" -> @ \ {c[3]}
                            [] c[1] = "clear_tracks" -> {}]
         /\ UNCHANGED <<Names, Tree>>
    [] c[1] = "create_playlist" ->
         /\ \E x \in DOMAIN Names' \ DOMAIN Names :
              x[1] = "playlist" /\ Names' = With(Names, x, c[2])
         /\ UNCHANGED <<Tree, Content>>
    [] c[1] = "set_playlist_name" ->
         /\ Names' = [Names EXCEPT ![<<"playlist", c[2]>>] = c[3]]
         /\ UNCHANGED <<Tree, Content>>
    [] c[1] = "remove_playlist" ->
         /\ Names' = [x \in DOMAIN Names \ {<<"playlist", c[2]>>} |-> Names[x]]
         /\ UNCHANGED <<Tree, Content>>

(* Every call that succeeds does what it promises, and one that fails      *)
(* nothing; the only error a careful caller meets is that of a bad name or *)
(* of a crate that is to be its own parent.                                *)
KeepsPromises ==
  [][CASE outcome' = "ok" -> Promised(call')
       [] outcome' = "crate_invalid_parent" -> call'[2] = call'[3] /\ UNCHANGED data
       [] OTHER -> call'[Len(call')] = BadTitle /\ UNCHANGED data]_vars
=============================================================================
