------------------------------- MODULE Sessions -------------------------------
(***************************************************************************)
(* The calls of Library made by several sessions, each with a connection   *)
(* of its own to the same 2.x/3.x database.                                *)
(*                                                                         *)
(* A call is a query or two and then one write, a statement or transaction *)
(* that SQLite makes atomic. The library locks nothing from the one to the *)
(* other: it writes with what it read before, whatever has come between.   *)
(* A call may also stop before its write, for a lock held by another (no   *)
(* busy timeout is set) or as its process ends.                            *)
(*                                                                         *)
(* Of Library this has the tables, and its calls as what one call would do *)
(* if it were made at once; MaxInserts and Traps, bounds on the calls of a *)
(* behaviour of Library, play no part. Table Track stays as it is, outcome *)
(* is how the last step ended a call, and call what each session is in.    *)
(***************************************************************************)
EXTENDS Library

CONSTANTS
  Users,                (* the sessions                                    *)
  Menus                 (* bound: each a set of calls to choose from, and  *)
                        (* how many are made in a behaviour                *)

VARIABLES
  menu, calls,            (* the menu kept to; how many calls have been made*)
  astray                  (* history: the tables that a call has written a *)
                          (* row to for which there was no place any more  *)

tables     == <<lists, listSeq, entities, entitySeq, tracks, trackSeq>>
sharedVars == <<tables, outcome, call, menu, calls, astray>>

Operations ==
  {"create", "create_after", "set_name", "set_parent", "remove_list",
   "add_track_back", "add_track", "add_track_after", "remove_track", "clear_tracks"}

ASSUME SessionsTitles == \E n, m \in Titles : n # m
ASSUME SessionsBounds ==
  /\ MaxTrack \in Nat \ {0, 1}
  /\ \A m \in Menus : /\ m.ops \subseteq Operations /\ m.calls \in Nat
                      /\ MaxId >= 3 + m.calls /\ MaxEntity >= 2 + m.calls

NoRow == [next |-> None]

(* list is the playlist that the call is on, other that which it goes      *)
(* after or under, track and after are tracks. row is the row that has     *)
(* been read; seen is what it was when the call began, and met tells       *)
(* whether another has written since (both are history).                   *)
Idle == [op |-> "none", list |-> None, name |-> BadTitle, other |-> None,
         track |-> 0, after |-> 0, at |-> "idle",
         row |-> NoRow, seen |-> NoRow, met |-> FALSE]

Busy(s)   == call[s].at # "idle"
Hangs(s)  == call[s].at = "hanging"
Others(s) == Users \ {s}

ListRow(i)  == IF i \in DOMAIN lists THEN lists[i] ELSE NoRow
EntityOf(p, t) ==
  LET found == PE!Found(entities, p, t)
  IN  IF found = {} THEN NoRow ELSE entities[CHOOSE e \in found : TRUE]

(* The row that the call writes by. *)
RowOf(c) ==
  CASE c.op = "create_after"               -> ListRow(c.other)
    [] c.op \in {"set_name", "set_parent"} -> ListRow(c.list)
    [] c.op = "add_track_after"            -> EntityOf(c.list, c.after)
    [] OTHER                               -> NoRow

-----------------------------------------------------------------------------
(* The steps of a call. *)

Goes(s, c)   == call' = [call EXCEPT ![s] = c]
Ends(s)      == Goes(s, Idle)
Throws(s, e) == Ends(s) /\ outcome' = e /\ UNCHANGED <<tables, menu, calls, astray>>
Reads(s, c)  == Goes(s, c) /\ outcome' = "ok" /\ UNCHANGED <<tables, menu, calls, astray>>

(* Mutant: no look at the names there are. *)
LookUpNothing(s) ==
  /\ call[s].at = "look up"
  /\ Reads(s, [call[s] EXCEPT !.at = IF call[s].op = "create" THEN "write" ELSE "get"])

(* find_id and find_root_id. *)
LookUp(s) ==
  /\ call[s].at = "look up"
  /\ IF Named(call[s].list, call[s].name) # {} THEN Throws(s, "already_exists")
     ELSE Reads(s, [call[s] EXCEPT !.at = IF call[s].op = "create" THEN "write" ELSE "get"])

(* Of a row that is gone create_sub_playlist_after looks at the columns    *)
(* all the same: the optional is not checked, and what is found there is   *)
(* taken for the parent and for the next row.                              *)
GetUndefined(s) ==
  LET c == call[s]
  IN  \/ Throws(s, "invalid_parent")
      \/ \E n \in {None} \cup PT!Ids :
           Reads(s, [c EXCEPT !.row = [next |-> n, owner |-> c.list], !.at = "write"])

(* Mutants: any playlist will do for the one to go after; a row that is    *)
(* gone is asked for again.                                                *)
GetUnchecked(s) ==
  /\ call[s].at = "get"
  /\ LET c == call[s]
         r == RowOf(c)
     IN  IF r = NoRow THEN Throws(s, IF c.op = "add_track_after" THEN "track_deleted" ELSE "deleted")
         ELSE Reads(s, [c EXCEPT !.row = r, !.at =
                IF c.op = "add_track_after" THEN "look for" ELSE "write"])

GetAgain(s) ==
  /\ call[s].at = "get"
  /\ LET c == call[s]
         r == RowOf(c)
     IN  IF r = NoRow THEN Reads(s, c)
         ELSE Reads(s, [c EXCEPT !.row = r, !.at =
                IF c.op = "add_track_after" THEN "look for" ELSE "write"])

Get(s) ==
  /\ call[s].at = "get"
  /\ LET c == call[s]
         r == RowOf(c)
     IN  IF r = NoRow
         THEN CASE c.op = "create_after"    -> GetUndefined(s)
                [] c.op = "add_track_after" -> Throws(s, "track_deleted")
                [] OTHER                    -> Throws(s, "deleted")
         ELSE IF c.op = "create_after" /\ r.owner # c.list THEN Throws(s, "invalid_parent")
         ELSE Reads(s, [c EXCEPT !.row = r, !.at =
                IF c.op = "add_track_after" THEN "look for" ELSE "write"])

(* Mutant: to the end of the playlist. *)
NewEntityLast(c) == PE!MakeRow(<<c.list, None>>, c.track, Uuid)

NewEntity(c) == PE!MakeRow(<<c.list, c.row.next>>, c.track, Uuid)

(* The query that playlist_entity_table::add begins with.                  *)
LookFor(s) ==
  /\ call[s].at = "look for"
  /\ IF PE!Existing(entities, NewEntity(call[s])) = {}
     THEN Reads(s, [call[s] EXCEPT !.at = "write"])
     ELSE Throws(s, IF call[s].op = "add_track" THEN "ok" ELSE "track_already_in_playlist")

-----------------------------------------------------------------------------
(* The write of a call. *)

(* The row that set_name and set_parent write back as a whole.             *)
NewRow(c) ==
  IF c.op = "set_name" THEN [c.row EXCEPT !.title = c.name]
                       ELSE [c.row EXCEPT !.owner = c.other]

(* The move would put the playlist below itself: see Library!SetParent.    *)
Circle(c) ==
  /\ c.op \in {"set_name", "set_parent"} /\ c.list \in DOMAIN lists
  /\ NewRow(c).owner \in PT!Descendants(lists, c.list)
  /\ NewRow(c).title # BadTitle
  /\ PT!Accepted(PT!UpdateTables(lists, c.list, NewRow(c)))

(* The transaction of playlist_entity_table::add. *)
Insert(row) ==
  IF PE!Unique(Inserted(entities, entitySeq + 1, row))
  THEN /\ entities' = PE!Added(entities, entitySeq + 1, row)
       /\ entitySeq' = entitySeq + 1
       /\ outcome' = "ok"
  ELSE outcome' = "constraint" /\ UNCHANGED <<entities, entitySeq>>

Written(c) ==
  CASE c.op \in {"create", "create_after"}   -> AddList(c.name, c.list, c.row.next)
    [] c.op \in {"set_name", "set_parent"}   ->
         PT!Update(c.list, NewRow(c)) /\ UNCHANGED <<entities, entitySeq, tracks, trackSeq>>
    [] c.op = "remove_list"                  -> RemoveList(c.list)
    [] c.op \in {"add_track_back", "add_track", "add_track_after"} ->
         Insert(NewEntity(c)) /\ UNCHANGED <<lists, listSeq, tracks, trackSeq>>
    [] c.op = "remove_track"                 -> RemoveTrack(c.list, c.track)
    [] c.op = "clear_tracks"                 -> ClearTracks(c.list)

(* Is the row that the call writes by not what it was when it was read?    *)
Stale(s) == RowOf(call[s]) # call[s].row

(* ... or when the call was made?                                          *)
Overtaken(s) == Stale(s) \/ RowOf(call[s]) # call[s].seen

(* Is the row to go before still where the call takes it to be?            *)
InPlace(c) ==
  LET n == c.row.next
  IN  n = None \/ CASE c.op = "add_track_after" -> n \in Kids(entities, c.list)
                    [] c.op = "create_after"    -> n \in Kids(lists, c.list)
                    [] OTHER                    -> n \in Kids(lists, NewRow(c).owner)

TableOf(c) == IF c.op = "add_track_after" THEN "entities" ELSE "lists"

(* The others meet the write. *)
Noticed(s) ==
  [t \in Users |-> IF t = s THEN Idle
                   ELSE IF Busy(t) THEN [call[t] EXCEPT !.met = TRUE] ELSE Idle]

Write(s) ==
  /\ call[s].at = "write"
  /\ LET c == call[s]
     IN  \/ Throws(s, "locked")
         \/ /\ \A t \in Others(s) : ~Hangs(t)
            /\ IF Circle(c) THEN Reads(s, [c EXCEPT !.at = "hanging"])
               ELSE /\ Written(c)
                    /\ call' = Noticed(s)
                    /\ astray' = IF Overtaken(s) /\ ~InPlace(c) THEN astray \cup {TableOf(c)}
                                 ELSE astray
                    /\ UNCHANGED <<menu, calls>>

Stop(s) == Busy(s) /\ Throws(s, "stopped")

-----------------------------------------------------------------------------
FirstStep(op) ==
  CASE op \in {"create", "create_after"}                   -> "look up"
    [] op \in {"set_name", "set_parent", "add_track_after"} -> "get"
    [] op \in {"add_track_back", "add_track"}               -> "look for"
    [] OTHER                                               -> "write"

Begin(s, c) ==
  /\ ~Busy(s) /\ c.op \in menu.ops /\ calls < menu.calls
  /\ Goes(s, [c EXCEPT !.at = FirstStep(c.op), !.seen = RowOf(c)])
  /\ calls' = calls + 1
  /\ outcome' = "ok"
  /\ UNCHANGED <<tables, menu, astray>>

(* As in Library, on what exists when the call is made, and clear of what  *)
(* goes wrong without company: a move that takes its next row along, or    *)
(* goes below itself.                                                      *)
ListCallBy(s) ==
  \/ \E p \in Owners, n \in Titles :
       Begin(s, [Idle EXCEPT !.op = "create", !.list = p, !.name = n])
  \/ \E p \in Owners, n \in Titles, a \in DOMAIN lists :
       Begin(s, [Idle EXCEPT !.op = "create_after", !.list = p, !.name = n, !.other = a])
  \/ \E i \in DOMAIN lists, n \in Titles :
       Begin(s, [Idle EXCEPT !.op = "set_name", !.list = i, !.name = n])
  \/ \E i \in DOMAIN lists, p \in Owners :
       /\ ~StaleNext(i, p) /\ ~Cycle(i, p) /\ p # i
       /\ Begin(s, [Idle EXCEPT !.op = "set_parent", !.list = i, !.other = p])
  \/ \E i \in DOMAIN lists : Begin(s, [Idle EXCEPT !.op = "remove_list", !.list = i])

EntityCallBy(s) ==
  \E p \in DOMAIN lists, t \in tracks :
    \/ \E op \in {"add_track_back", "add_track"} :
         Begin(s, [Idle EXCEPT !.op = op, !.list = p, !.track = t])
    \/ \E a \in tracks :
         Begin(s, [Idle EXCEPT !.op = "add_track_after", !.list = p, !.track = t, !.after = a])
    \/ Begin(s, [Idle EXCEPT !.op = "remove_track", !.list = p, !.track = t])
    \/ Begin(s, [Idle EXCEPT !.op = "clear_tracks", !.list = p])

Proceed(s) == LookUp(s) \/ Get(s) \/ LookFor(s) \/ Write(s)

(* No call is made any more; those made have ended, or never will.         *)
Rest == (\A s \in Users : Busy(s) => Hangs(s)) /\ UNCHANGED sharedVars

(* Playlists 1 and 2, 3 below 1, and tracks 1 and 2 in 1.                  *)
SharedInit ==
  /\ LET n == CHOOSE n \in Titles : TRUE
         m == CHOOSE m \in Titles : m # n
     IN  lists = << PT!MakeRow(n, <<None, 2>>, TRUE), PT!MakeRow(m, <<None, None>>, TRUE),
                     PT!MakeRow(n, <<1, None>>, TRUE) >>
  /\ listSeq = 3
  /\ entities = << PE!MakeRow(<<1, 2>>, 1, Uuid), PE!MakeRow(<<1, None>>, 2, Uuid) >>
  /\ entitySeq = 2
  /\ tracks = 1 .. MaxTrack /\ trackSeq = MaxTrack
  /\ outcome = "ok"
  /\ call = [s \in Users |-> Idle]
  /\ menu \in Menus /\ calls = 0
  /\ astray = {}

SharedNext ==
  \/ \E s \in Users : ListCallBy(s) \/ EntityCallBy(s) \/ Proceed(s) \/ Stop(s)
  \/ Rest

(* A thread that is in a call runs on.                                     *)
SharedSpec == SharedInit /\ [][SharedNext]_sharedVars /\ \A s \in Users : WF_sharedVars(Proceed(s))

-----------------------------------------------------------------------------
(* Properties. *)

(* Both tables hold legal values, and a call is at a step of its own.      *)
SharedTypeOK ==
  /\ listSeq \in 0 .. MaxId /\ DOMAIN lists \subseteq 1 .. listSeq
  /\ lists \in [DOMAIN lists -> PT!Row]
  /\ entitySeq \in 0 .. MaxEntity /\ DOMAIN entities \subseteq 1 .. entitySeq
  /\ entities \in [DOMAIN entities -> PE!Row]
  /\ tracks = 1 .. MaxTrack
  /\ menu \in Menus /\ calls \in 0 .. menu.calls /\ astray \subseteq {"lists", "entities"}
  /\ \A s \in Users :
       /\ call[s].op \in Operations \cup {"none"}
       /\ call[s].at \in {"idle", "look up", "get", "look for", "write", "hanging"}
       /\ Busy(s) <=> call[s].op # "none"

(* Whatever the calls write with what they read before, the playlists of a *)
(* parent stay one chain, until a call links a playlist to one that has    *)
(* been removed or moved away since the call began: a create_.._after, a   *)
(* set_name or a set_parent. Any other change in between does no harm.     *)
ListChains == "lists" \notin astray => \A p \in PT!Ids \cup {None} : Chain(lists, p)

(* Likewise the tracks of a playlist, until add_track_after links one to   *)
(* one that has gone.                                                      *)
EntityChains == "entities" \notin astray => \A p \in PT!Ids : Chain(entities, p)

(* Both lists at all times, as every session and any later one finds them. *)
TablesAreSound == SharedTypeOK /\ ListChains /\ EntityChains

AtOnce(c) ==
  CASE c.op = "create"          -> Create(c.list, c.name)
    [] c.op = "create_after"    -> CreateAfter(c.list, c.name, c.other)
    [] c.op = "set_name"        -> SetName(c.list, c.name)
    [] c.op = "set_parent"      -> SetParent(c.list, c.other)
    [] c.op = "remove_list"     -> RemoveList(c.list)
    [] c.op = "add_track_back"  -> AddTrackBack(c.list, c.track)
    [] c.op = "add_track"       -> AddTrack(c.list, c.track)
    [] c.op = "add_track_after" -> AddTrackAfter(c.list, c.track, c.after)
    [] c.op = "remove_track"    -> RemoveTrack(c.list, c.track)
    [] c.op = "clear_tracks"    -> ClearTracks(c.list)

Acts(s) == call'[s].at # call[s].at

(* A call that changes a table does what it would have done as one step at *)
(* that moment, the lookups included, unless the one row it had read has   *)
(* been changed in the meantime: comparing that row would be enough.       *)
AsIfAtOnce ==
  [][\A s \in Users :
       call[s].at = "write" /\ Acts(s) /\ tables' # tables /\ ~Stale(s)
         => AtOnce(call[s])]_sharedVars

(* Without company a caller never gets an error that it could not foresee: *)
(* SQLite's instead of that of a lookup, a playlist that has gone, or a    *)
(* call that does not return.  What a call has led astray in company stays *)
(* so, and may stand in the way of any call that comes later.              *)
TroubleMeansCompany ==
  [][\A s \in Users :
       Busy(s) /\ Acts(s) /\
         (\/ outcome' \in {"deleted", "no_rows"}
          \/ outcome' = "constraint" /\ call[s].op \notin {"set_name", "set_parent"}
          \/ call'[s].at = "hanging")
       => call[s].met \/ "lists" \in astray]_sharedVars

(* Every call ends, but for one that has put a playlist below itself.      *)
CallsEnd == \A s \in Users : Busy(s) ~> ~Busy(s) \/ Hangs(s)
=============================================================================
