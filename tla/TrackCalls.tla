----------------------------- MODULE TrackCalls -----------------------------
(***************************************************************************)
(* The calls on a track, statement by statement: create_track, update, the *)
(* setters of what is held in more than one place, and remove_track, made  *)
(* by several sessions, each with a connection of its own, any of which    *)
(* may stop at any statement: an error, or the end of its process.         *)
(*                                                                         *)
(* The three generations of engine keep a track as                         *)
(*   1  a row of Track in m.db and a row of PerformanceData in p.db; most  *)
(*      calls are one transaction over both files                          *)
(*   2  one row of Track, without transactions                             *)
(*   3  rows of Track and PerformanceData in one file, without transactions*)
(* Here m stands for the columns of Track, p for the blobs; a blob is read,*)
(* changed in one field and written back as a whole.                       *)
(*                                                                         *)
(* SQLite locks a file: a transaction shares what it has read, one at a    *)
(* time may have written, and to commit it must be alone. The library sets *)
(* no busy timeout, so a lock that is held fails the call.                 *)
(***************************************************************************)
EXTENDS Integers, Sequences, TLC

CONSTANTS
  Sessions,      (* the connections                                        *)
  Generations,   (* which of 1, 2, 3 to look at                            *)
  Operations,    (* which calls to look at                                 *)
  Values,        (* the values of a field; 0 is that of an empty blob      *)
  MaxId,         (* bound on track ids                                     *)
  MaxCalls       (* bound on the calls made                                *)

VARIABLES
  build,     (* the generation; are ids given again (1.x to 1.15.0)?; does  *)
             (* a removed track take its performance data with it?          *)
  db,        (* what is committed: m and p                                  *)
  lastId,    (* the largest id ever given: sqlite_sequence, where it is kept *)
  call,      (* the call each session is in                                 *)
  calls,     (* how many have been made                                     *)
  torn       (* history: <<id, what>>, tracks whose bpm or rows a call left *)
             (* half written, or two calls wrote at once without transaction*)

vars == <<build, db, lastId, call, calls, torn>>

Ids    == 1 .. MaxId
Files  == {"m", "p"}
NoWave == -1     \* no waveform; otherwise the size that its extents are for
Nobody == -1     \* whose performance data a default row is

AllOperations == {"loudness", "key", "size", "beatgrid", "waveform", "bpm",
                  "create", "update", "remove"}

ASSUME TrackCallsGenerations == Generations \subseteq 1 .. 3
ASSUME TrackCallsOperations  == Operations \subseteq AllOperations
ASSUME TrackCallsValues      == 0 \in Values /\ Values \subseteq Nat
ASSUME TrackCallsBounds      == MaxCalls \in Nat /\ MaxId \in Nat /\ MaxId > MaxCalls

Gen == build.gen

(* size stands for the sample count and rate; len for lengthCalculated,    *)
(* which only generation 1 has. of: which creation the row belongs to.     *)
Track == [of : 0 .. MaxCalls, key : Values, len : Values, bpm : Values, analyzed : Values]
TrackData == [size : Values, key : Values, loud : Values]
BeatData  == [size : Values, grid : Values]
Performance == [of : Nobody .. MaxCalls, td : TrackData, bd : BeatData, wave : Values \cup {NoWave}]

Columns(n, v) ==
  [of |-> n, key |-> v, len |-> IF Gen = 1 THEN v ELSE 0, bpm |-> v, analyzed |-> v]
Blobs(n, v) ==
  [of |-> n, td |-> [size |-> v, key |-> v, loud |-> v],
   bd |-> [size |-> v, grid |-> v], wave |-> IF v = 0 THEN NoWave ELSE v]
NoBlobs(n) == Blobs(n, 0)

With(T, i, row) == [j \in DOMAIN T \cup {i} |-> IF j = i THEN row ELSE T[j]]
Without(T, i)   == [j \in DOMAIN T \ {i} |-> T[j]]

-----------------------------------------------------------------------------
(* The statements of a call, in order. *)

Program1 ==
  [loudness |-> <<"read td", "write td", "commit p">>,
   key      |-> <<"read td", "write td", "write key", "commit m", "commit p">>,
   size     |-> <<"read td", "read bd", "write len", "write bd", "write td",
                  "fit wave", "commit m", "commit p">>,
   beatgrid |-> <<"read bd", "write bd", "commit p">>,
   waveform |-> <<"read td", "write wave", "commit p">>,
   bpm      |-> <<"write analyzed", "write bpm">>,
   create   |-> <<"insert", "replace", "commit m", "commit p">>,
   update   |-> <<"put columns", "replace", "commit m", "commit p">>,
   remove   |-> <<"delete">>]

(* Mutant: set_key without the blob. *)
KeyColumnOnly ==
  [loudness |-> <<"read td", "write td">>, key |-> <<"write key">>,
   size |-> <<"read td", "read bd", "write td", "write bd">>,
   beatgrid |-> <<"read bd", "write bd">>, waveform |-> <<"read td", "write wave">>,
   bpm |-> <<"write analyzed", "write bpm">>,
   create |-> <<"insert">>, update |-> <<"put">>, remove |-> <<"delete">>]

Program2 ==
  [loudness |-> <<"read td", "write td">>,
   key      |-> <<"write key", "read td", "write td">>,
   size     |-> <<"read td", "read bd", "write td", "write bd">>,
   beatgrid |-> <<"read bd", "write bd">>,
   waveform |-> <<"read td", "write wave">>,
   bpm      |-> <<"write analyzed", "write bpm">>,
   create   |-> <<"insert">>,
   update   |-> <<"put">>,
   remove   |-> <<"delete">>]

Program3 == [Program2 EXCEPT !.create = <<"insert", "put data">>,
                             !.update = <<"put columns", "put data">>]

Program(op) == IF Gen = 1 THEN Program1[op]
               ELSE IF Gen = 2 THEN Program2[op] ELSE Program3[op]

(* The calls of engine_track_impl that open a sqlite_transaction. *)
InTransaction(op) == Gen = 1 /\ op \notin {"bpm", "remove"}

Reads    == {"read td", "read bd"}
Commits  == {"commit m", "commit p"}
OnTrack  == {"write key", "write len", "write analyzed", "write bpm", "insert",
             "put columns", "put", "delete"}

(* The file that a statement is on. *)
FileOf(step) == IF Gen # 1 \/ step \in OnTrack THEN "m" ELSE "p"

Idle == [op |-> "none", id |-> 0, val |-> 0, of |-> 0, at |-> 1,
         td |-> NoBlobs(0).td, bd |-> NoBlobs(0).bd,
         shared |-> {}, reserved |-> {}, alone |-> FALSE, draft |-> <<>>]

Busy(s) == call[s].op # "none"
Step(s) == Program(call[s].op)[call[s].at]
Others(s) == Sessions \ {s}

(* What a session sees: its own copy of the files that it has locked. *)
View(s) ==
  [f \in Files |-> IF f \in call[s].shared THEN call[s].draft[f] ELSE db[f]]

(* The id of a new row: one more than the largest, or than was ever given. *)
NewId(T) ==
  IF build.recycles THEN CHOOSE n \in Ids : n - 1 \in DOMAIN T \cup {0} /\ \A i \in DOMAIN T : i < n
                    ELSE lastId + 1

-----------------------------------------------------------------------------
(* What a statement makes of the files d. *)

FieldOf(op) == CASE op = "loudness" -> "loud" [] op = "beatgrid" -> "grid" [] OTHER -> op

(* get_performance_data_column gives a default where there is no row.       *)
RowFor(d, i) == IF i \in DOMAIN d.p THEN d.p[i] ELSE NoBlobs(Nobody)

OwnerOf(d, i) == IF i \in DOMAIN d.m THEN d.m[i].of ELSE Nobody

SetTrack(d, c, column) ==
  IF c.id \in DOMAIN d.m THEN [d EXCEPT !.m[c.id][column] = c.val] ELSE d

(* Mutant: bpmAnalyzed is left as it was. *)
PutFewerColumns(d, c) ==
  IF c.id \in DOMAIN d.m
  THEN [d EXCEPT !.m[c.id] = [Columns(@.of, c.val) EXCEPT !.analyzed = d.m[c.id].analyzed]]
  ELSE d

PutColumns(d, c) ==
  IF c.id \in DOMAIN d.m THEN [d EXCEPT !.m[c.id] = Columns(@.of, c.val)] ELSE d

PutData(d, c) ==
  IF c.id \in DOMAIN d.p THEN [d EXCEPT !.p[c.id] = Blobs(@.of, c.val)] ELSE d

SetBlob(d, c, column, content) ==
  [d EXCEPT !.p = With(@, c.id, [RowFor(d, c.id) EXCEPT ![column] = content])]

Inserted(d, c) ==
  [m |-> With(d.m, c.id, Columns(c.of, c.val)),
   p |-> IF Gen = 1 THEN d.p
         ELSE With(d.p, c.id, Blobs(c.of, IF Gen = 2 THEN c.val ELSE 0))]

Deleted(d, c) ==
  [m |-> Without(d.m, c.id),
   p |-> IF Gen = 2 \/ (Gen = 3 /\ build.cascade) THEN Without(d.p, c.id) ELSE d.p]

(* Mutant: only if there is something to write. *)
ReplacedUnlessEmpty(d, c) ==
  IF c.val = 0 THEN d
  ELSE [d EXCEPT !.p = With(@, c.id, Blobs(OwnerOf(d, c.id), c.val))]

Replaced(d, c) == [d EXCEPT !.p = With(@, c.id, Blobs(OwnerOf(d, c.id), c.val))]

(* Mutant: the extents of the waveform are left. *)
LeaveWave(d, c) == d

FitWave(d, c) ==
  IF RowFor(d, c.id).wave = NoWave THEN d ELSE SetBlob(d, c, "wave", c.val)

(* Mutant: set_key makes the blob anew, as set_loops does. *)
EditedOrNew(blob, c) ==
  [f \in DOMAIN blob |-> IF f = FieldOf(c.op) THEN c.val
                         ELSE IF c.op = "key" /\ f = "loud" THEN 0 ELSE blob[f]]

Edited(blob, c) == [blob EXCEPT ![FieldOf(c.op)] = c.val]

Result(d, c, step) ==
  CASE step = "write td"       -> SetBlob(d, c, "td", Edited(c.td, c))
    [] step = "write bd"       -> SetBlob(d, c, "bd", Edited(c.bd, c))
    [] step = "write wave"     -> SetBlob(d, c, "wave", IF c.val = 0 THEN NoWave ELSE c.td.size)
    [] step = "fit wave"       -> FitWave(d, c)
    [] step = "write key"      -> SetTrack(d, c, "key")
    [] step = "write len"      -> SetTrack(d, c, "len")
    [] step = "write analyzed" -> SetTrack(d, c, "analyzed")
    [] step = "write bpm"      -> SetTrack(d, c, "bpm")
    [] step = "insert"         -> Inserted(d, c)
    [] step = "replace"        -> Replaced(d, c)
    [] step = "put columns"    -> PutColumns(d, c)
    [] step = "put data"       -> PutData(d, c)
    [] step = "put"            -> PutData(PutColumns(d, c), c)
    [] step = "delete"         -> Deleted(d, c)

-----------------------------------------------------------------------------
(* The steps of a session. *)

(* What a call may leave half written, or spoil for another.               *)
Concerns(op) == CASE op = "bpm" -> {"bpm"}
                  [] op \in {"create", "update"} -> {"bpm", "rows"}
                  [] op \in {"remove", "waveform", "none"} -> {}
                  [] OTHER -> {"rows"}

Conflicts(s, op, i) ==
  UNION {Concerns(op) \cap Concerns(call[t].op) : t \in {t \in Others(s) :
    call[t].id = i /\ i # 0 /\ ~(InTransaction(op) /\ InTransaction(call[t].op))}}

(* A call is made on a handle: of a track that is there, or was once.      *)
Begin(s, op, i, v) ==
  /\ ~Busy(s) /\ calls < MaxCalls
  /\ op = "create" <=> i = 0
  /\ call' = [call EXCEPT ![s] = [Idle EXCEPT !.op = op, !.id = i, !.val = v,
                                             !.of = calls + 1]]
  /\ calls' = calls + 1
  /\ torn' = torn \cup {i} \X Conflicts(s, op, i)
  /\ UNCHANGED <<build, db, lastId>>

(* Are the locks that the next statement needs there to be taken?          *)
Free(s) ==
  LET f == FileOf(Step(s))
  IN  CASE Step(s) \in Reads ->
             \A t \in Others(s) : ~(call[t].alone /\ f \in call[t].reserved)
        [] Step(s) \in Commits ->
             call[s].alone \/ \A t \in Others(s) : call[t].shared \cap call[s].reserved = {}
        [] Step(s) \notin Reads \cup Commits /\ InTransaction(call[s].op) ->
             \A t \in Others(s) : f \notin call[t].reserved
        [] OTHER -> \A t \in Others(s) : f \notin call[t].shared

(* get_column and set_column throw where there is no row. Generation 1 does *)
(* not notice in Track; in PerformanceData it would make a row, but throws on *)
(* the way, since quick_cues_data::encode() refuses a default one.         *)
Missing(s) ==
  \/ /\ Gen # 1 /\ Step(s) \in Reads
     /\ call[s].id \notin DOMAIN db.p
  \/ /\ Step(s) \in {"write td", "write bd", "write wave"}
     /\ call[s].id \notin DOMAIN View(s).p
  \/ /\ Gen # 1 /\ Step(s) \in {"write key", "write analyzed", "write bpm", "delete"}
     /\ call[s].id \notin DOMAIN db.m

Last(s) == call[s].at = Len(Program(call[s].op))

(* The call after its statement, with what it has locked.                  *)
After(s, c) == [call EXCEPT ![s] = IF Last(s) THEN Idle ELSE [c EXCEPT !.at = @ + 1]]

Locked(s, f) ==
  IF InTransaction(call[s].op)
  THEN [call[s] EXCEPT !.shared = @ \cup {f},
                       !.draft = [g \in call[s].shared \cup {f} |-> View(s)[g]]]
  ELSE call[s]

ReadBlob(s) ==
  /\ Step(s) \in Reads
  /\ LET row == RowFor(View(s), call[s].id)
         c   == Locked(s, FileOf(Step(s)))
     IN  call' = After(s, IF Step(s) = "read td" THEN [c EXCEPT !.td = row.td]
                                                 ELSE [c EXCEPT !.bd = row.bd])
  /\ UNCHANGED <<build, db, lastId, calls, torn>>

(* The call as its statement is carried out: an INSERT gives the id.       *)
Written(s) ==
  LET c == IF Step(s) = "insert" THEN [call[s] EXCEPT !.id = NewId(View(s).m)] ELSE call[s]
  IN  [id |-> c.id, db |-> Result(View(s), c, Step(s))]

Change(s) ==
  /\ Step(s) \notin Reads \cup Commits
  /\ LET f == FileOf(Step(s))
         w == Written(s)
     IN  IF InTransaction(call[s].op)
         THEN /\ call' = After(s, [Locked(s, f) EXCEPT !.id = w.id, !.draft[f] = w.db[f],
                                                       !.reserved = @ \cup {f}])
              /\ UNCHANGED <<db, lastId>>
         ELSE /\ call' = After(s, [call[s] EXCEPT !.id = w.id])
              /\ db' = w.db
              /\ lastId' = IF w.id > lastId THEN w.id ELSE lastId
  /\ UNCHANGED <<build, calls, torn>>

(* COMMIT locks all files, then commits them one after the other.          *)
Commit(s) ==
  /\ Step(s) \in Commits
  /\ LET f == IF Step(s) = "commit m" THEN "m" ELSE "p"
     IN  /\ db' = [db EXCEPT ![f] = call[s].draft[f]]
         /\ call' = After(s, [call[s] EXCEPT !.alone = TRUE])
         /\ lastId' = IF call[s].id > lastId THEN call[s].id ELSE lastId
         /\ torn' = IF call[s].op = "create" /\ Last(s)
                    THEN (torn \ ({call[s].id} \X Concerns("create")))
                           \cup {call[s].id} \X Conflicts(s, "create", call[s].id)
                    ELSE torn
  /\ UNCHANGED <<build, calls>>

(* Has the call committed something, and not yet everything?               *)
Halfway(s) ==
  IF InTransaction(call[s].op) THEN call[s].alone
  ELSE \E n \in 1 .. call[s].at - 1 : Program(call[s].op)[n] \notin Reads

(* The transaction rolls back, at once or when the files are next opened.  *)
Stop(s) ==
  /\ Busy(s)
  /\ call' = [call EXCEPT ![s] = Idle]
  /\ torn' = IF Halfway(s) THEN torn \cup {call[s].id} \X Concerns(call[s].op) ELSE torn
  /\ UNCHANGED <<build, db, lastId, calls>>

(* Mutant: a call waits for the locks that it needs. *)
ProceedOrWait(s) ==
  \/ Busy(s) /\ Free(s) /\ ~Missing(s) /\ (ReadBlob(s) \/ Change(s) \/ Commit(s))
  \/ Busy(s) /\ Missing(s) /\ Stop(s)

Proceed(s) ==
  \/ Busy(s) /\ Free(s) /\ ~Missing(s) /\ (ReadBlob(s) \/ Change(s) \/ Commit(s))
  \/ Busy(s) /\ (~Free(s) \/ Missing(s)) /\ Stop(s)

(* All calls are made and have ended. *)
Rest == calls = MaxCalls /\ (\A s \in Sessions : ~Busy(s)) /\ UNCHANGED vars

Builds == {b \in [gen : Generations, recycles : BOOLEAN, cascade : BOOLEAN] :
             (b.recycles => b.gen = 1) /\ (b.cascade => b.gen = 3)}

(* One track, or one that has been removed.                                *)
Init ==
  /\ build \in Builds
  /\ LET one == [m |-> [i \in {1} |-> Columns(0, 0)], p |-> [i \in {1} |-> NoBlobs(0)]]
     IN  db \in {one, Deleted(one, [Idle EXCEPT !.id = 1])}
  /\ lastId = 1
  /\ call = [s \in Sessions |-> Idle]
  /\ calls = 0
  /\ torn = {}

Next ==
  \/ \E s \in Sessions :
       \/ \E op \in Operations, i \in 0 .. lastId, v \in Values : Begin(s, op, i, v)
       \/ Proceed(s)
       \/ Stop(s)
  \/ Rest

(* A thread that is in a call runs on.                                     *)
Spec == Init /\ [][Next]_vars /\ \A s \in Sessions : WF_vars(Proceed(s))
-----------------------------------------------------------------------------
(* Properties. *)

(* Every part of the state is what its comment says.                       *)
TypeOK ==
  /\ build \in Builds
  /\ DOMAIN db = Files /\ DOMAIN db.m \cup DOMAIN db.p \subseteq 1 .. lastId
  /\ \A i \in DOMAIN db.m : db.m[i] \in Track
  /\ \A i \in DOMAIN db.p : db.p[i] \in Performance
  /\ lastId \in Ids /\ calls \in 0 .. MaxCalls
  /\ \A s \in Sessions :
       /\ Busy(s) => /\ call[s].op \in Operations /\ call[s].id \in 0 .. lastId + 1
                     /\ call[s].at \in DOMAIN Program(call[s].op)
       /\ call[s].td \in TrackData /\ call[s].bd \in BeatData
       /\ DOMAIN call[s].draft = call[s].shared
       /\ call[s].reserved \subseteq call[s].shared
  /\ torn \subseteq Ids \X {"bpm", "rows"}

(* Is nothing of this kind half written on the track, or left so?          *)
Settled(i, what) ==
  /\ <<i, what>> \notin torn
  /\ \A s \in Sessions : call[s].id = i /\ Halfway(s) => what \notin Concerns(call[s].op)

(* set_sample_count and set_sample_rate write the size of a track into     *)
(* each blob that has one. In generation 1 whoever opens the database at   *)
(* any moment finds one size in all of them; in 2 and 3 unless a call was  *)
(* stopped on the way, or met another on the same track.                   *)
SizesAgree ==
  \A i \in DOMAIN db.p :
    /\ Gen = 1 \/ Settled(i, "rows") => db.p[i].td.size = db.p[i].bd.size
    /\ Gen = 1 => db.p[i].wave \in {NoWave, db.p[i].td.size}

(* What the blobs repeat of the columns of Track, the key and the length   *)
(* in generation 1, is the same in both, unless a call has been stopped    *)
(* between the two: the commit of two files is not atomic either.          *)
ColumnsAgree ==
  \A i \in DOMAIN db.m \cap DOMAIN db.p : Settled(i, "rows") =>
    /\ db.m[i].key = db.p[i].td.key
    /\ Gen = 1 => db.m[i].len = db.p[i].td.size

(* set_bpm writes the two columns of the bpm one after the other.          *)
BpmAgrees ==
  \A i \in DOMAIN db.m : Settled(i, "bpm") => db.m[i].bpm = db.m[i].analyzed

(* What is in the columns of Track, as any session finds it.               *)
ColumnsAreSound == TypeOK /\ ColumnsAgree /\ BpmAgrees

(* A track has performance data, and not that of a track that had its id   *)
(* before: in generation 1 remove_track leaves it behind in p.db, where     *)
(* setters on an old handle still find it, and ids are given again.        *)
OwnPerformanceData ==
  \A i \in DOMAIN db.m : Settled(i, "rows") =>
    i \in DOMAIN db.p /\ db.p[i].of = db.m[i].of

FieldsOf(op) == CASE op \in {"loudness", "key", "size", "beatgrid"} -> {FieldOf(op)}
                  [] op \in {"create", "update"} -> {"size", "key", "loud", "grid"}
                  [] OTHER -> {}

Changed(i) ==
  LET Differ(a, b) == {f \in DOMAIN a : a[f] # b[f]}
  IN  Differ(db.p[i].td, db'.p[i].td) \cup Differ(db.p[i].bd, db'.p[i].bd)

(* A setter reads a blob, changes a field and writes the blob back. It     *)
(* never takes back what another session wrote to the other fields in      *)
(* between; in generations 2 and 3 only if the calls do not meet.          *)
NoLostUpdate ==
  [][\A i \in DOMAIN db.p \cap DOMAIN db'.p :
       (Gen = 1 \/ <<i, "rows">> \notin torn) /\ Changed(i) # {} =>
         \E s \in Sessions : call'[s] # call[s] /\ Changed(i) \subseteq FieldsOf(call[s].op)]_vars

(* No call waits for ever, whatever the other sessions hold.               *)
CallsEnd == \A s \in Sessions : Busy(s) ~> ~Busy(s)
=============================================================================
