----------------------------- MODULE Lifecycle ------------------------------
(***************************************************************************)
(* Creating, finding and loading the database of a directory, by several   *)
(* processes, each of which may stop at any step.                          *)
(*                                                                         *)
(* A library of generation 1 is in m.db and p.db, one of 2 or 3 in         *)
(* Database2/m.db (here d2). Whether there is one, and of which kind, is   *)
(* asked of the file system, one file at a time; a file is there, and      *)
(* empty, from the moment SQLite opens it; and a schema is created         *)
(* statement by statement, without a transaction.                          *)
(***************************************************************************)
EXTENDS Integers, Sequences, FiniteSets

CONSTANTS
  Processes,    (* the processes                                           *)
  Calls,        (* the calls to look at: name, and generation of a creation *)
  MaxCalls      (* bound on the calls made                                 *)

VARIABLES
  schema,     (* of generation 1: is Information made first?; does it drop  *)
              (* the tables of p.db (1.6.0 and 1.7.1)?                      *)
  found,      (* the libraries and files that were there at first           *)
  dir,        (* is the directory there?                                    *)
  file,       (* which parts each file has                                  *)
  older,      (* does p.db hold performance data from before?               *)
  proc,       (* what each process is doing                                 *)
  ended,      (* history: the calls that have ended, how, and what was then *)
  calls,      (* how many calls were made                                   *)
  stopped     (* history: has any of them been stopped?                     *)

vars == <<schema, found, dir, file, older, proc, ended, calls, stopped>>

Files == {"m", "p", "d2"}

(* The parts of a file: that it is there; the table Information; the other *)
(* tables, indices, views and triggers; the row of Information; other rows.*)
There == "there"
Parts == {There, "information", "tables", "version", "rows"}

(* The order in which they are made.                                       *)
MusicParts == IF schema.first THEN <<"information", "tables", "version", "rows">>
                              ELSE <<"tables", "information", "version", "rows">>
PerformanceParts == <<"tables", "version">>

(* Mutant: the version first, as it is what one looks for. *)
VersionFirst == <<"information", "version", "tables", "rows">>

Database2Parts == <<"information", "tables", "version", "rows">>

PartsOf(f) == CASE f = "m" -> MusicParts [] f = "p" -> PerformanceParts
                [] OTHER -> Database2Parts
Whole(f)   == {PartsOf(f)[n] : n \in DOMAIN PartsOf(f)}

AllCalls == [name : {"create", "create_or_load"}, gen : 1 .. 2]
            \cup [name : {"load", "exists"}, gen : {0}]

ASSUME LifecycleCalls == Calls \subseteq AllCalls
ASSUME LifecycleBound == MaxCalls \in Nat

Idle == [call |-> [name |-> "none", gen |-> 0], nth |-> 0, at |-> "idle",
         hasM |-> FALSE, done |-> 0]

Here(s, at) == proc[s].at = at
Creating(s) == proc[s].at \in {"attach", "fill m", "fill p", "fill d2"}

-----------------------------------------------------------------------------
(* Moves of a process. *)

Goto(s, at) == proc' = [proc EXCEPT ![s].at = at] /\ UNCHANGED ended

(* A call returns, or throws: how, and what is in the files then.          *)
End(s, how) ==
  /\ proc' = [proc EXCEPT ![s] = Idle]
  /\ ended' = ended \cup
       {[call |-> proc[s].call, nth |-> proc[s].nth, how |-> how,
         kind |-> IF proc[s].at \in {"fill d2", "version d2"} THEN "d2" ELSE "m",
         file |-> file', older |-> older',
         calm |-> ~stopped /\ \A t \in Processes \ {s} : ~Creating(t)]}

(* Mutant: the exception is taken for leave to create by all. *)
NotFoundCreates(s) == Goto(s, "mkdir")

(* database_not_found, which create_or_load_database and database_exists   *)
(* catch; they catch nothing else.                                         *)
NotFound(s) ==
  CASE proc[s].call.name = "create_or_load" -> Goto(s, "mkdir")
    [] proc[s].call.name = "exists"         -> End(s, "false")
    [] OTHER                                -> End(s, "not_found")

Opened(F) == [f \in Files |-> IF f \in F THEN file[f] \cup {There} ELSE file[f]]

-----------------------------------------------------------------------------
(* Loading. *)

(* detect_is_database2: the directory, then one file, then the other.      *)
LookForDir(s) ==
  /\ Here(s, "detect")
  /\ UNCHANGED <<dir, file, older>>
  /\ IF dir THEN Goto(s, "look for m") ELSE NotFound(s)

LookForM(s) ==
  /\ Here(s, "look for m")
  /\ proc' = [proc EXCEPT ![s].at = "look for d2", ![s].hasM = There \in file["m"]]
  /\ UNCHANGED <<dir, file, older, ended>>

(* Neither is no library, and so are both.                                 *)
LookForD2(s) ==
  /\ Here(s, "look for d2")
  /\ UNCHANGED <<dir, file, older>>
  /\ IF proc[s].hasM = (There \in file["d2"]) THEN NotFound(s)
     ELSE Goto(s, IF proc[s].hasM THEN "open m" ELSE "open d2")

(* To attach p.db makes an empty file where there is none.                 *)
Open(s) ==
  /\ UNCHANGED <<dir, older>>
  /\ \/ Here(s, "open m")  /\ file' = Opened({"m", "p"}) /\ Goto(s, "detect m")
     \/ Here(s, "open d2") /\ file' = Opened({"d2"})     /\ Goto(s, "detect d2")

(* detect_schema: is there a table Information? *)
DetectSchema(s, f, detect, version) ==
  /\ Here(s, detect)
  /\ UNCHANGED <<dir, file, older>>
  /\ IF "information" \in file[f] THEN Goto(s, version) ELSE End(s, "inconsistent")

(* The version in its row; without a row the SQLite wrapper throws.        *)
ReadVersion(s, f, version) ==
  /\ Here(s, version)
  /\ UNCHANGED <<dir, file, older>>
  /\ End(s, IF "version" \notin file[f] THEN "no_rows"
            ELSE IF proc[s].call.name = "exists" THEN "true" ELSE "loaded")

Load(s) ==
  \/ LookForDir(s) \/ LookForM(s) \/ LookForD2(s) \/ Open(s)
  \/ DetectSchema(s, "m", "detect m", "version m")
  \/ DetectSchema(s, "d2", "detect d2", "version d2")
  \/ ReadVersion(s, "m", "version m")
  \/ ReadVersion(s, "d2", "version d2")

-----------------------------------------------------------------------------
(* Creating. *)

MakeDirs(s) ==
  /\ Here(s, "mkdir")
  /\ dir' = TRUE
  /\ Goto(s, IF proc[s].call.gen = 1 THEN "attach" ELSE "refuse")
  /\ UNCHANGED <<file, older>>

(* Mutant: the file is opened before it is looked for. *)
RefuseLate(s) ==
  /\ Here(s, "refuse")
  /\ UNCHANGED <<dir, older>>
  /\ file' = Opened({"d2"})
  /\ IF There \in file'["d2"] THEN End(s, "inconsistent") ELSE Goto(s, "attach")

(* create_database2_sqlite_database refuses a file that is there ...       *)
Refuse(s) ==
  /\ Here(s, "refuse")
  /\ UNCHANGED <<dir, file, older>>
  /\ IF There \in file["d2"] THEN End(s, "inconsistent") ELSE Goto(s, "attach")

(* ... create_legacy_sqlite_database does not look.                        *)
Attach(s) ==
  /\ Here(s, "attach")
  /\ UNCHANGED <<dir, older>>
  /\ IF proc[s].call.gen = 1 THEN file' = Opened({"m", "p"}) /\ Goto(s, "fill m")
                             ELSE file' = Opened({"d2"})     /\ Goto(s, "fill d2")

(* Mutant: CREATE TABLE IF NOT EXISTS. *)
NeverClashes(s, f) == FALSE

(* Mutant: in Database2 the look at the file is trusted. *)
ClashesLegacy(s, f) ==
  /\ f # "d2" /\ PartsOf(f)[proc[s].done + 1] \in file[f] \cap {"information", "tables"}
  /\ ~(f = "p" /\ schema.drops)

(* CREATE TABLE fails where the table is there: the first of a file, or    *)
(* none. The schemas that drop the tables of p.db first do not meet it.    *)
Clashes(s, f) ==
  /\ PartsOf(f)[proc[s].done + 1] \in file[f] \cap {"information", "tables"}
  /\ ~(f = "p" /\ schema.drops)

(* Mutant: the Information row of m.db is taken for the end. *)
NowhereAfter(f) == "end"

(* The music schema first, then that of the performance data.              *)
NextAfter(f) == IF f = "m" THEN "fill p" ELSE "end"

(* The next part of a file; after its last one, on to the next file.       *)
Fill(s, f, at) ==
  LET n    == proc[s].done + 1
      last == n = Len(PartsOf(f))
  IN  /\ Here(s, at)
      /\ UNCHANGED dir
      /\ IF Clashes(s, f) THEN UNCHANGED <<file, older>> /\ End(s, "table_exists")
         ELSE /\ file' = [file EXCEPT ![f] = @ \cup {PartsOf(f)[n]}]
              /\ older' = (older /\ f # "p")
              /\ IF last /\ NextAfter(f) = "end" THEN End(s, "created")
                 ELSE /\ proc' = [proc EXCEPT ![s].done = IF last THEN 0 ELSE n,
                                              ![s].at = IF last THEN NextAfter(f) ELSE at]
                      /\ UNCHANGED ended

Create(s) ==
  \/ MakeDirs(s) \/ Refuse(s) \/ Attach(s)
  \/ Fill(s, "m", "fill m") \/ Fill(s, "p", "fill p") \/ Fill(s, "d2", "fill d2")

-----------------------------------------------------------------------------

Begin(s, c) ==
  /\ Here(s, "idle") /\ calls < MaxCalls
  /\ proc' = [proc EXCEPT ![s] = [Idle EXCEPT !.call = c, !.nth = calls + 1,
                !.at = IF c.name = "create" THEN "mkdir" ELSE "detect"]]
  /\ calls' = calls + 1
  /\ UNCHANGED <<schema, found, dir, file, older, ended, stopped>>

Proceed(s) == (Load(s) \/ Create(s)) /\ UNCHANGED <<schema, found, calls, stopped>>

(* An error, a lock that another process holds, the end of the process.    *)
Stop(s) ==
  /\ ~Here(s, "idle")
  /\ proc' = [proc EXCEPT ![s] = Idle]
  /\ stopped' = TRUE
  /\ UNCHANGED <<schema, found, dir, file, older, ended, calls>>

Rest == calls = MaxCalls /\ (\A s \in Processes : Here(s, "idle")) /\ UNCHANGED vars

(* Nothing, a library of either kind, or a p.db that was left behind.      *)
Init ==
  /\ schema \in [first : BOOLEAN, drops : BOOLEAN]
  /\ found \in {{}, {"m", "p"}, {"d2"}, {"p"}}
  /\ dir \in {TRUE, found # {}}
  /\ file = [f \in Files |-> IF f \in found THEN {There} \cup Whole(f) ELSE {}]
  /\ older = ("p" \in found)
  /\ proc = [s \in Processes |-> Idle]
  /\ ended = {} /\ calls = 0 /\ stopped = FALSE

Next ==
  \/ \E s \in Processes : (\E c \in Calls : Begin(s, c)) \/ Proceed(s) \/ Stop(s)
  \/ Rest

(* A process that is in a call runs on.                                    *)
Spec == Init /\ [][Next]_vars /\ \A s \in Processes : WF_vars(Proceed(s))

-----------------------------------------------------------------------------
(* Properties. *)

(* Every part of the state is what its comment says, and a process is at a *)
(* step of the call it is in.                                              *)
TypeOK ==
  /\ schema \in [first : BOOLEAN, drops : BOOLEAN]
  /\ found \subseteq Files /\ {dir, older, stopped} \subseteq BOOLEAN
  /\ file \in [Files -> SUBSET Parts]
  /\ calls \in 0 .. MaxCalls
  /\ \A s \in Processes :
       \/ proc[s] = Idle
       \/ /\ proc[s].call \in Calls /\ proc[s].nth \in 1 .. calls
          /\ Creating(s) => proc[s].call.name \in {"create", "create_or_load"}
          /\ proc[s].at = "fill d2" => proc[s].done < 4
          /\ proc[s].at \in {"fill m", "fill p"} => proc[s].call.gen = 1

(* A library that was there is there for good, and so is the performance   *)
(* data beside it, whoever means to create one over it.                    *)
NothingLost ==
  /\ \A f \in found \cap {"m", "d2"} : file[f] = {There} \cup Whole(f)
  /\ "m" \in found => older

(* Whoever can load a database, at any moment of its creation and after a  *)
(* creation that was stopped, has all its tables; with p.db beside it only *)
(* if no creation was stopped or was under way.                            *)
LoadedHasTables ==
  \A e \in ended : e.how = "loaded" =>
    /\ "tables" \in e.file[e.kind]
    /\ e.kind = "m" /\ e.calm => "tables" \in e.file["p"]

(* create_database returns when all of the database is there, without      *)
(* performance data from before, which new tracks would take for theirs.   *)
CreatedIsWhole ==
  \A e \in ended : e.how = "created" =>
    /\ {There} \cup Whole(e.kind) \subseteq e.file[e.kind]
    /\ e.kind = "m" => Whole("p") \subseteq e.file["p"] /\ ~e.older

(* Of the processes that create a database of one kind one succeeds, and   *)
(* none where it was there before.                                         *)
OneCreates ==
  \A e \in ended : e.how = "created" =>
    /\ e.kind \notin found
    /\ \A x \in ended : x.how = "created" /\ x.kind = e.kind => x = e

(* engine.hpp: "If a database already exists in the target directory, an   *)
(* exception will be thrown."                                              *)
ExistingRefuses == (\E e \in ended : e.how = "created") => found \cap {"m", "d2"} = {}

(* Processes that create at the same time do not all fail: where a         *)
(* creation begins there is a whole library in the end, if none is stopped.*)
SomeoneCreates ==
  (\E s \in Processes : Here(s, "mkdir")) ~>
    (stopped \/ \E f \in {"m", "d2"} : Whole(f) \subseteq file[f])
=============================================================================
