--------------------------- MODULE LifecycleProofs ---------------------------
(***************************************************************************)
(* Proofs about module Lifecycle, for any number of processes and calls.   *)
(*                                                                         *)
(* The argument. The first part of a file is a CREATE TABLE, which fails   *)
(* where the table is there: so the process that made it, its owner, is    *)
(* the only one that adds to that file, and adds in order (OneOwner,       *)
(* InOrder). The row with the version comes after the tables, so whoever   *)
(* finds a version has the tables; and with a complete file the first      *)
(* part is there, so no other process can own it, now or later. p.db has   *)
(* no owner of its own: the owner of m.db keeps it until p.db is made      *)
(* (Followed). Each step is of one of four shapes: it makes no part        *)
(* (Quiet), it ends and leaves a file as it is (Leave), or it makes a part *)
(* (AddsTo, AddsToP). Liveness stays with TLC.                             *)
(***************************************************************************)
EXTENDS Lifecycle, TLAPS

(* The files whose parts are made in order, each by one process.           *)
Kinds == {"m", "d2"}

(* Where a process may be.                                                 *)
Steps == {"idle", "detect", "look for m", "look for d2", "open m", "open d2",
          "detect m", "detect d2", "version m", "version d2",
          "mkdir", "refuse", "attach", "fill m", "fill p", "fill d2"}

(* The call of a process that is in none.                                  *)
NoCall == Idle.call

(* What a process is doing.                                                *)
Process == [call : AllCalls \cup {NoCall}, nth : Nat, at : Steps, hasM : BOOLEAN, done : 0 .. 3]

(* The process s is the one that has made the first part of f.             *)
Owns(s, f) ==
  \/ f = "m"  /\ proc[s].at = "fill m"  /\ proc[s].done > 0
  \/ f = "m"  /\ proc[s].at = "fill p"
  \/ f = "d2" /\ proc[s].at = "fill d2" /\ proc[s].done > 0

(* The first n parts of f, in the order in which they are made.            *)
Begun(f, n) == {PartsOf(f)[k] : k \in 1 .. n}

(* What there is of f, besides the file itself.                            *)
Made(f) == file[f] \ {There}

(* The types, and with them the inductive invariant: its parts first.      *)
Typed ==
  /\ schema \in [first : BOOLEAN, drops : BOOLEAN]
  /\ found \subseteq Files /\ {dir, older, stopped} \subseteq BOOLEAN
  /\ file \in [Files -> SUBSET Parts]
  /\ calls \in 0 .. MaxCalls
  /\ proc \in [Processes -> Process]

(* Where a process is agrees with the call that it is in.                  *)
InCall ==
  \A s \in Processes :
    /\ Here(s, "idle") => proc[s] = Idle
    /\ ~Here(s, "idle") => proc[s].call \in Calls /\ proc[s].nth \in 1 .. calls
    /\ Creating(s) \/ proc[s].at \in {"mkdir", "refuse"} =>
         proc[s].call.name \in {"create", "create_or_load"}
    /\ proc[s].at \in {"fill m", "fill p"} => proc[s].call.gen = 1
    /\ proc[s].at \notin {"fill m", "fill p", "fill d2"} => proc[s].done = 0
    /\ proc[s].at = "fill p" => proc[s].done < 2

(* What s knows of the file it is making: how far it is, if s is its owner.*)
Stage(s) ==
  /\ proc[s].at = "fill m"  => /\ There \in file["m"]
                               /\ Owns(s, "m") => Made("m") = Begun("m", proc[s].done)
  /\ proc[s].at = "fill d2" => /\ There \in file["d2"]
                               /\ Owns(s, "d2") => Made("d2") = Begun("d2", proc[s].done)
  /\ proc[s].at = "fill p"  => /\ There \in file["m"] /\ Made("m") = Whole("m")
                               /\ proc[s].done = 1 => "tables" \in file["p"] /\ ~older

(* m.db and Database2/m.db are made part by part, in order.                *)
InOrder ==
  /\ \A f \in Kinds : \E n \in 0 .. 4 : Made(f) = Begun(f, n)
  /\ \A s \in Processes : Stage(s)

(* A file has one owner, and none once it was found or created.            *)
OneOwner ==
  \A s \in Processes, f \in Kinds : Owns(s, f) =>
    /\ f \notin found
    /\ \A t \in Processes : Owns(t, f) => t = s
    /\ \A e \in ended : e.how = "created" => e.kind # f

(* What was created stays whole.                                           *)
Created ==
  \A e \in ended : e.how = "created" => e.kind \in Kinds /\ Made(e.kind) = Whole(e.kind)

(* p.db follows m.db, unless a process was stopped in between.             *)
Followed ==
  ~stopped /\ Made("m") # {} => "tables" \in file["p"] \/ \E s \in Processes : Owns(s, "m")

(* The inductive invariant.                                                *)
IInv == /\ Typed /\ InCall /\ InOrder /\ OneOwner /\ Created /\ Followed
        /\ NothingLost /\ LoadedHasTables /\ CreatedIsWhole /\ OneCreates

-----------------------------------------------------------------------------
(* The parts of a file. *)

(* What the two orders of the schemas have in common.                      *)
LEMMA Wholes ==
  ASSUME schema \in [first : BOOLEAN, drops : BOOLEAN]
  PROVE  /\ \A f \in Kinds : Whole(f) = {"information", "tables", "version", "rows"}
         /\ Whole("p") = {"tables", "version"}
         /\ \A f \in Kinds : Len(PartsOf(f)) = 4
         /\ Len(PartsOf("p")) = 2 /\ PartsOf("p")[1] = "tables" /\ PartsOf("p")[2] = "version"
         /\ \A f \in Kinds : PartsOf(f)[1] \in {"information", "tables"}
         /\ \A f \in Kinds : Begun(f, 0) = {} /\ Begun(f, 4) = Whole(f)
         /\ \A f \in Kinds, n \in 0 .. 3 :
              /\ Begun(f, n + 1) = Begun(f, n) \cup {PartsOf(f)[n + 1]}
              /\ PartsOf(f)[n + 1] \in Whole(f) \ Begun(f, n)
         /\ \A f \in Kinds, n \in 0 .. 4 :
              /\ "version" \in Begun(f, n) => "tables" \in Begun(f, n)
              /\ n > 0 <=> Begun(f, n) # {}
              /\ n > 0 <=> PartsOf(f)[1] \in Begun(f, n)
<1> DEFINE M == PartsOf("m")
           D == PartsOf("d2")
           P == PartsOf("p")
<1>1. /\ \/ M = <<"information", "tables", "version", "rows">>
         \/ M = <<"tables", "information", "version", "rows">>
      /\ D = <<"information", "tables", "version", "rows">>
      /\ P = <<"tables", "version">>
  BY DEF PartsOf, MusicParts, PerformanceParts, Database2Parts
<1>2. /\ Len(M) = 4 /\ Len(D) = 4 /\ Len(P) = 2
      /\ DOMAIN M = 1 .. 4 /\ DOMAIN D = 1 .. 4 /\ DOMAIN P = 1 .. 2
  BY <1>1
<1>3. /\ \/ M[1] = "information" /\ M[2] = "tables"
         \/ M[1] = "tables" /\ M[2] = "information"
      /\ M[3] = "version" /\ M[4] = "rows"
      /\ D[1] = "information" /\ D[2] = "tables" /\ D[3] = "version" /\ D[4] = "rows"
      /\ P[1] = "tables" /\ P[2] = "version"
  BY <1>1
<1> HIDE DEF M, D, P
<1>4. /\ \A f \in Kinds : Begun(f, 0) = {} /\ Begun(f, 1) = {PartsOf(f)[1]}
      /\ \A f \in Kinds : Begun(f, 2) = {PartsOf(f)[1], PartsOf(f)[2]}
      /\ \A f \in Kinds : Begun(f, 3) = {PartsOf(f)[1], PartsOf(f)[2], PartsOf(f)[3]}
      /\ \A f \in Kinds : Begun(f, 4) = {PartsOf(f)[1], PartsOf(f)[2], PartsOf(f)[3], PartsOf(f)[4]}
  BY DEF Begun
<1>5. /\ Whole("m") = {M[1], M[2], M[3], M[4]}
      /\ Whole("d2") = {D[1], D[2], D[3], D[4]}
      /\ Whole("p") = {P[1], P[2]}
  BY <1>2 DEF Whole, M, D, P
<1>6. /\ Whole("m") = {"information", "tables", "version", "rows"}
      /\ Whole("d2") = {"information", "tables", "version", "rows"}
      /\ Whole("p") = {"tables", "version"}
  BY <1>3, <1>5
<1>7. \A n \in 0 .. 3 : n = 0 \/ n = 1 \/ n = 2 \/ n = 3
  OBVIOUS
<1>8. \A f \in Kinds, n \in 0 .. 3 :
        /\ Begun(f, n + 1) = Begun(f, n) \cup {PartsOf(f)[n + 1]}
        /\ PartsOf(f)[n + 1] \in Whole(f) \ Begun(f, n)
  <2> TAKE f \in Kinds, n \in 0 .. 3
  <2>1. CASE f = "m"
    BY <2>1, <1>3, <1>4, <1>5, <1>7 DEF M
  <2>2. CASE f = "d2"
    BY <2>2, <1>3, <1>4, <1>5, <1>7 DEF D
  <2>3. QED
    BY <2>1, <2>2 DEF Kinds
<1>9. \A f \in Kinds, n \in 0 .. 4 :
        /\ "version" \in Begun(f, n) => "tables" \in Begun(f, n)
        /\ n > 0 <=> Begun(f, n) # {}
        /\ n > 0 <=> PartsOf(f)[1] \in Begun(f, n)
  <2> TAKE f \in Kinds, n \in 0 .. 4
  <2>1. n = 0 \/ n = 1 \/ n = 2 \/ n = 3 \/ n = 4
    OBVIOUS
  <2>2. CASE f = "m"
    BY <2>1, <2>2, <1>3, <1>4 DEF M
  <2>3. CASE f = "d2"
    BY <2>1, <2>3, <1>3, <1>4 DEF D
  <2>4. QED
    BY <2>2, <2>3 DEF Kinds
<1>10. \A f \in Kinds : Len(PartsOf(f)) = 4 /\ PartsOf(f)[1] \in {"information", "tables"}
  BY <1>2, <1>3 DEF Kinds, M, D
<1>11. \A f \in Kinds : Begun(f, 4) = Whole(f)
  BY <1>4, <1>5 DEF Kinds, M, D
<1>12. QED
  BY <1>2, <1>3, <1>4, <1>6, <1>8, <1>9, <1>10, <1>11 DEF Kinds, P

-----------------------------------------------------------------------------
(* Steps. *)

(* LoadedHasTables of one call.                                            *)
LoadedOK(e) ==
  e.how = "loaded" =>
    /\ "tables" \in e.file[e.kind]
    /\ e.kind = "m" /\ e.calm => "tables" \in e.file["p"]

(* A step of s that makes no part of a file, though it may make the file:  *)
(* s owns none before or after it.                                         *)
Quiet(s) ==
  /\ UNCHANGED <<schema, found, older>>
  /\ stopped' = stopped
  /\ \E F \in SUBSET Files : file' = Opened(F)
  /\ \A t \in Processes \ {s} : proc'[t] = proc[t]
  /\ \A f \in Kinds : ~Owns(s, f) /\ ~Owns(s, f)'
  /\ proc'[s].at = "fill m" => There \in file'["m"]
  /\ proc'[s].at = "fill d2" => There \in file'["d2"]
  /\ ended \subseteq ended'
  /\ \A e \in ended' \ ended : e.how # "created" /\ LoadedOK(e)

(* A quiet step keeps the invariant.                                       *)
LEMMA QuietSteps ==
  ASSUME IInv, NEW s \in Processes, Quiet(s)
  PROVE  (InOrder /\ OneOwner /\ Created /\ Followed /\ NothingLost /\ LoadedHasTables
            /\ CreatedIsWhole /\ OneCreates)'
<1>1. PICK F \in SUBSET Files : file' = Opened(F)
  BY DEF Quiet
<1>2. \A f \in Files : /\ Made(f)' = Made(f)
                      /\ file[f] \subseteq file'[f] /\ file'[f] \subseteq file[f] \cup {There}
  BY <1>1 DEF Opened, Made, IInv, Typed
<1>3. \A t \in Processes, f \in Kinds : Owns(t, f)' <=> Owns(t, f)
  BY DEF Quiet, Owns
<1>4. schema' = schema /\ found' = found /\ older' = older /\ stopped' = stopped
  BY DEF Quiet
<1>5. \A f \in Files, n \in 0 .. 4 : Begun(f, n)' = Begun(f, n) /\ Whole(f)' = Whole(f)
  BY <1>4 DEF Begun, Whole, PartsOf, MusicParts
<1>6. InOrder'
  <2>1. \A f \in Kinds : \E n \in 0 .. 4 : Made(f)' = Begun(f, n)'
    BY <1>2, <1>5 DEF IInv, InOrder, Kinds, Files
  <2>2. ASSUME NEW t \in Processes
        PROVE  Stage(t)'
    <3>1. CASE t = s
      <4>1. /\ ~Owns(s, "m")' /\ ~Owns(s, "d2")'
            /\ proc'[s].at = "fill m" => There \in file'["m"]
            /\ proc'[s].at = "fill d2" => There \in file'["d2"]
        BY DEF Quiet, Kinds
      <4>2. proc'[s].at # "fill p"
        BY <4>1 DEF Owns
      <4>3. QED
        BY <3>1, <4>1, <4>2 DEF Stage
    <3>2. CASE t # s
      <4>1. proc'[t] = proc[t]
        BY <3>2 DEF Quiet
      <4>2. proc[t].done \in 0 .. 4
        BY DEF IInv, Typed, Process
      <4>3. /\ Begun("m", proc[t].done)' = Begun("m", proc[t].done)
            /\ Begun("d2", proc[t].done)' = Begun("d2", proc[t].done)
        BY <4>1, <1>4 DEF Begun, PartsOf, MusicParts
      <4>4. /\ Owns(t, "m")' <=> Owns(t, "m")
            /\ Owns(t, "d2")' <=> Owns(t, "d2")
        BY <1>3 DEF Kinds
      <4>5. /\ Made("m")' = Made("m") /\ Made("d2")' = Made("d2")
            /\ Whole("m")' = Whole("m")
            /\ file["m"] \subseteq file'["m"] /\ file["d2"] \subseteq file'["d2"]
            /\ file["p"] \subseteq file'["p"]
        BY <1>2, <1>5 DEF Files
      <4>6. Stage(t)
        BY DEF IInv, InOrder
      <4>7. QED
        BY <4>1, <4>3, <4>4, <4>5, <4>6, <1>4 DEF Stage
    <3>3. QED
      BY <3>1, <3>2
  <2>3. QED
    BY <2>1, <2>2 DEF InOrder
<1>7. OneOwner'
  BY <1>3, <1>4 DEF Quiet, OneOwner, IInv
<1>8. Created'
  <2> SUFFICES ASSUME NEW e \in ended', e.how = "created"
               PROVE  e.kind \in Kinds /\ Made(e.kind)' = Whole(e.kind)'
    BY DEF Created
  <2>1. e \in ended
    BY DEF Quiet
  <2>2. e.kind \in Kinds /\ Made(e.kind) = Whole(e.kind)
    BY <2>1 DEF IInv, Created
  <2>3. QED
    BY <2>2, <1>2, <1>5 DEF Kinds, Files
<1>9. Followed'
  <2>1. Made("m")' = Made("m") /\ file["p"] \subseteq file'["p"]
    BY <1>2 DEF Files
  <2>2. \A t \in Processes : Owns(t, "m")' <=> Owns(t, "m")
    BY <1>3 DEF Kinds
  <2>3. Followed
    BY DEF IInv
  <2>4. QED
    BY <2>1, <2>2, <2>3, <1>4 DEF Followed
<1>10. NothingLost'
  <2>1. \A f \in found \cap {"m", "d2"} : file'[f] = file[f]
    BY <1>2 DEF IInv, NothingLost, Files
  <2>2. QED
    BY <2>1, <1>4, <1>5 DEF IInv, NothingLost, Files
<1>11. LoadedHasTables'
  BY DEF Quiet, LoadedOK, IInv, LoadedHasTables
<1>12. CreatedIsWhole'
  <2>1. Whole("p")' = Whole("p") /\ Whole("m")' = Whole("m") /\ Whole("d2")' = Whole("d2")
    BY <1>5 DEF Files
  <2> SUFFICES ASSUME NEW e \in ended', e.how = "created"
               PROVE  /\ {There} \cup Whole(e.kind)' \subseteq e.file[e.kind]
                      /\ e.kind = "m" => Whole("p")' \subseteq e.file["p"] /\ ~e.older
    BY DEF CreatedIsWhole
  <2>2. e \in ended
    BY DEF Quiet
  <2>3. e.kind \in Kinds
    BY <2>2 DEF IInv, Created
  <2>4. QED
    BY <2>1, <2>2, <2>3 DEF IInv, CreatedIsWhole, Kinds
<1>13. OneCreates'
  BY <1>4 DEF Quiet, IInv, OneCreates
<1>14. QED
  BY <1>6, <1>7, <1>8, <1>9, <1>10, <1>11, <1>12, <1>13

(* A call that ends without success, or a process that stops: what it was  *)
(* making stays as it is.                                                  *)
Leave(s) ==
  /\ UNCHANGED <<schema, found, file, older>>
  /\ proc' = [proc EXCEPT ![s] = Idle]
  /\ ended \subseteq ended'
  /\ \A e \in ended' \ ended : e.how # "created" /\ LoadedOK(e)
  /\ \/ stopped' = TRUE
     \/ stopped' = stopped /\ (Owns(s, "m") => "tables" \in file["p"])

(* So does one that leaves a file as it is.                                *)
LEMMA LeaveSteps ==
  ASSUME IInv, NEW s \in Processes, Leave(s)
  PROVE  (InOrder /\ OneOwner /\ Created /\ Followed /\ NothingLost /\ LoadedHasTables
            /\ CreatedIsWhole /\ OneCreates)'
<1>1. /\ schema' = schema /\ found' = found /\ older' = older /\ file' = file
      /\ ended \subseteq ended'
      /\ \A e \in ended' \ ended : e.how # "created" /\ LoadedOK(e)
  BY DEF Leave
<1>2. \A f, n : Begun(f, n)' = Begun(f, n) /\ Whole(f)' = Whole(f) /\ Made(f)' = Made(f)
  BY <1>1 DEF Begun, Whole, Made, PartsOf, MusicParts
<1>3. /\ proc'[s].at = "idle"
      /\ \A t \in Processes \ {s} : proc'[t] = proc[t]
  BY DEF Leave, IInv, Typed, Idle
<1>4. \A t \in Processes, f \in Kinds : Owns(t, f)' <=> t # s /\ Owns(t, f)
  BY <1>3 DEF Owns
<1>5. InOrder'
  <2>1. \A f \in Kinds : \E n \in 0 .. 4 : Made(f)' = Begun(f, n)'
    BY <1>2 DEF IInv, InOrder
  <2>2. ASSUME NEW t \in Processes
        PROVE  Stage(t)'
    <3>1. CASE t = s
      BY <3>1, <1>3 DEF Stage
    <3>2. CASE t # s
      <4>1. proc'[t] = proc[t]
        BY <3>2, <1>3
      <4>2. /\ Begun("m", proc[t].done)' = Begun("m", proc[t].done)
            /\ Begun("d2", proc[t].done)' = Begun("d2", proc[t].done)
        BY <4>1, <1>1 DEF Begun, PartsOf, MusicParts
      <4>3. /\ Owns(t, "m")' <=> Owns(t, "m")
            /\ Owns(t, "d2")' <=> Owns(t, "d2")
        BY <1>4, <3>2 DEF Kinds
      <4>4. Made("m")' = Made("m") /\ Made("d2")' = Made("d2") /\ Whole("m")' = Whole("m")
        BY <1>2
      <4>5. Stage(t)
        BY DEF IInv, InOrder
      <4>6. QED
        BY <4>1, <4>2, <4>3, <4>4, <4>5, <1>1 DEF Stage
    <3>3. QED
      BY <3>1, <3>2
  <2>3. QED
    BY <2>1, <2>2 DEF InOrder
<1>6. OneOwner'
  BY <1>1, <1>4 DEF OneOwner, IInv
<1>7. Created'
  BY <1>1, <1>2 DEF IInv, Created
<1>8. Followed'
  <2>1. \A t \in Processes : Owns(t, "m")' <=> t # s /\ Owns(t, "m")
    BY <1>4 DEF Kinds
  <2>2. Made("m")' = Made("m")
    BY <1>2
  <2>3. QED
    BY <2>1, <2>2, <1>1 DEF Leave, Followed, IInv
<1>9. NothingLost'
  BY <1>1, <1>2 DEF IInv, NothingLost
<1>10. LoadedHasTables'
  BY <1>1 DEF LoadedOK, IInv, LoadedHasTables
<1>11. CreatedIsWhole'
  BY <1>1, <1>2 DEF IInv, CreatedIsWhole
<1>12. OneCreates'
  BY <1>1 DEF IInv, OneCreates
<1>13. QED
  BY <1>5, <1>6, <1>7, <1>8, <1>9, <1>10, <1>11, <1>12

(* Where a process is that makes parts of m.db or Database2/m.db.          *)
FillingAt(f) == IF f = "m" THEN "fill m" ELSE "fill d2"

(* Whoever makes a part of m.db or Database2/m.db is the only one to do so,*)
(* and there was no such library before.                                   *)
LEMMA OnlyFiller ==
  ASSUME IInv, NEW s \in Processes, NEW f \in Kinds,
         proc[s].at = FillingAt(f), ~Clashes(s, f)
  PROVE  /\ Made(f) = Begun(f, proc[s].done)
         /\ PartsOf(f)[proc[s].done + 1] \in Whole(f) \ Made(f)
         /\ There \in file[f] /\ f \notin found
         /\ \A e \in ended : e.how = "created" => e.kind # f
         /\ \A t \in Processes : Owns(t, f) => t = s
<1> DEFINE n == proc[s].done
<1>1. n \in 0 .. 3 /\ schema \in [first : BOOLEAN, drops : BOOLEAN]
  BY DEF IInv, Typed, Process
<1>2. /\ Begun(f, 0) = {} /\ PartsOf(f)[1] \in {"information", "tables"}
      /\ PartsOf(f)[n + 1] \in Whole(f) \ Begun(f, n)
      /\ Whole(f) = {"information", "tables", "version", "rows"}
      /\ \A k \in 0 .. 4 : (k > 0 <=> Begun(f, k) # {}) /\ (k > 0 <=> PartsOf(f)[1] \in Begun(f, k))
  BY <1>1, Wholes
<1>3. There \in file[f] /\ (Owns(s, f) => Made(f) = Begun(f, n))
  BY DEF IInv, InOrder, Stage, FillingAt, Kinds
<1>4. Made(f) = Begun(f, n)
  <2>1. CASE n > 0
    BY <2>1, <1>3 DEF Owns, FillingAt, Kinds
  <2>2. CASE n = 0
    <3>1. PartsOf(f)[1] \notin file[f]
      BY <2>2, <1>2 DEF Clashes, Kinds
    <3>2. PICK k \in 0 .. 4 : Made(f) = Begun(f, k)
      BY DEF IInv, InOrder
    <3>3. k = 0
      BY <3>1, <3>2, <1>2 DEF Made
    <3>4. QED
      BY <2>2, <3>2, <3>3
  <2>3. QED
    BY <1>1, <2>1, <2>2
<1>5. PartsOf(f)[n + 1] \in Whole(f) \ Made(f)
  BY <1>2, <1>4
<1>6. f \notin found
  <2>1. f \in found => file[f] = {There} \cup Whole(f)
    BY DEF IInv, NothingLost, Kinds
  <2>2. QED
    BY <2>1, <1>5, <1>2 DEF Made, There
<1>7. \A e \in ended : e.how = "created" => e.kind # f
  BY <1>5 DEF IInv, Created
<1>8. ASSUME NEW t \in Processes, Owns(t, f)
      PROVE  t = s
  <2>1. CASE n > 0
    BY <2>1, <1>8 DEF IInv, OneOwner, Owns, FillingAt, Kinds
  <2>2. CASE n = 0
    <3>1. Made(f) = {}
      BY <1>4, <1>2, <2>2
    <3>2. proc[t].done \in 0 .. 4
      BY DEF IInv, Typed, Process
    <3>3. CASE proc[t].at = "fill p"
      BY <3>1, <3>3, <1>8, <1>2 DEF IInv, InOrder, Stage, Owns
    <3>4. CASE proc[t].at # "fill p"
      <4>1. Made(f) = Begun(f, proc[t].done) /\ proc[t].done > 0
        BY <3>4, <1>8 DEF IInv, InOrder, Stage, Owns
      <4>2. QED
        BY <4>1, <3>1, <3>2, <1>2
    <3>5. QED
      BY <3>3, <3>4
  <2>3. QED
    BY <1>1, <2>1, <2>2
<1>9. QED
  BY <1>3, <1>4, <1>5, <1>6, <1>7, <1>8

(* It makes part n + 1 of f, and goes on: to the next part, from m.db to   *)
(* p.db, or out of create_database.                                        *)
AddsTo(s, f) ==
  /\ UNCHANGED <<schema, found, older>> /\ stopped' = stopped
  /\ file' = [file EXCEPT ![f] = @ \cup {PartsOf(f)[proc[s].done + 1]}]
  /\ \A t \in Processes \ {s} : proc'[t] = proc[t]
  /\ proc[s].done < 3 => proc'[s].at = proc[s].at /\ proc'[s].done = proc[s].done + 1
  /\ proc[s].done = 3 => /\ f = "m" => proc'[s].at = "fill p" /\ proc'[s].done = 0
                         /\ f = "d2" => proc'[s].at = "idle"
  /\ ended \subseteq ended'
  /\ \A e \in ended' \ ended :
       /\ proc[s].done = 3 /\ f = "d2"
       /\ e.how = "created" /\ e.kind = "d2" /\ e.file = file'
       /\ \A x \in ended' \ ended : x = e

(* So does the next part of m.db or Database2/m.db.                        *)
LEMMA AddSteps ==
  ASSUME IInv, NEW s \in Processes, NEW f \in Kinds,
         proc[s].at = FillingAt(f), ~Clashes(s, f), AddsTo(s, f)
  PROVE  (InOrder /\ OneOwner /\ Created /\ Followed /\ NothingLost /\ LoadedHasTables
            /\ CreatedIsWhole /\ OneCreates)'
<1>0. PICK n \in 0 .. 3 : n = proc[s].done
  BY DEF IInv, Typed, Process
<1>1. n \in 0 .. 3 /\ schema \in [first : BOOLEAN, drops : BOOLEAN]
  BY DEF IInv, Typed
<1>2. /\ schema' = schema /\ found' = found /\ older' = older /\ stopped' = stopped
      /\ \A t \in Processes \ {s} : proc'[t] = proc[t]
  BY DEF AddsTo
<1>3. /\ Made(f) = Begun(f, n)
      /\ PartsOf(f)[n + 1] \in Whole(f) \ Made(f)
      /\ There \in file[f] /\ f \notin found
      /\ \A e \in ended : e.how = "created" => e.kind # f
      /\ \A t \in Processes : Owns(t, f) => t = s
  BY <1>0, OnlyFiller
<1>4. /\ Begun(f, n + 1) = Begun(f, n) \cup {PartsOf(f)[n + 1]} /\ Begun(f, 4) = Whole(f)
      /\ Whole(f) = {"information", "tables", "version", "rows"}
  BY <1>1, Wholes
<1>5. \A g, k : Begun(g, k)' = Begun(g, k) /\ Whole(g)' = Whole(g)
  BY <1>2 DEF Begun, Whole, PartsOf, MusicParts
<1>6. /\ f \in Files /\ file'[f] = file[f] \cup {PartsOf(f)[n + 1]}
      /\ \A g \in Files \ {f} : file'[g] = file[g]
      /\ file' \in [Files -> SUBSET Parts]
  BY <1>0, <1>3, <1>4 DEF AddsTo, IInv, Typed, Kinds, Files, Parts
<1>7. /\ Made(f)' = Begun(f, n + 1) /\ There \in file'[f]
      /\ \A g \in Kinds \ {f} : Made(g)' = Made(g)
  BY <1>3, <1>4, <1>6 DEF Made, There, Kinds, Files
<1>8. \A t \in Processes \ {s}, g \in Kinds : Owns(t, g)' <=> Owns(t, g)
  BY <1>2 DEF Owns
<1>9. /\ n < 3 => /\ f = "m" => proc'[s].at = "fill m"
                  /\ f = "d2" => proc'[s].at = "fill d2"
                  /\ proc'[s].done = n + 1
      /\ n = 3 => /\ f = "m" => proc'[s].at = "fill p" /\ proc'[s].done = 0
                  /\ f = "d2" => proc'[s].at = "idle"
  BY <1>0 DEF AddsTo, FillingAt
<1>10. /\ f = "m" => Owns(s, f)'
       /\ \A g \in Kinds \ {f} : ~Owns(s, g)'
  <2>1. n < 3 \/ n = 3
    BY <1>1
  <2>2. n < 3 => n + 1 > 0
    BY <1>1
  <2>3. CASE f = "m"
    BY <2>1, <2>2, <2>3, <1>9 DEF Owns, Kinds
  <2>4. CASE f = "d2"
    BY <2>1, <2>4, <1>9 DEF Owns, Kinds
  <2>5. QED
    BY <2>3, <2>4 DEF Kinds
<1>11. /\ ended \subseteq ended'
       /\ \A e \in ended' \ ended :
            /\ n = 3 /\ f = "d2"
            /\ e.how = "created" /\ e.kind = "d2" /\ e.file = file'
            /\ \A x \in ended' \ ended : x = e
  BY <1>0 DEF AddsTo
<1>12. n = 3 => Made(f)' = Whole(f)
  BY <1>7, <1>4
<1>13. InOrder'
  <2>1. \A g \in Kinds : \E k \in 0 .. 4 : Made(g)' = Begun(g, k)'
    <3>1. n + 1 \in 0 .. 4
      BY <1>1
    <3>2. QED
      BY <3>1, <1>5, <1>7 DEF IInv, InOrder
  <2>2. ASSUME NEW t \in Processes
        PROVE  Stage(t)'
    <3>1. CASE t = s
      <4>1. /\ Begun("m", n + 1)' = Begun("m", n + 1) /\ Begun("d2", n + 1)' = Begun("d2", n + 1)
            /\ Whole("m")' = Whole("m")
        BY <1>5
      <4>0. n < 3 => /\ Begun("m", proc[s].done)' = Begun("m", n + 1)
                     /\ Begun("d2", proc[s].done)' = Begun("d2", n + 1)
        BY <1>2, <1>9 DEF Begun, PartsOf, MusicParts
      <4>5. n < 3 \/ n = 3
        BY <1>1
      <4>2. CASE f = "m"
        <5>1. n < 3 => Stage(s)'
          BY <4>0, <4>2, <1>7, <1>9 DEF Stage
        <5>2. n = 3 => Stage(s)'
          <6>1. n = 3 => Made("m")' = Whole("m")' /\ There \in file'["m"]
            BY <4>1, <4>2, <1>7, <1>12
          <6>2. n = 3 => proc'[s].at = "fill p" /\ proc'[s].done = 0
            BY <4>2, <1>9
          <6>3. n = 3 => proc'[s].done \in Nat /\ ~(proc'[s].done = 1)
            <7> SUFFICES ASSUME n = 3 PROVE proc'[s].done \in Nat /\ ~(proc'[s].done = 1)
              OBVIOUS
            <7>1. proc'[s].done = 0
              BY <6>2
            <7>2. ~(0 = 1) /\ 0 \in Nat
              OBVIOUS
            <7>3. QED
              BY <7>1, <7>2, Zenon
          <6>4. QED
            BY <6>1, <6>2, <6>3 DEF Stage
        <5>3. QED
          BY <3>1, <4>5, <5>1, <5>2
      <4>3. CASE f = "d2"
        <5>1. n < 3 => Stage(s)'
          BY <4>0, <4>3, <1>7, <1>9 DEF Stage
        <5>2. n = 3 => Stage(s)'
          BY <4>3, <1>9 DEF Stage
        <5>3. QED
          BY <3>1, <4>5, <5>1, <5>2
      <4>4. QED
        BY <4>2, <4>3 DEF Kinds
    <3>2. CASE t # s
      <4>1. proc'[t] = proc[t]
        BY <3>2, <1>2
      <4>2. /\ Begun("m", proc[t].done)' = Begun("m", proc[t].done)
            /\ Begun("d2", proc[t].done)' = Begun("d2", proc[t].done)
            /\ Whole("m")' = Whole("m")
        BY <4>1, <1>2 DEF Begun, Whole, PartsOf, MusicParts
      <4>3. /\ Owns(t, "m")' <=> Owns(t, "m")
            /\ Owns(t, "d2")' <=> Owns(t, "d2")
        BY <1>8, <3>2 DEF Kinds
      <4>4. /\ Owns(t, "m") => f # "m"
            /\ Owns(t, "d2") => f # "d2"
        BY <1>3, <3>2
      <4>5. /\ Owns(t, "m") => Made("m")' = Made("m")
            /\ Owns(t, "d2") => Made("d2")' = Made("d2")
            /\ file["m"] \subseteq file'["m"] /\ file["d2"] \subseteq file'["d2"]
            /\ file["p"] \subseteq file'["p"]
        BY <4>4, <1>6, <1>7 DEF Kinds, Files
      <4>6. Stage(t)
        BY DEF IInv, InOrder
      <4>7. proc[t].at = "fill p" => Owns(t, "m")
        BY DEF Owns
      <4>8. QED
        BY <4>1, <4>2, <4>3, <4>5, <4>6, <4>7, <1>2 DEF Stage
    <3>3. QED
      BY <3>1, <3>2
  <2>3. QED
    BY <2>1, <2>2 DEF InOrder
<1>14. OneOwner'
  <2> SUFFICES ASSUME NEW t \in Processes, NEW g \in Kinds, Owns(t, g)'
               PROVE  /\ g \notin found
                      /\ \A u \in Processes : Owns(u, g)' => u = t
                      /\ \A e \in ended' : e.how = "created" => e.kind # g
    BY <1>2 DEF OneOwner
  <2>1. CASE g = f
    <3>1. t = s
      BY <2>1, <1>3, <1>8
    <3>2. \A u \in Processes : Owns(u, g)' => u = t
      BY <3>1, <2>1, <1>3, <1>8
    <3>3. ~(n = 3 /\ f = "d2")
      BY <3>1, <2>1, <1>9 DEF Owns
    <3>4. ended' = ended
      BY <3>3, <1>11
    <3>5. QED
      BY <3>2, <3>4, <2>1, <1>3
  <2>2. CASE g # f
    <3>1. t # s /\ Owns(t, g)
      BY <2>2, <1>8, <1>10
    <3>2. /\ g \notin found
          /\ \A u \in Processes : Owns(u, g) => u = t
          /\ \A e \in ended : e.how = "created" => e.kind # g
      BY <3>1 DEF IInv, OneOwner
    <3>3. \A u \in Processes : Owns(u, g)' => u = t
      BY <3>2, <2>2, <1>8, <1>10
    <3>4. \A e \in ended' : e.how = "created" => e.kind # g
      BY <3>2, <1>11, <2>2
    <3>5. QED
      BY <3>2, <3>3, <3>4
  <2>3. QED
    BY <2>1, <2>2
<1>15. Created'
  <2> SUFFICES ASSUME NEW e \in ended', e.how = "created"
               PROVE  e.kind \in Kinds /\ Made(e.kind)' = Whole(e.kind)'
    BY DEF Created
  <2>1. CASE e \in ended
    BY <2>1, <1>3, <1>5, <1>7 DEF IInv, Created
  <2>2. CASE e \notin ended
    BY <2>2, <1>11, <1>12, <1>5 DEF Kinds
  <2>3. QED
    BY <2>1, <2>2
<1>16. Followed'
  <2>1. CASE f = "m"
    BY <2>1, <1>10 DEF Followed
  <2>2. CASE f = "d2"
    <3>1. /\ Made("m")' = Made("m") /\ file'["p"] = file["p"]
          /\ \A t \in Processes \ {s} : Owns(t, "m")' <=> Owns(t, "m")
      BY <2>2, <1>6, <1>7, <1>8 DEF Kinds, Files
    <3>2. ~Owns(s, "m")
      BY <2>2 DEF Owns, FillingAt
    <3>3. QED
      BY <3>1, <3>2, <1>2 DEF IInv, Followed
  <2>3. QED
    BY <2>1, <2>2 DEF Kinds
<1>17. NothingLost'
  <2>1. \A g \in found \cap {"m", "d2"} : file'[g] = file[g]
    BY <1>3, <1>6 DEF Files
  <2>2. QED
    BY <2>1, <1>2, <1>5 DEF IInv, NothingLost
<1>18. LoadedHasTables'
  BY <1>11 DEF IInv, LoadedHasTables
<1>19. CreatedIsWhole'
  <2> SUFFICES ASSUME NEW e \in ended', e.how = "created"
               PROVE  /\ {There} \cup Whole(e.kind)' \subseteq e.file[e.kind]
                      /\ e.kind = "m" => Whole("p")' \subseteq e.file["p"] /\ ~e.older
    BY DEF CreatedIsWhole
  <2>1. CASE e \in ended
    BY <2>1, <1>5 DEF IInv, CreatedIsWhole
  <2>2. CASE e \notin ended
    <3>1. n = 3 /\ f = "d2" /\ e.kind = "d2" /\ e.file = file'
      BY <2>2, <1>11
    <3>2. {There} \cup Whole("d2") \subseteq file'["d2"]
      BY <3>1, <1>7, <1>12 DEF Made
    <3>3. QED
      BY <3>1, <3>2, <1>5
  <2>3. QED
    BY <2>1, <2>2
<1>20. OneCreates'
  <2> SUFFICES ASSUME NEW e \in ended', e.how = "created"
               PROVE  /\ e.kind \notin found
                      /\ \A x \in ended' : x.how = "created" /\ x.kind = e.kind => x = e
    BY <1>2 DEF OneCreates
  <2>1. CASE e \in ended
    BY <2>1, <1>3, <1>11 DEF IInv, OneCreates
  <2>2. CASE e \notin ended
    BY <2>2, <1>3, <1>11
  <2>3. QED
    BY <2>1, <2>2
<1>21. QED
  BY <1>13, <1>14, <1>15, <1>16, <1>17, <1>18, <1>19, <1>20

(* It makes the first or the last part of p.db, and goes on or has created *)
(* the database.                                                           *)
AddsToP(s, last) ==
  /\ UNCHANGED <<schema, found>> /\ stopped' = stopped /\ older' = FALSE
  /\ file' = [file EXCEPT !["p"] = @ \cup {IF last THEN "version" ELSE "tables"}]
  /\ \A t \in Processes \ {s} : proc'[t] = proc[t]
  /\ last => proc[s].done = 1 /\ proc'[s].at = "idle"
  /\ ~last => proc'[s].at = "fill p"
  /\ ended \subseteq ended'
  /\ \A e \in ended' \ ended :
       /\ last
       /\ e.how = "created" /\ e.kind = "m" /\ e.file = file' /\ ~e.older
       /\ \A x \in ended' \ ended : x = e

(* So does a part of p.db.                                                 *)
LEMMA AddToPSteps ==
  ASSUME IInv, NEW s \in Processes, NEW last \in BOOLEAN,
         proc[s].at = "fill p", AddsToP(s, last)
  PROVE  (InOrder /\ OneOwner /\ Created /\ Followed /\ NothingLost /\ LoadedHasTables
            /\ CreatedIsWhole /\ OneCreates)'
<1>2. /\ schema' = schema /\ found' = found /\ ~older' /\ stopped' = stopped
      /\ \A t \in Processes \ {s} : proc'[t] = proc[t]
  BY DEF AddsToP
<1>3. /\ Owns(s, "m") /\ "m" \notin found
      /\ \A t \in Processes : Owns(t, "m") => t = s
      /\ \A e \in ended : e.how = "created" => e.kind # "m"
  BY DEF Owns, IInv, OneOwner, Kinds
<1>4. /\ There \in file["m"] /\ Made("m") = Whole("m")
      /\ last => "tables" \in file["p"]
  BY DEF AddsToP, IInv, InOrder, Stage
<1>5. Whole("p") = {"tables", "version"}
  BY Wholes DEF IInv, Typed
<1>6. \A g, k : Begun(g, k)' = Begun(g, k) /\ Whole(g)' = Whole(g)
  <2>1. schema' = schema
    BY <1>2
  <2>2. QED
    BY <2>1 DEF Begun, Whole, PartsOf, MusicParts
<1>7. /\ file'["m"] = file["m"] /\ file'["d2"] = file["d2"]
      /\ file'["p"] = file["p"] \cup {IF last THEN "version" ELSE "tables"}
      /\ Made("m")' = Made("m") /\ Made("d2")' = Made("d2")
  BY DEF AddsToP, IInv, Typed, Files, Made
<1>8. "tables" \in file'["p"] /\ (last => Whole("p") \subseteq file'["p"])
  BY <1>4, <1>5, <1>7
<1>9. /\ ~last => proc'[s].at = "fill p"
      /\ last => proc'[s].at = "idle"
  BY DEF AddsToP
<1>10. /\ ended \subseteq ended'
       /\ \A e \in ended' \ ended :
            /\ last
            /\ e.how = "created" /\ e.kind = "m" /\ e.file = file' /\ ~e.older
            /\ \A x \in ended' \ ended : x = e
  BY DEF AddsToP
<1>11. \A t \in Processes, g \in Kinds :
         /\ Owns(t, g)' => Owns(t, g)
         /\ t # s /\ Owns(t, g) => g = "d2" /\ Owns(t, g)'
  <2> TAKE t \in Processes, g \in Kinds
  <2>1. CASE t = s
    BY <2>1, <1>3, <1>9 DEF Owns
  <2>2. CASE t # s
    <3>1. Owns(t, g)' <=> Owns(t, g)
      BY <2>2, <1>2 DEF Owns
    <3>2. QED
      BY <2>2, <3>1, <1>3 DEF Kinds
  <2>3. QED
    BY <2>1, <2>2
<1>12. InOrder'
  <2>1. \A g \in Kinds : \E k \in 0 .. 4 : Made(g)' = Begun(g, k)'
    BY <1>6, <1>7 DEF IInv, InOrder, Kinds
  <2>2. ASSUME NEW t \in Processes
        PROVE  Stage(t)'
    <3>1. CASE t = s
      BY <3>1, <1>2, <1>4, <1>6, <1>7, <1>8, <1>9 DEF Stage
    <3>2. CASE t # s
      <4>1. proc'[t] = proc[t]
        BY <3>2, <1>2
      <4>2. proc[t].at # "fill p" /\ ~Owns(t, "m")
        BY <3>2, <1>3 DEF Owns
      <4>3. /\ Begun("d2", proc[t].done)' = Begun("d2", proc[t].done)
            /\ ~Owns(t, "m")'
            /\ Owns(t, "d2")' <=> Owns(t, "d2")
        BY <4>1, <4>2, <1>2 DEF Begun, PartsOf, MusicParts, Owns
      <4>4. Stage(t)
        BY DEF IInv, InOrder
      <4>5. QED
        BY <4>1, <4>2, <4>3, <4>4, <1>7 DEF Stage
    <3>3. QED
      BY <3>1, <3>2
  <2>3. QED
    BY <2>1, <2>2 DEF InOrder
<1>13. OneOwner'
  <2> SUFFICES ASSUME NEW t \in Processes, NEW g \in Kinds, Owns(t, g)'
               PROVE  /\ g \notin found
                      /\ \A u \in Processes : Owns(u, g)' => u = t
                      /\ \A e \in ended' : e.how = "created" => e.kind # g
    BY <1>2 DEF OneOwner
  <2>1. Owns(t, g)
    BY <1>11
  <2>2. /\ g \notin found
        /\ \A u \in Processes : Owns(u, g)' => u = t
        /\ \A e \in ended : e.how = "created" => e.kind # g
    BY <2>1, <1>11 DEF IInv, OneOwner
  <2>3. last => g # "m"
    <3>1. last => ~Owns(s, "m")'
      BY <1>9 DEF Owns
    <3>2. g = "m" => t = s
      BY <2>1, <1>3
    <3>3. QED
      BY <3>1, <3>2
  <2>4. QED
    BY <2>2, <2>3, <1>10
<1>14. Created'
  <2> SUFFICES ASSUME NEW e \in ended', e.how = "created"
               PROVE  e.kind \in Kinds /\ Made(e.kind)' = Whole(e.kind)'
    BY DEF Created
  <2>1. CASE e \in ended
    <3>1. e.kind \in Kinds /\ Made(e.kind) = Whole(e.kind)
      BY <2>1 DEF IInv, Created
    <3>2. QED
      BY <3>1, <1>6, <1>7 DEF Kinds
  <2>2. CASE e \notin ended
    BY <2>2, <1>4, <1>6, <1>7, <1>10 DEF Kinds
  <2>3. QED
    BY <2>1, <2>2
<1>15. Followed'
  BY <1>8 DEF Followed
<1>16. NothingLost'
  BY <1>2, <1>3, <1>6, <1>7 DEF IInv, NothingLost
<1>17. LoadedHasTables'
  BY <1>10 DEF IInv, LoadedHasTables
<1>18. CreatedIsWhole'
  <2> SUFFICES ASSUME NEW e \in ended', e.how = "created"
               PROVE  /\ {There} \cup Whole(e.kind)' \subseteq e.file[e.kind]
                      /\ e.kind = "m" => Whole("p")' \subseteq e.file["p"] /\ ~e.older
    BY DEF CreatedIsWhole
  <2>1. CASE e \in ended
    BY <2>1, <1>6 DEF IInv, CreatedIsWhole
  <2>2. CASE e \notin ended
    <3>1. last /\ e.kind = "m" /\ e.file = file' /\ ~e.older
      BY <2>2, <1>10
    <3>2. {There} \cup Whole("m") \subseteq file'["m"]
      BY <1>4, <1>7 DEF Made
    <3>3. QED
      BY <3>1, <3>2, <1>6, <1>8
  <2>3. QED
    BY <2>1, <2>2
<1>19. OneCreates'
  <2> SUFFICES ASSUME NEW e \in ended', e.how = "created"
               PROVE  /\ e.kind \notin found
                      /\ \A x \in ended' : x.how = "created" /\ x.kind = e.kind => x = e
    BY <1>2 DEF OneCreates
  <2>1. CASE e \in ended
    BY <2>1, <1>3, <1>10 DEF IInv, OneCreates
  <2>2. CASE e \notin ended
    BY <2>2, <1>3, <1>10
  <2>3. QED
    BY <2>1, <2>2
<1>20. QED
  BY <1>12, <1>13, <1>14, <1>15, <1>16, <1>17, <1>18, <1>19

-----------------------------------------------------------------------------
(* The actions. *)

(* It is making parts of a file.                                           *)
Filling(s) == proc[s].at \in {"fill m", "fill p", "fill d2"}

(* It is making parts of f. *)
Fills(s, f) == proc[s].at = CASE f = "m" -> "fill m" [] f = "p" -> "fill p" [] OTHER -> "fill d2"

(* Membership has a truth value.                                           *)
LEMMA TrueOrFalse ==
  ASSUME NEW S, NEW x
  PROVE  (x \in S) = TRUE \/ (x \in S) = FALSE
<1>1. CASE x \in S
  BY <1>1, SMT
<1>2. CASE ~(x \in S)
  <2>1. (x \in S) = FALSE
    BY <1>2, SMT
  <2>2. QED
    BY <2>1
<1>3. QED
  BY <1>1, <1>2

(* So has inequality.                                                      *)
LEMMA Differs ==
  ASSUME NEW S
  PROVE  (S # {}) = TRUE \/ (S # {}) = FALSE
<1>1. CASE S = {}
  BY <1>1, SMT
<1>2. CASE S # {}
  BY <1>2, SMT
<1>3. QED
  BY <1>1, <1>2

(* What is noted of a file that was looked for.                            *)
LEMMA Looked ==
  ASSUME NEW r, NEW S, NEW x
  PROVE  \E has \in BOOLEAN :
           [r EXCEPT !.at = "look for d2", !.hasM = x \in S]
             = [r EXCEPT !.at = "look for d2", !.hasM = has]
<1>1. CASE x \in S
  <2>1. [r EXCEPT !.at = "look for d2", !.hasM = x \in S]
          = [r EXCEPT !.at = "look for d2", !.hasM = TRUE]
    BY <1>1
  <2>2. QED
    BY <2>1
<1>2. CASE ~(x \in S)
  <2>1. (x \in S) = FALSE
    BY <1>2, SMT
  <2>2. [r EXCEPT !.at = "look for d2", !.hasM = x \in S]
          = [r EXCEPT !.at = "look for d2", !.hasM = FALSE]
    BY <2>1
  <2>3. QED
    BY <2>2
<1>3. QED
  BY <1>1, <1>2

(* Zero is not more than zero.                                             *)
LEMMA NothingDone == ~(0 > 0)
  OBVIOUS

(* A process at rest is a process.                                         *)
LEMMA IdleProcess == Idle \in Process /\ Idle.at = "idle" /\ Idle.done = 0
<1>1. Idle.call = NoCall /\ Idle.at = "idle" /\ Idle.done = 0
  BY DEF Idle, NoCall
<1>2. /\ Idle.nth \in Nat /\ Idle.at \in Steps /\ Idle.hasM \in BOOLEAN /\ Idle.done \in 0 .. 3
      /\ Idle = [call |-> NoCall, nth |-> 0, at |-> "idle", hasM |-> FALSE, done |-> 0]
  BY DEF Idle, NoCall, Steps
<1>3. QED
  BY <1>1, <1>2 DEF Process

(* Only those that make parts of a file own one.                           *)
LEMMA NotFillingOwnsNothing ==
  ASSUME NEW s \in Processes, ~Filling(s)
  PROVE  \A f \in Kinds : ~Owns(s, f)
  BY DEF Filling, Owns

(* On to another step, with done at 0 if it is one of filling.             *)
LEMMA GotoSteps ==
  ASSUME IInv, NEW s \in Processes, NEW at \in Steps \ {"idle", "fill p"},
         ~Here(s, "idle"), ~Filling(s), Goto(s, at),
         UNCHANGED <<schema, found, older, calls, stopped>>, dir' \in BOOLEAN,
         NEW F \in SUBSET Files, file' = Opened(F),
         at \in {"mkdir", "refuse", "attach", "fill m", "fill d2"} =>
           proc[s].call.name \in {"create", "create_or_load"},
         at = "fill m" => "m" \in F /\ proc[s].call.gen = 1,
         at = "fill d2" => "d2" \in F
  PROVE  Quiet(s) /\ Typed' /\ InCall'
<1>1. /\ proc \in [Processes -> Process] /\ InCall
      /\ proc' = [proc EXCEPT ![s] = [proc[s] EXCEPT !.at = at]] /\ ended' = ended
  BY DEF IInv, Typed, Goto
<1>2. proc[s].done = 0
  BY <1>1 DEF InCall, Filling
<1>3. /\ proc'[s] = [proc[s] EXCEPT !.at = at]
      /\ \A t \in Processes \ {s} : proc'[t] = proc[t]
      /\ proc'[s].at = at /\ proc'[s].done = 0 /\ proc'[s].call = proc[s].call
      /\ proc'[s].nth = proc[s].nth
      /\ proc' \in [Processes -> Process]
  BY <1>1, <1>2 DEF Process
<1>4. /\ file' \in [Files -> SUBSET Parts]
      /\ \A f \in F : There \in file'[f]
  BY DEF IInv, Typed, Opened, There, Parts
<1>5. Typed'
  BY <1>3, <1>4 DEF IInv, Typed
<1>6. \A f \in Kinds : ~Owns(s, f) /\ ~Owns(s, f)'
  <2>1. \A f \in Kinds : ~Owns(s, f)'
    BY <1>3, NothingDone DEF Owns
  <2>2. QED
    BY <2>1, NotFillingOwnsNothing
<1>7. Quiet(s)
  BY <1>1, <1>3, <1>4, <1>6 DEF Quiet
<1>8. InCall'
  <2> SUFFICES ASSUME NEW t \in Processes
               PROVE
    (/\ Here(t, "idle") => proc[t] = Idle
     /\ ~Here(t, "idle") => proc[t].call \in Calls /\ proc[t].nth \in 1 .. calls
     /\ Creating(t) \/ proc[t].at \in {"mkdir", "refuse"} =>
          proc[t].call.name \in {"create", "create_or_load"}
     /\ proc[t].at \in {"fill m", "fill p"} => proc[t].call.gen = 1
     /\ proc[t].at \notin {"fill m", "fill p", "fill d2"} => proc[t].done = 0
     /\ proc[t].at = "fill p" => proc[t].done < 2)'
    BY DEF InCall
  <2>1. CASE t = s
    BY <2>1, <1>1, <1>3 DEF InCall, Here, Creating
  <2>2. CASE t # s
    BY <2>2, <1>1, <1>3 DEF InCall, Here, Creating
  <2>3. QED
    BY <2>1, <2>2
<1>9. QED
  BY <1>5, <1>7, <1>8

(* The end of a call that makes no part of a file in this step.            *)
LEMMA EndShape ==
  ASSUME IInv, NEW s \in Processes, NEW how, End(s, how),
         UNCHANGED <<schema, found, calls>>, {dir', older', stopped'} \subseteq BOOLEAN,
         file' \in [Files -> SUBSET Parts]
  PROVE  /\ proc' = [proc EXCEPT ![s] = Idle] /\ proc'[s].at = "idle"
         /\ ended \subseteq ended'
         /\ \A e \in ended' \ ended :
              /\ e.how = how /\ e.file = file' /\ e.older = older'
              /\ e.kind = IF proc[s].at \in {"fill d2", "version d2"} THEN "d2" ELSE "m"
              /\ e.calm => ~stopped /\ \A t \in Processes \ {s} : ~Creating(t)
         /\ \A e, x \in ended' \ ended : x = e
         /\ Typed' /\ InCall'
<1> DEFINE r == [call |-> proc[s].call, nth |-> proc[s].nth, how |-> how,
                 kind |-> IF proc[s].at \in {"fill d2", "version d2"} THEN "d2" ELSE "m",
                 file |-> file', older |-> older',
                 calm |-> ~stopped /\ \A t \in Processes \ {s} : ~Creating(t)]
<1>1. proc' = [proc EXCEPT ![s] = Idle] /\ ended' = ended \cup {r}
  BY DEF End
<1>2. /\ r.how = how /\ r.file = file' /\ r.older = older'
      /\ r.kind = IF proc[s].at \in {"fill d2", "version d2"} THEN "d2" ELSE "m"
      /\ r.calm = (~stopped /\ \A t \in Processes \ {s} : ~Creating(t))
  OBVIOUS
<1> HIDE DEF r
<1>3. /\ proc \in [Processes -> Process] /\ InCall
      /\ Idle \in Process /\ Idle.at = "idle" /\ Idle.done = 0
  BY IdleProcess DEF IInv, Typed
<1>4. /\ proc'[s] = Idle /\ proc' \in [Processes -> Process]
      /\ \A t \in Processes \ {s} : proc'[t] = proc[t]
  BY <1>1, <1>3
<1>5. Typed'
  BY <1>4 DEF IInv, Typed
<1>6. InCall'
  BY <1>3, <1>4 DEF InCall, Here, Creating
<1>7. QED
  BY <1>1, <1>2, <1>3, <1>4, <1>5, <1>6

(* The end of such a call is quiet.                                        *)
LEMMA EndSteps ==
  ASSUME IInv, NEW s \in Processes, NEW how, End(s, how), ~Filling(s), how # "created",
         UNCHANGED <<schema, found, older, calls, stopped>>, dir' \in BOOLEAN,
         NEW F \in SUBSET Files, file' = Opened(F),
         how = "loaded" =>
           LET f == IF proc[s].at = "version d2" THEN "d2" ELSE "m"
           IN  /\ "tables" \in file'[f]
               /\ f = "m" /\ ~stopped /\ (\A t \in Processes \ {s} : ~Creating(t)) =>
                    "tables" \in file'["p"]
  PROVE  Quiet(s) /\ Typed' /\ InCall'
<1>1. file' \in [Files -> SUBSET Parts] /\ {dir', older', stopped'} \subseteq BOOLEAN
  BY DEF IInv, Typed, Opened, There, Parts
<1>2. /\ proc' = [proc EXCEPT ![s] = Idle] /\ proc'[s].at = "idle"
      /\ ended \subseteq ended'
      /\ \A e \in ended' \ ended :
           /\ e.how = how /\ e.file = file'
           /\ e.kind = IF proc[s].at \in {"fill d2", "version d2"} THEN "d2" ELSE "m"
           /\ e.calm => ~stopped /\ \A t \in Processes \ {s} : ~Creating(t)
      /\ Typed' /\ InCall'
  BY <1>1, EndShape
<1>3. \A e \in ended' \ ended : e.how # "created" /\ LoadedOK(e)
  BY <1>2 DEF LoadedOK, Filling
<1>4. \A t \in Processes \ {s} : proc'[t] = proc[t]
  BY <1>2 DEF IInv, Typed
<1>5. \A f \in Kinds : ~Owns(s, f) /\ ~Owns(s, f)'
  BY <1>2, NotFillingOwnsNothing DEF Owns
<1>6. QED
  BY <1>2, <1>3, <1>4, <1>5 DEF Quiet

(* No file is opened.                                                      *)
LEMMA NothingOpened ==
  ASSUME IInv, UNCHANGED <<dir, file>>
  PROVE  dir' \in BOOLEAN /\ {} \in SUBSET Files /\ file' = Opened({})
  BY DEF IInv, Typed, Opened

(* A call that ends as it finds no database, or one that is not whole.     *)
LEMMA FailSteps ==
  ASSUME IInv, NEW s \in Processes, NEW how, End(s, how), ~Filling(s),
         how # "created", how # "loaded",
         UNCHANGED <<schema, found, dir, file, older, calls, stopped>>
  PROVE  Quiet(s) /\ Typed' /\ InCall'
  BY NothingOpened, EndSteps

(* A database that is not there: create_or_load_database goes on to create *)
(* it, the others end.                                                     *)
LEMMA NotFoundSteps ==
  ASSUME IInv, NEW s \in Processes, ~Here(s, "idle"), ~Filling(s), NotFound(s),
         UNCHANGED <<schema, found, dir, file, older, calls, stopped>>
  PROVE  Quiet(s) /\ Typed' /\ InCall'
<1>1. dir' \in BOOLEAN /\ {} \in SUBSET Files /\ file' = Opened({})
  BY DEF IInv, Typed, Opened
<1>2. CASE proc[s].call.name = "create_or_load"
  <2>1. Goto(s, "mkdir") /\ "mkdir" \in Steps \ {"idle", "fill p"}
    BY <1>2 DEF NotFound, Steps
  <2>2. QED
    BY <1>1, <1>2, <2>1, GotoSteps
<1>3. CASE proc[s].call.name = "exists"
  <2>1. End(s, "false")
    BY <1>3 DEF NotFound
  <2>2. QED
    BY <2>1, FailSteps
<1>4. CASE proc[s].call.name \notin {"create_or_load", "exists"}
  <2>1. End(s, "not_found")
    BY <1>4 DEF NotFound
  <2>2. QED
    BY <2>1, FailSteps
<1>5. QED
  BY <1>2, <1>3, <1>4

(* Every step of load_database is quiet.                                   *)
LEMMA LoadSteps ==
  ASSUME IInv, NEW s \in Processes, Load(s), UNCHANGED <<schema, found, calls, stopped>>
  PROVE  Quiet(s) /\ Typed' /\ InCall'
<1>1. CASE LookForDir(s)
  <2>1. ~Here(s, "idle") /\ ~Filling(s) /\ UNCHANGED <<dir, file, older>>
    BY <1>1 DEF LookForDir, Here, Filling
  <2>2. CASE dir
    <3>1. Goto(s, "look for m") /\ "look for m" \in Steps \ {"idle", "fill p"}
      BY <1>1, <2>2 DEF LookForDir, Steps
    <3>2. QED
      BY <2>1, <3>1, NothingOpened, GotoSteps
  <2>3. CASE ~dir
    <3>1. NotFound(s)
      BY <1>1, <2>3 DEF LookForDir
    <3>2. QED
      BY <2>1, <3>1, NotFoundSteps
  <2>4. QED
    BY <2>2, <2>3
<1>2. CASE LookForM(s)
  <2>1. /\ proc \in [Processes -> Process] /\ InCall /\ ended' = ended
        /\ proc[s].at = "look for m" /\ UNCHANGED <<dir, file, older>>
        /\ proc' = [proc EXCEPT ![s] = [proc[s] EXCEPT !.at = "look for d2",
                                                        !.hasM = There \in file["m"]]]
    BY <1>2 DEF LookForM, Here, IInv, Typed
  <2>2. /\ proc'[s].at = "look for d2" /\ proc'[s].call = proc[s].call
        /\ proc'[s].nth = proc[s].nth /\ proc'[s].done = proc[s].done
        /\ \A t \in Processes \ {s} : proc'[t] = proc[t]
        /\ proc' \in [Processes -> Process]
    <3> DEFINE q == [proc[s] EXCEPT !.at = "look for d2", !.hasM = There \in file["m"]]
    <3>1. proc[s] \in Process
      BY <2>1
    <3>2. /\ q.at = "look for d2" /\ q.call = proc[s].call /\ q.nth = proc[s].nth
          /\ q.done = proc[s].done /\ q \in Process
      <4>1. ASSUME NEW has \in BOOLEAN
            PROVE  LET x == [proc[s] EXCEPT !.at = "look for d2", !.hasM = has]
                   IN  /\ x.at = "look for d2" /\ x.call = proc[s].call
                       /\ x.nth = proc[s].nth /\ x.done = proc[s].done /\ x \in Process
        BY <3>1 DEF Process, Steps
      <4>2. \E has \in BOOLEAN : q = [proc[s] EXCEPT !.at = "look for d2", !.hasM = has]
        BY Looked
      <4> HIDE DEF q
      <4>3. QED
        BY <4>1, <4>2
    <3>3. proc' = [proc EXCEPT ![s] = q]
      BY <2>1
    <3> HIDE DEF q
    <3>4. /\ proc'[s] = q /\ proc' \in [Processes -> Process]
          /\ \A t \in Processes \ {s} : proc'[t] = proc[t]
      BY <2>1, <3>2, <3>3
    <3>5. QED
      BY <3>2, <3>3, <3>4
  <2>3. Typed'
    BY <2>1, <2>2 DEF IInv, Typed
  <2>4. InCall'
    BY <2>1, <2>2 DEF InCall, Here, Creating
  <2>5. \A f \in Kinds : ~Owns(s, f) /\ ~Owns(s, f)'
    BY <2>1, <2>2 DEF Owns
  <2>6. Quiet(s)
    BY <2>1, <2>2, <2>5, NothingOpened DEF Quiet
  <2>7. QED
    BY <2>3, <2>4, <2>6
<1>3. CASE LookForD2(s)
  <2>1. ~Here(s, "idle") /\ ~Filling(s) /\ UNCHANGED <<dir, file, older>>
    BY <1>3 DEF LookForD2, Here, Filling
  <2>2. CASE NotFound(s)
    BY <2>1, <2>2, NotFoundSteps
  <2>3. CASE Goto(s, IF proc[s].hasM THEN "open m" ELSE "open d2")
    <3>1. PICK at \in {"open m", "open d2"} : Goto(s, at)
      BY <2>3
    <3>2. at \in Steps \ {"idle", "fill p"}
      BY <3>1 DEF Steps
    <3>3. QED
      BY <2>1, <3>1, <3>2, NothingOpened, GotoSteps
  <2>4. QED
    BY <1>3, <2>2, <2>3 DEF LookForD2
<1>4. CASE Open(s)
  <2>1. ~Here(s, "idle") /\ ~Filling(s) /\ UNCHANGED <<dir, older>> /\ dir' \in BOOLEAN
    BY <1>4 DEF Open, Here, Filling, IInv, Typed
  <2>2. PICK F \in SUBSET Files, at \in {"detect m", "detect d2"} :
          file' = Opened(F) /\ Goto(s, at)
    BY <1>4 DEF Open, Files
  <2>3. at \in Steps \ {"idle", "fill p"}
    BY <2>2 DEF Steps
  <2>4. QED
    BY <2>1, <2>2, <2>3, GotoSteps
<1>5. ASSUME NEW f, NEW detect \in {"detect m", "detect d2"},
             NEW version \in {"version m", "version d2"}, DetectSchema(s, f, detect, version)
      PROVE  Quiet(s) /\ Typed' /\ InCall'
  <2>1. ~Here(s, "idle") /\ ~Filling(s) /\ UNCHANGED <<dir, file, older>>
    BY <1>5 DEF DetectSchema, Here, Filling
  <2>2. CASE Goto(s, version)
    <3>1. version \in Steps \ {"idle", "fill p"}
      BY DEF Steps
    <3>2. QED
      BY <2>1, <2>2, <3>1, NothingOpened, GotoSteps
  <2>3. CASE End(s, "inconsistent")
    BY <2>1, <2>3, FailSteps
  <2>4. QED
    BY <1>5, <2>2, <2>3 DEF DetectSchema
<1>6. ASSUME NEW f \in Kinds, NEW version,
             version = IF f = "m" THEN "version m" ELSE "version d2", ReadVersion(s, f, version)
      PROVE  Quiet(s) /\ Typed' /\ InCall'
  <2>1. /\ proc[s].at = version /\ UNCHANGED <<dir, file, older>>
        /\ ~Here(s, "idle") /\ ~Filling(s)
    BY <1>6 DEF ReadVersion, Here, Filling
  <2>2. PICK how \in {"no_rows", "true", "loaded"} :
          End(s, how) /\ (how = "loaded" => "version" \in file[f])
    BY <1>6 DEF ReadVersion
  <2>3. ASSUME how = "loaded"
        PROVE  "tables" \in file[f] /\ Made(f) # {}
    <3>1. PICK n \in 0 .. 4 : Made(f) = Begun(f, n)
      BY DEF IInv, InOrder
    <3>2. "version" \in Begun(f, n)
      BY <2>2, <2>3, <3>1 DEF Made, There
    <3>3. "tables" \in Begun(f, n)
      BY <3>2, Wholes DEF IInv, Typed
    <3>4. QED
      BY <3>1, <3>3 DEF Made
  <2>4. ASSUME how = "loaded", f = "m", ~stopped, \A t \in Processes \ {s} : ~Creating(t)
        PROVE  "tables" \in file["p"]
    <3>1. \A t \in Processes : Owns(t, "m") => Creating(t)
      BY DEF Owns, Creating
    <3>2. ~Owns(s, "m")
      BY <2>1, <1>6 DEF Owns
    <3>3. QED
      BY <2>3, <2>4, <3>1, <3>2 DEF IInv, Followed
  <2>5. how = "loaded" =>
          LET g == IF proc[s].at = "version d2" THEN "d2" ELSE "m"
          IN  /\ "tables" \in file'[g]
              /\ g = "m" /\ ~stopped /\ (\A t \in Processes \ {s} : ~Creating(t)) =>
                   "tables" \in file'["p"]
    BY <2>1, <2>3, <2>4, <1>6 DEF Kinds
  <2>6. how # "created"
    BY <2>2
  <2>7. QED
    BY <2>1, <2>2, <2>5, <2>6, NothingOpened, EndSteps
<1>7. QED
  BY <1>1, <1>2, <1>3, <1>4, <1>5, <1>6 DEF Load, Kinds

(* A part that is not made since its table is there: no file has one by    *)
(* this process.                                                           *)
LEMMA ClashLeaves ==
  ASSUME IInv, NEW s \in Processes, NEW f \in Files, Fills(s, f), Clashes(s, f),
         End(s, "table_exists"),
         UNCHANGED <<schema, found, dir, file, older, calls, stopped>>
  PROVE  Leave(s) /\ Typed' /\ InCall'
<1>1. /\ file' \in [Files -> SUBSET Parts] /\ {dir', older', stopped'} \subseteq BOOLEAN
      /\ schema \in [first : BOOLEAN, drops : BOOLEAN] /\ proc[s].done \in 0 .. 3
  BY DEF IInv, Typed, Process
<1>2. /\ proc' = [proc EXCEPT ![s] = Idle]
      /\ ended \subseteq ended'
      /\ \A e \in ended' \ ended : e.how # "created" /\ LoadedOK(e)
      /\ Typed' /\ InCall'
  <2>1. UNCHANGED <<schema, found, calls>>
    OBVIOUS
  <2>2. /\ proc' = [proc EXCEPT ![s] = Idle]
        /\ ended \subseteq ended'
        /\ \A e \in ended' \ ended : e.how = "table_exists"
        /\ Typed' /\ InCall'
    BY <1>1, <2>1, EndShape
  <2>3. QED
    BY <2>2 DEF LoadedOK
<1>3. CASE f \in Kinds
  <2>1. ~Owns(s, f)
    <3>1. SUFFICES ASSUME Owns(s, f) PROVE FALSE
      OBVIOUS
    <3>2. Made(f) = Begun(f, proc[s].done)
      BY <1>3, <3>1 DEF IInv, InOrder, Stage, Fills, Kinds
    <3>3. PartsOf(f)[proc[s].done + 1] \notin Made(f)
      BY <1>1, <1>3, <3>2, Wholes
    <3>4. QED
      BY <3>3 DEF Clashes, Made, There
  <2>2. Owns(s, "m") => FALSE
    BY <1>3, <2>1 DEF Owns, Fills, Kinds
  <2>3. QED
    BY <1>2, <2>2 DEF Leave
<1>4. CASE f = "p"
  <2>1. proc[s].done < 2
    BY <1>4 DEF IInv, InCall, Fills
  <2>2. proc[s].done = 0 \/ proc[s].done = 1
    BY <1>1, <2>1
  <2>3. PartsOf("p")[1] = "tables" /\ PartsOf("p")[2] = "version"
    BY <1>1, Wholes
  <2>4. CASE proc[s].done = 0
    BY <1>2, <1>4, <2>3, <2>4 DEF Clashes, Leave
  <2>5. CASE proc[s].done = 1
    BY <1>4, <2>3, <2>5 DEF Clashes
  <2>6. QED
    BY <2>2, <2>4, <2>5
<1>5. QED
  BY <1>3, <1>4 DEF Files, Kinds

(* Arithmetic of the parts.                                                *)
LEMMA Numbers ==
  /\ 0 \in 0 .. 3 /\ 1 \in 0 .. 3 /\ 0 < 2 /\ 1 < 2
  /\ \A n \in 0 .. 3 : (n # 3 => n < 3 /\ n + 1 \in 0 .. 3) /\ (n + 1 = 4 <=> n = 3)
  /\ \A n \in 0 .. 3 : n < 2 => n = 0 \/ n = 1
  /\ 0 + 1 = 1 /\ 1 + 1 = 2 /\ 0 # 1 /\ 1 # 2 /\ ~(3 < 3)
  OBVIOUS

(* On to the next part.                                                    *)
LEMMA OnSteps ==
  ASSUME IInv, NEW s \in Processes, Filling(s),
         NEW at \in {"fill m", "fill p", "fill d2"}, NEW k \in 0 .. 3,
         proc' = [proc EXCEPT ![s].done = k, ![s].at = at],
         at \in {"fill m", "fill p"} => proc[s].call.gen = 1, at = "fill p" => k < 2,
         UNCHANGED <<schema, found, calls>>, {dir', older', stopped'} \subseteq BOOLEAN,
         file' \in [Files -> SUBSET Parts]
  PROVE  /\ proc'[s].at = at /\ proc'[s].done = k
         /\ \A t \in Processes \ {s} : proc'[t] = proc[t]
         /\ Typed' /\ InCall'
<1> DEFINE q == [proc[s] EXCEPT !.done = k, !.at = at]
<1>1. proc \in [Processes -> Process] /\ InCall
  BY DEF IInv, Typed
<1>2. proc' = [proc EXCEPT ![s] = q]
  BY <1>1
<1>3. /\ q \in Process /\ q.at = at /\ q.done = k
      /\ q.call = proc[s].call /\ q.nth = proc[s].nth
  BY <1>1 DEF Process, Steps
<1> HIDE DEF q
<1>4. /\ proc'[s] = q /\ proc' \in [Processes -> Process]
      /\ \A t \in Processes \ {s} : proc'[t] = proc[t]
  BY <1>1, <1>2, <1>3
<1>5. Typed'
  BY <1>4 DEF IInv, Typed
<1>6. InCall'
  <2> SUFFICES ASSUME NEW t \in Processes
               PROVE
    (/\ Here(t, "idle") => proc[t] = Idle
     /\ ~Here(t, "idle") => proc[t].call \in Calls /\ proc[t].nth \in 1 .. calls
     /\ Creating(t) \/ proc[t].at \in {"mkdir", "refuse"} =>
          proc[t].call.name \in {"create", "create_or_load"}
     /\ proc[t].at \in {"fill m", "fill p"} => proc[t].call.gen = 1
     /\ proc[t].at \notin {"fill m", "fill p", "fill d2"} => proc[t].done = 0
     /\ proc[t].at = "fill p" => proc[t].done < 2)'
    BY DEF InCall
  <2>1. CASE t = s
    <3>1. /\ proc[s].call \in Calls /\ proc[s].nth \in 1 .. calls
          /\ proc[s].call.name \in {"create", "create_or_load"}
      BY <1>1 DEF InCall, Here, Creating, Filling
    <3>2. proc'[s].at \in {"fill m", "fill p", "fill d2"}
      BY <1>3, <1>4
    <3>3. /\ proc'[s].at \in {"fill m", "fill p"} => proc[s].call.gen = 1
          /\ proc'[s].at = "fill p" => k < 2
      BY <1>3, <1>4
    <3>4. QED
      BY <2>1, <1>3, <1>4, <3>1, <3>2, <3>3 DEF Here
  <2>2. CASE t # s
    BY <2>2, <1>1, <1>4 DEF InCall, Here, Creating
  <2>3. QED
    BY <2>1, <2>2
<1>7. QED
  BY <1>3, <1>4, <1>5, <1>6

(* A part of m.db or Database2/m.db.                                       *)
LEMMA FillSteps ==
  ASSUME IInv, NEW s \in Processes, NEW f \in Kinds, Fill(s, f, FillingAt(f)),
         ~Clashes(s, f), UNCHANGED <<schema, found, calls, stopped>>
  PROVE  AddsTo(s, f) /\ Typed' /\ InCall'
<1>0. PICK n \in 0 .. 3 : n = proc[s].done
  BY DEF IInv, Typed, Process
<1>1. /\ schema \in [first : BOOLEAN, drops : BOOLEAN] /\ file \in [Files -> SUBSET Parts]
      /\ {dir, older, stopped} \subseteq BOOLEAN
  BY DEF IInv, Typed
<1>2. /\ Len(PartsOf(f)) = 4 /\ PartsOf(f)[n + 1] \in Whole(f)
      /\ Whole(f) = {"information", "tables", "version", "rows"}
  BY <1>1, Wholes
<1>3. (n + 1 = 4) <=> (n = 3)
  BY Numbers
<1>4. /\ proc[s].at = FillingAt(f) /\ Filling(s)
      /\ file' = [file EXCEPT ![f] = @ \cup {PartsOf(f)[n + 1]}]
      /\ older' = older /\ UNCHANGED <<schema, found, dir, calls, stopped>>
  <2>1. proc[s].at = FillingAt(f) /\ FillingAt(f) \in {"fill m", "fill d2"}
    BY DEF Fill, Here, FillingAt
  <2>2. file' = [file EXCEPT ![f] = @ \cup {PartsOf(f)[n + 1]}]
    BY <1>0 DEF Fill
  <2>3. UNCHANGED <<schema, found, dir, calls, stopped>>
    BY DEF Fill
  <2>4. older' = older
    BY <1>1 DEF Fill, Kinds
  <2>5. QED
    BY <2>1, <2>2, <2>3, <2>4 DEF Filling
<1>5. file' \in [Files -> SUBSET Parts] /\ {dir', older', stopped'} \subseteq BOOLEAN
  BY <1>1, <1>2, <1>4 DEF Files, Parts, Kinds
<1>6. proc[s].at = "fill m" => proc[s].call.gen = 1
  BY DEF IInv, InCall
<1>7. CASE n # 3
  <2>1. /\ proc' = [proc EXCEPT ![s].done = n + 1, ![s].at = FillingAt(f)]
        /\ ended' = ended
    BY <1>0, <1>2, <1>3, <1>7 DEF Fill
  <2>2. n + 1 \in 0 .. 3 /\ n < 3
    BY <1>7, Numbers
  <2>3. FillingAt(f) \in {"fill m", "fill d2"}
    BY DEF FillingAt
  <2>4. /\ proc'[s].at = FillingAt(f) /\ proc'[s].done = n + 1
        /\ \A t \in Processes \ {s} : proc'[t] = proc[t]
        /\ Typed' /\ InCall'
    BY <1>4, <1>5, <1>6, <2>1, <2>2, <2>3, OnSteps
  <2>5. proc'[s].at = proc[s].at
    BY <1>4, <2>4
  <2>6. AddsTo(s, f)
    BY <1>0, <1>4, <1>7, <2>1, <2>4, <2>5 DEF AddsTo
  <2>7. QED
    BY <2>4, <2>6
<1>8. CASE n = 3 /\ f = "m"
  <2>1. proc' = [proc EXCEPT ![s].done = 0, ![s].at = "fill p"] /\ ended' = ended
    BY <1>0, <1>2, <1>3, <1>8 DEF Fill, NextAfter
  <2>2. 0 \in 0 .. 3 /\ 0 < 2
    BY Numbers
  <2>3. /\ proc'[s].at = "fill p" /\ proc'[s].done = 0
        /\ \A t \in Processes \ {s} : proc'[t] = proc[t]
        /\ Typed' /\ InCall'
    BY <1>4, <1>5, <1>6, <1>8, <2>1, <2>2, OnSteps DEF FillingAt
  <2>4. ~(proc[s].done < 3)
    BY <1>0, <1>8, Numbers
  <2>5. AddsTo(s, f)
    BY <1>0, <1>4, <1>8, <2>1, <2>3, <2>4 DEF AddsTo
  <2>6. QED
    BY <2>3, <2>5
<1>9. CASE n = 3 /\ f = "d2"
  <2>1. End(s, "created")
    BY <1>0, <1>2, <1>3, <1>9 DEF Fill, NextAfter
  <2>2. /\ proc' = [proc EXCEPT ![s] = Idle] /\ proc'[s].at = "idle"
        /\ ended \subseteq ended'
        /\ \A e \in ended' \ ended :
             /\ e.how = "created" /\ e.file = file'
             /\ e.kind = IF proc[s].at \in {"fill d2", "version d2"} THEN "d2" ELSE "m"
        /\ \A e, x \in ended' \ ended : x = e
        /\ Typed' /\ InCall'
    BY <1>4, <1>5, <2>1, EndShape
  <2>3. \A t \in Processes \ {s} : proc'[t] = proc[t]
    BY <2>2 DEF IInv, Typed
  <2>4. proc[s].at = "fill d2"
    BY <1>4, <1>9 DEF FillingAt
  <2>5. ~(proc[s].done < 3)
    BY <1>0, <1>9, Numbers
  <2>6. AddsTo(s, f)
    BY <1>0, <1>4, <1>9, <2>2, <2>3, <2>4, <2>5 DEF AddsTo
  <2>7. QED
    BY <2>2, <2>6
<1>10. QED
  BY <1>7, <1>8, <1>9 DEF Kinds

(* A part of p.db.                                                         *)
LEMMA FillPSteps ==
  ASSUME IInv, NEW s \in Processes, Fill(s, "p", "fill p"),
         ~Clashes(s, "p"), UNCHANGED <<schema, found, calls, stopped>>
  PROVE  (\E last \in BOOLEAN : AddsToP(s, last)) /\ Typed' /\ InCall'
<1>1. /\ schema \in [first : BOOLEAN, drops : BOOLEAN] /\ file \in [Files -> SUBSET Parts]
      /\ {dir, older, stopped} \subseteq BOOLEAN
      /\ proc[s].done \in 0 .. 3
  BY DEF IInv, Typed, Process
<1>2. proc[s].at = "fill p" /\ Filling(s)
  BY DEF Fill, Here, Filling
<1>3. proc[s].done < 2
  BY <1>2 DEF IInv, InCall
<1>4. proc[s].done = 0 \/ proc[s].done = 1
  BY <1>1, <1>3, Numbers
<1>5. Len(PartsOf("p")) = 2 /\ PartsOf("p")[1] = "tables" /\ PartsOf("p")[2] = "version"
  BY <1>1, Wholes
<1>6. proc[s].done + 1 = IF proc[s].done = 0 THEN 1 ELSE 2
  BY <1>4, Numbers
<1>7. /\ file' = [file EXCEPT !["p"] = @ \cup {PartsOf("p")[proc[s].done + 1]}]
      /\ older' = FALSE /\ UNCHANGED <<schema, found, dir, calls, stopped>>
  BY DEF Fill
<1>8. PartsOf("p")[proc[s].done + 1] \in Parts
  BY <1>4, <1>5, <1>6, Numbers DEF Parts
<1>9. file' \in [Files -> SUBSET Parts] /\ {dir', older', stopped'} \subseteq BOOLEAN
  BY <1>1, <1>7, <1>8 DEF Files
<1>10. CASE proc[s].done = 0
  <2>1. proc' = [proc EXCEPT ![s].done = 1, ![s].at = "fill p"] /\ ended' = ended
    BY <1>5, <1>6, <1>10, Numbers DEF Fill
  <2>2. 1 \in 0 .. 3 /\ 1 < 2
    BY Numbers
  <2>3. proc[s].call.gen = 1
    BY <1>2 DEF IInv, InCall
  <2>4. /\ proc'[s].at = "fill p"
        /\ \A t \in Processes \ {s} : proc'[t] = proc[t]
        /\ Typed' /\ InCall'
    BY <1>2, <1>7, <1>9, <2>1, <2>2, <2>3, OnSteps
  <2>5. AddsToP(s, FALSE)
    BY <1>5, <1>6, <1>7, <1>10, <2>1, <2>4 DEF AddsToP
  <2>6. QED
    BY <2>4, <2>5
<1>11. CASE proc[s].done = 1
  <2>1. End(s, "created")
    BY <1>5, <1>6, <1>11, Numbers DEF Fill, NextAfter
  <2>2. /\ proc' = [proc EXCEPT ![s] = Idle] /\ proc'[s].at = "idle"
        /\ ended \subseteq ended'
        /\ \A e \in ended' \ ended :
             /\ e.how = "created" /\ e.file = file' /\ e.older = older'
             /\ e.kind = IF proc[s].at \in {"fill d2", "version d2"} THEN "d2" ELSE "m"
        /\ \A e, x \in ended' \ ended : x = e
        /\ Typed' /\ InCall'
    BY <1>7, <1>9, <2>1, EndShape
  <2>3. \A t \in Processes \ {s} : proc'[t] = proc[t]
    BY <2>2 DEF IInv, Typed
  <2>4. file' = [file EXCEPT !["p"] = @ \cup {"version"}]
    BY <1>5, <1>6, <1>7, <1>11, Numbers
  <2>5. AddsToP(s, TRUE)
    BY <1>2, <1>7, <1>11, <2>2, <2>3, <2>4 DEF AddsToP
  <2>6. QED
    BY <2>2, <2>5
<1>12. QED
  BY <1>4, <1>10, <1>11

(* Before the first part.                                                  *)
LEMMA OpenSteps ==
  ASSUME IInv, NEW s \in Processes, MakeDirs(s) \/ Refuse(s) \/ Attach(s),
         UNCHANGED <<schema, found, calls, stopped>>
  PROVE  Quiet(s) /\ Typed' /\ InCall'
<1>1. /\ proc[s].at \in {"mkdir", "refuse", "attach"} /\ older' = older /\ dir' \in BOOLEAN
      /\ ~Here(s, "idle") /\ ~Filling(s)
  BY DEF MakeDirs, Refuse, Attach, Here, Filling, IInv, Typed
<1>2. proc[s].call.name \in {"create", "create_or_load"}
  BY <1>1 DEF IInv, InCall, Creating
<1>3. CASE MakeDirs(s)
  <2>1. PICK at \in {"attach", "refuse"} : Goto(s, at)
    BY <1>3 DEF MakeDirs
  <2>2. at \in Steps \ {"idle", "fill p"}
    BY DEF Steps
  <2>3. file' = Opened({}) /\ {} \in SUBSET Files
    BY <1>3 DEF MakeDirs, Opened, IInv, Typed
  <2>4. QED
    BY <1>1, <1>2, <2>1, <2>2, <2>3, GotoSteps
<1>4. CASE Refuse(s)
  <2>1. UNCHANGED <<dir, file, older>>
    BY <1>4 DEF Refuse
  <2>2. CASE End(s, "inconsistent")
    BY <1>1, <2>1, <2>2, FailSteps
  <2>3. CASE Goto(s, "attach")
    <3>1. "attach" \in Steps \ {"idle", "fill p"}
      BY DEF Steps
    <3>2. QED
      BY <1>1, <1>2, <2>1, <2>3, <3>1, NothingOpened, GotoSteps
  <2>4. QED
    BY <1>4, <2>2, <2>3 DEF Refuse
<1>5. CASE Attach(s)
  <2>1. CASE proc[s].call.gen = 1
    <3>1. file' = Opened({"m", "p"}) /\ Goto(s, "fill m")
      BY <1>5, <2>1 DEF Attach
    <3>2. {"m", "p"} \in SUBSET Files /\ "fill m" \in Steps \ {"idle", "fill p"}
      BY DEF Files, Steps
    <3>3. QED
      BY <1>1, <1>2, <2>1, <3>1, <3>2, GotoSteps
  <2>2. CASE proc[s].call.gen # 1
    <3>1. file' = Opened({"d2"}) /\ Goto(s, "fill d2")
      BY <1>5, <2>2 DEF Attach
    <3>2. {"d2"} \in SUBSET Files /\ "fill d2" \in Steps \ {"idle", "fill p"}
      BY DEF Files, Steps
    <3>3. QED
      BY <1>1, <1>2, <3>1, <3>2, GotoSteps
  <2>3. QED
    BY <2>1, <2>2
<1>6. QED
  BY <1>3, <1>4, <1>5

(* A process that stops leaves a file as it is.                            *)
LEMMA StopSteps ==
  ASSUME IInv, NEW s \in Processes, Stop(s)
  PROVE  Leave(s) /\ Typed' /\ InCall'
<1>1. /\ proc \in [Processes -> Process] /\ InCall
      /\ Idle \in Process /\ Idle.at = "idle" /\ Idle.done = 0
  BY IdleProcess DEF IInv, Typed
<1>2. /\ proc'[s] = Idle /\ proc' \in [Processes -> Process]
      /\ \A t \in Processes \ {s} : proc'[t] = proc[t]
  BY <1>1 DEF Stop
<1>3. /\ stopped' = TRUE /\ UNCHANGED <<schema, found, dir, file, older, ended, calls>>
      /\ proc' = [proc EXCEPT ![s] = Idle]
  BY DEF Stop
<1>4. Typed'
  BY <1>2, <1>3 DEF IInv, Typed
<1>5. InCall'
  BY <1>1, <1>2, <1>3 DEF InCall, Here, Creating
<1>6. Leave(s)
  BY <1>3 DEF Leave
<1>7. QED
  BY <1>4, <1>5, <1>6

(* Arithmetic of the calls.                                                *)
LEMMA NextCall ==
  ASSUME MaxCalls \in Nat, NEW c \in 0 .. MaxCalls, c < MaxCalls
  PROVE  /\ c + 1 \in 0 .. MaxCalls /\ c + 1 \in Nat /\ c + 1 \in 1 .. c + 1
         /\ \A n \in 1 .. c : n \in 1 .. c + 1
  OBVIOUS

(* The beginning of a call is quiet.                                       *)
LEMMA BeginSteps ==
  ASSUME IInv, NEW s \in Processes, NEW c \in Calls, Begin(s, c)
  PROVE  Quiet(s) /\ Typed' /\ InCall'
<1> DEFINE at == IF c.name = "create" THEN "mkdir" ELSE "detect"
           q == [Idle EXCEPT !.call = c, !.nth = calls + 1, !.at = at]
<1>1. /\ proc \in [Processes -> Process] /\ InCall /\ calls \in 0 .. MaxCalls
      /\ Idle \in Process /\ Idle.done = 0 /\ calls < MaxCalls /\ MaxCalls \in Nat
  BY IdleProcess, LifecycleBound DEF IInv, Typed, Begin
<1>2. /\ calls + 1 \in 0 .. MaxCalls /\ calls + 1 \in Nat /\ calls + 1 \in 1 .. calls + 1
      /\ \A n \in 1 .. calls : n \in 1 .. calls + 1
  BY <1>1, NextCall
<1>3. /\ c \in AllCalls /\ c.name \in {"create", "create_or_load", "load", "exists"}
  BY LifecycleCalls DEF AllCalls
<1>4. /\ proc[s].at = "idle" /\ calls' = calls + 1 /\ proc' = [proc EXCEPT ![s] = q]
      /\ UNCHANGED <<schema, found, dir, file, older, ended, stopped>>
  BY DEF Begin, Here
<1>5. /\ q \in Process /\ q.at \in {"mkdir", "detect"} /\ q.done = 0 /\ q.call = c
      /\ q.nth = calls + 1 /\ (q.at = "mkdir" => c.name = "create")
  BY <1>1, <1>2, <1>3 DEF Process, Steps
<1> HIDE DEF q
<1>6. /\ proc'[s] = q /\ proc' \in [Processes -> Process]
      /\ \A t \in Processes \ {s} : proc'[t] = proc[t]
  BY <1>1, <1>4, <1>5
<1>7. Typed'
  BY <1>2, <1>4, <1>6 DEF IInv, Typed
<1>8. InCall'
  <2> SUFFICES ASSUME NEW t \in Processes
               PROVE
    (/\ Here(t, "idle") => proc[t] = Idle
     /\ ~Here(t, "idle") => proc[t].call \in Calls /\ proc[t].nth \in 1 .. calls
     /\ Creating(t) \/ proc[t].at \in {"mkdir", "refuse"} =>
          proc[t].call.name \in {"create", "create_or_load"}
     /\ proc[t].at \in {"fill m", "fill p"} => proc[t].call.gen = 1
     /\ proc[t].at \notin {"fill m", "fill p", "fill d2"} => proc[t].done = 0
     /\ proc[t].at = "fill p" => proc[t].done < 2)'
    BY DEF InCall
  <2>1. CASE t = s
    <3>1. /\ proc'[s].at \in {"mkdir", "detect"} /\ proc'[s].done = 0
          /\ proc'[s].call = c /\ proc'[s].nth = calls + 1
          /\ proc'[s].at = "mkdir" => c.name = "create"
      BY <1>5, <1>6
    <3>2. ~Creating(s)' /\ ~Here(s, "idle")' /\ proc'[s].at # "refuse"
      BY <3>1 DEF Here, Creating
    <3>3. proc'[s].nth \in 1 .. calls'
      BY <1>2, <1>4, <3>1
    <3>4. QED
      BY <2>1, <3>1, <3>2, <3>3
  <2>2. CASE t # s
    <3>1. proc'[t] = proc[t]
      BY <2>2, <1>6
    <3>2. ~Here(t, "idle") => proc[t].nth \in 1 .. calls + 1
      BY <1>1, <1>2 DEF InCall
    <3>3. QED
      BY <3>1, <3>2, <1>1, <1>4 DEF InCall, Here, Creating
  <2>3. QED
    BY <2>1, <2>2
<1>9. Quiet(s)
  <2>1. \A f \in Kinds : ~Owns(s, f) /\ ~Owns(s, f)'
    BY <1>4, <1>5, <1>6 DEF Owns
  <2>2. file' = Opened({}) /\ {} \in SUBSET Files
    BY <1>4 DEF Opened, IInv, Typed
  <2>3. QED
    BY <2>1, <2>2, <1>4, <1>5, <1>6 DEF Quiet
<1>10. QED
  BY <1>7, <1>8, <1>9

-----------------------------------------------------------------------------
(* The invariant. *)

(* Every step of a call keeps the invariant.                               *)
LEMMA ProceedSteps ==
  ASSUME IInv, NEW s \in Processes, Proceed(s)
  PROVE  IInv'
<1>1. UNCHANGED <<schema, found, calls, stopped>>
  BY DEF Proceed
<1>2. CASE Load(s)
  <2>1. Quiet(s) /\ Typed' /\ InCall'
    BY <1>1, <1>2, LoadSteps
  <2>2. QED
    BY <2>1, QuietSteps DEF IInv
<1>3. CASE MakeDirs(s) \/ Refuse(s) \/ Attach(s)
  <2>1. Quiet(s) /\ Typed' /\ InCall'
    BY <1>1, <1>3, OpenSteps
  <2>2. QED
    BY <2>1, QuietSteps DEF IInv
<1>4. ASSUME NEW f \in Files, NEW at,
             at = CASE f = "m" -> "fill m" [] f = "p" -> "fill p" [] OTHER -> "fill d2",
             Fill(s, f, at)
      PROVE  IInv'
  <2>1. CASE Clashes(s, f)
    <3>1. Fills(s, f) /\ End(s, "table_exists")
      BY <1>4, <2>1 DEF Fill, Fills, Here
    <3>2. UNCHANGED <<schema, found, dir, file, older, calls, stopped>>
      BY <1>1, <1>4, <2>1 DEF Fill
    <3>3. Leave(s) /\ Typed' /\ InCall'
      BY <2>1, <3>1, <3>2, ClashLeaves
    <3>4. QED
      BY <3>3, LeaveSteps DEF IInv
  <2>2. CASE ~Clashes(s, f) /\ f \in Kinds
    <3>1. at = FillingAt(f)
      BY <1>4, <2>2 DEF FillingAt, Kinds
    <3>2. AddsTo(s, f) /\ Typed' /\ InCall'
      BY <1>1, <1>4, <2>2, <3>1, FillSteps
    <3>3. proc[s].at = FillingAt(f)
      BY <1>4, <3>1 DEF Fill, Here
    <3>4. QED
      BY <2>2, <3>2, <3>3, AddSteps DEF IInv
  <2>3. CASE ~Clashes(s, f) /\ f = "p"
    <3>1. Fill(s, "p", "fill p")
      BY <1>4, <2>3
    <3>2. (\E last \in BOOLEAN : AddsToP(s, last)) /\ Typed' /\ InCall'
      BY <1>1, <2>3, <3>1, FillPSteps
    <3>3. proc[s].at = "fill p"
      BY <3>1 DEF Fill, Here
    <3>4. QED
      BY <3>2, <3>3, AddToPSteps DEF IInv
  <2>4. QED
    BY <2>1, <2>2, <2>3 DEF Files, Kinds
<1>5. QED
  <2>1. /\ Fill(s, "m", "fill m") => IInv'
        /\ Fill(s, "p", "fill p") => IInv'
        /\ Fill(s, "d2", "fill d2") => IInv'
    BY <1>4 DEF Files
  <2>2. QED
    BY <2>1, <1>2, <1>3 DEF Proceed, Create

(* So does a stuttering step.                                              *)
LEMMA Unchanged ==
  ASSUME IInv, UNCHANGED vars
  PROVE  IInv'
<1>1. /\ schema' = schema /\ found' = found /\ dir' = dir /\ file' = file /\ older' = older
      /\ proc' = proc /\ ended' = ended /\ calls' = calls /\ stopped' = stopped
  BY DEF vars
<1>2. Typed' /\ InCall'
  BY <1>1 DEF IInv, Typed, InCall, Here, Creating
<1>3. /\ \A f, n : Begun(f, n)' = Begun(f, n) /\ Whole(f)' = Whole(f) /\ Made(f)' = Made(f)
      /\ \A s, f : Owns(s, f)' <=> Owns(s, f)
      /\ \A s : /\ Begun("m", proc[s].done)' = Begun("m", proc[s].done)
                 /\ Begun("d2", proc[s].done)' = Begun("d2", proc[s].done)
  BY <1>1 DEF Owns, Made, Begun, Whole, PartsOf, MusicParts
<1>4. ASSUME NEW s \in Processes
      PROVE  Stage(s)'
  <2>1. Stage(s)
    BY DEF IInv, InOrder
  <2>2. QED
    BY <2>1, <1>1, <1>3 DEF Stage
<1>5. InOrder'
  BY <1>3, <1>4 DEF IInv, InOrder
<1>6. OneOwner'
  BY <1>1, <1>3 DEF IInv, OneOwner
<1>7. Created' /\ Followed'
  BY <1>1 DEF IInv, Created, Followed, Owns, Made, Whole, PartsOf, MusicParts
<1>8. (NothingLost /\ LoadedHasTables /\ CreatedIsWhole /\ OneCreates)'
  BY <1>1 DEF IInv, NothingLost, LoadedHasTables, CreatedIsWhole, OneCreates, Whole, PartsOf,
              MusicParts
<1>9. QED
  BY <1>2, <1>7, <1>8, <1>5, <1>6 DEF IInv

(* The invariant is inductive.                                             *)
LEMMA Invariance ==
  ASSUME IInv, [Next]_vars
  PROVE  IInv'
<1>1. ASSUME NEW s \in Processes, NEW c \in Calls, Begin(s, c)
      PROVE  IInv'
  BY <1>1, BeginSteps, QuietSteps DEF IInv
<1>2. ASSUME NEW s \in Processes, Proceed(s)
      PROVE  IInv'
  BY <1>2, ProceedSteps
<1>3. ASSUME NEW s \in Processes, Stop(s)
      PROVE  IInv'
  BY <1>3, StopSteps, LeaveSteps DEF IInv
<1>4. CASE Rest
  BY <1>4, Unchanged DEF Rest
<1>5. CASE UNCHANGED vars
  BY <1>5, Unchanged
<1>6. QED
  BY <1>1, <1>2, <1>3, <1>4, <1>5 DEF Next

(* No calls are within the bound.                                          *)
LEMMA NoCalls == MaxCalls \in Nat => 0 \in 0 .. MaxCalls
  OBVIOUS

(* It holds at first.                                                      *)
LEMMA AtFirst == Init => IInv
<1> SUFFICES ASSUME Init PROVE IInv
  OBVIOUS
<1>1. /\ schema \in [first : BOOLEAN, drops : BOOLEAN]
      /\ found \in {{}, {"m", "p"}, {"d2"}, {"p"}}
      /\ file = [f \in Files |-> IF f \in found THEN {There} \cup Whole(f) ELSE {}]
      /\ older = ("p" \in found) /\ ended = {} /\ calls = 0 /\ stopped = FALSE
      /\ proc = [s \in Processes |-> Idle]
  BY DEF Init
<1>2. /\ \A f \in Kinds : Whole(f) = {"information", "tables", "version", "rows"}
      /\ Whole("p") = {"tables", "version"}
      /\ \A f \in Kinds : Begun(f, 0) = {} /\ Begun(f, 4) = Whole(f)
  BY <1>1, Wholes
<1>3. Idle \in Process /\ Idle.at = "idle" /\ Idle.done = 0
  BY IdleProcess
<1>4. Typed
  <2>1. file \in [Files -> SUBSET Parts]
    BY <1>1, <1>2 DEF Files, Kinds, Parts, There
  <2>2. {dir, older, stopped} \subseteq BOOLEAN
    <3>1. older = TRUE \/ older = FALSE
      BY <1>1, TrueOrFalse
    <3>2. (found # {}) = TRUE \/ (found # {}) = FALSE
      BY Differs
    <3>3. dir = TRUE \/ dir = (found # {})
      BY DEF Init
    <3>4. QED
      BY <1>1, <3>1, <3>2, <3>3
  <2>3. calls \in 0 .. MaxCalls
    BY <1>1, NoCalls, LifecycleBound
  <2>4. found \subseteq Files
    BY <1>1 DEF Files
  <2>5. proc \in [Processes -> Process]
    BY <1>1, <1>3
  <2>6. QED
    BY <1>1, <2>1, <2>2, <2>3, <2>4, <2>5 DEF Typed
<1>5. \A s \in Processes : proc[s] = Idle /\ \A f \in Kinds : ~Owns(s, f)
  BY <1>1, <1>3 DEF Owns
<1>6. InCall
  BY <1>3, <1>5 DEF InCall, Here, Creating
<1>7. \A f \in Kinds : Made(f) = IF f \in found THEN Whole(f) ELSE {}
  BY <1>1, <1>2 DEF Made, There, Files, Kinds
<1>8. InOrder
  <2>1. \A f \in Kinds : \E n \in {0, 4} : Made(f) = Begun(f, n)
    BY <1>2, <1>7
  <2>2. \A s \in Processes : Stage(s)
    BY <1>3, <1>5 DEF Stage
  <2>3. QED
    BY <2>1, <2>2 DEF InOrder
<1>9. OneOwner /\ Created /\ LoadedHasTables /\ CreatedIsWhole /\ OneCreates
  BY <1>1, <1>5 DEF OneOwner, Created, LoadedHasTables, CreatedIsWhole, OneCreates
<1>10. Followed
  <2>1. "m" \in found => "p" \in found
    BY <1>1
  <2>2. "p" \in found => "tables" \in file["p"]
    BY <1>1, <1>2 DEF Files
  <2>3. QED
    BY <2>1, <2>2, <1>7 DEF Followed, Kinds
<1>11. NothingLost
  BY <1>1 DEF NothingLost, Files
<1>12. QED
  BY <1>4, <1>6, <1>8, <1>9, <1>10, <1>11 DEF IInv

(* It holds always.                                                        *)
LEMMA Always == Spec => []IInv
<1>1. Init => IInv
  BY AtFirst
<1>2. IInv /\ [Next]_vars => IInv'
  BY Invariance
<1>3. QED
  BY <1>1, <1>2, PTL DEF Spec

(* Every part of the state is what its comment says: create_database and   *)
(* load_database are at a step of the call that they are in.               *)
THEOREM TypeCorrect == Spec => []TypeOK
<1>1. IInv => TypeOK
  <2> SUFFICES ASSUME IInv PROVE TypeOK
    OBVIOUS
  <2>1. ASSUME NEW s \in Processes
        PROVE  \/ proc[s] = Idle
               \/ /\ proc[s].call \in Calls /\ proc[s].nth \in 1 .. calls
                  /\ Creating(s) => proc[s].call.name \in {"create", "create_or_load"}
                  /\ proc[s].at = "fill d2" => proc[s].done < 4
                  /\ proc[s].at \in {"fill m", "fill p"} => proc[s].call.gen = 1
    <3>1. proc[s].done \in 0 .. 3
      BY DEF IInv, Typed, Process
    <3>2. proc[s].done < 4
      BY <3>1
    <3>3. QED
      BY <3>2 DEF IInv, InCall
  <2>2. QED
    BY <2>1 DEF IInv, Typed, TypeOK
<1>2. QED
  BY <1>1, Always, PTL

(* A library that was there when the processes began is there for good,    *)
(* with the performance data beside it, whatever calls of create_database  *)
(* and create_or_load_database are made over it and wherever they stop.    *)
THEOREM NothingIsLost == Spec => []NothingLost
<1>1. IInv => NothingLost
  BY DEF IInv
<1>2. QED
  BY <1>1, Always, PTL

(* load_database never returns a database without its tables, though it    *)
(* may look at one while another process creates it, or after a creation   *)
(* that was stopped.                                                       *)
THEOREM LoadedLibrariesHaveTables == Spec => []LoadedHasTables
<1>1. IInv => LoadedHasTables
  BY DEF IInv
<1>2. QED
  BY <1>1, Always, PTL

(* When create_database returns, all of the database is there.             *)
THEOREM CreatedLibrariesAreWhole == Spec => []CreatedIsWhole
<1>1. IInv => CreatedIsWhole
  BY DEF IInv
<1>2. QED
  BY <1>1, Always, PTL

(* However many processes create a database of one kind, one succeeds at   *)
(* most, and none where there was one before.                              *)
THEOREM OnlyOneCreates == Spec => []OneCreates
<1>1. IInv => OneCreates
  BY DEF IInv
<1>2. QED
  BY <1>1, Always, PTL
=============================================================================
