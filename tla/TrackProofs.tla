-------------------------- MODULE TrackProofs -------------------------------
(***************************************************************************)
(* Proofs about what a track keeps: first about TrackCalls, for any number *)
(* of sessions and calls, any values, and every choice of generations and  *)
(* calls to look at; then about Analyses, for any grids, offsets, waves    *)
(* and sizes.                                                              *)
(*                                                                         *)
(* TrackCalls.                                                             *)
(*                                                                         *)
(* A row that is half written breaks every property, so none is inductive. *)
(* What is: a session finds in what it sees of its track (ViewOf) exactly  *)
(* what the statements it has done account for (Staged) - it has read what *)
(* is still there, and where it has written is its value. When it has done *)
(* all of them the row agrees again (Complete). Staged speaks of the set   *)
(* of statements done (Past), not of a place in one of 26 programs; what   *)
(* it needs of the programs is their order, InOrder.                       *)
(*                                                                         *)
(* Others do not interfere, in generation 1 because of the locks           *)
(* (LocksAsDone, Apart) and because a draft differs from what is committed *)
(* in the fields of its call only (DraftsFollow); in 2 and 3 because calls *)
(* that meet are known to have met, and nothing is claimed of those        *)
(* (OneAtATime). Room has the ids for the tracks being created. The two    *)
(* columns of the bpm, which no transaction protects, have the same done   *)
(* for them apart (OneBpmAtATime, BpmStaged).                              *)
(*                                                                         *)
(* A step has one of seven shapes (Moves): a read, a statement on a draft  *)
(* or written at once, the commit of the first and of the last file, a     *)
(* stop, a beginning; ReadStep, DraftStep, WriteStep, FirstStep, LastStep, *)
(* StopStep and BeginStep show that each keeps the invariant.              *)
(*                                                                         *)
(* Analyses.                                                               *)
(*                                                                         *)
(* The grid in hand keeps its markers on whole segments (GridInv): an end  *)
(* that is moved stays on the line of its segment, so the segment has the  *)
(* tempo it had and the beats on it lie where they lay (EndsMoved,         *)
(* LinesStay). The cues of the two engines are the same blob for a program *)
(* on the common ground (Same), and the extents those of the size that the *)
(* track has now (WaveInv).                                                *)
(***************************************************************************)
EXTENDS TrackCalls, Analyses, FiniteSetTheorems, SequenceTheorems, WellFoundedInduction, TLAPS

(* What Program, InTransaction and FileOf are in generation g. *)
ProgramOf(g, op) ==
  IF g = 1 THEN Program1[op] ELSE IF g = 2 THEN Program2[op] ELSE Program3[op]

TransactionIn(g, op) == g = 1 /\ op \notin {"bpm", "remove"}

FileIn(g, step) == IF g # 1 \/ step \in OnTrack THEN "m" ELSE "p"

(* The statements of P before the n-th. *)
Before(P, n) == {P[k] : k \in 1 .. n - 1}

(* The files that the statements done have locked, and those they wrote.   *)
Touched(g, done) == {FileIn(g, step) : step \in done}
Altered(g, done) == {FileIn(g, step) : step \in done \ Reads}

(* The blobs that were there are of no concern: they will be replaced.     *)
Unseen(g, op, done) == g = 1 /\ op \in {"create", "update"} /\ "replace" \notin done

SizeInTd(op, done) == (op = "size" /\ "write td" \in done) \/ "replace" \in done
SizeInBd(op, done) == (op = "size" /\ "write bd" \in done) \/ "replace" \in done
Waveless(op, done) == op = "size" /\ "write td" \in done /\ "fit wave" \notin done
KeyInColumns(done) ==
  "write key" \in done \/ "insert" \in done \/ "put columns" \in done \/ "put" \in done
KeyInBlob(g, op, done) ==
  \/ op = "key" /\ "write td" \in done
  \/ "replace" \in done \/ "put data" \in done \/ "put" \in done
  \/ g = 2 /\ "insert" \in done
LenInColumns(done) == "write len" \in done \/ "insert" \in done \/ "put columns" \in done

(* The call has written all that it was to write. *)
Complete(g, op, done) ==
  /\ ~Unseen(g, op, done)
  /\ SizeInTd(op, done) <=> SizeInBd(op, done)
  /\ g = 1 => ~Waveless(op, done)
  /\ op = "create" => KeyInColumns(done)
  /\ op = "create" /\ g = 1 => "replace" \in done
  /\ KeyInColumns(done) <=> KeyInBlob(g, op, done)
  /\ g = 1 => (LenInColumns(done) <=> SizeInTd(op, done))

Statements ==
  {"read td", "read bd", "write td", "write bd", "write wave", "fit wave", "write key",
   "write len", "write analyzed", "write bpm", "insert", "replace", "put columns",
   "put data", "put", "delete", "commit m", "commit p"}

(* What a statement finds done when it comes: the order of the programs. *)
InOrder(g, op, step, done, last) ==
  /\ step \in Statements /\ step \notin done
  /\ step = "write td" => /\ op \in {"loudness", "key", "size"}
                          /\ "read td" \in done /\ "fit wave" \notin done
  /\ step = "write bd" => op \in {"beatgrid", "size"} /\ "read bd" \in done
  /\ step = "write wave" => op = "waveform" /\ "read td" \in done /\ "write td" \notin done
  /\ step = "fit wave" => g = 1 /\ op = "size" /\ "write td" \in done
  /\ step = "write key" => op = "key"
  /\ step = "write len" => g = 1 /\ op = "size"
  /\ step \in {"write analyzed", "write bpm"} => op = "bpm"
  /\ step = "insert" => op = "create" /\ done = {}
  /\ op = "create" /\ done = {} => step = "insert"
  /\ step = "replace" => g = 1 /\ op \in {"create", "update"}
  /\ step = "put columns" => g \in {1, 3} /\ op = "update" /\ done = {}
  /\ step = "put data" => g = 3 /\ op \in {"create", "update"}
  /\ step = "put" => g = 2 /\ op = "update" /\ done = {}
  /\ op \in {"create", "update"} => "read td" \notin done /\ "read bd" \notin done
  /\ op \in {"create", "update"} => step \notin Reads
  /\ op = "update" /\ done = {} => step = "put columns" \/ step = "put"
  /\ g = 1 /\ op \in {"create", "update"} /\ done # {} => "m" \in Touched(g, done)
  /\ step = "delete" => last /\ done = {}
  /\ "replace" \in done => g = 1
  /\ step = "delete" <=> op = "remove"
  /\ op = "bpm" => \/ step = "write analyzed" /\ done = {} /\ ~last
                   \/ step = "write bpm" /\ done = {"write analyzed"} /\ last
  /\ step \in Reads => ~last
  /\ "replace" \in done \/ "put" \in done \/ "insert" \in done => op \in {"create", "update"}
  /\ last /\ op \notin {"bpm", "remove", "waveform"} => Complete(g, op, done \cup {step})
  /\ TransactionIn(g, op) =>
       /\ step = "commit p" <=> last
       /\ step = "commit m" => Altered(g, done) = Files /\ op \in {"key", "size", "create", "update"}
       /\ step = "commit p" => Altered(g, done) = IF "commit m" \in done THEN Files ELSE {"p"}
       /\ step = "commit p" => ("commit m" \in done <=> op \in {"key", "size", "create", "update"})
       /\ "commit m" \in done => step = "commit p"
       /\ step = "commit p" => Complete(g, op, done)
       /\ done # {} => (Unseen(g, op, done) <=> "p" \notin Touched(g, done))
  /\ step \in Commits => TransactionIn(g, op)
  /\ ~TransactionIn(g, op) => FileIn(g, step) = "m"

(* The n-th statement of P is step; those before it are done.              *)
Moment(P, n, step, done, last) == P[n] = step /\ Before(P, n) = done /\ (n = Len(P) <=> last)

LEMMA BeforeFirst == \A P : Before(P, 1) = {}
  BY DEF Before

LEMMA BeforeNext ==
  ASSUME NEW P, NEW n \in Nat \ {0} PROVE Before(P, n + 1) = Before(P, n) \cup {P[n]}
<1>1. 1 .. n + 1 - 1 = (1 .. n - 1) \cup {n}
  OBVIOUS
<1> QED BY <1>1 DEF Before

LEMMA Befores ==
  ASSUME NEW P
  PROVE  /\ Before(P, 1) = {} /\ Before(P, 2) = {P[1]} /\ Before(P, 3) = {P[1], P[2]}
         /\ Before(P, 4) = {P[1], P[2], P[3]}
         /\ Before(P, 5) = {P[1], P[2], P[3], P[4]}
         /\ Before(P, 6) = {P[1], P[2], P[3], P[4], P[5]}
         /\ Before(P, 7) = {P[1], P[2], P[3], P[4], P[5], P[6]}
         /\ Before(P, 8) = {P[1], P[2], P[3], P[4], P[5], P[6], P[7]}
<1>1. Before(P, 1) = {}
  BY BeforeFirst
<1>2. Before(P, 2) = {P[1]}
  BY <1>1, BeforeNext, 1 + 1 = 2
<1>3. Before(P, 3) = {P[1], P[2]}
  BY <1>2, BeforeNext, 2 + 1 = 3
<1>4. Before(P, 4) = {P[1], P[2], P[3]}
  BY <1>3, BeforeNext, 3 + 1 = 4
<1>5. Before(P, 5) = {P[1], P[2], P[3], P[4]}
  BY <1>4, BeforeNext, 4 + 1 = 5
<1>6. Before(P, 6) = {P[1], P[2], P[3], P[4], P[5]}
  BY <1>5, BeforeNext, 5 + 1 = 6
<1>7. Before(P, 7) = {P[1], P[2], P[3], P[4], P[5], P[6]}
  BY <1>6, BeforeNext, 6 + 1 = 7
<1>8. Before(P, 8) = {P[1], P[2], P[3], P[4], P[5], P[6], P[7]}
  BY <1>7, BeforeNext, 7 + 1 = 8
<1> QED BY <1>1, <1>2, <1>3, <1>4, <1>5, <1>6, <1>7, <1>8

LEMMA Differ123 == 1 # 2 /\ 2 # 1 /\ 2 # 3 /\ 3 # 2 /\ 1 # 3 /\ 3 # 1
  OBVIOUS

LEMMA One ==
  ASSUME NEW a, NEW n \in DOMAIN <<a>>
  PROVE  LET P == <<a>>
         IN  \/ Moment(P, n, a, {}, TRUE)
<1> DEFINE P == <<a>>
<1>1. P[1] = a /\ Len(P) = 1
  OBVIOUS
<1>2. n = 1
  OBVIOUS
<1> HIDE DEF P
<1>3. CASE n = 1
  BY <1>1, <1>3, Befores DEF Moment
<1> QED BY <1>2, <1>3 DEF P

LEMMA Two ==
  ASSUME NEW a, NEW b, NEW n \in DOMAIN <<a, b>>
  PROVE  LET P == <<a, b>>
         IN  \/ Moment(P, n, a, {}, FALSE)
             \/ Moment(P, n, b, {a}, TRUE)
<1> DEFINE P == <<a, b>>
<1>1. P[1] = a /\ P[2] = b /\ Len(P) = 2
  OBVIOUS
<1>2. n = 1 \/ n = 2
  OBVIOUS
<1> HIDE DEF P
<1>3. CASE n = 1
  BY <1>1, <1>3, Befores DEF Moment
<1>4. CASE n = 2
  BY <1>1, <1>4, Befores DEF Moment
<1> QED BY <1>2, <1>3, <1>4 DEF P

LEMMA Three ==
  ASSUME NEW a, NEW b, NEW c, NEW n \in DOMAIN <<a, b, c>>
  PROVE  LET P == <<a, b, c>>
         IN  \/ Moment(P, n, a, {}, FALSE)
             \/ Moment(P, n, b, {a}, FALSE)
             \/ Moment(P, n, c, {a, b}, TRUE)
<1> DEFINE P == <<a, b, c>>
<1>1. P[1] = a /\ P[2] = b /\ P[3] = c /\ Len(P) = 3
  OBVIOUS
<1>2. n = 1 \/ n = 2 \/ n = 3
  OBVIOUS
<1> HIDE DEF P
<1>3. CASE n = 1
  BY <1>1, <1>3, Befores DEF Moment
<1>4. CASE n = 2
  BY <1>1, <1>4, Befores DEF Moment
<1>5. CASE n = 3
  BY <1>1, <1>5, Befores DEF Moment
<1> QED BY <1>2, <1>3, <1>4, <1>5 DEF P

LEMMA Four ==
  ASSUME NEW a, NEW b, NEW c, NEW d, NEW n \in DOMAIN <<a, b, c, d>>
  PROVE  LET P == <<a, b, c, d>>
         IN  \/ Moment(P, n, a, {}, FALSE)
             \/ Moment(P, n, b, {a}, FALSE)
             \/ Moment(P, n, c, {a, b}, FALSE)
             \/ Moment(P, n, d, {a, b, c}, TRUE)
<1> DEFINE P == <<a, b, c, d>>
<1>1. P[1] = a /\ P[2] = b /\ P[3] = c /\ P[4] = d /\ Len(P) = 4
  OBVIOUS
<1>2. n = 1 \/ n = 2 \/ n = 3 \/ n = 4
  OBVIOUS
<1> HIDE DEF P
<1>3. CASE n = 1
  BY <1>1, <1>3, Befores DEF Moment
<1>4. CASE n = 2
  BY <1>1, <1>4, Befores DEF Moment
<1>5. CASE n = 3
  BY <1>1, <1>5, Befores DEF Moment
<1>6. CASE n = 4
  BY <1>1, <1>6, Befores DEF Moment
<1> QED BY <1>2, <1>3, <1>4, <1>5, <1>6 DEF P

LEMMA Five ==
  ASSUME NEW a, NEW b, NEW c, NEW d, NEW e, NEW n \in DOMAIN <<a, b, c, d, e>>
  PROVE  LET P == <<a, b, c, d, e>>
         IN  \/ Moment(P, n, a, {}, FALSE)
             \/ Moment(P, n, b, {a}, FALSE)
             \/ Moment(P, n, c, {a, b}, FALSE)
             \/ Moment(P, n, d, {a, b, c}, FALSE)
             \/ Moment(P, n, e, {a, b, c, d}, TRUE)
<1> DEFINE P == <<a, b, c, d, e>>
<1>1. P[1] = a /\ P[2] = b /\ P[3] = c /\ P[4] = d /\ P[5] = e /\ Len(P) = 5
  OBVIOUS
<1>2. n = 1 \/ n = 2 \/ n = 3 \/ n = 4 \/ n = 5
  OBVIOUS
<1> HIDE DEF P
<1>3. CASE n = 1
  BY <1>1, <1>3, Befores DEF Moment
<1>4. CASE n = 2
  BY <1>1, <1>4, Befores DEF Moment
<1>5. CASE n = 3
  BY <1>1, <1>5, Befores DEF Moment
<1>6. CASE n = 4
  BY <1>1, <1>6, Befores DEF Moment
<1>7. CASE n = 5
  BY <1>1, <1>7, Befores DEF Moment
<1> QED BY <1>2, <1>3, <1>4, <1>5, <1>6, <1>7 DEF P

LEMMA Eight ==
  ASSUME NEW a, NEW b, NEW c, NEW d, NEW e, NEW f, NEW h, NEW i, NEW n \in DOMAIN <<a, b, c, d, e, f, h, i>>
  PROVE  LET P == <<a, b, c, d, e, f, h, i>>
         IN  \/ Moment(P, n, a, {}, FALSE)
             \/ Moment(P, n, b, {a}, FALSE)
             \/ Moment(P, n, c, {a, b}, FALSE)
             \/ Moment(P, n, d, {a, b, c}, FALSE)
             \/ Moment(P, n, e, {a, b, c, d}, FALSE)
             \/ Moment(P, n, f, {a, b, c, d, e}, FALSE)
             \/ Moment(P, n, h, {a, b, c, d, e, f}, FALSE)
             \/ Moment(P, n, i, {a, b, c, d, e, f, h}, TRUE)
<1> DEFINE P == <<a, b, c, d, e, f, h, i>>
<1>1. /\ P[1] = a /\ P[2] = b /\ P[3] = c /\ P[4] = d /\ P[5] = e /\ P[6] = f /\ P[7] = h /\ P[8] = i
      /\ Len(P) = 8
  OBVIOUS
<1>2. n = 1 \/ n = 2 \/ n = 3 \/ n = 4 \/ n = 5 \/ n = 6 \/ n = 7 \/ n = 8
  OBVIOUS
<1> HIDE DEF P
<1>3. CASE n = 1
  BY <1>1, <1>3, Befores DEF Moment
<1>4. CASE n = 2
  BY <1>1, <1>4, Befores DEF Moment
<1>5. CASE n = 3
  BY <1>1, <1>5, Befores DEF Moment
<1>6. CASE n = 4
  BY <1>1, <1>6, Befores DEF Moment
<1>7. CASE n = 5
  BY <1>1, <1>7, Befores DEF Moment
<1>8. CASE n = 6
  BY <1>1, <1>8, Befores DEF Moment
<1>9. CASE n = 7
  BY <1>1, <1>9, Befores DEF Moment
<1>10. CASE n = 8
  BY <1>1, <1>10, Befores DEF Moment
<1> QED BY <1>2, <1>3, <1>4, <1>5, <1>6, <1>7, <1>8, <1>9, <1>10 DEF P

(* The order of the statements in generation 1. *)
LEMMA Order1 ==
  ASSUME NEW op \in AllOperations, NEW P, P = ProgramOf(1, op), NEW n \in DOMAIN P
  PROVE  InOrder(1, op, P[n], Before(P, n), n = Len(P))
<1>0. P = Program1[op]
  BY DEF ProgramOf
<1>1. CASE op = "loudness"
  <2>1. P = <<"read td", "write td", "commit p">>
    BY <1>0, <1>1 DEF Program1
  <2>2. \/ Moment(P, n, "read td", {}, FALSE)
        \/ Moment(P, n, "write td", {"read td"}, FALSE)
        \/ Moment(P, n, "commit p", {"read td", "write td"}, TRUE)
    BY ONLY <2>1, Three, n \in DOMAIN P
  <2> QED BY <1>1, <2>2, Differ123
    DEF Moment, InOrder, Statements, Complete, Unseen, SizeInTd, SizeInBd, Waveless,
            KeyInColumns, KeyInBlob, LenInColumns, TransactionIn, FileIn, OnTrack, Touched, Altered,
            Reads, Commits, Files
<1>2. CASE op = "key"
  <2>1. P = <<"read td", "write td", "write key", "commit m", "commit p">>
    BY <1>0, <1>2 DEF Program1
  <2>2. \/ Moment(P, n, "read td", {}, FALSE)
        \/ Moment(P, n, "write td", {"read td"}, FALSE)
        \/ Moment(P, n, "write key", {"read td", "write td"}, FALSE)
        \/ Moment(P, n, "commit m", {"read td", "write td", "write key"}, FALSE)
        \/ Moment(P, n, "commit p", {"read td", "write td", "write key", "commit m"}, TRUE)
    BY ONLY <2>1, Five, n \in DOMAIN P
  <2> QED BY <1>2, <2>2, Differ123
    DEF Moment, InOrder, Statements, Complete, Unseen, SizeInTd, SizeInBd, Waveless,
            KeyInColumns, KeyInBlob, LenInColumns, TransactionIn, FileIn, OnTrack, Touched, Altered,
            Reads, Commits, Files
<1>3. CASE op = "size"
  <2>1. P = <<"read td", "read bd", "write len", "write bd", "write td", "fit wave", "commit m", "commit p">>
    BY <1>0, <1>3 DEF Program1
  <2>2. \/ Moment(P, n, "read td", {}, FALSE)
        \/ Moment(P, n, "read bd", {"read td"}, FALSE)
        \/ Moment(P, n, "write len", {"read td", "read bd"}, FALSE)
        \/ Moment(P, n, "write bd", {"read td", "read bd", "write len"}, FALSE)
        \/ Moment(P, n, "write td", {"read td", "read bd", "write len", "write bd"}, FALSE)
        \/ Moment(P, n, "fit wave", {"read td", "read bd", "write len", "write bd", "write td"}, FALSE)
        \/ Moment(P, n, "commit m", {"read td", "read bd", "write len", "write bd", "write td", "fit wave"}, FALSE)
        \/ Moment(P, n, "commit p", {"read td", "read bd", "write len", "write bd", "write td", "fit wave", "commit m"}, TRUE)
    BY ONLY <2>1, Eight, n \in DOMAIN P
  <2> QED BY <1>3, <2>2, Differ123
    DEF Moment, InOrder, Statements, Complete, Unseen, SizeInTd, SizeInBd, Waveless,
            KeyInColumns, KeyInBlob, LenInColumns, TransactionIn, FileIn, OnTrack, Touched, Altered,
            Reads, Commits, Files
<1>4. CASE op = "beatgrid"
  <2>1. P = <<"read bd", "write bd", "commit p">>
    BY <1>0, <1>4 DEF Program1
  <2>2. \/ Moment(P, n, "read bd", {}, FALSE)
        \/ Moment(P, n, "write bd", {"read bd"}, FALSE)
        \/ Moment(P, n, "commit p", {"read bd", "write bd"}, TRUE)
    BY ONLY <2>1, Three, n \in DOMAIN P
  <2> QED BY <1>4, <2>2, Differ123
    DEF Moment, InOrder, Statements, Complete, Unseen, SizeInTd, SizeInBd, Waveless,
            KeyInColumns, KeyInBlob, LenInColumns, TransactionIn, FileIn, OnTrack, Touched, Altered,
            Reads, Commits, Files
<1>5. CASE op = "waveform"
  <2>1. P = <<"read td", "write wave", "commit p">>
    BY <1>0, <1>5 DEF Program1
  <2>2. \/ Moment(P, n, "read td", {}, FALSE)
        \/ Moment(P, n, "write wave", {"read td"}, FALSE)
        \/ Moment(P, n, "commit p", {"read td", "write wave"}, TRUE)
    BY ONLY <2>1, Three, n \in DOMAIN P
  <2> QED BY <1>5, <2>2, Differ123
    DEF Moment, InOrder, Statements, Complete, Unseen, SizeInTd, SizeInBd, Waveless,
            KeyInColumns, KeyInBlob, LenInColumns, TransactionIn, FileIn, OnTrack, Touched, Altered,
            Reads, Commits, Files
<1>6. CASE op = "bpm"
  <2>1. P = <<"write analyzed", "write bpm">>
    BY <1>0, <1>6 DEF Program1
  <2>2. \/ Moment(P, n, "write analyzed", {}, FALSE)
        \/ Moment(P, n, "write bpm", {"write analyzed"}, TRUE)
    BY ONLY <2>1, Two, n \in DOMAIN P
  <2> QED BY <1>6, <2>2, Differ123
    DEF Moment, InOrder, Statements, Complete, Unseen, SizeInTd, SizeInBd, Waveless,
            KeyInColumns, KeyInBlob, LenInColumns, TransactionIn, FileIn, OnTrack, Touched, Altered,
            Reads, Commits, Files
<1>7. CASE op = "create"
  <2>1. P = <<"insert", "replace", "commit m", "commit p">>
    BY <1>0, <1>7 DEF Program1
  <2>2. \/ Moment(P, n, "insert", {}, FALSE)
        \/ Moment(P, n, "replace", {"insert"}, FALSE)
        \/ Moment(P, n, "commit m", {"insert", "replace"}, FALSE)
        \/ Moment(P, n, "commit p", {"insert", "replace", "commit m"}, TRUE)
    BY ONLY <2>1, Four, n \in DOMAIN P
  <2> QED BY <1>7, <2>2, Differ123
    DEF Moment, InOrder, Statements, Complete, Unseen, SizeInTd, SizeInBd, Waveless,
            KeyInColumns, KeyInBlob, LenInColumns, TransactionIn, FileIn, OnTrack, Touched, Altered,
            Reads, Commits, Files
<1>8. CASE op = "update"
  <2>1. P = <<"put columns", "replace", "commit m", "commit p">>
    BY <1>0, <1>8 DEF Program1
  <2>2. \/ Moment(P, n, "put columns", {}, FALSE)
        \/ Moment(P, n, "replace", {"put columns"}, FALSE)
        \/ Moment(P, n, "commit m", {"put columns", "replace"}, FALSE)
        \/ Moment(P, n, "commit p", {"put columns", "replace", "commit m"}, TRUE)
    BY ONLY <2>1, Four, n \in DOMAIN P
  <2> QED BY <1>8, <2>2, Differ123
    DEF Moment, InOrder, Statements, Complete, Unseen, SizeInTd, SizeInBd, Waveless,
            KeyInColumns, KeyInBlob, LenInColumns, TransactionIn, FileIn, OnTrack, Touched, Altered,
            Reads, Commits, Files
<1>9. CASE op = "remove"
  <2>1. P = <<"delete">>
    BY <1>0, <1>9 DEF Program1
  <2>2. \/ Moment(P, n, "delete", {}, TRUE)
    BY ONLY <2>1, One, n \in DOMAIN P
  <2> QED BY <1>9, <2>2, Differ123
    DEF Moment, InOrder, Statements, Complete, Unseen, SizeInTd, SizeInBd, Waveless,
            KeyInColumns, KeyInBlob, LenInColumns, TransactionIn, FileIn, OnTrack, Touched, Altered,
            Reads, Commits, Files
<1> QED BY <1>1, <1>2, <1>3, <1>4, <1>5, <1>6, <1>7, <1>8, <1>9 DEF AllOperations

(* The order of the statements in generation 2. *)
LEMMA Order2 ==
  ASSUME NEW op \in AllOperations, NEW P, P = ProgramOf(2, op), NEW n \in DOMAIN P
  PROVE  InOrder(2, op, P[n], Before(P, n), n = Len(P))
<1>0. P = Program2[op]
  BY DEF ProgramOf
<1>1. CASE op = "loudness"
  <2>1. P = <<"read td", "write td">>
    BY <1>0, <1>1 DEF Program2
  <2>2. \/ Moment(P, n, "read td", {}, FALSE)
        \/ Moment(P, n, "write td", {"read td"}, TRUE)
    BY ONLY <2>1, Two, n \in DOMAIN P
  <2> QED BY <1>1, <2>2, Differ123
    DEF Moment, InOrder, Statements, Complete, Unseen, SizeInTd, SizeInBd, Waveless,
            KeyInColumns, KeyInBlob, LenInColumns, TransactionIn, FileIn, OnTrack, Touched, Altered,
            Reads, Commits, Files
<1>2. CASE op = "key"
  <2>1. P = <<"write key", "read td", "write td">>
    BY <1>0, <1>2 DEF Program2
  <2>2. \/ Moment(P, n, "write key", {}, FALSE)
        \/ Moment(P, n, "read td", {"write key"}, FALSE)
        \/ Moment(P, n, "write td", {"write key", "read td"}, TRUE)
    BY ONLY <2>1, Three, n \in DOMAIN P
  <2> QED BY <1>2, <2>2, Differ123
    DEF Moment, InOrder, Statements, Complete, Unseen, SizeInTd, SizeInBd, Waveless,
            KeyInColumns, KeyInBlob, LenInColumns, TransactionIn, FileIn, OnTrack, Touched, Altered,
            Reads, Commits, Files
<1>3. CASE op = "size"
  <2>1. P = <<"read td", "read bd", "write td", "write bd">>
    BY <1>0, <1>3 DEF Program2
  <2>2. \/ Moment(P, n, "read td", {}, FALSE)
        \/ Moment(P, n, "read bd", {"read td"}, FALSE)
        \/ Moment(P, n, "write td", {"read td", "read bd"}, FALSE)
        \/ Moment(P, n, "write bd", {"read td", "read bd", "write td"}, TRUE)
    BY ONLY <2>1, Four, n \in DOMAIN P
  <2> QED BY <1>3, <2>2, Differ123
    DEF Moment, InOrder, Statements, Complete, Unseen, SizeInTd, SizeInBd, Waveless,
            KeyInColumns, KeyInBlob, LenInColumns, TransactionIn, FileIn, OnTrack, Touched, Altered,
            Reads, Commits, Files
<1>4. CASE op = "beatgrid"
  <2>1. P = <<"read bd", "write bd">>
    BY <1>0, <1>4 DEF Program2
  <2>2. \/ Moment(P, n, "read bd", {}, FALSE)
        \/ Moment(P, n, "write bd", {"read bd"}, TRUE)
    BY ONLY <2>1, Two, n \in DOMAIN P
  <2> QED BY <1>4, <2>2, Differ123
    DEF Moment, InOrder, Statements, Complete, Unseen, SizeInTd, SizeInBd, Waveless,
            KeyInColumns, KeyInBlob, LenInColumns, TransactionIn, FileIn, OnTrack, Touched, Altered,
            Reads, Commits, Files
<1>5. CASE op = "waveform"
  <2>1. P = <<"read td", "write wave">>
    BY <1>0, <1>5 DEF Program2
  <2>2. \/ Moment(P, n, "read td", {}, FALSE)
        \/ Moment(P, n, "write wave", {"read td"}, TRUE)
    BY ONLY <2>1, Two, n \in DOMAIN P
  <2> QED BY <1>5, <2>2, Differ123
    DEF Moment, InOrder, Statements, Complete, Unseen, SizeInTd, SizeInBd, Waveless,
            KeyInColumns, KeyInBlob, LenInColumns, TransactionIn, FileIn, OnTrack, Touched, Altered,
            Reads, Commits, Files
<1>6. CASE op = "bpm"
  <2>1. P = <<"write analyzed", "write bpm">>
    BY <1>0, <1>6 DEF Program2
  <2>2. \/ Moment(P, n, "write analyzed", {}, FALSE)
        \/ Moment(P, n, "write bpm", {"write analyzed"}, TRUE)
    BY ONLY <2>1, Two, n \in DOMAIN P
  <2> QED BY <1>6, <2>2, Differ123
    DEF Moment, InOrder, Statements, Complete, Unseen, SizeInTd, SizeInBd, Waveless,
            KeyInColumns, KeyInBlob, LenInColumns, TransactionIn, FileIn, OnTrack, Touched, Altered,
            Reads, Commits, Files
<1>7. CASE op = "create"
  <2>1. P = <<"insert">>
    BY <1>0, <1>7 DEF Program2
  <2>2. \/ Moment(P, n, "insert", {}, TRUE)
    BY ONLY <2>1, One, n \in DOMAIN P
  <2> QED BY <1>7, <2>2, Differ123
    DEF Moment, InOrder, Statements, Complete, Unseen, SizeInTd, SizeInBd, Waveless,
            KeyInColumns, KeyInBlob, LenInColumns, TransactionIn, FileIn, OnTrack, Touched, Altered,
            Reads, Commits, Files
<1>8. CASE op = "update"
  <2>1. P = <<"put">>
    BY <1>0, <1>8 DEF Program2
  <2>2. \/ Moment(P, n, "put", {}, TRUE)
    BY ONLY <2>1, One, n \in DOMAIN P
  <2> QED BY <1>8, <2>2, Differ123
    DEF Moment, InOrder, Statements, Complete, Unseen, SizeInTd, SizeInBd, Waveless,
            KeyInColumns, KeyInBlob, LenInColumns, TransactionIn, FileIn, OnTrack, Touched, Altered,
            Reads, Commits, Files
<1>9. CASE op = "remove"
  <2>1. P = <<"delete">>
    BY <1>0, <1>9 DEF Program2
  <2>2. \/ Moment(P, n, "delete", {}, TRUE)
    BY ONLY <2>1, One, n \in DOMAIN P
  <2> QED BY <1>9, <2>2, Differ123
    DEF Moment, InOrder, Statements, Complete, Unseen, SizeInTd, SizeInBd, Waveless,
            KeyInColumns, KeyInBlob, LenInColumns, TransactionIn, FileIn, OnTrack, Touched, Altered,
            Reads, Commits, Files
<1> QED BY <1>1, <1>2, <1>3, <1>4, <1>5, <1>6, <1>7, <1>8, <1>9 DEF AllOperations

(* The order of the statements in generation 3. *)
LEMMA Order3 ==
  ASSUME NEW op \in AllOperations, NEW P, P = ProgramOf(3, op), NEW n \in DOMAIN P
  PROVE  InOrder(3, op, P[n], Before(P, n), n = Len(P))
<1>0. P = Program3[op]
  BY DEF ProgramOf
<1>1. CASE op = "loudness"
  <2>1. P = <<"read td", "write td">>
    BY <1>0, <1>1 DEF Program3, Program2
  <2>2. \/ Moment(P, n, "read td", {}, FALSE)
        \/ Moment(P, n, "write td", {"read td"}, TRUE)
    BY ONLY <2>1, Two, n \in DOMAIN P
  <2> QED BY <1>1, <2>2, Differ123
    DEF Moment, InOrder, Statements, Complete, Unseen, SizeInTd, SizeInBd, Waveless,
            KeyInColumns, KeyInBlob, LenInColumns, TransactionIn, FileIn, OnTrack, Touched, Altered,
            Reads, Commits, Files
<1>2. CASE op = "key"
  <2>1. P = <<"write key", "read td", "write td">>
    BY <1>0, <1>2 DEF Program3, Program2
  <2>2. \/ Moment(P, n, "write key", {}, FALSE)
        \/ Moment(P, n, "read td", {"write key"}, FALSE)
        \/ Moment(P, n, "write td", {"write key", "read td"}, TRUE)
    BY ONLY <2>1, Three, n \in DOMAIN P
  <2> QED BY <1>2, <2>2, Differ123
    DEF Moment, InOrder, Statements, Complete, Unseen, SizeInTd, SizeInBd, Waveless,
            KeyInColumns, KeyInBlob, LenInColumns, TransactionIn, FileIn, OnTrack, Touched, Altered,
            Reads, Commits, Files
<1>3. CASE op = "size"
  <2>1. P = <<"read td", "read bd", "write td", "write bd">>
    BY <1>0, <1>3 DEF Program3, Program2
  <2>2. \/ Moment(P, n, "read td", {}, FALSE)
        \/ Moment(P, n, "read bd", {"read td"}, FALSE)
        \/ Moment(P, n, "write td", {"read td", "read bd"}, FALSE)
        \/ Moment(P, n, "write bd", {"read td", "read bd", "write td"}, TRUE)
    BY ONLY <2>1, Four, n \in DOMAIN P
  <2> QED BY <1>3, <2>2, Differ123
    DEF Moment, InOrder, Statements, Complete, Unseen, SizeInTd, SizeInBd, Waveless,
            KeyInColumns, KeyInBlob, LenInColumns, TransactionIn, FileIn, OnTrack, Touched, Altered,
            Reads, Commits, Files
<1>4. CASE op = "beatgrid"
  <2>1. P = <<"read bd", "write bd">>
    BY <1>0, <1>4 DEF Program3, Program2
  <2>2. \/ Moment(P, n, "read bd", {}, FALSE)
        \/ Moment(P, n, "write bd", {"read bd"}, TRUE)
    BY ONLY <2>1, Two, n \in DOMAIN P
  <2> QED BY <1>4, <2>2, Differ123
    DEF Moment, InOrder, Statements, Complete, Unseen, SizeInTd, SizeInBd, Waveless,
            KeyInColumns, KeyInBlob, LenInColumns, TransactionIn, FileIn, OnTrack, Touched, Altered,
            Reads, Commits, Files
<1>5. CASE op = "waveform"
  <2>1. P = <<"read td", "write wave">>
    BY <1>0, <1>5 DEF Program3, Program2
  <2>2. \/ Moment(P, n, "read td", {}, FALSE)
        \/ Moment(P, n, "write wave", {"read td"}, TRUE)
    BY ONLY <2>1, Two, n \in DOMAIN P
  <2> QED BY <1>5, <2>2, Differ123
    DEF Moment, InOrder, Statements, Complete, Unseen, SizeInTd, SizeInBd, Waveless,
            KeyInColumns, KeyInBlob, LenInColumns, TransactionIn, FileIn, OnTrack, Touched, Altered,
            Reads, Commits, Files
<1>6. CASE op = "bpm"
  <2>1. P = <<"write analyzed", "write bpm">>
    BY <1>0, <1>6 DEF Program3, Program2
  <2>2. \/ Moment(P, n, "write analyzed", {}, FALSE)
        \/ Moment(P, n, "write bpm", {"write analyzed"}, TRUE)
    BY ONLY <2>1, Two, n \in DOMAIN P
  <2> QED BY <1>6, <2>2, Differ123
    DEF Moment, InOrder, Statements, Complete, Unseen, SizeInTd, SizeInBd, Waveless,
            KeyInColumns, KeyInBlob, LenInColumns, TransactionIn, FileIn, OnTrack, Touched, Altered,
            Reads, Commits, Files
<1>7. CASE op = "create"
  <2>1. P = <<"insert", "put data">>
    BY <1>0, <1>7 DEF Program3, Program2
  <2>2. \/ Moment(P, n, "insert", {}, FALSE)
        \/ Moment(P, n, "put data", {"insert"}, TRUE)
    BY ONLY <2>1, Two, n \in DOMAIN P
  <2> QED BY <1>7, <2>2, Differ123
    DEF Moment, InOrder, Statements, Complete, Unseen, SizeInTd, SizeInBd, Waveless,
            KeyInColumns, KeyInBlob, LenInColumns, TransactionIn, FileIn, OnTrack, Touched, Altered,
            Reads, Commits, Files
<1>8. CASE op = "update"
  <2>1. P = <<"put columns", "put data">>
    BY <1>0, <1>8 DEF Program3, Program2
  <2>2. \/ Moment(P, n, "put columns", {}, FALSE)
        \/ Moment(P, n, "put data", {"put columns"}, TRUE)
    BY ONLY <2>1, Two, n \in DOMAIN P
  <2> QED BY <1>8, <2>2, Differ123
    DEF Moment, InOrder, Statements, Complete, Unseen, SizeInTd, SizeInBd, Waveless,
            KeyInColumns, KeyInBlob, LenInColumns, TransactionIn, FileIn, OnTrack, Touched, Altered,
            Reads, Commits, Files
<1>9. CASE op = "remove"
  <2>1. P = <<"delete">>
    BY <1>0, <1>9 DEF Program3, Program2
  <2>2. \/ Moment(P, n, "delete", {}, TRUE)
    BY ONLY <2>1, One, n \in DOMAIN P
  <2> QED BY <1>9, <2>2, Differ123
    DEF Moment, InOrder, Statements, Complete, Unseen, SizeInTd, SizeInBd, Waveless,
            KeyInColumns, KeyInBlob, LenInColumns, TransactionIn, FileIn, OnTrack, Touched, Altered,
            Reads, Commits, Files
<1> QED BY <1>1, <1>2, <1>3, <1>4, <1>5, <1>6, <1>7, <1>8, <1>9 DEF AllOperations

-----------------------------------------------------------------------------
(* What a statement makes of the files. *)

FilesOK(d) ==
  /\ DOMAIN d = Files
  /\ \A i \in DOMAIN d.m : d.m[i] \in Track
  /\ \A i \in DOMAIN d.p : d.p[i] \in Performance

CallOK(c) ==
  /\ DOMAIN c = DOMAIN Idle
  /\ c.op \in AllOperations /\ c.val \in Values /\ c.of \in 0 .. MaxCalls
  /\ c.td \in TrackData /\ c.bd \in BeatData

(* The rows of the track i are the same in d and e. *)
SameColumns(d, e, i) ==
  /\ i \in DOMAIN d.m <=> i \in DOMAIN e.m
  /\ i \in DOMAIN d.m => d.m[i] = e.m[i]
SameBlobs(d, e, i) ==
  /\ i \in DOMAIN d.p <=> i \in DOMAIN e.p
  /\ i \in DOMAIN d.p => d.p[i] = e.p[i]
SameRows(d, e, i) == SameColumns(d, e, i) /\ SameBlobs(d, e, i)

LEMMA RecordFields ==
  /\ \A r \in Track : DOMAIN r = {"of", "key", "len", "bpm", "analyzed"}
  /\ \A r \in TrackData : DOMAIN r = {"size", "key", "loud"}
  /\ \A r \in BeatData : DOMAIN r = {"size", "grid"}
  /\ \A r \in Performance : DOMAIN r = {"of", "td", "bd", "wave"}
  BY DEF Track, TrackData, BeatData, Performance

LEMMA NewRowsTyped ==
  ASSUME NEW n \in 0 .. MaxCalls, NEW v \in Values
  PROVE  Columns(n, v) \in Track /\ Blobs(n, v) \in Performance
  BY TrackCallsValues, TrackCallsBounds
  DEF Columns, Blobs, Track, Performance, TrackData, BeatData, NoWave, Nobody

LEMMA EditedTyped ==
  ASSUME NEW c, CallOK(c)
  PROVE  /\ c.op \in {"loudness", "key", "size"} =>
              LET td == Edited(c.td, c)
              IN  /\ td \in TrackData
                  /\ td.size = IF c.op = "size" THEN c.val ELSE c.td.size
                  /\ td.key = IF c.op = "key" THEN c.val ELSE c.td.key
                  /\ td.loud = IF c.op = "loudness" THEN c.val ELSE c.td.loud
         /\ c.op \in {"beatgrid", "size"} =>
              LET bd == Edited(c.bd, c)
              IN  /\ bd \in BeatData
                  /\ bd.size = IF c.op = "size" THEN c.val ELSE c.bd.size
                  /\ bd.grid = IF c.op = "beatgrid" THEN c.val ELSE c.bd.grid
<1> USE DEF CallOK
<1>1. CASE c.op = "loudness"
  BY <1>1 DEF Edited, FieldOf, TrackData
<1>2. CASE c.op = "key"
  BY <1>2 DEF Edited, FieldOf, TrackData
<1>3. CASE c.op = "size"
  BY <1>3 DEF Edited, FieldOf, TrackData, BeatData
<1>4. CASE c.op = "beatgrid"
  BY <1>4 DEF Edited, FieldOf, BeatData
<1> QED BY <1>1, <1>2, <1>3, <1>4

WithBlobs(d, i, row) == [d EXCEPT !.p = With(@, i, row)]

(* e is d with this row of blobs for the track i.                          *)
BlobsPutIn(d, i, row, e) ==
  /\ FilesOK(e) /\ e.m = d.m
  /\ DOMAIN e.p = DOMAIN d.p \cup {i}
  /\ i \in DOMAIN d.p => DOMAIN e.p = DOMAIN d.p
  /\ \A j \in DOMAIN d.p \ {i} : e.p[j] = d.p[j]
  /\ e.p[i] = row

LEMMA BlobsPut ==
  ASSUME NEW d, FilesOK(d), NEW i, NEW row \in Performance
  PROVE  BlobsPutIn(d, i, row, WithBlobs(d, i, row))
<1> DEFINE e == WithBlobs(d, i, row)
<1>1. e.m = d.m /\ e.p = With(d.p, i, row) /\ DOMAIN e = Files
  BY DEF WithBlobs, FilesOK, Files
<1> HIDE DEF e
<1>2. /\ DOMAIN e.p = DOMAIN d.p \cup {i} /\ e.p[i] = row
      /\ \A j \in DOMAIN d.p \ {i} : e.p[j] = d.p[j]
  BY <1>1 DEF With
<1>3. FilesOK(e)
  BY <1>1, <1>2 DEF FilesOK
<1>4. BlobsPutIn(d, i, row, e)
  BY <1>1, <1>2, <1>3 DEF BlobsPutIn
<1> QED BY <1>4 DEF e

(* The rows of all tracks but i are the same in d and e. *)
OthersSame(d, e, i) == \A j : j # i => SameRows(d, e, j)

BlobWrittenIn(d, c, step, e) ==
  /\ FilesOK(e) /\ OthersSame(d, e, c.id) /\ SameColumns(d, e, c.id)
  /\ c.id \in DOMAIN d.p /\ c.id \in DOMAIN e.p
  /\ e.p[c.id].of = d.p[c.id].of
  /\ e.p[c.id].td = IF step = "write td" THEN Edited(c.td, c) ELSE d.p[c.id].td
  /\ e.p[c.id].bd = IF step = "write bd" THEN Edited(c.bd, c) ELSE d.p[c.id].bd
  /\ e.p[c.id].wave = IF step = "write wave" THEN IF c.val = 0 THEN NoWave ELSE c.td.size
                                            ELSE d.p[c.id].wave

WaveFittedIn(d, c, e) ==
  /\ FilesOK(e) /\ OthersSame(d, e, c.id) /\ SameColumns(d, e, c.id)
  /\ c.id \in DOMAIN d.p <=> c.id \in DOMAIN e.p
  /\ c.id \in DOMAIN d.p =>
       /\ e.p[c.id].of = d.p[c.id].of
       /\ e.p[c.id].td = d.p[c.id].td
       /\ e.p[c.id].bd = d.p[c.id].bd
       /\ e.p[c.id].wave = IF d.p[c.id].wave = NoWave THEN NoWave ELSE c.val

ColumnWrittenIn(d, c, step, e) ==
  /\ FilesOK(e) /\ OthersSame(d, e, c.id) /\ SameBlobs(d, e, c.id)
  /\ c.id \in DOMAIN d.m <=> c.id \in DOMAIN e.m
  /\ c.id \in DOMAIN d.m =>
       /\ e.m[c.id].of = d.m[c.id].of
       /\ e.m[c.id].key = IF step = "write key" THEN c.val ELSE d.m[c.id].key
       /\ e.m[c.id].len = IF step = "write len" THEN c.val ELSE d.m[c.id].len
       /\ e.m[c.id].bpm = IF step = "write bpm" THEN c.val ELSE d.m[c.id].bpm
       /\ e.m[c.id].analyzed = IF step = "write analyzed" THEN c.val ELSE d.m[c.id].analyzed

(* The row of a call that writes all columns, or all blobs.                *)
NewColumns(g, n, v, row) ==
  row.of = n /\ row.key = v /\ row.bpm = v /\ row.analyzed = v /\ (g = 1 => row.len = v)
NewBlobs(n, v, row) ==
  /\ row.of = n /\ row.td.size = v /\ row.td.key = v /\ row.bd.size = v
  /\ row.wave \in {NoWave, v}

ColumnsPutIn(d, c, e) ==
  /\ FilesOK(e) /\ OthersSame(d, e, c.id) /\ SameBlobs(d, e, c.id)
  /\ c.id \in DOMAIN d.m <=> c.id \in DOMAIN e.m
  /\ c.id \in DOMAIN d.m => NewColumns(Gen, d.m[c.id].of, c.val, e.m[c.id])

DataPutIn(d, c, e) ==
  /\ FilesOK(e) /\ OthersSame(d, e, c.id) /\ SameColumns(d, e, c.id)
  /\ c.id \in DOMAIN d.p <=> c.id \in DOMAIN e.p
  /\ c.id \in DOMAIN d.p => NewBlobs(d.p[c.id].of, c.val, e.p[c.id])

PutIn(d, c, e) ==
  /\ FilesOK(e) /\ OthersSame(d, e, c.id)
  /\ c.id \in DOMAIN d.m <=> c.id \in DOMAIN e.m
  /\ c.id \in DOMAIN d.p <=> c.id \in DOMAIN e.p
  /\ c.id \in DOMAIN d.m => NewColumns(Gen, d.m[c.id].of, c.val, e.m[c.id])
  /\ c.id \in DOMAIN d.p => NewBlobs(d.p[c.id].of, c.val, e.p[c.id])

ReplacedIn(d, c, e) ==
  /\ FilesOK(e) /\ OthersSame(d, e, c.id) /\ SameColumns(d, e, c.id)
  /\ c.id \in DOMAIN e.p /\ NewBlobs(OwnerOf(d, c.id), c.val, e.p[c.id])

InsertedIn(d, c, e) ==
  /\ FilesOK(e) /\ OthersSame(d, e, c.id)
  /\ c.id \in DOMAIN e.m /\ NewColumns(Gen, c.of, c.val, e.m[c.id])
  /\ Gen = 1 => SameBlobs(d, e, c.id)
  /\ Gen # 1 => c.id \in DOMAIN e.p /\ NewBlobs(c.of, IF Gen = 2 THEN c.val ELSE 0, e.p[c.id])

DeletedIn(d, c, e) ==
  /\ FilesOK(e) /\ OthersSame(d, e, c.id) /\ c.id \notin DOMAIN e.m
  /\ c.id \notin DOMAIN e.p \/ SameBlobs(d, e, c.id)

LEMMA BlobWritten ==
  ASSUME NEW d, NEW c, FilesOK(d), CallOK(c), c.id \in DOMAIN d.p,
         NEW step \in {"write td", "write bd", "write wave"},
         step = "write td" => c.op \in {"loudness", "key", "size"},
         step = "write bd" => c.op \in {"beatgrid", "size"}
  PROVE  BlobWrittenIn(d, c, step, Result(d, c, step))
<1> DEFINE old == d.p[c.id]
<1>0. RowFor(d, c.id) = old
  BY DEF RowFor
<1>1. old \in Performance
  BY DEF FilesOK
<1>2. CASE step = "write td"
  <2>1. PICK x : x = Edited(c.td, c) /\ x \in TrackData
    BY <1>2, EditedTyped
  <2>2. PICK new : new = [old EXCEPT !.td = x]
    OBVIOUS
  <2>3. new \in Performance /\ new.of = old.of /\ new.td = x /\ new.bd = old.bd /\ new.wave = old.wave
    BY <1>1, <2>1, <2>2 DEF Performance
  <2>4. Result(d, c, step) = SetBlob(d, c, "td", x)
    BY <1>2, <2>1 DEF Result
  <2>5. Result(d, c, step) = WithBlobs(d, c.id, new)
    BY <1>0, <2>2, <2>4 DEF SetBlob, WithBlobs
  <2> DEFINE e == Result(d, c, step)
  <2> HIDE DEF e
  <2>6. BlobsPutIn(d, c.id, new, e)
    BY <2>3, <2>5, BlobsPut DEF e
  <2>7. OthersSame(d, e, c.id) /\ SameColumns(d, e, c.id)
    BY <2>6 DEF BlobsPutIn, OthersSame, SameColumns, SameBlobs, SameRows
  <2>8. BlobWrittenIn(d, c, step, e)
    BY <1>2, <2>1, <2>3, <2>6, <2>7 DEF BlobsPutIn, BlobWrittenIn
  <2> QED BY <2>8 DEF e
<1>3. CASE step = "write bd"
  <2>1. PICK x : x = Edited(c.bd, c) /\ x \in BeatData
    BY <1>3, EditedTyped
  <2>2. PICK new : new = [old EXCEPT !.bd = x]
    OBVIOUS
  <2>3. new \in Performance /\ new.of = old.of /\ new.td = old.td /\ new.bd = x /\ new.wave = old.wave
    BY <1>1, <2>1, <2>2 DEF Performance
  <2>4. Result(d, c, step) = SetBlob(d, c, "bd", x)
    BY <1>3, <2>1 DEF Result
  <2>5. Result(d, c, step) = WithBlobs(d, c.id, new)
    BY <1>0, <2>2, <2>4 DEF SetBlob, WithBlobs
  <2> DEFINE e == Result(d, c, step)
  <2> HIDE DEF e
  <2>6. BlobsPutIn(d, c.id, new, e)
    BY <2>3, <2>5, BlobsPut DEF e
  <2>7. OthersSame(d, e, c.id) /\ SameColumns(d, e, c.id)
    BY <2>6 DEF BlobsPutIn, OthersSame, SameColumns, SameBlobs, SameRows
  <2>8. BlobWrittenIn(d, c, step, e)
    BY <1>3, <2>1, <2>3, <2>6, <2>7 DEF BlobsPutIn, BlobWrittenIn
  <2> QED BY <2>8 DEF e
<1>4. CASE step = "write wave"
  <2>1. PICK x : x = (IF c.val = 0 THEN NoWave ELSE c.td.size) /\ x \in Values \cup {NoWave}
    BY DEF CallOK, TrackData
  <2>2. PICK new : new = [old EXCEPT !.wave = x]
    OBVIOUS
  <2>3. new \in Performance /\ new.of = old.of /\ new.td = old.td /\ new.bd = old.bd /\ new.wave = x
    BY <1>1, <2>1, <2>2 DEF Performance
  <2>4. Result(d, c, step) = SetBlob(d, c, "wave", x)
    BY <1>4, <2>1 DEF Result
  <2>5. Result(d, c, step) = WithBlobs(d, c.id, new)
    BY <1>0, <2>2, <2>4 DEF SetBlob, WithBlobs
  <2> DEFINE e == Result(d, c, step)
  <2> HIDE DEF e
  <2>6. BlobsPutIn(d, c.id, new, e)
    BY <2>3, <2>5, BlobsPut DEF e
  <2>7. OthersSame(d, e, c.id) /\ SameColumns(d, e, c.id)
    BY <2>6 DEF BlobsPutIn, OthersSame, SameColumns, SameBlobs, SameRows
  <2>8. BlobWrittenIn(d, c, step, e)
    BY <1>4, <2>1, <2>3, <2>6, <2>7 DEF BlobsPutIn, BlobWrittenIn
  <2> QED BY <2>8 DEF e
<1> QED BY <1>2, <1>3, <1>4

LEMMA WaveFitted ==
  ASSUME NEW d, NEW c, FilesOK(d), CallOK(c)
  PROVE  WaveFittedIn(d, c, Result(d, c, "fit wave"))
<1> DEFINE e == Result(d, c, "fit wave")
<1>1. e = FitWave(d, c)
  BY DEF Result
<1>2. CASE c.id \notin DOMAIN d.p
  <2>1. RowFor(d, c.id).wave = NoWave
    BY <1>2 DEF RowFor, NoBlobs, Blobs
  <2>2. e = d
    BY <1>1, <2>1 DEF FitWave
  <2> QED BY <1>2, <2>2 DEF WaveFittedIn, OthersSame, SameRows, SameColumns, SameBlobs
<1>3. CASE c.id \in DOMAIN d.p /\ d.p[c.id].wave = NoWave
  <2>1. RowFor(d, c.id).wave = NoWave
    BY <1>3 DEF RowFor
  <2>2. e = d
    BY <1>1, <2>1 DEF FitWave
  <2> HIDE DEF e
  <2>3. WaveFittedIn(d, c, e)
    BY <1>3, <2>2 DEF WaveFittedIn, OthersSame, SameRows, SameColumns, SameBlobs
  <2> QED BY <2>3 DEF e
<1>4. CASE c.id \in DOMAIN d.p /\ d.p[c.id].wave # NoWave
  <2> DEFINE old == d.p[c.id]
  <2>1. RowFor(d, c.id) = old
    BY <1>4 DEF RowFor
  <2>2. PICK new : new = [old EXCEPT !.wave = c.val]
    OBVIOUS
  <2>3. old \in Performance /\ c.val \in Values
    BY <1>4 DEF FilesOK, CallOK
  <2>4. /\ new \in Performance /\ new.of = old.of
        /\ new.td = old.td /\ new.bd = old.bd /\ new.wave = c.val
    BY <2>2, <2>3 DEF Performance
  <2>5. e = WithBlobs(d, c.id, new)
    BY <1>1, <1>4, <2>1, <2>2 DEF FitWave, SetBlob, WithBlobs
  <2> HIDE DEF e
  <2>6. BlobsPutIn(d, c.id, new, e)
    BY <2>4, <2>5, BlobsPut
  <2>7. OthersSame(d, e, c.id) /\ SameColumns(d, e, c.id)
    BY <2>6 DEF BlobsPutIn, OthersSame, SameColumns, SameBlobs, SameRows
  <2>8. WaveFittedIn(d, c, e)
    BY <1>4, <2>4, <2>6, <2>7 DEF BlobsPutIn, WaveFittedIn
  <2> QED BY <2>8 DEF e
<1> QED BY <1>2, <1>3, <1>4

LEMMA ColumnWritten ==
  ASSUME NEW d, NEW c, FilesOK(d), CallOK(c),
         NEW step \in {"write key", "write len", "write analyzed", "write bpm"}
  PROVE  ColumnWrittenIn(d, c, step, Result(d, c, step))
<1> DEFINE e == Result(d, c, step)
           column == CASE step = "write key" -> "key" [] step = "write len" -> "len"
                       [] step = "write bpm" -> "bpm" [] OTHER -> "analyzed"
<1>1. e = SetTrack(d, c, column)
  BY DEF Result
<1>2. CASE c.id \notin DOMAIN d.m
  <2>1. e = d
    BY <1>1, <1>2 DEF SetTrack
  <2> HIDE DEF e
  <2>2. ColumnWrittenIn(d, c, step, e)
    BY <1>2, <2>1 DEF ColumnWrittenIn, OthersSame, SameRows, SameColumns, SameBlobs
  <2> QED BY <2>2 DEF e
<1>3. CASE c.id \in DOMAIN d.m
  <2> DEFINE row == d.m[c.id]
             row2 == [row EXCEPT ![column] = c.val]
             M == [d.m EXCEPT ![c.id] = row2]
  <2>1. e = [d EXCEPT !.m[c.id][column] = c.val]
    BY <1>1, <1>3 DEF SetTrack
  <2>2. e = [d EXCEPT !.m = M]
    BY <2>1 DEF FilesOK, Files
  <2>3. row \in Track /\ c.val \in Values
    BY <1>3 DEF FilesOK, CallOK
  <2>4. /\ row2 \in Track /\ row2.of = row.of
        /\ row2.key = (IF step = "write key" THEN c.val ELSE row.key)
        /\ row2.len = (IF step = "write len" THEN c.val ELSE row.len)
        /\ row2.bpm = (IF step = "write bpm" THEN c.val ELSE row.bpm)
        /\ row2.analyzed = (IF step = "write analyzed" THEN c.val ELSE row.analyzed)
    <3>1. CASE step = "write key"
      BY <2>3, <3>1 DEF Track
    <3>2. CASE step = "write len"
      BY <2>3, <3>2 DEF Track
    <3>3. CASE step = "write bpm"
      BY <2>3, <3>3 DEF Track
    <3>4. CASE step = "write analyzed"
      BY <2>3, <3>4 DEF Track
    <3> QED BY <3>1, <3>2, <3>3, <3>4
  <2> HIDE DEF e, row2
  <2>5. e.p = d.p /\ e.m = M /\ DOMAIN e = Files
    BY <2>2 DEF FilesOK, Files
  <2>6. DOMAIN e.m = DOMAIN d.m /\ e.m[c.id] = row2 /\ \A j \in DOMAIN d.m \ {c.id} : e.m[j] = d.m[j]
    BY <1>3, <2>5
  <2>7. FilesOK(e)
    BY <2>4, <2>5, <2>6 DEF FilesOK
  <2>8. OthersSame(d, e, c.id) /\ SameBlobs(d, e, c.id)
    BY <2>5, <2>6 DEF OthersSame, SameColumns, SameBlobs, SameRows
  <2>9. ColumnWrittenIn(d, c, step, e)
    BY <1>3, <2>4, <2>6, <2>7, <2>8 DEF ColumnWrittenIn
  <2> QED BY <2>9 DEF e
<1> QED BY <1>2, <1>3

LEMMA ColumnsAreNew ==
  ASSUME NEW n \in 0 .. MaxCalls, NEW v \in Values
  PROVE  NewColumns(Gen, n, v, Columns(n, v))
  BY DEF NewColumns, Columns

LEMMA BlobsAreNew ==
  ASSUME NEW n, NEW v \in Values
  PROVE  NewBlobs(n, v, Blobs(n, v))
  BY DEF NewBlobs, Blobs

LEMMA OwnersTyped ==
  ASSUME NEW d, FilesOK(d), NEW i, NEW v \in Values
  PROVE  /\ i \in DOMAIN d.m => d.m[i].of \in 0 .. MaxCalls
         /\ i \in DOMAIN d.p => d.p[i].of \in Nobody .. MaxCalls
         /\ OwnerOf(d, i) \in Nobody .. MaxCalls
  BY TrackCallsBounds DEF FilesOK, Track, Performance, OwnerOf, Nobody

LEMMA BlobsTyped ==
  ASSUME NEW n \in Nobody .. MaxCalls, NEW v \in Values
  PROVE  Blobs(n, v) \in Performance
  BY TrackCallsValues, TrackCallsBounds
  DEF Blobs, Performance, TrackData, BeatData, NoWave, Nobody

LEMMA ReplacedShape ==
  ASSUME NEW d, NEW c, FilesOK(d), CallOK(c)
  PROVE  ReplacedIn(d, c, Result(d, c, "replace"))
<1>1. PICK row : row = Blobs(OwnerOf(d, c.id), c.val)
  OBVIOUS
<1>2. row \in Performance /\ NewBlobs(OwnerOf(d, c.id), c.val, row)
  BY <1>1, OwnersTyped, BlobsTyped, BlobsAreNew DEF CallOK
<1> DEFINE e == Result(d, c, "replace")
<1>3. e = WithBlobs(d, c.id, row)
  BY <1>1 DEF Result, Replaced, WithBlobs
<1> HIDE DEF e
<1>4. BlobsPutIn(d, c.id, row, e)
  BY <1>2, <1>3, BlobsPut
<1>5. OthersSame(d, e, c.id) /\ SameColumns(d, e, c.id)
  BY <1>4 DEF BlobsPutIn, OthersSame, SameColumns, SameBlobs, SameRows
<1>6. ReplacedIn(d, c, e)
  BY <1>2, <1>4, <1>5 DEF BlobsPutIn, ReplacedIn
<1> QED BY <1>6 DEF e

LEMMA ColumnsPutShape ==
  ASSUME NEW d, NEW c, FilesOK(d), CallOK(c)
  PROVE  ColumnsPutIn(d, c, PutColumns(d, c))
<1> DEFINE e == PutColumns(d, c)
<1>1. CASE c.id \notin DOMAIN d.m
  <2>1. e = d
    BY <1>1 DEF PutColumns
  <2> HIDE DEF e
  <2>2. ColumnsPutIn(d, c, e)
    BY <1>1, <2>1 DEF ColumnsPutIn, OthersSame, SameRows, SameColumns, SameBlobs
  <2> QED BY <2>2 DEF e
<1>2. CASE c.id \in DOMAIN d.m
  <2>1. PICK row : row = Columns(d.m[c.id].of, c.val)
    OBVIOUS
  <2>2. row \in Track /\ NewColumns(Gen, d.m[c.id].of, c.val, row)
    BY <1>2, <2>1, OwnersTyped, NewRowsTyped, ColumnsAreNew DEF CallOK
  <2>3. e = [d EXCEPT !.m = [d.m EXCEPT ![c.id] = row]]
    BY <1>2, <2>1 DEF PutColumns, FilesOK, Files
  <2> HIDE DEF e
  <2>4. e.p = d.p /\ e.m = [d.m EXCEPT ![c.id] = row] /\ DOMAIN e = Files
    BY <2>3 DEF FilesOK, Files
  <2>5. DOMAIN e.m = DOMAIN d.m /\ e.m[c.id] = row /\ \A j \in DOMAIN d.m \ {c.id} : e.m[j] = d.m[j]
    BY <1>2, <2>4
  <2>6. FilesOK(e)
    BY <2>2, <2>4, <2>5 DEF FilesOK
  <2>7. OthersSame(d, e, c.id) /\ SameBlobs(d, e, c.id)
    BY <2>4, <2>5 DEF OthersSame, SameColumns, SameBlobs, SameRows
  <2>8. ColumnsPutIn(d, c, e)
    BY <1>2, <2>2, <2>5, <2>6, <2>7 DEF ColumnsPutIn
  <2> QED BY <2>8 DEF e
<1> QED BY <1>1, <1>2

LEMMA DataPutShape ==
  ASSUME NEW d, NEW c, FilesOK(d), CallOK(c)
  PROVE  DataPutIn(d, c, PutData(d, c))
<1> DEFINE e == PutData(d, c)
<1>1. CASE c.id \notin DOMAIN d.p
  <2>1. e = d
    BY <1>1 DEF PutData
  <2> HIDE DEF e
  <2>2. DataPutIn(d, c, e)
    BY <1>1, <2>1 DEF DataPutIn, OthersSame, SameRows, SameColumns, SameBlobs
  <2> QED BY <2>2 DEF e
<1>2. CASE c.id \in DOMAIN d.p
  <2>1. PICK row : row = Blobs(d.p[c.id].of, c.val)
    OBVIOUS
  <2>2. row \in Performance /\ NewBlobs(d.p[c.id].of, c.val, row)
    BY <1>2, <2>1, OwnersTyped, BlobsTyped, BlobsAreNew DEF CallOK
  <2>3. e = [d EXCEPT !.p = [d.p EXCEPT ![c.id] = row]]
    BY <1>2, <2>1 DEF PutData, FilesOK, Files
  <2> HIDE DEF e
  <2>4. e.m = d.m /\ e.p = [d.p EXCEPT ![c.id] = row] /\ DOMAIN e = Files
    BY <2>3 DEF FilesOK, Files
  <2>5. DOMAIN e.p = DOMAIN d.p /\ e.p[c.id] = row /\ \A j \in DOMAIN d.p \ {c.id} : e.p[j] = d.p[j]
    BY <1>2, <2>4
  <2>6. FilesOK(e)
    BY <2>2, <2>4, <2>5 DEF FilesOK
  <2>7. OthersSame(d, e, c.id) /\ SameColumns(d, e, c.id)
    BY <2>4, <2>5 DEF OthersSame, SameColumns, SameBlobs, SameRows
  <2>8. DataPutIn(d, c, e)
    BY <1>2, <2>2, <2>5, <2>6, <2>7 DEF DataPutIn
  <2> QED BY <2>8 DEF e
<1> QED BY <1>1, <1>2

LEMMA PutShape ==
  ASSUME NEW d, NEW c, FilesOK(d), CallOK(c)
  PROVE  /\ ColumnsPutIn(d, c, Result(d, c, "put columns"))
         /\ DataPutIn(d, c, Result(d, c, "put data"))
         /\ PutIn(d, c, Result(d, c, "put"))
<1>1. Result(d, c, "put columns") = PutColumns(d, c) /\ Result(d, c, "put data") = PutData(d, c)
  BY DEF Result
<1>2. PICK e : e = PutColumns(d, c)
  OBVIOUS
<1>3. PICK f : f = PutData(e, c)
  OBVIOUS
<1>4. Result(d, c, "put") = f
  BY <1>2, <1>3 DEF Result
<1>5. ColumnsPutIn(d, c, e)
  BY <1>2, ColumnsPutShape
<1>6. FilesOK(e)
  BY <1>5 DEF ColumnsPutIn
<1>7. DataPutIn(e, c, f)
  BY <1>3, <1>6, DataPutShape
<1>8. FilesOK(f) /\ OthersSame(d, f, c.id)
  BY <1>5, <1>7 DEF ColumnsPutIn, DataPutIn, OthersSame, SameRows, SameColumns, SameBlobs
<1>9. PutIn(d, c, f)
  BY <1>5, <1>7, <1>8 DEF PutIn, ColumnsPutIn, DataPutIn, SameColumns, SameBlobs
<1> QED BY <1>1, <1>4, <1>9, ColumnsPutShape, DataPutShape

LEMMA InsertedShape ==
  ASSUME NEW d, NEW c, FilesOK(d), CallOK(c), Gen \in 1 .. 3
  PROVE  InsertedIn(d, c, Result(d, c, "insert"))
<1>1. PICK row : row = Columns(c.of, c.val)
  OBVIOUS
<1>2. row \in Track /\ NewColumns(Gen, c.of, c.val, row)
  BY <1>1, NewRowsTyped, ColumnsAreNew DEF CallOK
<1>3. PICK v \in Values : v = IF Gen = 2 THEN c.val ELSE 0
  BY TrackCallsValues DEF CallOK
<1>4. PICK blobs : blobs = Blobs(c.of, v)
  OBVIOUS
<1>5. blobs \in Performance /\ NewBlobs(c.of, v, blobs)
  BY <1>4, NewRowsTyped, BlobsAreNew DEF CallOK
<1> DEFINE e == Result(d, c, "insert")
<1>6. e = [m |-> With(d.m, c.id, row), p |-> IF Gen = 1 THEN d.p ELSE With(d.p, c.id, blobs)]
  BY <1>1, <1>3, <1>4 DEF Result, Inserted
<1> HIDE DEF e
<1>7. DOMAIN e = Files /\ e.m = With(d.m, c.id, row) /\ e.p = IF Gen = 1 THEN d.p ELSE With(d.p, c.id, blobs)
  BY <1>6 DEF Files
<1>8. /\ DOMAIN e.m = DOMAIN d.m \cup {c.id} /\ e.m[c.id] = row
      /\ \A j \in DOMAIN d.m \ {c.id} : e.m[j] = d.m[j]
  BY <1>7 DEF With
<1>9. CASE Gen = 1
  <2>1. e.p = d.p
    BY <1>7, <1>9
  <2>2. FilesOK(e)
    BY <1>2, <1>7, <1>8, <2>1 DEF FilesOK
  <2>3. OthersSame(d, e, c.id) /\ SameBlobs(d, e, c.id)
    BY <1>8, <2>1 DEF OthersSame, SameColumns, SameBlobs, SameRows
  <2>4. InsertedIn(d, c, e)
    BY <1>2, <1>8, <1>9, <2>2, <2>3 DEF InsertedIn
  <2> QED BY <2>4 DEF e
<1>10. CASE Gen # 1
  <2>1. e.p = With(d.p, c.id, blobs)
    BY <1>7, <1>10
  <2>2. /\ DOMAIN e.p = DOMAIN d.p \cup {c.id} /\ e.p[c.id] = blobs
        /\ \A j \in DOMAIN d.p \ {c.id} : e.p[j] = d.p[j]
    BY <2>1 DEF With
  <2>3. FilesOK(e)
    BY <1>2, <1>5, <1>7, <1>8, <2>2 DEF FilesOK
  <2>4. OthersSame(d, e, c.id)
    BY <1>8, <2>2 DEF OthersSame, SameColumns, SameBlobs, SameRows
  <2>5. InsertedIn(d, c, e)
    BY <1>2, <1>3, <1>5, <1>8, <1>10, <2>2, <2>3, <2>4 DEF InsertedIn
  <2> QED BY <2>5 DEF e
<1> QED BY <1>9, <1>10

LEMMA DeletedShape ==
  ASSUME NEW d, NEW c, FilesOK(d)
  PROVE  DeletedIn(d, c, Deleted(d, c))
<1> DEFINE e == Deleted(d, c)
<1>1. /\ DOMAIN e = Files /\ e.m = Without(d.m, c.id)
      /\ e.p = d.p \/ e.p = Without(d.p, c.id)
  BY DEF Deleted, Files
<1> HIDE DEF e
<1>2. DOMAIN e.m = DOMAIN d.m \ {c.id} /\ \A j \in DOMAIN d.m \ {c.id} : e.m[j] = d.m[j]
  BY <1>1 DEF Without
<1>3. CASE e.p = d.p
  <2>1. FilesOK(e)
    BY <1>1, <1>2, <1>3 DEF FilesOK
  <2>2. OthersSame(d, e, c.id) /\ SameBlobs(d, e, c.id)
    BY <1>2, <1>3 DEF OthersSame, SameColumns, SameBlobs, SameRows
  <2>3. DeletedIn(d, c, e)
    BY <1>2, <2>1, <2>2 DEF DeletedIn
  <2> QED BY <2>3 DEF e
<1>4. CASE e.p = Without(d.p, c.id)
  <2>1. DOMAIN e.p = DOMAIN d.p \ {c.id} /\ \A j \in DOMAIN d.p \ {c.id} : e.p[j] = d.p[j]
    BY <1>4 DEF Without
  <2>2. FilesOK(e)
    BY <1>1, <1>2, <2>1 DEF FilesOK
  <2>3. OthersSame(d, e, c.id)
    BY <1>2, <2>1 DEF OthersSame, SameColumns, SameBlobs, SameRows
  <2>4. DeletedIn(d, c, e)
    BY <1>2, <2>1, <2>2, <2>3 DEF DeletedIn
  <2> QED BY <2>4 DEF e
<1> QED BY <1>1, <1>3, <1>4

-----------------------------------------------------------------------------
(* What a call that has done the statements done makes of its track i: it  *)
(* has read what is still there, and where it has written is its value.    *)

BlobsStaged(g, c, done, row) ==
  /\ "read td" \in done /\ "write td" \notin done => c.td = row.td
  /\ "read bd" \in done /\ "write bd" \notin done => c.bd = row.bd
  /\ SizeInTd(c.op, done) => row.td.size = c.val
  /\ SizeInBd(c.op, done) => row.bd.size = c.val
  /\ (SizeInTd(c.op, done) <=> SizeInBd(c.op, done)) => row.td.size = row.bd.size
  /\ g = 1 /\ ~Waveless(c.op, done) => row.wave \in {NoWave, row.td.size}

ColumnsStaged(g, c, done, row) ==
  /\ KeyInColumns(done) => row.key = c.val
  /\ g = 1 /\ LenInColumns(done) => row.len = c.val

BothStaged(g, c, done, columns, blobs, calm) ==
  /\ KeyInBlob(g, c.op, done) /\ (g = 1 \/ calm) => blobs.td.key = c.val
  /\ calm /\ ~KeyInColumns(done) /\ ~KeyInBlob(g, c.op, done) => columns.key = blobs.td.key
  /\ g = 1 /\ calm /\ ~LenInColumns(done) /\ ~SizeInTd(c.op, done) => columns.len = blobs.td.size

BlobPart(g, c, done, d, calm) ==
  c.id \in DOMAIN d.p /\ ~Unseen(g, c.op, done) /\ (g = 1 \/ calm) =>
    BlobsStaged(g, c, done, d.p[c.id])
ColumnPart(g, c, done, d, calm) ==
  c.id \in DOMAIN d.m /\ (g = 1 \/ calm) => ColumnsStaged(g, c, done, d.m[c.id])
OwnPart(g, c, done, d, calm) ==
  c.id \in DOMAIN d.m /\ ~Unseen(g, c.op, done) /\ (calm \/ "replace" \in done) =>
    c.id \in DOMAIN d.p /\ d.p[c.id].of = d.m[c.id].of
BothPart(g, c, done, d, calm) ==
  c.id \in DOMAIN d.m /\ c.id \in DOMAIN d.p /\ ~Unseen(g, c.op, done) =>
    BothStaged(g, c, done, d.m[c.id], d.p[c.id], calm)

Staged(g, c, done, d, calm) ==
  /\ BlobPart(g, c, done, d, calm) /\ ColumnPart(g, c, done, d, calm)
  /\ OwnPart(g, c, done, d, calm) /\ BothPart(g, c, done, d, calm)

(* The rows of the track i agree, if nobody is halfway through a call on it. *)
RowAgrees(g, d, i, calm) ==
  /\ i \in DOMAIN d.p =>
       /\ g = 1 \/ calm => d.p[i].td.size = d.p[i].bd.size
       /\ g = 1 => d.p[i].wave \in {NoWave, d.p[i].td.size}
  /\ i \in DOMAIN d.m /\ calm =>
       /\ i \in DOMAIN d.p /\ d.p[i].of = d.m[i].of
       /\ d.m[i].key = d.p[i].td.key
       /\ g = 1 => d.m[i].len = d.p[i].td.size

Alike(c, e) == c.op = e.op /\ c.id = e.id /\ c.val = e.val /\ c.td = e.td /\ c.bd = e.bd

LEMMA StagedAlike ==
  ASSUME NEW g, NEW c, NEW e, Alike(c, e), NEW done, NEW d, NEW calm, Staged(g, c, done, d, calm)
  PROVE  Staged(g, e, done, d, calm)
<1>1. \A row : BlobsStaged(g, c, done, row) => BlobsStaged(g, e, done, row)
  BY DEF Alike, BlobsStaged
<1>2. \A row : ColumnsStaged(g, c, done, row) => ColumnsStaged(g, e, done, row)
  BY DEF Alike, ColumnsStaged
<1>3. \A m, p : BothStaged(g, c, done, m, p, calm) => BothStaged(g, e, done, m, p, calm)
  BY DEF Alike, BothStaged
<1> QED BY <1>1, <1>2, <1>3 DEF Alike, Staged, BlobPart, ColumnPart, OwnPart, BothPart

LEMMA StagedSameRows ==
  ASSUME NEW g, NEW c, NEW done, NEW d, NEW e, SameRows(d, e, c.id), NEW calm, Staged(g, c, done, d, calm)
  PROVE  Staged(g, c, done, e, calm)
  BY DEF SameRows, SameColumns, SameBlobs, Staged, BlobPart, ColumnPart, OwnPart, BothPart

LEMMA StagedLessCalm ==
  ASSUME NEW g, NEW c, NEW done, NEW d, NEW calm, NEW calm2, calm2 => calm, Staged(g, c, done, d, calm)
  PROVE  Staged(g, c, done, d, calm2)
  BY DEF Staged, BlobPart, ColumnPart, OwnPart, BothPart, BothStaged

(* Where the rows agree, a call may begin.                                 *)
LEMMA StagedAtFirst ==
  ASSUME NEW g, NEW c, NEW d, NEW calm, RowAgrees(g, d, c.id, calm)
  PROVE  Staged(g, c, {}, d, calm)
  BY DEF RowAgrees, Staged, BlobPart, ColumnPart, OwnPart, BothPart, BlobsStaged, ColumnsStaged, BothStaged,
         SizeInTd, SizeInBd, Waveless, KeyInColumns, KeyInBlob, LenInColumns

(* Where all is written, the rows agree.                                   *)
LEMMA StagedAtLast ==
  ASSUME NEW g, NEW c, NEW done, Complete(g, c.op, done), NEW d, NEW calm, NEW calm2,
         Staged(g, c, done, d, calm), (calm2 => calm) \/ (g = 1 /\ c.op = "create")
  PROVE  RowAgrees(g, d, c.id, calm2)
<1>1. c.id \in DOMAIN d.p =>
       /\ g = 1 \/ calm2 => d.p[c.id].td.size = d.p[c.id].bd.size
       /\ g = 1 => d.p[c.id].wave \in {NoWave, d.p[c.id].td.size}
  BY DEF Complete, Staged, BlobPart, BlobsStaged
<1>2. c.id \in DOMAIN d.m /\ calm2 => c.id \in DOMAIN d.p /\ d.p[c.id].of = d.m[c.id].of
  BY DEF Complete, Staged, OwnPart
<1>3. c.id \in DOMAIN d.m /\ calm2 => d.m[c.id].key = d.p[c.id].td.key
  BY <1>2 DEF Complete, Staged, ColumnPart, BothPart, ColumnsStaged, BothStaged
<1>4. c.id \in DOMAIN d.m /\ calm2 /\ g = 1 => d.m[c.id].len = d.p[c.id].td.size
  <2>1. CASE LenInColumns(done)
    BY <1>2, <2>1 DEF Complete, Staged, ColumnPart, BlobPart, ColumnsStaged, BlobsStaged
  <2>2. CASE ~LenInColumns(done)
    <3>1. g = 1 => c.op # "create"
      BY <2>2 DEF Complete, SizeInTd
    <3> QED BY <1>2, <2>2, <3>1 DEF Complete, Staged, BothPart, BothStaged
  <2> QED BY <2>1, <2>2
<1> QED BY <1>1, <1>2, <1>3, <1>4 DEF RowAgrees

(* What a statement leaves as it was.                                      *)
LEMMA ColumnPartKept ==
  ASSUME NEW g, NEW c, NEW done, NEW after, NEW d, NEW e, NEW calm,
         ColumnPart(g, c, done, d, calm),
         KeyInColumns(after) => KeyInColumns(done), LenInColumns(after) => LenInColumns(done),
         SameColumns(d, e, c.id)
  PROVE  ColumnPart(g, c, after, e, calm)
  BY DEF ColumnPart, ColumnsStaged, SameColumns

LEMMA BothPartKept ==
  ASSUME NEW g, NEW c, NEW done, NEW after, NEW d, NEW e, NEW calm,
         BothPart(g, c, done, d, calm),
         Unseen(g, c.op, done) => Unseen(g, c.op, after),
         KeyInBlob(g, c.op, after) <=> KeyInBlob(g, c.op, done),
         KeyInColumns(done) => KeyInColumns(after), LenInColumns(done) => LenInColumns(after),
         SizeInTd(c.op, done) => SizeInTd(c.op, after),
         c.id \in DOMAIN e.m => /\ c.id \in DOMAIN d.m
                                /\ KeyInColumns(after) \/ e.m[c.id].key = d.m[c.id].key
                                /\ LenInColumns(after) \/ e.m[c.id].len = d.m[c.id].len,
         c.id \in DOMAIN e.p => /\ c.id \in DOMAIN d.p
                                /\ e.p[c.id].td.key = d.p[c.id].td.key
                                /\ SizeInTd(c.op, after) \/ e.p[c.id].td.size = d.p[c.id].td.size
  PROVE  BothPart(g, c, after, e, calm)
  BY DEF BothPart, BothStaged

LEMMA BlobPartKept ==
  ASSUME NEW g, NEW c, NEW done, NEW after, NEW d, NEW e, NEW calm,
         BlobPart(g, c, done, d, calm),
         Unseen(g, c.op, done) => Unseen(g, c.op, after),
         SizeInTd(c.op, after) <=> SizeInTd(c.op, done),
         SizeInBd(c.op, after) <=> SizeInBd(c.op, done),
         Waveless(c.op, done) => Waveless(c.op, after),
         "read td" \in after /\ "write td" \notin after => "read td" \in done /\ "write td" \notin done,
         "read bd" \in after /\ "write bd" \notin after => "read bd" \in done /\ "write bd" \notin done,
         SameBlobs(d, e, c.id)
  PROVE  BlobPart(g, c, after, e, calm)
  BY DEF BlobPart, BlobsStaged, SameBlobs

LEMMA StagedByRead ==
  ASSUME NEW g, NEW c, NEW done, NEW d, NEW calm, Staged(g, c, done, d, calm),
         NEW step \in Reads, NEW e, e.op = c.op, e.id = c.id, e.val = c.val,
         e.td = IF step = "read td" THEN RowFor(d, c.id).td ELSE c.td,
         e.bd = IF step = "read bd" THEN RowFor(d, c.id).bd ELSE c.bd
  PROVE  Staged(g, e, done \cup {step}, d, calm)
<1> DEFINE after == done \cup {step}
<1>1. /\ SizeInTd(c.op, after) <=> SizeInTd(c.op, done)
      /\ SizeInBd(c.op, after) <=> SizeInBd(c.op, done)
      /\ Waveless(c.op, after) <=> Waveless(c.op, done)
      /\ KeyInColumns(after) <=> KeyInColumns(done)
      /\ KeyInBlob(g, c.op, after) <=> KeyInBlob(g, c.op, done)
      /\ LenInColumns(after) <=> LenInColumns(done)
      /\ Unseen(g, c.op, after) <=> Unseen(g, c.op, done)
      /\ "replace" \in after <=> "replace" \in done
      /\ "write td" \in after <=> "write td" \in done
      /\ "write bd" \in after <=> "write bd" \in done
      /\ "read td" \in after <=> "read td" \in done \/ step = "read td"
      /\ "read bd" \in after <=> "read bd" \in done \/ step = "read bd"
  BY DEF Reads, SizeInTd, SizeInBd, Waveless, KeyInColumns, KeyInBlob, LenInColumns, Unseen
<1> HIDE DEF after
<1>2. /\ BlobPart(g, c, done, d, calm) /\ ColumnPart(g, c, done, d, calm)
      /\ OwnPart(g, c, done, d, calm) /\ BothPart(g, c, done, d, calm)
  BY DEF Staged
<1>3. BlobPart(g, e, after, d, calm)
  BY <1>1, <1>2 DEF BlobPart, BlobsStaged, RowFor
<1>4. ColumnPart(g, e, after, d, calm)
  BY <1>1, <1>2 DEF ColumnPart, ColumnsStaged
<1>5. OwnPart(g, e, after, d, calm)
  BY <1>1, <1>2 DEF OwnPart
<1>7. BothPart(g, c, after, d, calm)
  <2>1. BothPart(g, c, done, d, calm)
    BY <1>2
  <2> QED BY ONLY <1>1, <2>1, BothPartKept
<1>8. BothPart(g, e, after, d, calm)
  <2>1. \A m, p : BothStaged(g, c, after, m, p, calm) => BothStaged(g, e, after, m, p, calm)
    BY DEF BothStaged
  <2> QED BY <1>7, <2>1 DEF BothPart
<1>6. Staged(g, e, after, d, calm)
  BY <1>3, <1>4, <1>5, <1>8 DEF Staged
<1> QED BY <1>6 DEF after

LEMMA StagedByTrackData ==
  ASSUME NEW g, NEW c, NEW done, NEW d, NEW calm, Staged(g, c, done, d, calm), CallOK(c),
         NEW last, InOrder(g, c.op, "write td", done, last),
         NEW e, BlobWrittenIn(d, c, "write td", e)
  PROVE  Staged(g, c, done \cup {"write td"}, e, calm)
<1> DEFINE after == done \cup {"write td"}
<1>1. c.op \in {"loudness", "key", "size"} /\ "read td" \in done /\ "fit wave" \notin done
      /\ "write td" \notin done /\ "replace" \notin done
  BY DEF InOrder
<1>2. /\ SizeInTd(c.op, after) <=> c.op = "size"
      /\ SizeInBd(c.op, after) <=> SizeInBd(c.op, done)
      /\ Waveless(c.op, after) <=> c.op = "size"
      /\ KeyInColumns(after) <=> KeyInColumns(done)
      /\ KeyInBlob(g, c.op, after) <=> KeyInBlob(g, c.op, done) \/ c.op = "key"
      /\ LenInColumns(after) <=> LenInColumns(done)
      /\ ~Unseen(g, c.op, after) /\ ~Unseen(g, c.op, done)
      /\ ~SizeInTd(c.op, done) /\ ~Waveless(c.op, done)
      /\ "replace" \notin after
      /\ "write td" \in after
      /\ "write bd" \in after <=> "write bd" \in done
      /\ "read bd" \in after <=> "read bd" \in done
  BY <1>1 DEF SizeInTd, SizeInBd, Waveless, KeyInColumns, KeyInBlob, LenInColumns, Unseen
<1>3. /\ BlobPart(g, c, done, d, calm) /\ ColumnPart(g, c, done, d, calm)
      /\ OwnPart(g, c, done, d, calm) /\ BothPart(g, c, done, d, calm)
  BY DEF Staged
<1>4. /\ c.id \in DOMAIN d.p /\ c.id \in DOMAIN e.p /\ SameColumns(d, e, c.id)
      /\ e.p[c.id].of = d.p[c.id].of
      /\ e.p[c.id].bd = d.p[c.id].bd /\ e.p[c.id].wave = d.p[c.id].wave
      /\ e.p[c.id].td.size = IF c.op = "size" THEN c.val ELSE c.td.size
      /\ e.p[c.id].td.key = IF c.op = "key" THEN c.val ELSE c.td.key
  BY <1>1, EditedTyped DEF BlobWrittenIn
<1> HIDE DEF after
<1>5. ASSUME g = 1 \/ calm PROVE c.td = d.p[c.id].td
  BY <1>1, <1>2, <1>3, <1>4, <1>5 DEF BlobPart, BlobsStaged
<1>6. BlobPart(g, c, after, e, calm)
  <2> SUFFICES ASSUME g = 1 \/ calm PROVE BlobsStaged(g, c, after, e.p[c.id])
    BY DEF BlobPart
  <2>1. BlobsStaged(g, c, done, d.p[c.id])
    BY <1>2, <1>3, <1>4 DEF BlobPart
  <2>2. CASE c.op = "size"
    <3>1. /\ "read bd" \in done /\ "write bd" \notin done => c.bd = d.p[c.id].bd
          /\ SizeInBd(c.op, done) => d.p[c.id].bd.size = c.val
      BY <2>1 DEF BlobsStaged
    <3>2. /\ "read bd" \in after /\ "write bd" \notin after => c.bd = e.p[c.id].bd
          /\ SizeInBd(c.op, after) => e.p[c.id].bd.size = c.val
      BY <1>2, <1>4, <3>1
    <3>3. e.p[c.id].td.size = c.val
      BY <1>4, <2>2
    <3> QED BY <1>2, <2>2, <3>2, <3>3 DEF BlobsStaged
  <2>3. CASE c.op # "size"
    <3>1. e.p[c.id].td.size = d.p[c.id].td.size
      BY <1>4, <1>5, <2>3
    <3>2. /\ "read bd" \in done /\ "write bd" \notin done => c.bd = d.p[c.id].bd
          /\ SizeInBd(c.op, done) => d.p[c.id].bd.size = c.val
          /\ ~SizeInBd(c.op, done) => d.p[c.id].td.size = d.p[c.id].bd.size
          /\ g = 1 => d.p[c.id].wave \in {NoWave, d.p[c.id].td.size}
      BY <1>2, <2>1 DEF BlobsStaged
    <3>3. /\ "read bd" \in after /\ "write bd" \notin after => c.bd = e.p[c.id].bd
          /\ SizeInBd(c.op, after) => e.p[c.id].bd.size = c.val
          /\ ~SizeInBd(c.op, after) => e.p[c.id].td.size = e.p[c.id].bd.size
          /\ g = 1 => e.p[c.id].wave \in {NoWave, e.p[c.id].td.size}
      BY <1>2, <1>4, <3>1, <3>2
    <3> QED BY <1>2, <2>3, <3>3 DEF BlobsStaged
  <2> QED BY <2>2, <2>3
<1>7. ColumnPart(g, c, after, e, calm)
  <2>1. ColumnPart(g, c, done, d, calm) /\ SameColumns(d, e, c.id)
    BY <1>3, <1>4
  <2> QED BY ONLY <1>2, <2>1, ColumnPartKept
<1>8. OwnPart(g, c, after, e, calm)
  BY <1>2, <1>3, <1>4 DEF OwnPart, SameColumns
<1>9. BothPart(g, c, after, e, calm)
  <2>1. CASE c.op = "key"
    <3>1. e.p[c.id].td.key = c.val /\ (g = 1 => e.p[c.id].td.size = d.p[c.id].td.size)
      BY <1>4, <1>5, <2>1
    <3> QED BY <1>2, <1>3, <1>4, <2>1, <3>1 DEF BothPart, BothStaged, SameColumns
  <2>2. CASE c.op # "key"
    <3>1. g = 1 \/ calm => e.p[c.id].td.key = d.p[c.id].td.key
      BY <1>4, <1>5, <2>2
    <3>2. c.op # "size" /\ g = 1 => e.p[c.id].td.size = d.p[c.id].td.size
      BY <1>4, <1>5
    <3> QED BY <1>2, <1>3, <1>4, <2>2, <3>1, <3>2 DEF BothPart, BothStaged, SameColumns
  <2> QED BY <2>1, <2>2
<1> QED BY <1>6, <1>7, <1>8, <1>9 DEF Staged, after

LEMMA StagedByBeatData ==
  ASSUME NEW g, NEW c, NEW done, NEW d, NEW calm, Staged(g, c, done, d, calm), CallOK(c),
         NEW last, InOrder(g, c.op, "write bd", done, last),
         NEW e, BlobWrittenIn(d, c, "write bd", e)
  PROVE  Staged(g, c, done \cup {"write bd"}, e, calm)
<1> DEFINE after == done \cup {"write bd"}
<1>1. c.op \in {"beatgrid", "size"} /\ "read bd" \in done
      /\ "write bd" \notin done /\ "replace" \notin done
  BY DEF InOrder
<1>2. /\ SizeInTd(c.op, after) <=> SizeInTd(c.op, done)
      /\ SizeInBd(c.op, after) <=> c.op = "size"
      /\ Waveless(c.op, after) <=> Waveless(c.op, done)
      /\ KeyInColumns(after) <=> KeyInColumns(done)
      /\ KeyInBlob(g, c.op, after) <=> KeyInBlob(g, c.op, done)
      /\ LenInColumns(after) <=> LenInColumns(done)
      /\ ~Unseen(g, c.op, after) /\ ~Unseen(g, c.op, done)
      /\ ~SizeInBd(c.op, done)
      /\ c.op = "beatgrid" => ~SizeInTd(c.op, done)
      /\ "replace" \notin after
      /\ "write bd" \in after
      /\ "write td" \in after <=> "write td" \in done
      /\ "read td" \in after <=> "read td" \in done
  BY <1>1 DEF SizeInTd, SizeInBd, Waveless, KeyInColumns, KeyInBlob, LenInColumns, Unseen
<1>3. /\ BlobPart(g, c, done, d, calm) /\ ColumnPart(g, c, done, d, calm)
      /\ OwnPart(g, c, done, d, calm) /\ BothPart(g, c, done, d, calm)
  BY DEF Staged
<1>4. /\ c.id \in DOMAIN d.p /\ c.id \in DOMAIN e.p /\ SameColumns(d, e, c.id)
      /\ e.p[c.id].of = d.p[c.id].of
      /\ e.p[c.id].td = d.p[c.id].td /\ e.p[c.id].wave = d.p[c.id].wave
      /\ e.p[c.id].bd.size = IF c.op = "size" THEN c.val ELSE c.bd.size
  BY <1>1, EditedTyped DEF BlobWrittenIn
<1> HIDE DEF after
<1>5. ASSUME g = 1 \/ calm PROVE c.bd = d.p[c.id].bd
  BY <1>1, <1>2, <1>3, <1>4, <1>5 DEF BlobPart, BlobsStaged
<1>6. BlobPart(g, c, after, e, calm)
  <2> SUFFICES ASSUME g = 1 \/ calm PROVE BlobsStaged(g, c, after, e.p[c.id])
    BY DEF BlobPart
  <2>1. BlobsStaged(g, c, done, d.p[c.id])
    BY <1>2, <1>3, <1>4 DEF BlobPart
  <2>2. c.op = "size" => e.p[c.id].bd.size = c.val
    BY <1>4
  <2>3. c.op # "size" => e.p[c.id].bd.size = d.p[c.id].bd.size
    BY <1>4, <1>5
  <2>4. /\ "read td" \in done /\ "write td" \notin done => c.td = d.p[c.id].td
        /\ SizeInTd(c.op, done) => d.p[c.id].td.size = c.val
        /\ ~SizeInTd(c.op, done) => d.p[c.id].td.size = d.p[c.id].bd.size
        /\ g = 1 /\ ~Waveless(c.op, done) => d.p[c.id].wave \in {NoWave, d.p[c.id].td.size}
    BY <1>2, <2>1 DEF BlobsStaged
  <2>5. /\ "read td" \in after /\ "write td" \notin after => c.td = e.p[c.id].td
        /\ SizeInTd(c.op, after) => e.p[c.id].td.size = c.val
        /\ g = 1 /\ ~Waveless(c.op, after) => e.p[c.id].wave \in {NoWave, e.p[c.id].td.size}
    BY <1>2, <1>4, <2>4
  <2>6. c.op # "size" => e.p[c.id].td.size = e.p[c.id].bd.size
    BY <1>1, <1>2, <1>4, <2>3, <2>4
  <2> QED BY <1>1, <1>2, <2>2, <2>5, <2>6 DEF BlobsStaged
<1>7. ColumnPart(g, c, after, e, calm)
  <2>1. ColumnPart(g, c, done, d, calm) /\ SameColumns(d, e, c.id)
    BY <1>3, <1>4
  <2> QED BY ONLY <1>2, <2>1, ColumnPartKept
<1>8. OwnPart(g, c, after, e, calm)
  BY <1>2, <1>3, <1>4 DEF OwnPart, SameColumns
<1>9. BothPart(g, c, after, e, calm)
  BY <1>2, <1>3, <1>4 DEF BothPart, BothStaged, SameColumns
<1> QED BY <1>6, <1>7, <1>8, <1>9 DEF Staged, after

LEMMA StagedByWave ==
  ASSUME NEW g, NEW c, NEW done, NEW d, NEW calm, Staged(g, c, done, d, calm), CallOK(c),
         NEW last, InOrder(g, c.op, "write wave", done, last),
         NEW e, BlobWrittenIn(d, c, "write wave", e)
  PROVE  Staged(g, c, done \cup {"write wave"}, e, calm)
<1> DEFINE after == done \cup {"write wave"}
<1>1. c.op = "waveform" /\ "read td" \in done /\ "write td" \notin done /\ "replace" \notin done
  BY DEF InOrder
<1>2. /\ ~SizeInTd(c.op, after) /\ ~SizeInBd(c.op, after) /\ ~Waveless(c.op, after)
      /\ ~SizeInTd(c.op, done) /\ ~SizeInBd(c.op, done) /\ ~Waveless(c.op, done)
      /\ KeyInColumns(after) <=> KeyInColumns(done)
      /\ KeyInBlob(g, c.op, after) <=> KeyInBlob(g, c.op, done)
      /\ LenInColumns(after) <=> LenInColumns(done)
      /\ ~Unseen(g, c.op, after) /\ ~Unseen(g, c.op, done)
      /\ "replace" \notin after
      /\ "write bd" \in after <=> "write bd" \in done
      /\ "read bd" \in after <=> "read bd" \in done
  BY <1>1 DEF SizeInTd, SizeInBd, Waveless, KeyInColumns, KeyInBlob, LenInColumns, Unseen
<1>3. /\ BlobPart(g, c, done, d, calm) /\ ColumnPart(g, c, done, d, calm)
      /\ OwnPart(g, c, done, d, calm) /\ BothPart(g, c, done, d, calm)
  BY DEF Staged
<1>4. /\ c.id \in DOMAIN d.p /\ c.id \in DOMAIN e.p /\ SameColumns(d, e, c.id)
      /\ e.p[c.id].of = d.p[c.id].of
      /\ e.p[c.id].td = d.p[c.id].td /\ e.p[c.id].bd = d.p[c.id].bd
      /\ e.p[c.id].wave \in {NoWave, c.td.size}
  BY DEF BlobWrittenIn
<1> HIDE DEF after
<1>5. ASSUME g = 1 \/ calm PROVE c.td = d.p[c.id].td
  BY <1>1, <1>2, <1>3, <1>4, <1>5 DEF BlobPart, BlobsStaged
<1>6. BlobPart(g, c, after, e, calm)
  <2> SUFFICES ASSUME g = 1 \/ calm PROVE BlobsStaged(g, c, after, e.p[c.id])
    BY DEF BlobPart
  <2>1. BlobsStaged(g, c, done, d.p[c.id])
    BY <1>2, <1>3, <1>4 DEF BlobPart
  <2> QED BY <1>2, <1>4, <1>5, <2>1 DEF BlobsStaged
<1>7. ColumnPart(g, c, after, e, calm)
  <2>1. ColumnPart(g, c, done, d, calm) /\ SameColumns(d, e, c.id)
    BY <1>3, <1>4
  <2> QED BY ONLY <1>2, <2>1, ColumnPartKept
<1>8. OwnPart(g, c, after, e, calm)
  BY <1>2, <1>3, <1>4 DEF OwnPart, SameColumns
<1>9. BothPart(g, c, after, e, calm)
  BY <1>2, <1>3, <1>4 DEF BothPart, BothStaged, SameColumns
<1> QED BY <1>6, <1>7, <1>8, <1>9 DEF Staged, after

LEMMA StagedByFit ==
  ASSUME NEW g, NEW c, NEW done, NEW d, NEW calm, Staged(g, c, done, d, calm), CallOK(c),
         NEW last, InOrder(g, c.op, "fit wave", done, last),
         NEW e, WaveFittedIn(d, c, e)
  PROVE  Staged(g, c, done \cup {"fit wave"}, e, calm)
<1> DEFINE after == done \cup {"fit wave"}
<1>1. g = 1 /\ c.op = "size" /\ "write td" \in done /\ "replace" \notin done
  BY DEF InOrder
<1>2. /\ SizeInTd(c.op, after) /\ SizeInTd(c.op, done)
      /\ SizeInBd(c.op, after) <=> SizeInBd(c.op, done)
      /\ KeyInColumns(after) <=> KeyInColumns(done)
      /\ KeyInBlob(g, c.op, after) <=> KeyInBlob(g, c.op, done)
      /\ LenInColumns(after) <=> LenInColumns(done)
      /\ ~Unseen(g, c.op, after) /\ ~Unseen(g, c.op, done)
      /\ "replace" \notin after
      /\ "write td" \in after
      /\ "write bd" \in after <=> "write bd" \in done
      /\ "read bd" \in after <=> "read bd" \in done
  BY <1>1 DEF SizeInTd, SizeInBd, KeyInColumns, KeyInBlob, LenInColumns, Unseen
<1>3. /\ BlobPart(g, c, done, d, calm) /\ ColumnPart(g, c, done, d, calm)
      /\ OwnPart(g, c, done, d, calm) /\ BothPart(g, c, done, d, calm)
  BY DEF Staged
<1>4. /\ c.id \in DOMAIN d.p <=> c.id \in DOMAIN e.p
      /\ SameColumns(d, e, c.id)
      /\ c.id \in DOMAIN d.p =>
           /\ e.p[c.id].of = d.p[c.id].of
           /\ e.p[c.id].td = d.p[c.id].td /\ e.p[c.id].bd = d.p[c.id].bd
           /\ e.p[c.id].wave \in {NoWave, c.val}
  BY DEF WaveFittedIn
<1> HIDE DEF after
<1>6. BlobPart(g, c, after, e, calm)
  <2> SUFFICES ASSUME c.id \in DOMAIN e.p PROVE BlobsStaged(g, c, after, e.p[c.id])
    BY DEF BlobPart
  <2>1. BlobsStaged(g, c, done, d.p[c.id])
    BY <1>1, <1>2, <1>3, <1>4 DEF BlobPart
  <2> QED BY <1>2, <1>4, <2>1 DEF BlobsStaged
<1>7. ColumnPart(g, c, after, e, calm)
  <2>1. ColumnPart(g, c, done, d, calm) /\ SameColumns(d, e, c.id)
    BY <1>3, <1>4
  <2> QED BY ONLY <1>2, <2>1, ColumnPartKept
<1>8. OwnPart(g, c, after, e, calm)
  BY <1>2, <1>3, <1>4 DEF OwnPart, SameColumns
<1>9. BothPart(g, c, after, e, calm)
  BY <1>2, <1>3, <1>4 DEF BothPart, BothStaged, SameColumns
<1> QED BY <1>6, <1>7, <1>8, <1>9 DEF Staged, after

LEMMA StagedByColumn ==
  ASSUME NEW g, NEW c, NEW done, NEW d, NEW calm, Staged(g, c, done, d, calm), CallOK(c),
         NEW step \in {"write key", "write len"},
         NEW last, InOrder(g, c.op, step, done, last),
         NEW e, ColumnWrittenIn(d, c, step, e)
  PROVE  Staged(g, c, done \cup {step}, e, calm)
<1> DEFINE after == done \cup {step}
<1>1. c.op \in {"key", "size"} /\ (step = "write len" => g = 1)
  BY DEF InOrder
<1>2. /\ SizeInTd(c.op, after) <=> SizeInTd(c.op, done)
      /\ SizeInBd(c.op, after) <=> SizeInBd(c.op, done)
      /\ Waveless(c.op, after) <=> Waveless(c.op, done)
      /\ KeyInColumns(after) <=> KeyInColumns(done) \/ step = "write key"
      /\ KeyInBlob(g, c.op, after) <=> KeyInBlob(g, c.op, done)
      /\ LenInColumns(after) <=> LenInColumns(done) \/ step = "write len"
      /\ ~Unseen(g, c.op, after) /\ ~Unseen(g, c.op, done)
      /\ "replace" \in after <=> "replace" \in done
      /\ "write td" \in after <=> "write td" \in done
      /\ "read td" \in after <=> "read td" \in done
      /\ "write bd" \in after <=> "write bd" \in done
      /\ "read bd" \in after <=> "read bd" \in done
  BY <1>1 DEF SizeInTd, SizeInBd, Waveless, KeyInColumns, KeyInBlob, LenInColumns, Unseen
<1>3. /\ BlobPart(g, c, done, d, calm) /\ ColumnPart(g, c, done, d, calm)
      /\ OwnPart(g, c, done, d, calm) /\ BothPart(g, c, done, d, calm)
  BY DEF Staged
<1>4. /\ c.id \in DOMAIN d.m <=> c.id \in DOMAIN e.m
      /\ SameBlobs(d, e, c.id)
      /\ c.id \in DOMAIN d.m =>
           /\ e.m[c.id].of = d.m[c.id].of
           /\ e.m[c.id].key = IF step = "write key" THEN c.val ELSE d.m[c.id].key
           /\ e.m[c.id].len = IF step = "write len" THEN c.val ELSE d.m[c.id].len
  BY DEF ColumnWrittenIn
<1> HIDE DEF after
<1>6. BlobPart(g, c, after, e, calm)
  <2>1. BlobPart(g, c, done, d, calm) /\ SameBlobs(d, e, c.id)
    BY <1>3, <1>4
  <2> QED BY ONLY <1>2, <2>1, BlobPartKept
<1>7. ColumnPart(g, c, after, e, calm)
  BY <1>2, <1>3, <1>4 DEF ColumnPart, ColumnsStaged
<1>8. OwnPart(g, c, after, e, calm)
  BY <1>2, <1>3, <1>4 DEF OwnPart, SameBlobs
<1>9. BothPart(g, c, after, e, calm)
  BY <1>2, <1>3, <1>4 DEF BothPart, BothStaged, SameBlobs
<1> QED BY <1>6, <1>7, <1>8, <1>9 DEF Staged, after

LEMMA StagedByInsert ==
  ASSUME NEW c, NEW done, NEW d, NEW calm, CallOK(c), Gen \in 1 .. 3,
         NEW last, InOrder(Gen, c.op, "insert", done, last),
         NEW e, InsertedIn(d, c, e)
  PROVE  Staged(Gen, c, done \cup {"insert"}, e, calm)
<1> DEFINE after == done \cup {"insert"}
           g == Gen
<1>1. c.op = "create" /\ done = {}
  BY DEF InOrder
<1>2. /\ ~SizeInTd(c.op, after) /\ ~SizeInBd(c.op, after) /\ ~Waveless(c.op, after)
      /\ KeyInColumns(after)
      /\ KeyInBlob(g, c.op, after) <=> g = 2
      /\ LenInColumns(after)
      /\ Unseen(g, c.op, after) <=> g = 1
      /\ "replace" \notin after
      /\ "read td" \notin after
      /\ "read bd" \notin after
  BY <1>1 DEF SizeInTd, SizeInBd, Waveless, KeyInColumns, KeyInBlob, LenInColumns, Unseen
<1>3. /\ c.id \in DOMAIN e.m
      /\ e.m[c.id].of = c.of /\ e.m[c.id].key = c.val
      /\ g = 1 => e.m[c.id].len = c.val
      /\ g # 1 => /\ c.id \in DOMAIN e.p /\ e.p[c.id].of = c.of
                  /\ e.p[c.id].td.size = e.p[c.id].bd.size
      /\ g = 2 => e.p[c.id].td.key = c.val
  BY DEF InsertedIn, NewColumns, NewBlobs
<1> HIDE DEF after, g
<1>4. BlobPart(g, c, after, e, calm)
  BY <1>2, <1>3 DEF BlobPart, BlobsStaged
<1>5. ColumnPart(g, c, after, e, calm)
  BY <1>2, <1>3 DEF ColumnPart, ColumnsStaged
<1>6. OwnPart(g, c, after, e, calm)
  BY <1>2, <1>3 DEF OwnPart
<1>7. BothPart(g, c, after, e, calm)
  BY <1>2, <1>3 DEF BothPart, BothStaged
<1> QED BY <1>4, <1>5, <1>6, <1>7 DEF Staged, after, g

LEMMA StagedByReplace ==
  ASSUME NEW g, NEW c, NEW done, NEW d, NEW calm, Staged(g, c, done, d, calm), CallOK(c),
         NEW last, InOrder(g, c.op, "replace", done, last),
         NEW e, ReplacedIn(d, c, e)
  PROVE  Staged(g, c, done \cup {"replace"}, e, calm)
<1> DEFINE after == done \cup {"replace"}
<1>1. c.op \in {"create", "update"} /\ "read td" \notin done /\ "read bd" \notin done
  BY DEF InOrder
<1>2. /\ SizeInTd(c.op, after) /\ SizeInBd(c.op, after) /\ KeyInBlob(g, c.op, after)
      /\ KeyInColumns(after) <=> KeyInColumns(done)
      /\ LenInColumns(after) <=> LenInColumns(done)
      /\ "read td" \notin after
      /\ "read bd" \notin after
  BY <1>1 DEF SizeInTd, SizeInBd, KeyInColumns, KeyInBlob, LenInColumns
<1>3. ColumnPart(g, c, done, d, calm)
  BY DEF Staged
<1>4. /\ SameColumns(d, e, c.id) /\ c.id \in DOMAIN e.p
      /\ c.id \in DOMAIN d.m => e.p[c.id].of = d.m[c.id].of
      /\ e.p[c.id].td.size = c.val /\ e.p[c.id].td.key = c.val /\ e.p[c.id].bd.size = c.val
      /\ e.p[c.id].wave \in {NoWave, c.val}
  BY DEF ReplacedIn, NewBlobs, OwnerOf
<1> HIDE DEF after
<1>5. BlobPart(g, c, after, e, calm)
  BY <1>2, <1>4 DEF BlobPart, BlobsStaged
<1>6. ColumnPart(g, c, after, e, calm)
  <2>1. SameColumns(d, e, c.id)
    BY <1>4
  <2> QED BY ONLY <1>2, <1>3, <2>1, ColumnPartKept
<1>7. OwnPart(g, c, after, e, calm)
  BY <1>4 DEF OwnPart, SameColumns
<1>8. BothPart(g, c, after, e, calm)
  BY <1>2, <1>4 DEF BothPart, BothStaged
<1> QED BY <1>5, <1>6, <1>7, <1>8 DEF Staged, after

LEMMA StagedByPutColumns ==
  ASSUME NEW c, NEW done, NEW d, NEW calm, Staged(Gen, c, done, d, calm), CallOK(c), Gen \in 1 .. 3,
         NEW last, InOrder(Gen, c.op, "put columns", done, last),
         NEW e, ColumnsPutIn(d, c, e)
  PROVE  Staged(Gen, c, done \cup {"put columns"}, e, calm)
<1> DEFINE after == done \cup {"put columns"}
           g == Gen
<1>1. c.op = "update" /\ done = {}
  BY DEF InOrder
<1>2. /\ ~SizeInTd(c.op, after) /\ ~SizeInBd(c.op, after) /\ ~Waveless(c.op, after)
      /\ ~SizeInTd(c.op, done) /\ ~SizeInBd(c.op, done) /\ ~Waveless(c.op, done)
      /\ KeyInColumns(after)
      /\ ~KeyInBlob(g, c.op, after)
      /\ LenInColumns(after)
      /\ Unseen(g, c.op, after) <=> Unseen(g, c.op, done)
      /\ "replace" \notin after
      /\ "read td" \notin after
      /\ "read bd" \notin after
  BY <1>1 DEF SizeInTd, SizeInBd, Waveless, KeyInColumns, KeyInBlob, LenInColumns, Unseen
<1>3. BlobPart(g, c, done, d, calm) /\ OwnPart(g, c, done, d, calm)
  BY DEF Staged
<1>4. /\ SameBlobs(d, e, c.id)
      /\ c.id \in DOMAIN d.m <=> c.id \in DOMAIN e.m
      /\ c.id \in DOMAIN d.m => /\ e.m[c.id].of = d.m[c.id].of /\ e.m[c.id].key = c.val
                                /\ g = 1 => e.m[c.id].len = c.val
  BY DEF ColumnsPutIn, NewColumns
<1> HIDE DEF after, g
<1>5. BlobPart(g, c, after, e, calm)
  BY <1>2, <1>3, <1>4 DEF BlobPart, BlobsStaged, SameBlobs
<1>6. ColumnPart(g, c, after, e, calm)
  BY <1>2, <1>4 DEF ColumnPart, ColumnsStaged
<1>7. OwnPart(g, c, after, e, calm)
  BY <1>2, <1>3, <1>4 DEF OwnPart, SameBlobs
<1>8. BothPart(g, c, after, e, calm)
  BY <1>2 DEF BothPart, BothStaged
<1> QED BY <1>5, <1>6, <1>7, <1>8 DEF Staged, after, g

LEMMA StagedByPutData ==
  ASSUME NEW g, NEW c, NEW done, NEW d, NEW calm, Staged(g, c, done, d, calm), CallOK(c),
         NEW last, InOrder(g, c.op, "put data", done, last),
         NEW e, DataPutIn(d, c, e)
  PROVE  Staged(g, c, done \cup {"put data"}, e, calm)
<1> DEFINE after == done \cup {"put data"}
<1>1. /\ g = 3 /\ c.op \in {"create", "update"} /\ "read td" \notin done /\ "read bd" \notin done
      /\ "replace" \notin done
  BY Differ123 DEF InOrder
<1>2. /\ ~SizeInTd(c.op, after) /\ ~SizeInBd(c.op, after)
      /\ KeyInColumns(after) <=> KeyInColumns(done)
      /\ KeyInBlob(g, c.op, after)
      /\ LenInColumns(after) <=> LenInColumns(done)
      /\ ~Unseen(g, c.op, done)
      /\ "replace" \notin after
      /\ "read td" \notin after
      /\ "read bd" \notin after
  BY <1>1, Differ123 DEF SizeInTd, SizeInBd, KeyInColumns, KeyInBlob, LenInColumns, Unseen
<1>3. ColumnPart(g, c, done, d, calm) /\ OwnPart(g, c, done, d, calm)
  BY DEF Staged
<1>4. /\ SameColumns(d, e, c.id)
      /\ c.id \in DOMAIN d.p <=> c.id \in DOMAIN e.p
      /\ c.id \in DOMAIN d.p => /\ e.p[c.id].of = d.p[c.id].of
                                /\ e.p[c.id].td.size = e.p[c.id].bd.size
                                /\ e.p[c.id].td.key = c.val
                                /\ e.p[c.id].wave \in {NoWave, e.p[c.id].td.size}
  BY DEF DataPutIn, NewBlobs
<1> HIDE DEF after
<1>5. BlobPart(g, c, after, e, calm)
  BY <1>2, <1>4 DEF BlobPart, BlobsStaged
<1>6. ColumnPart(g, c, after, e, calm)
  <2>1. ColumnPart(g, c, done, d, calm) /\ SameColumns(d, e, c.id)
    BY <1>3, <1>4
  <2> QED BY ONLY <1>2, <2>1, ColumnPartKept
<1>7. OwnPart(g, c, after, e, calm)
  BY <1>2, <1>3, <1>4 DEF OwnPart, SameColumns
<1>8. BothPart(g, c, after, e, calm)
  <2>1. g # 1
    BY <1>1, Differ123
  <2> QED BY <1>2, <1>4, <2>1 DEF BothPart, BothStaged
<1> QED BY <1>5, <1>6, <1>7, <1>8 DEF Staged, after

LEMMA StagedByPut ==
  ASSUME NEW c, NEW done, NEW d, NEW calm, Staged(Gen, c, done, d, calm), CallOK(c), Gen \in 1 .. 3,
         NEW last, InOrder(Gen, c.op, "put", done, last),
         NEW e, PutIn(d, c, e)
  PROVE  Staged(Gen, c, done \cup {"put"}, e, calm)
<1> DEFINE after == done \cup {"put"}
           g == Gen
<1>1. g = 2 /\ c.op = "update" /\ done = {}
  BY DEF InOrder
<1>2. /\ ~SizeInTd(c.op, after) /\ ~SizeInBd(c.op, after)
      /\ KeyInColumns(after) /\ KeyInBlob(g, c.op, after)
      /\ ~Unseen(g, c.op, done)
      /\ "replace" \notin after
      /\ "read td" \notin after
      /\ "read bd" \notin after
  BY <1>1 DEF SizeInTd, SizeInBd, KeyInColumns, KeyInBlob, Unseen
<1>3. OwnPart(g, c, done, d, calm)
  BY DEF Staged
<1>4. /\ c.id \in DOMAIN d.m <=> c.id \in DOMAIN e.m
      /\ c.id \in DOMAIN d.m => e.m[c.id].of = d.m[c.id].of /\ e.m[c.id].key = c.val
      /\ c.id \in DOMAIN d.p <=> c.id \in DOMAIN e.p
      /\ c.id \in DOMAIN d.p => /\ e.p[c.id].of = d.p[c.id].of
                                /\ e.p[c.id].td.size = e.p[c.id].bd.size
                                /\ e.p[c.id].td.key = c.val
                                /\ e.p[c.id].wave \in {NoWave, e.p[c.id].td.size}
  BY DEF PutIn, NewColumns, NewBlobs
<1>5. g # 1
  BY <1>1
<1> HIDE DEF after, g
<1>6. BlobPart(g, c, after, e, calm)
  BY <1>2, <1>4 DEF BlobPart, BlobsStaged
<1>7. ColumnPart(g, c, after, e, calm)
  BY <1>2, <1>4, <1>5 DEF ColumnPart, ColumnsStaged
<1>8. OwnPart(g, c, after, e, calm)
  BY <1>2, <1>3, <1>4 DEF OwnPart
<1>9. BothPart(g, c, after, e, calm)
  BY <1>2, <1>4, <1>5 DEF BothPart, BothStaged
<1> QED BY <1>6, <1>7, <1>8, <1>9 DEF Staged, after, g

-----------------------------------------------------------------------------
(* The inductive invariant. *)

(* The statements that the call c has carried out, in generation g.        *)
Past(g, c) == Before(ProgramOf(g, c.op), c.at)

(* What a call c sees when d is committed.                                 *)
ViewOf(c, d) == [f \in Files |-> IF f \in c.shared THEN c.draft[f] ELSE d[f]]

ActiveOK(g, top, c) ==
  /\ CallOK(c) /\ c.op \in Operations /\ c.at \in DOMAIN ProgramOf(g, c.op)
  /\ c.id \in Nat /\ c.of > 0
  /\ c.op = "create" /\ c.at = 1 => c.id = 0
  /\ c.op = "create" /\ c.at > 1 => c.id \in 1 .. top + 1 /\ (g # 1 \/ c.alone => c.id <= top)
  /\ c.op # "create" => c.id \in 1 .. top
  /\ c.alone \in BOOLEAN /\ DOMAIN c.draft = c.shared
  /\ "m" \in c.shared => /\ DOMAIN c.draft.m \subseteq (1 .. top) \cup {c.id}
                         /\ \A i \in DOMAIN c.draft.m : c.draft.m[i] \in Track
  /\ "p" \in c.shared => /\ DOMAIN c.draft.p \subseteq (1 .. top) \cup {c.id}
                         /\ \A i \in DOMAIN c.draft.p : c.draft.p[i] \in Performance

CallsOK == DOMAIN call = Sessions /\ \A s \in Sessions : call[s] = Idle \/ ActiveOK(Gen, lastId, call[s])

StateOK ==
  /\ build \in Builds /\ FilesOK(db)
  /\ DOMAIN db.m \subseteq 1 .. lastId /\ DOMAIN db.p \subseteq 1 .. lastId
  /\ lastId \in Nat \ {0} /\ calls \in 0 .. MaxCalls
  /\ torn \subseteq Ids \X {"bpm", "rows"}

(* There are ids for the tracks that are being created.                    *)
Pending(s) == call[s].op = "create" /\ ~call[s].alone /\ (Gen = 1 \/ call[s].at = 1)
Room ==
  /\ IsFiniteSet({s \in Sessions : Pending(s)})
  /\ Cardinality({s \in Sessions : Pending(s)}) + lastId <= 1 + calls

(* A transaction has locked the files that it has read and written.        *)
LocksOf(g, c) ==
  IF c.op # "none" /\ TransactionIn(g, c.op)
  THEN /\ c.shared = Touched(g, Past(g, c)) /\ c.reserved = Altered(g, Past(g, c))
       /\ c.alone <=> "commit m" \in Past(g, c)
  ELSE c.shared = {} /\ c.reserved = {} /\ ~c.alone
LocksAsDone == \A s \in Sessions : LocksOf(Gen, call[s])

Apart ==
  \A s, t \in Sessions : s # t =>
    /\ call[s].reserved \cap call[t].reserved = {}
    /\ call[s].alone => call[t].shared = {}

(* The fields that a call of op does not write are the same in d and e.    *)
KeptIn(op, d, e, i) ==
  LET F == FieldsOf(op)
  IN  /\ i \in DOMAIN d.p /\ i \in DOMAIN e.p =>
           /\ "size" \notin F => e.p[i].td.size = d.p[i].td.size /\ e.p[i].bd.size = d.p[i].bd.size
           /\ "key" \notin F => e.p[i].td.key = d.p[i].td.key
           /\ "loud" \notin F => e.p[i].td.loud = d.p[i].td.loud
           /\ "grid" \notin F => e.p[i].bd.grid = d.p[i].bd.grid
      /\ op \in {"key", "size"} =>
           /\ i \in DOMAIN e.m <=> i \in DOMAIN d.m
           /\ i \in DOMAIN d.m => /\ e.m[i].bpm = d.m[i].bpm
                                  /\ e.m[i].analyzed = d.m[i].analyzed

(* A draft differs from what is committed in what the call has written.    *)
Follows(c, d) ==
  LET v == ViewOf(c, d)
  IN  /\ OthersSame(d, v, c.id)
      /\ \A f \in Files \ c.reserved : v[f] = d[f]
      /\ c.alone => v["m"] = d["m"]
      /\ KeptIn(c.op, d, v, c.id)
DraftsFollow == \A s \in Sessions : Follows(call[s], db)

(* Calls that write the rows of a track together, once they have begun.    *)
TrackedIn(g, c) ==
  /\ c.op # "none" /\ c.at > 1
  /\ TransactionIn(g, c.op) \/ "rows" \in Concerns(c.op)
StagedIn(g, c, d, T) ==
  TrackedIn(g, c) => Staged(g, c, Past(g, c), ViewOf(c, d), <<c.id, "rows">> \notin T)
CallsStaged == \A s \in Sessions : StagedIn(Gen, call[s], db, torn)

(* Without transactions, calls that meet are known to have done so.        *)
OneAtATime ==
  Gen # 1 => \A s, t \in Sessions :
    s # t /\ call[s].id = call[t].id /\ call[s].id # 0
    /\ "rows" \in Concerns(call[s].op) /\ "rows" \in Concerns(call[t].op)
      => <<call[s].id, "rows">> \in torn

OneBpmAtATime ==
  \A s, t \in Sessions :
    s # t /\ call[s].id = call[t].id /\ call[s].op = "bpm" /\ "bpm" \in Concerns(call[t].op)
      => <<call[s].id, "bpm">> \in torn \/ (Gen = 1 /\ call[t].op = "create")

(* Is another call between the two commits that make the track i?          *)
BeingMade(C, i) == \E t \in Sessions : C[t].alone /\ C[t].op = "create" /\ C[t].id = i
BpmHalf(c, d, T, C) ==
  /\ c.op = "bpm" /\ c.at > 1 /\ c.id \in DOMAIN d.m
  /\ <<c.id, "bpm">> \notin T /\ ~BeingMade(C, c.id)
  => d.m[c.id].analyzed = c.val
BpmWhole(g, c, d, T) ==
  LET v == ViewOf(c, d)
  IN  /\ c.op \in {"create", "update"} /\ c.at > 1 /\ c.id \in DOMAIN v.m
      /\ g = 1 \/ <<c.id, "bpm">> \notin T
      => v.m[c.id].bpm = v.m[c.id].analyzed
BpmStaged ==
  \A s \in Sessions : BpmHalf(call[s], db, torn, call) /\ BpmWhole(Gen, call[s], db, torn)

(* Halfway and Settled, of the call c and of the calls C.                  *)
HalfIn(g, c) == IF TransactionIn(g, c.op) THEN c.alone ELSE Past(g, c) \ Reads # {}
SettledIn(g, C, T, i, what) ==
  /\ <<i, what>> \notin T
  /\ \A s \in Sessions : C[s].id = i /\ HalfIn(g, C[s]) => what \notin Concerns(C[s].op)

RowsAgree == \A i : RowAgrees(Gen, db, i, SettledIn(Gen, call, torn, i, "rows"))
BpmsAgree ==
  \A i \in DOMAIN db.m : SettledIn(Gen, call, torn, i, "bpm") => db.m[i].bpm = db.m[i].analyzed

Typed == StateOK /\ CallsOK /\ LocksAsDone
IInv ==
  /\ Typed /\ Room /\ Apart /\ DraftsFollow /\ CallsStaged /\ OneAtATime /\ RowsAgree
  /\ OneBpmAtATime /\ BpmStaged /\ BpmsAgree

-----------------------------------------------------------------------------
(* The statement that a session has come to. *)

IsProgram(P) == Len(P) \in Nat \ {0} /\ DOMAIN P = 1 .. Len(P)

LEMMA TupleLengths ==
  ASSUME NEW a, NEW b, NEW c, NEW d, NEW e, NEW f, NEW h, NEW i
  PROVE  /\ IsProgram(<<a>>) /\ IsProgram(<<a, b>>) /\ IsProgram(<<a, b, c>>)
         /\ IsProgram(<<a, b, c, d>>) /\ IsProgram(<<a, b, c, d, e>>)
         /\ IsProgram(<<a, b, c, d, e, f, h, i>>)
<1>1. IsProgram(<<a>>)
  BY DEF IsProgram
<1>2. IsProgram(<<a, b>>)
  BY DEF IsProgram
<1>3. IsProgram(<<a, b, c>>)
  BY DEF IsProgram
<1>4. IsProgram(<<a, b, c, d>>)
  BY DEF IsProgram
<1>5. IsProgram(<<a, b, c, d, e>>)
  BY DEF IsProgram
<1>6. IsProgram(<<a, b, c, d, e, f, h, i>>)
  BY DEF IsProgram
<1> QED BY <1>1, <1>2, <1>3, <1>4, <1>5, <1>6

LEMMA ProgramsAre ==
  ASSUME NEW g \in 1 .. 3, NEW op \in AllOperations
  PROVE  IsProgram(ProgramOf(g, op))
<1>1. CASE g = 1
  <2>0. ProgramOf(g, op) = Program1[op]
    BY <1>1 DEF ProgramOf
  <2>1. CASE op = "loudness"
    <3>1. ProgramOf(g, op) = <<"read td", "write td", "commit p">>
      BY <2>0, <2>1 DEF Program1
    <3> QED BY <3>1, TupleLengths
  <2>2. CASE op = "key"
    <3>1. ProgramOf(g, op) = <<"read td", "write td", "write key", "commit m", "commit p">>
      BY <2>0, <2>2 DEF Program1
    <3> QED BY <3>1, TupleLengths
  <2>3. CASE op = "size"
    <3>1. ProgramOf(g, op) = <<"read td", "read bd", "write len", "write bd", "write td", "fit wave", "commit m", "commit p">>
      BY <2>0, <2>3 DEF Program1
    <3> QED BY <3>1, TupleLengths
  <2>4. CASE op = "beatgrid"
    <3>1. ProgramOf(g, op) = <<"read bd", "write bd", "commit p">>
      BY <2>0, <2>4 DEF Program1
    <3> QED BY <3>1, TupleLengths
  <2>5. CASE op = "waveform"
    <3>1. ProgramOf(g, op) = <<"read td", "write wave", "commit p">>
      BY <2>0, <2>5 DEF Program1
    <3> QED BY <3>1, TupleLengths
  <2>6. CASE op = "bpm"
    <3>1. ProgramOf(g, op) = <<"write analyzed", "write bpm">>
      BY <2>0, <2>6 DEF Program1
    <3> QED BY <3>1, TupleLengths
  <2>7. CASE op = "create"
    <3>1. ProgramOf(g, op) = <<"insert", "replace", "commit m", "commit p">>
      BY <2>0, <2>7 DEF Program1
    <3> QED BY <3>1, TupleLengths
  <2>8. CASE op = "update"
    <3>1. ProgramOf(g, op) = <<"put columns", "replace", "commit m", "commit p">>
      BY <2>0, <2>8 DEF Program1
    <3> QED BY <3>1, TupleLengths
  <2>9. CASE op = "remove"
    <3>1. ProgramOf(g, op) = <<"delete">>
      BY <2>0, <2>9 DEF Program1
    <3> QED BY <3>1, TupleLengths
  <2> QED BY <2>1, <2>2, <2>3, <2>4, <2>5, <2>6, <2>7, <2>8, <2>9 DEF AllOperations
<1>2. CASE g # 1 /\ (g = 2 \/ op \notin {"create", "update"})
  <2>0. ProgramOf(g, op) = Program2[op]
    BY <1>2 DEF ProgramOf, Program3, Program2, AllOperations
  <2>1. CASE op = "loudness"
    <3>1. ProgramOf(g, op) = <<"read td", "write td">>
      BY <2>0, <2>1 DEF Program2
    <3> QED BY <3>1, TupleLengths
  <2>2. CASE op = "key"
    <3>1. ProgramOf(g, op) = <<"write key", "read td", "write td">>
      BY <2>0, <2>2 DEF Program2
    <3> QED BY <3>1, TupleLengths
  <2>3. CASE op = "size"
    <3>1. ProgramOf(g, op) = <<"read td", "read bd", "write td", "write bd">>
      BY <2>0, <2>3 DEF Program2
    <3> QED BY <3>1, TupleLengths
  <2>4. CASE op = "beatgrid"
    <3>1. ProgramOf(g, op) = <<"read bd", "write bd">>
      BY <2>0, <2>4 DEF Program2
    <3> QED BY <3>1, TupleLengths
  <2>5. CASE op = "waveform"
    <3>1. ProgramOf(g, op) = <<"read td", "write wave">>
      BY <2>0, <2>5 DEF Program2
    <3> QED BY <3>1, TupleLengths
  <2>6. CASE op = "bpm"
    <3>1. ProgramOf(g, op) = <<"write analyzed", "write bpm">>
      BY <2>0, <2>6 DEF Program2
    <3> QED BY <3>1, TupleLengths
  <2>7. CASE op = "create"
    <3>1. ProgramOf(g, op) = <<"insert">>
      BY <2>0, <2>7 DEF Program2
    <3> QED BY <3>1, TupleLengths
  <2>8. CASE op = "update"
    <3>1. ProgramOf(g, op) = <<"put">>
      BY <2>0, <2>8 DEF Program2
    <3> QED BY <3>1, TupleLengths
  <2>9. CASE op = "remove"
    <3>1. ProgramOf(g, op) = <<"delete">>
      BY <2>0, <2>9 DEF Program2
    <3> QED BY <3>1, TupleLengths
  <2> QED BY <2>1, <2>2, <2>3, <2>4, <2>5, <2>6, <2>7, <2>8, <2>9 DEF AllOperations
<1>3. CASE g # 1 /\ g # 2 /\ op \in {"create", "update"}
  <2>1. ProgramOf(g, op) = <<"insert", "put data">> \/ ProgramOf(g, op) = <<"put columns", "put data">>
    BY <1>3 DEF ProgramOf, Program3, Program2
  <2> QED BY <2>1, TupleLengths
<1> QED BY <1>1, <1>2, <1>3

LEMMA IdleIs ==
  /\ DOMAIN Idle = {"op", "id", "val", "of", "at", "td", "bd", "shared", "reserved", "alone", "draft"}
  /\ Idle.op = "none" /\ Idle.id = 0 /\ Idle.at = 1 /\ Idle.shared = {} /\ Idle.reserved = {}
  /\ Idle.alone = FALSE /\ Idle.draft = <<>>
  /\ Idle.td \in TrackData /\ Idle.bd \in BeatData
  BY TrackCallsValues DEF Idle, NoBlobs, Blobs, TrackData, BeatData

LEMMA OperationsAre == "none" \notin AllOperations /\ Operations \subseteq AllOperations
  BY TrackCallsOperations DEF AllOperations

LEMMA GenIs == build \in Builds => Gen \in 1 .. 3 /\ build.recycles \in BOOLEAN
  BY TrackCallsGenerations DEF Builds, Gen

(* What is known of a session in a call, and of the statement it is at.    *)
HereIn(s) ==
  /\ ActiveOK(Gen, lastId, call[s]) /\ call[s].op \in AllOperations
  /\ Gen \in 1 .. 3
  /\ Program(call[s].op) = ProgramOf(Gen, call[s].op)
  /\ Step(s) = ProgramOf(Gen, call[s].op)[call[s].at]
  /\ IsProgram(ProgramOf(Gen, call[s].op)) /\ call[s].at \in DOMAIN ProgramOf(Gen, call[s].op)
  /\ Last(s) <=> call[s].at = Len(ProgramOf(Gen, call[s].op))
  /\ InOrder(Gen, call[s].op, Step(s), Past(Gen, call[s]), Last(s))
  /\ InTransaction(call[s].op) <=> TransactionIn(Gen, call[s].op)

LEMMA FilesOfSteps == \A step : FileOf(step) = FileIn(Gen, step)
  BY DEF FileOf, FileIn

LEMMA TransactionsAre == \A op : InTransaction(op) <=> TransactionIn(Gen, op)
  BY DEF InTransaction, TransactionIn

LEMMA Here ==
  ASSUME build \in Builds, CallsOK, NEW s \in Sessions, Busy(s)
  PROVE  HereIn(s)
<1>1. ActiveOK(Gen, lastId, call[s])
  BY IdleIs DEF CallsOK, Busy
<1>2. call[s].op \in AllOperations /\ call[s].at \in DOMAIN ProgramOf(Gen, call[s].op)
  BY <1>1, OperationsAre DEF ActiveOK
<1>3. Gen \in 1 .. 3
  BY GenIs
<1>4. Program(call[s].op) = ProgramOf(Gen, call[s].op)
  BY DEF Program, ProgramOf
<1>5. Step(s) = ProgramOf(Gen, call[s].op)[call[s].at]
  BY <1>4 DEF Step
<1>6. IsProgram(ProgramOf(Gen, call[s].op))
  BY <1>2, <1>3, ProgramsAre
<1>7. Last(s) <=> call[s].at = Len(ProgramOf(Gen, call[s].op))
  BY <1>4 DEF Last
<1>8. InOrder(Gen, call[s].op, Step(s), Past(Gen, call[s]), Last(s))
  <2> DEFINE P == ProgramOf(Gen, call[s].op)
             n == call[s].at
  <2>1. InOrder(Gen, call[s].op, P[n], Before(P, n), n = Len(P))
    <3>1. CASE Gen = 1
      BY <1>2, <3>1, Order1
    <3>2. CASE Gen = 2
      BY <1>2, <3>2, Order2
    <3>3. CASE Gen = 3
      BY <1>2, <3>3, Order3
    <3> QED BY <1>3, <3>1, <3>2, <3>3
  <2>2. (n = Len(P)) = Last(s)
    BY <1>4 DEF Last
  <2> QED BY <1>5, <2>1, <2>2 DEF Past
<1> QED BY <1>1, <1>2, <1>3, <1>4, <1>5, <1>6, <1>7, <1>8, TransactionsAre DEF HereIn

(* A call that is not over has done one statement more.                    *)
LEMMA Onward ==
  ASSUME NEW s \in Sessions, HereIn(s), ~Last(s), NEW e, e.op = call[s].op, e.at = call[s].at + 1
  PROVE  /\ Past(Gen, e) = Past(Gen, call[s]) \cup {Step(s)}
         /\ e.at \in DOMAIN ProgramOf(Gen, e.op) /\ e.at \in Nat /\ e.at > 1
<1>1. call[s].at \in Nat \ {0} /\ e.at \in DOMAIN ProgramOf(Gen, e.op) /\ e.at \in Nat /\ e.at > 1
  BY DEF HereIn, IsProgram
<1> QED BY <1>1, BeforeNext DEF HereIn, Past

(* One that has begun has done something.                                  *)
LEMMA Begun ==
  ASSUME NEW s \in Sessions, HereIn(s)
  PROVE  /\ call[s].at = 1 => Past(Gen, call[s]) = {}
         /\ call[s].at > 1 => Past(Gen, call[s]) # {}
         /\ call[s].at \in Nat \ {0}
<1>1. call[s].at \in Nat \ {0}
  BY DEF HereIn, IsProgram
<1>2. call[s].at > 1 => 1 \in 1 .. call[s].at - 1
  BY <1>1
<1> QED BY <1>1, <1>2, BeforeFirst DEF Past, Before

-----------------------------------------------------------------------------
(* Any statement that changes a row. *)

Changes == Statements \ (Reads \cup Commits)
OnBlobs == {"write td", "write bd", "write wave"}

LEMMA ChangesAre ==
  Changes = {"write td", "write bd", "write wave", "fit wave", "write key", "write len",
             "write analyzed", "write bpm", "insert", "replace", "put columns", "put data",
             "put", "delete"}
  BY DEF Changes, Statements, Reads, Commits

LEMMA ResultShape ==
  ASSUME NEW d, NEW c, FilesOK(d), CallOK(c), Gen \in 1 .. 3, NEW done, NEW last,
         NEW step \in Changes, InOrder(Gen, c.op, step, done, last),
         step \in OnBlobs => c.id \in DOMAIN d.p
  PROVE  FilesOK(Result(d, c, step)) /\ OthersSame(d, Result(d, c, step), c.id)
<1>1. CASE step \in OnBlobs
  <2>1. BlobWrittenIn(d, c, step, Result(d, c, step))
    <3>1. step \in {"write td", "write bd", "write wave"} /\ c.id \in DOMAIN d.p
      BY <1>1 DEF OnBlobs
    <3>2. step = "write td" => c.op \in {"loudness", "key", "size"}
      BY DEF InOrder
    <3>3. step = "write bd" => c.op \in {"beatgrid", "size"}
      BY DEF InOrder
    <3> QED BY <3>1, <3>2, <3>3, BlobWritten
  <2> QED BY <2>1 DEF BlobWrittenIn
<1>2. CASE step = "fit wave"
  BY <1>2, WaveFitted DEF WaveFittedIn
<1>3. CASE step \in {"write key", "write len", "write analyzed", "write bpm"}
  BY <1>3, ColumnWritten DEF ColumnWrittenIn
<1>4. CASE step = "insert"
  BY <1>4, InsertedShape DEF InsertedIn
<1>5. CASE step = "replace"
  BY <1>5, ReplacedShape DEF ReplacedIn
<1>6. CASE step = "put columns"
  BY <1>6, PutShape DEF ColumnsPutIn
<1>7. CASE step = "put data"
  BY <1>7, PutShape DEF DataPutIn
<1>8. CASE step = "put"
  BY <1>8, PutShape DEF PutIn
<1>9. CASE step = "delete"
  BY <1>9, DeletedShape DEF DeletedIn, Result
<1> QED BY <1>1, <1>2, <1>3, <1>4, <1>5, <1>6, <1>7, <1>8, <1>9, ChangesAre DEF OnBlobs

LEMMA StagedByChange ==
  ASSUME NEW d, NEW c, FilesOK(d), CallOK(c), Gen \in 1 .. 3, NEW done, NEW last, NEW calm,
         NEW step \in Changes, InOrder(Gen, c.op, step, done, last),
         step \in OnBlobs => c.id \in DOMAIN d.p,
         c.op \notin {"bpm", "remove"},
         step # "insert" => Staged(Gen, c, done, d, calm)
  PROVE  Staged(Gen, c, done \cup {step}, Result(d, c, step), calm)
<1>1. CASE step \in OnBlobs
  <2>1. BlobWrittenIn(d, c, step, Result(d, c, step))
    <3>1. step \in {"write td", "write bd", "write wave"} /\ c.id \in DOMAIN d.p
      BY <1>1 DEF OnBlobs
    <3>2. step = "write td" => c.op \in {"loudness", "key", "size"}
      BY DEF InOrder
    <3>3. step = "write bd" => c.op \in {"beatgrid", "size"}
      BY DEF InOrder
    <3> QED BY <3>1, <3>2, <3>3, BlobWritten
  <2>2. Staged(Gen, c, done, d, calm)
    BY <1>1 DEF OnBlobs
  <2>3. CASE step = "write td"
    BY <2>1, <2>2, <2>3, StagedByTrackData
  <2>4. CASE step = "write bd"
    BY <2>1, <2>2, <2>4, StagedByBeatData
  <2>5. CASE step = "write wave"
    BY <2>1, <2>2, <2>5, StagedByWave
  <2> QED BY <1>1, <2>3, <2>4, <2>5 DEF OnBlobs
<1>2. CASE step = "fit wave"
  BY <1>2, WaveFitted, StagedByFit
<1>3. CASE step \in {"write key", "write len"}
  <2>1. ColumnWrittenIn(d, c, step, Result(d, c, step))
    BY <1>3, ColumnWritten
  <2>2. Staged(Gen, c, done, d, calm)
    BY <1>3
  <2> QED BY <1>3, <2>1, <2>2, StagedByColumn
<1>4. CASE step \in {"write analyzed", "write bpm"}
  BY <1>4 DEF InOrder
<1>5. CASE step = "insert"
  BY <1>5, InsertedShape, StagedByInsert
<1>6. CASE step = "replace"
  BY <1>6, ReplacedShape, StagedByReplace
<1>7. CASE step = "put columns"
  BY <1>7, PutShape, StagedByPutColumns
<1>8. CASE step = "put data"
  BY <1>8, PutShape, StagedByPutData
<1>9. CASE step = "put"
  BY <1>9, PutShape, StagedByPut
<1>10. CASE step = "delete"
  BY <1>10 DEF InOrder
<1> QED BY <1>1, <1>2, <1>3, <1>4, <1>5, <1>6, <1>7, <1>8, <1>9, <1>10, ChangesAre DEF OnBlobs

(* In generation 1 a statement changes the file that it is on.             *)
LEMMA ResultFile ==
  ASSUME NEW d, NEW c, FilesOK(d), CallOK(c), Gen = 1, NEW done, NEW last,
         NEW step \in Changes, InOrder(Gen, c.op, step, done, last),
         step \in OnBlobs => c.id \in DOMAIN d.p,
         NEW f \in Files, f # FileOf(step)
  PROVE  Result(d, c, step)[f] = d[f]
<1>1. DOMAIN d = {"m", "p"} /\ (f = "m" \/ f = "p")
  BY DEF FilesOK, Files
<1>2. CASE step \in OnBlobs
  <2>1. f = "m"
    BY <1>1, <1>2 DEF OnBlobs, FileOf, OnTrack
  <2> QED BY <1>1, <1>2, <2>1 DEF OnBlobs, Result, SetBlob
<1>3. CASE step = "fit wave" \/ step = "replace"
  <2>1. f = "m"
    BY <1>1, <1>3 DEF FileOf, OnTrack
  <2> QED BY <1>1, <1>3, <2>1 DEF Result, FitWave, SetBlob, Replaced
<1>4. CASE step \in {"write key", "write len", "write analyzed", "write bpm"}
  <2>1. f = "p"
    BY <1>1, <1>4 DEF FileOf, OnTrack
  <2>2. \A column : SetTrack(d, c, column)["p"] = d["p"]
    BY <1>1 DEF SetTrack
  <2> QED BY <1>4, <2>1, <2>2 DEF Result
<1>5. CASE step = "insert" \/ step = "delete"
  <2>1. f = "p"
    BY <1>1, <1>5 DEF FileOf, OnTrack
  <2>2. Gen # 2 /\ Gen # 3
    BY Differ123
  <2> QED BY <1>5, <2>1, <2>2 DEF Result, Inserted, Deleted
<1>6. CASE step = "put columns"
  <2>1. f = "p"
    BY <1>1, <1>6 DEF FileOf, OnTrack
  <2> QED BY <1>1, <1>6, <2>1 DEF Result, PutColumns
<1>7. CASE step = "put data" \/ step = "put"
  BY <1>7, Differ123 DEF InOrder
<1> QED BY <1>2, <1>3, <1>4, <1>5, <1>6, <1>7, ChangesAre DEF OnBlobs

-----------------------------------------------------------------------------
(* What the steps of a session make of its call. *)

OthersKept(s) == DOMAIN call' = Sessions /\ \A t \in Sessions : t # s => call'[t] = call[t]

(* e is the call c, one statement further.                                 *)
Continues(c, e) ==
  /\ DOMAIN e = DOMAIN Idle
  /\ e.op = c.op /\ e.val = c.val /\ e.of = c.of /\ e.at = c.at + 1
SameLocks(c, e) ==
  e.shared = c.shared /\ e.reserved = c.reserved /\ e.alone = c.alone /\ e.draft = c.draft

(* The call of a session, with the id that its INSERT gives.               *)
Target(s) == IF Step(s) = "insert" THEN [call[s] EXCEPT !.id = NewId(View(s).m)] ELSE call[s]
Outcome(s) == Result(View(s), Target(s), Step(s))

ReadIn(s) ==
  LET c == call[s]
      e == call'[s]
      f == FileOf(Step(s))
  IN  /\ Step(s) \in Reads /\ ~Last(s) /\ UNCHANGED <<build, db, lastId, calls, torn>>
      /\ Continues(c, e) /\ e.id = c.id /\ e.alone = c.alone /\ e.reserved = c.reserved
      /\ e.td = IF Step(s) = "read td" THEN RowFor(View(s), c.id).td ELSE c.td
      /\ e.bd = IF Step(s) = "read bd" THEN RowFor(View(s), c.id).bd ELSE c.bd
      /\ InTransaction(c.op) => /\ e.shared = c.shared \cup {f}
                                /\ e.draft = [g \in c.shared \cup {f} |-> View(s)[g]]
      /\ ~InTransaction(c.op) => SameLocks(c, e)

DraftIn(s) ==
  LET c == call[s]
      e == call'[s]
      f == FileOf(Step(s))
  IN  /\ Step(s) \in Changes /\ InTransaction(c.op) /\ ~Last(s)
      /\ UNCHANGED <<build, db, lastId, calls, torn>>
      /\ Continues(c, e) /\ e.id = Target(s).id /\ e.alone = c.alone /\ e.td = c.td /\ e.bd = c.bd
      /\ e.shared = c.shared \cup {f} /\ e.reserved = c.reserved \cup {f}
      /\ DOMAIN e.draft = c.shared \cup {f}
      /\ e.draft[f] = Outcome(s)[f]
      /\ \A g \in c.shared \ {f} : e.draft[g] = c.draft[g]

WriteIn(s) ==
  LET c == call[s]
      e == call'[s]
  IN  /\ Step(s) \in Changes /\ ~InTransaction(c.op)
      /\ UNCHANGED <<build, calls, torn>>
      /\ db' = Outcome(s)
      /\ lastId' = IF Target(s).id > lastId THEN Target(s).id ELSE lastId
      /\ Last(s) => e = Idle
      /\ ~Last(s) => Continues(c, e) /\ e.id = Target(s).id /\ SameLocks(c, e) /\ e.td = c.td /\ e.bd = c.bd

CommitsFile(s, f) ==
  /\ UNCHANGED <<build, calls>>
  /\ db' = [db EXCEPT ![f] = call[s].draft[f]]
  /\ lastId' = IF call[s].id > lastId THEN call[s].id ELSE lastId

CommitMIn(s) ==
  LET c == call[s]
      e == call'[s]
  IN  /\ Step(s) = "commit m" /\ ~Last(s) /\ CommitsFile(s, "m") /\ torn' = torn
      /\ Continues(c, e) /\ e.id = c.id /\ e.td = c.td /\ e.bd = c.bd
      /\ e.shared = c.shared /\ e.reserved = c.reserved /\ e.draft = c.draft /\ e.alone = TRUE

CommitPIn(s) ==
  /\ Step(s) = "commit p" /\ Last(s) /\ CommitsFile(s, "p") /\ call'[s] = Idle
  /\ call[s].op # "create" => torn' = torn
  /\ call[s].op = "create" => torn' = (torn \ ({call[s].id} \X Concerns("create")))
                                        \cup {call[s].id} \X Conflicts(s, "create", call[s].id)

StopIn(s) ==
  /\ call'[s] = Idle /\ UNCHANGED <<build, db, lastId, calls>>
  /\ torn' = IF Halfway(s) THEN torn \cup {call[s].id} \X Concerns(call[s].op) ELSE torn

BeginIn(s, op, i, v) ==
  LET e == call'[s]
  IN  /\ ~Busy(s) /\ calls < MaxCalls /\ calls' = calls + 1 /\ UNCHANGED <<build, db, lastId>>
      /\ op = "create" <=> i = 0
      /\ torn' = torn \cup {i} \X Conflicts(s, op, i)
      /\ DOMAIN e = DOMAIN Idle /\ e.op = op /\ e.id = i /\ e.val = v /\ e.of = calls + 1 /\ e.at = 1
      /\ e.td = Idle.td /\ e.bd = Idle.bd /\ SameLocks(Idle, e)

LEMMA FieldsEdited ==
  ASSUME NEW c, DOMAIN c = DOMAIN Idle
  PROVE  /\ "op" \in DOMAIN c /\ "id" \in DOMAIN c /\ "val" \in DOMAIN c /\ "of" \in DOMAIN c
         /\ "at" \in DOMAIN c /\ "td" \in DOMAIN c /\ "bd" \in DOMAIN c /\ "shared" \in DOMAIN c
         /\ "reserved" \in DOMAIN c /\ "alone" \in DOMAIN c /\ "draft" \in DOMAIN c
  BY IdleIs

LEMMA Advances ==
  ASSUME NEW s \in Sessions, DOMAIN call = Sessions, NEW c, DOMAIN c = DOMAIN Idle,
         call' = After(s, c)
  PROVE  /\ OthersKept(s)
         /\ Last(s) => call'[s] = Idle
         /\ ~Last(s) => LET e == call'[s]
                        IN  /\ Continues(c, e) /\ e.id = c.id /\ e.td = c.td /\ e.bd = c.bd
                            /\ SameLocks(c, e)
<1>1. call' = [call EXCEPT ![s] = IF Last(s) THEN Idle ELSE [c EXCEPT !.at = c.at + 1]]
  BY DEF After
<1>2. PICK e : e = [c EXCEPT !.at = c.at + 1]
  OBVIOUS
<1>3. /\ Continues(c, e) /\ e.id = c.id /\ e.td = c.td /\ e.bd = c.bd
      /\ SameLocks(c, e)
  BY <1>2, FieldsEdited DEF Continues, SameLocks
<1>4. OthersKept(s) /\ (Last(s) => call'[s] = Idle) /\ (~Last(s) => call'[s] = e)
  BY <1>1, <1>2 DEF OthersKept
<1> QED BY <1>3, <1>4

LEMMA Targets ==
  ASSUME NEW s \in Sessions, HereIn(s)
  PROVE  /\ CallOK(Target(s))
         /\ Target(s).op = call[s].op /\ Target(s).val = call[s].val /\ Target(s).of = call[s].of
         /\ Target(s).td = call[s].td /\ Target(s).bd = call[s].bd
         /\ Step(s) # "insert" => Target(s) = call[s]
         /\ Step(s) = "insert" => Target(s).id = NewId(View(s).m)
<1>1. CallOK(call[s])
  BY DEF HereIn, ActiveOK
<1>2. DOMAIN call[s] = DOMAIN Idle
  BY <1>1 DEF CallOK
<1>3. CASE Step(s) = "insert"
  <2>1. PICK e : e = [call[s] EXCEPT !.id = NewId(View(s).m)]
    OBVIOUS
  <2>2. /\ DOMAIN e = DOMAIN Idle /\ e.op = call[s].op /\ e.val = call[s].val /\ e.of = call[s].of
        /\ e.td = call[s].td /\ e.bd = call[s].bd /\ e.id = NewId(View(s).m)
    BY <1>2, <2>1, FieldsEdited
  <2>3. Target(s) = e
    BY <1>3, <2>1 DEF Target
  <2> QED BY <1>1, <1>3, <2>2, <2>3 DEF CallOK
<1>4. CASE Step(s) # "insert"
  BY <1>1, <1>4 DEF Target
<1> QED BY <1>3, <1>4

LEMMA WrittenIs == \A s : Written(s).id = Target(s).id /\ Written(s).db = Outcome(s)
  BY DEF Written, Target, Outcome

LEMMA ReadEffect ==
  ASSUME NEW s \in Sessions, DOMAIN call = Sessions, HereIn(s), ReadBlob(s)
  PROVE  ReadIn(s) /\ OthersKept(s)
<1> DEFINE c == call[s]
           f == FileOf(Step(s))
           row == RowFor(View(s), call[s].id)
<1>1. DOMAIN c = DOMAIN Idle
  BY DEF HereIn, ActiveOK, CallOK
<1>2. PICK l : l = Locked(s, f)
  OBVIOUS
<1>3. /\ DOMAIN l = DOMAIN Idle
      /\ l.op = c.op /\ l.id = c.id /\ l.val = c.val /\ l.of = c.of /\ l.at = c.at
      /\ l.td = c.td /\ l.bd = c.bd /\ l.alone = c.alone /\ l.reserved = c.reserved
      /\ InTransaction(c.op) => /\ l.shared = c.shared \cup {f}
                                /\ l.draft = [g \in c.shared \cup {f} |-> View(s)[g]]
      /\ ~InTransaction(c.op) => l.shared = c.shared /\ l.draft = c.draft
  BY <1>1, <1>2, FieldsEdited DEF Locked
<1>4. PICK r : r = IF Step(s) = "read td" THEN [l EXCEPT !.td = row.td] ELSE [l EXCEPT !.bd = row.bd]
  OBVIOUS
<1>5. call' = After(s, r) /\ UNCHANGED <<build, db, lastId, calls, torn>> /\ Step(s) \in Reads
  BY <1>2, <1>4 DEF ReadBlob
<1>6. Step(s) = "read td" \/ Step(s) = "read bd"
  BY <1>5 DEF Reads
<1>7. /\ DOMAIN r = DOMAIN Idle
      /\ r.op = c.op /\ r.id = c.id /\ r.val = c.val /\ r.of = c.of /\ r.at = c.at
      /\ r.td = IF Step(s) = "read td" THEN row.td ELSE c.td
      /\ r.bd = IF Step(s) = "read bd" THEN row.bd ELSE c.bd
      /\ r.alone = c.alone /\ r.reserved = c.reserved
      /\ r.shared = l.shared /\ r.draft = l.draft
  BY <1>3, <1>4, <1>6, FieldsEdited
<1>8. ~Last(s)
  BY <1>5 DEF HereIn, InOrder
<1>9. PICK e : e = call'[s]
  OBVIOUS
<1>10. Continues(r, e) /\ e.id = r.id /\ e.td = r.td /\ e.bd = r.bd /\ SameLocks(r, e) /\ OthersKept(s)
  BY <1>5, <1>7, <1>8, <1>9, Advances
<1> QED BY <1>3, <1>5, <1>7, <1>8, <1>9, <1>10 DEF ReadIn, Continues, SameLocks

LEMMA LockedIs ==
  ASSUME NEW s \in Sessions, HereIn(s), InTransaction(call[s].op), NEW f
  PROVE  LET c == call[s]
             l == Locked(s, f)
         IN  /\ DOMAIN l = DOMAIN Idle
             /\ l.op = c.op /\ l.id = c.id /\ l.val = c.val /\ l.of = c.of /\ l.at = c.at
             /\ l.td = c.td /\ l.bd = c.bd /\ l.alone = c.alone /\ l.reserved = c.reserved
             /\ l.shared = c.shared \cup {f}
             /\ l.draft = [g \in c.shared \cup {f} |-> View(s)[g]]
<1>1. DOMAIN call[s] = DOMAIN Idle
  BY DEF HereIn, ActiveOK, CallOK
<1> QED BY <1>1, FieldsEdited DEF Locked

LEMMA ViewOfLocked ==
  \A s \in Sessions : call[s].shared \subseteq Files =>
    \A f \in call[s].shared : View(s)[f] = call[s].draft[f]
  BY DEF View

LEMMA DraftEffect ==
  ASSUME NEW s \in Sessions, DOMAIN call = Sessions, HereIn(s), call[s].shared \subseteq Files,
         Change(s), InTransaction(call[s].op)
  PROVE  DraftIn(s) /\ OthersKept(s)
<1> DEFINE c == call[s]
           f == FileOf(Step(s))
<1>1. PICK l : l = Locked(s, f)
  OBVIOUS
<1>2. /\ DOMAIN l = DOMAIN Idle
      /\ l.op = c.op /\ l.id = c.id /\ l.val = c.val /\ l.of = c.of /\ l.at = c.at
      /\ l.td = c.td /\ l.bd = c.bd /\ l.alone = c.alone /\ l.reserved = c.reserved
      /\ l.shared = c.shared \cup {f}
      /\ l.draft = [g \in c.shared \cup {f} |-> View(s)[g]]
  BY <1>1, LockedIs
<1>3. PICK x : x = Target(s).id
  OBVIOUS
<1>4. PICK file : file = Outcome(s)[f]
  OBVIOUS
<1>5. PICK r : r = [l EXCEPT !.id = x, !.draft[f] = file, !.reserved = @ \cup {f}]
  OBVIOUS
<1>6. /\ DOMAIN r = DOMAIN Idle
      /\ r.op = c.op /\ r.val = c.val /\ r.of = c.of /\ r.at = c.at
      /\ r.td = c.td /\ r.bd = c.bd /\ r.alone = c.alone
      /\ r.id = x /\ r.shared = c.shared \cup {f} /\ r.reserved = c.reserved \cup {f}
      /\ r.draft = [l.draft EXCEPT ![f] = file]
  BY <1>2, <1>5, FieldsEdited
<1>7. DOMAIN r.draft = c.shared \cup {f} /\ r.draft[f] = file /\ \A g \in c.shared \ {f} : r.draft[g] = c.draft[g]
  BY <1>2, <1>6, ViewOfLocked
<1>8. /\ call' = After(s, r) /\ UNCHANGED <<build, db, lastId, calls, torn>>
      /\ Step(s) \notin Reads \cup Commits
  BY <1>1, <1>3, <1>4, <1>5, WrittenIs DEF Change
<1>9. Step(s) \in Changes /\ ~Last(s)
  BY <1>8 DEF HereIn, InOrder, Changes, Commits
<1>10. PICK e : e = call'[s]
  OBVIOUS
<1>11. Continues(r, e) /\ e.id = r.id /\ e.td = r.td /\ e.bd = r.bd /\ SameLocks(r, e) /\ OthersKept(s)
  BY <1>6, <1>8, <1>9, <1>10, Advances
<1> QED BY <1>3, <1>4, <1>6, <1>7, <1>8, <1>9, <1>10, <1>11 DEF DraftIn, Continues, SameLocks

LEMMA WriteEffect ==
  ASSUME NEW s \in Sessions, DOMAIN call = Sessions, HereIn(s),
         Change(s), ~InTransaction(call[s].op)
  PROVE  WriteIn(s) /\ OthersKept(s)
<1> DEFINE c == call[s]
<1>1. DOMAIN c = DOMAIN Idle
  BY DEF HereIn, ActiveOK, CallOK
<1>2. PICK r : r = [c EXCEPT !.id = Target(s).id]
  OBVIOUS
<1>3. /\ DOMAIN r = DOMAIN Idle /\ r.id = Target(s).id
      /\ r.op = c.op /\ r.val = c.val /\ r.of = c.of /\ r.at = c.at
      /\ r.td = c.td /\ r.bd = c.bd /\ SameLocks(c, r)
  BY <1>1, <1>2, FieldsEdited DEF SameLocks
<1>4. /\ call' = After(s, r) /\ UNCHANGED <<build, calls, torn>> /\ db' = Outcome(s)
      /\ lastId' = IF Target(s).id > lastId THEN Target(s).id ELSE lastId
      /\ Step(s) \notin Reads \cup Commits
  BY <1>2, WrittenIs DEF Change
<1>5. Step(s) \in Changes
  BY <1>4 DEF HereIn, InOrder, Changes
<1>6. PICK e : e = call'[s]
  OBVIOUS
<1>7. /\ OthersKept(s)
      /\ Last(s) => e = Idle
      /\ ~Last(s) => Continues(r, e) /\ e.id = r.id /\ e.td = r.td /\ e.bd = r.bd /\ SameLocks(r, e)
  BY <1>3, <1>4, <1>6, Advances
<1> QED BY <1>3, <1>4, <1>5, <1>6, <1>7 DEF WriteIn, Continues, SameLocks

LEMMA CommitEffect ==
  ASSUME NEW s \in Sessions, DOMAIN call = Sessions, HereIn(s), Commit(s)
  PROVE  (CommitMIn(s) \/ CommitPIn(s)) /\ OthersKept(s)
<1> DEFINE c == call[s]
<1>1. DOMAIN c = DOMAIN Idle
  BY DEF HereIn, ActiveOK, CallOK
<1>2. PICK r : r = [c EXCEPT !.alone = TRUE]
  OBVIOUS
<1>3. /\ DOMAIN r = DOMAIN Idle /\ r.alone = TRUE
      /\ r.op = c.op /\ r.id = c.id /\ r.val = c.val /\ r.of = c.of /\ r.at = c.at
      /\ r.td = c.td /\ r.bd = c.bd
      /\ r.shared = c.shared /\ r.reserved = c.reserved /\ r.draft = c.draft
  BY <1>1, <1>2, FieldsEdited
<1>4. PICK f : f = IF Step(s) = "commit m" THEN "m" ELSE "p"
  OBVIOUS
<1>5. /\ call' = After(s, r) /\ CommitsFile(s, f) /\ Step(s) \in Commits
      /\ torn' = IF c.op = "create" /\ Last(s)
                 THEN (torn \ ({c.id} \X Concerns("create"))) \cup {c.id} \X Conflicts(s, "create", c.id)
                 ELSE torn
  BY <1>2, <1>4 DEF Commit, CommitsFile
<1>6. PICK e : e = call'[s]
  OBVIOUS
<1>7. /\ OthersKept(s)
      /\ Last(s) => e = Idle
      /\ ~Last(s) => Continues(r, e) /\ e.id = r.id /\ e.td = r.td /\ e.bd = r.bd /\ SameLocks(r, e)
  BY <1>3, <1>5, <1>6, Advances
<1>8. CASE Step(s) = "commit m"
  <2>1. ~Last(s)
    BY <1>8 DEF HereIn, InOrder, Commits
  <2> QED BY <1>3, <1>4, <1>5, <1>6, <1>7, <1>8, <2>1 DEF CommitMIn, Continues, SameLocks
<1>9. CASE Step(s) = "commit p"
  <2>1. Last(s)
    BY <1>9 DEF HereIn, InOrder, Commits
  <2> QED BY <1>4, <1>5, <1>6, <1>7, <1>9, <2>1 DEF CommitPIn
<1> QED BY <1>5, <1>8, <1>9 DEF Commits

LEMMA StopEffect ==
  ASSUME NEW s \in Sessions, DOMAIN call = Sessions, Stop(s)
  PROVE  StopIn(s) /\ OthersKept(s)
  BY DEF Stop, StopIn, OthersKept

LEMMA BeginEffect ==
  ASSUME NEW s \in Sessions, DOMAIN call = Sessions, NEW op, NEW i, NEW v, Begin(s, op, i, v)
  PROVE  BeginIn(s, op, i, v) /\ OthersKept(s)
<1>1. PICK e : e = [Idle EXCEPT !.op = op, !.id = i, !.val = v, !.of = calls + 1]
  OBVIOUS
<1>2. /\ DOMAIN e = DOMAIN Idle /\ e.op = op /\ e.id = i /\ e.val = v /\ e.of = calls + 1
      /\ e.at = Idle.at /\ e.td = Idle.td /\ e.bd = Idle.bd /\ SameLocks(Idle, e)
  BY <1>1, FieldsEdited DEF SameLocks
<1>3. e.at = 1
  BY <1>2, IdleIs
<1>4. OthersKept(s) /\ call'[s] = e
  BY <1>1 DEF Begin, OthersKept
<1> QED BY <1>2, <1>3, <1>4 DEF Begin, BeginIn

-----------------------------------------------------------------------------
(* What a session has locked, and what it sees. *)

SameFiles(d, e) == d.m = e.m /\ d.p = e.p

LEMMA FilesAre ==
  /\ Files = {"m", "p"} /\ "m" # "p"
  /\ \A step : FileOf(step) \in Files
  BY DEF Files, FileOf, FileIn

LEMMA TransactionsIn ==
  /\ \A g, op : TransactionIn(g, op) => g = 1
  /\ \A g, op : "rows" \in Concerns(op) /\ g = 1 => TransactionIn(g, op)
  BY DEF TransactionIn, Concerns

(* The locks of a session, whether in a call or not.                       *)
LockFacts(s) ==
  LET c == call[s]
  IN  /\ c.shared \subseteq Files /\ c.reserved \subseteq c.shared /\ c.alone \in BOOLEAN
      /\ c.shared # {} \/ c.reserved # {} \/ c.alone => Busy(s) /\ TransactionIn(Gen, c.op) /\ Gen = 1
      /\ c.alone => c.reserved = Files /\ c.shared = Files /\ Step(s) = "commit p"
      /\ c.alone => c.op \in {"key", "size", "create", "update"}
      /\ Busy(s) /\ TransactionIn(Gen, c.op) =>
           /\ c.shared = Touched(Gen, Past(Gen, c)) /\ c.reserved = Altered(Gen, Past(Gen, c))
           /\ c.alone <=> "commit m" \in Past(Gen, c)

LEMMA Locks ==
  ASSUME Typed, NEW s \in Sessions
  PROVE  LockFacts(s) /\ (Busy(s) => HereIn(s))
<1> DEFINE c == call[s]
<1>1. Busy(s) => HereIn(s)
  BY Here DEF Typed, StateOK
<1>2. LocksOf(Gen, c)
  BY DEF Typed, LocksAsDone
<1>3. CASE ~(c.op # "none" /\ TransactionIn(Gen, c.op))
  <2>1. c.shared = {} /\ c.reserved = {} /\ ~c.alone
    BY <1>2, <1>3 DEF LocksOf
  <2>2. c.alone \in BOOLEAN
    BY IdleIs DEF Typed, CallsOK, ActiveOK
  <2> QED BY <1>1, <1>3, <2>1, <2>2 DEF LockFacts, Busy
<1>4. CASE c.op # "none" /\ TransactionIn(Gen, c.op)
  <2>1. HereIn(s) /\ Busy(s)
    BY <1>1, <1>4 DEF Busy
  <2>2. c.alone \in BOOLEAN
    BY <2>1 DEF HereIn, ActiveOK
  <2>3. /\ c.shared = Touched(Gen, Past(Gen, c)) /\ c.reserved = Altered(Gen, Past(Gen, c))
        /\ c.alone <=> "commit m" \in Past(Gen, c)
    BY <1>2, <1>4 DEF LocksOf
  <2>4. Gen = 1
    BY <1>4, TransactionsIn
  <2>5. c.alone => /\ Step(s) = "commit p" /\ c.reserved = Files
                   /\ c.op \in {"key", "size", "create", "update"}
    BY <1>4, <2>1, <2>3 DEF HereIn, InOrder
  <2>6. c.shared \subseteq Files /\ c.reserved \subseteq c.shared
    BY <2>3 DEF Touched, Altered, FileIn, Files
  <2>7. c.alone => c.shared = Files
    BY <2>5, <2>6
  <2>8. LockFacts(s)
    BY <1>4, <2>1, <2>2, <2>3, <2>4, <2>5, <2>6, <2>7 DEF LockFacts
  <2> QED BY <1>1, <2>8
<1> QED BY <1>1, <1>3, <1>4

(* While a call is between its two commits, no other may do a statement.   *)
LEMMA NoneAlone ==
  ASSUME Typed, NEW s \in Sessions, Busy(s), Free(s), Step(s) \notin Commits, NEW t \in Sessions, t # s
  PROVE  ~call[t].alone
<1> SUFFICES ASSUME call[t].alone PROVE FALSE
  OBVIOUS
<1>1. call[t].reserved = Files /\ call[t].shared = Files
  BY Locks DEF LockFacts
<1>2. FileOf(Step(s)) \in Files /\ t \in Others(s)
  BY FilesAre DEF Others
<1> QED BY <1>1, <1>2 DEF Free

LEMMA ViewsAre == \A s : View(s) = ViewOf(call[s], db)
  BY DEF View, ViewOf

LEMMA ViewFiles ==
  \A c, d : /\ DOMAIN ViewOf(c, d) = Files
            /\ ViewOf(c, d).m = IF "m" \in c.shared THEN c.draft["m"] ELSE d["m"]
            /\ ViewOf(c, d).p = IF "p" \in c.shared THEN c.draft["p"] ELSE d["p"]
  BY FilesAre DEF ViewOf

(* Who has locked nothing sees what is committed.                          *)
LEMMA ViewOfUnlocked ==
  ASSUME NEW c, c.shared = {}, NEW d PROVE SameFiles(ViewOf(c, d), d)
  BY ViewFiles DEF SameFiles

LEMMA ViewTyped ==
  ASSUME Typed, NEW s \in Sessions PROVE FilesOK(View(s))
<1>1. View(s) = ViewOf(call[s], db)
  BY ViewsAre
<1>2. FilesOK(db)
  BY DEF Typed, StateOK
<1>3. CASE ~Busy(s)
  <2>1. call[s].shared = {}
    BY <1>3, Locks DEF LockFacts
  <2> QED BY <1>1, <1>2, <2>1, ViewOfUnlocked, ViewFiles DEF FilesOK, SameFiles
<1>4. CASE Busy(s)
  <2>1. ActiveOK(Gen, lastId, call[s])
    BY <1>4, Locks DEF HereIn
  <2> QED BY <1>1, <1>2, <2>1, ViewFiles DEF FilesOK, ActiveOK
<1> QED BY <1>3, <1>4

-----------------------------------------------------------------------------
(* The id of a new row. *)

(* Every set of naturals that is not empty has a least member. *)
LEMMA LeastOf ==
  ASSUME NEW S \in SUBSET Nat, S # {}
  PROVE  \E x \in S : \A y \in S : x <= y
<1> DEFINE less == {ss \in Nat \X Nat : ss[1] < ss[2]}
<1>1. IsWellFoundedOn(less, Nat)
  BY NatLessThanWellFounded DEF OpToRel
<1>2. \A x, y \in Nat : <<x, y>> \in less <=> x < y
  OBVIOUS
<1> HIDE DEF less
<1>3. PICK x \in S : \A y \in S : ~ (<<y, x>> \in less)
  BY <1>1, WFMin, Zenon
<1>4. ASSUME NEW y \in S PROVE x <= y
  <2>1. x \in Nat /\ y \in Nat OBVIOUS
  <2>2. ~ (y < x) BY <1>2, <1>3, <2>1
  <2> QED BY <2>1, <2>2
<1> QED BY <1>4

LEMMA GreatestOf ==
  ASSUME NEW N \in Nat, NEW S \in SUBSET (0 .. N), S # {}
  PROVE  \E x \in S : \A y \in S : y <= x
<1> DEFINE T == {N - y : y \in S}
<1>1. T \in SUBSET Nat /\ T # {}
  <2>1. \A y \in S : y \in 0 .. N
    OBVIOUS
  <2>2. \A y \in 0 .. N : N - y \in Nat
    OBVIOUS
  <2>3. \A y \in S : N - y \in T
    OBVIOUS
  <2> QED BY <2>1, <2>2, <2>3
<1>2. PICK m \in T : \A n \in T : m <= n
  <2> HIDE DEF T
  <2> QED BY <1>1, LeastOf
<1>3. PICK x \in S : m = N - x
  OBVIOUS
<1>4. ASSUME NEW y \in S PROVE y <= x
  <2>1. N - y \in T /\ m <= N - y
    BY <1>2
  <2> QED BY <1>3, <2>1
<1> QED BY <1>4

(* A call that creates a track needs an id, and there is one.              *)
LEMMA ThereIsRoom ==
  ASSUME Typed, Room, NEW s \in Sessions, Pending(s)
  PROVE  lastId + 1 \in Ids
<1> DEFINE P == {t \in Sessions : Pending(t)}
<1>1. IsFiniteSet(P) /\ Cardinality(P) + lastId <= 1 + calls
  BY DEF Room
<1>2. s \in P
  OBVIOUS
<1> HIDE DEF P
<1>3. Cardinality(P) \in Nat /\ Cardinality(P) # 0
  BY <1>1, <1>2, FS_CardinalityType, FS_EmptySet
<1>4. lastId \in Nat \ {0} /\ calls \in 0 .. MaxCalls
  BY DEF Typed, StateOK
<1> QED BY <1>1, <1>3, <1>4, TrackCallsBounds DEF Ids

LEMMA LastIdIsAnId ==
  ASSUME Typed, Room PROVE lastId \in Ids
<1> DEFINE P == {t \in Sessions : Pending(t)}
<1>1. IsFiniteSet(P) /\ Cardinality(P) + lastId <= 1 + calls
  BY DEF Room
<1> HIDE DEF P
<1>3. Cardinality(P) \in Nat
  BY <1>1, FS_CardinalityType
<1>4. lastId \in Nat \ {0} /\ calls \in 0 .. MaxCalls
  BY DEF Typed, StateOK
<1> QED BY <1>1, <1>3, <1>4, TrackCallsBounds DEF Ids

NewIdIn(s) ==
  /\ call[s].op = "create" /\ call[s].id = 0 /\ call[s].at = 1 /\ Past(Gen, call[s]) = {}
  /\ Pending(s) /\ call[s].shared = {} /\ ~call[s].alone
  /\ Target(s).id \in 1 .. lastId + 1 /\ Target(s).id \in Ids
  /\ Target(s).id \notin DOMAIN View(s).m
  /\ Gen # 1 => Target(s).id = lastId + 1

LEMMA NewIds ==
  ASSUME Typed, Room, NEW s \in Sessions, Busy(s), Step(s) = "insert"
  PROVE  NewIdIn(s)
<1>1. HereIn(s) /\ LockFacts(s)
  BY Locks
<1>2. call[s].op = "create" /\ Past(Gen, call[s]) = {}
  BY <1>1 DEF HereIn, InOrder
<1>3. call[s].at = 1
  BY <1>1, <1>2, Begun
<1>4. call[s].id = 0
  BY <1>1, <1>2, <1>3 DEF HereIn, ActiveOK
<1>5. call[s].shared = {} /\ ~call[s].alone
  BY <1>1, <1>2 DEF LockFacts, Touched
<1>6. Pending(s)
  BY <1>2, <1>3, <1>5 DEF Pending
<1>7. lastId + 1 \in Ids /\ lastId \in Nat \ {0}
  BY <1>6, ThereIsRoom DEF Typed, StateOK
<1> DEFINE T == View(s).m
           n == NewId(T)
<1>8. T = db.m
  BY <1>5, ViewsAre, ViewOfUnlocked DEF SameFiles
<1>9. DOMAIN T \subseteq 1 .. lastId
  BY <1>8 DEF Typed, StateOK
<1>10. Target(s).id = n
  BY <1>1, Targets
<1> HIDE DEF T
<1>11. n \in 1 .. lastId + 1 /\ n \notin DOMAIN T /\ n \in Ids /\ (Gen # 1 => n = lastId + 1)
  <2>1. CASE build.recycles
    <3> DEFINE Fits(k) == k - 1 \in DOMAIN T \cup {0} /\ \A i \in DOMAIN T : i < k
    <3>1. PICK g \in DOMAIN T \cup {0} : \A y \in DOMAIN T \cup {0} : y <= g
      <4>1. DOMAIN T \cup {0} \in SUBSET (0 .. lastId) /\ DOMAIN T \cup {0} # {}
        BY <1>7, <1>9
      <4> QED BY <1>7, <4>1, GreatestOf
    <3>2. g \in 0 .. lastId
      BY <1>7, <1>9
    <3>3. g + 1 \in Ids /\ g + 1 - 1 = g
      BY <1>7, <3>2, TrackCallsBounds DEF Ids
    <3>4. \A i \in DOMAIN T : i < g + 1
      BY <1>9, <3>1, <3>2
    <3>5. Fits(g + 1)
      <4>1. PICK k : k = g + 1
        OBVIOUS
      <4>2. k - 1 = g
        BY <1>7, <3>2, <4>1
      <4>3. \A i \in DOMAIN T : i < k
        BY <3>4, <4>1
      <4>4. Fits(k)
        BY <3>1, <4>2, <4>3
      <4> QED BY <4>1, <4>4
    <3>6. n = CHOOSE k \in Ids : Fits(k)
      BY <2>1 DEF NewId
    <3>7. n \in Ids /\ Fits(n)
      BY <3>3, <3>5, <3>6
    <3>8. n - 1 <= lastId /\ n \in Int /\ n >= 1
      BY <1>7, <1>9, <3>7 DEF Ids
    <3>9. n \notin DOMAIN T
      BY <3>7, <3>8
    <3>10. Gen = 1
      BY <2>1 DEF Typed, StateOK, Builds, Gen
    <3> QED BY <1>7, <3>7, <3>8, <3>9, <3>10
  <2>2. CASE ~build.recycles
    <3>1. n = lastId + 1
      BY <2>2 DEF NewId
    <3> QED BY <1>7, <1>9, <3>1
  <2> QED BY <2>1, <2>2
<1> QED BY <1>2, <1>3, <1>4, <1>5, <1>6, <1>10, <1>11 DEF NewIdIn, T

(* What a statement is carried out on, and what comes of it.               *)
OutcomeIn(s) ==
  LET v == View(s)
      w == Outcome(s)
      c == Target(s)
  IN  /\ Step(s) \in Changes /\ HereIn(s) /\ LockFacts(s) /\ CallOK(c)
      /\ FilesOK(v) /\ FilesOK(w) /\ OthersSame(v, w, c.id)
      /\ InOrder(Gen, c.op, Step(s), Past(Gen, call[s]), Last(s))
      /\ Step(s) \in OnBlobs => c.id \in DOMAIN v.p
      /\ Gen = 1 => \A f \in Files : f # FileOf(Step(s)) => w[f] = v[f]
      /\ Step(s) # "insert" => c = call[s]
      /\ Step(s) = "insert" => NewIdIn(s)

LEMMA Outcomes ==
  ASSUME Typed, Room, NEW s \in Sessions, Busy(s), ~Missing(s), Step(s) \in Changes
  PROVE  OutcomeIn(s)
<1> DEFINE v == View(s)
           c == Target(s)
<1>1. HereIn(s) /\ LockFacts(s) /\ FilesOK(v)
  BY Locks, ViewTyped
<1>2. CallOK(c) /\ c.op = call[s].op /\ (Step(s) # "insert" => c = call[s])
  BY <1>1, Targets
<1>3. InOrder(Gen, c.op, Step(s), Past(Gen, call[s]), Last(s)) /\ Gen \in 1 .. 3
  BY <1>1, <1>2 DEF HereIn
<1>4. Step(s) \in OnBlobs => c.id \in DOMAIN v.p
  BY <1>2 DEF OnBlobs, Missing
<1>5. FilesOK(Outcome(s)) /\ OthersSame(v, Outcome(s), c.id)
  BY <1>1, <1>2, <1>3, <1>4, ResultShape DEF Outcome
<1>6. Gen = 1 => \A f \in Files : f # FileOf(Step(s)) => Outcome(s)[f] = v[f]
  BY <1>1, <1>2, <1>3, <1>4, ResultFile DEF Outcome
<1>7. Step(s) = "insert" => NewIdIn(s)
  BY NewIds
<1> QED BY <1>1, <1>2, <1>3, <1>4, <1>5, <1>6, <1>7 DEF OutcomeIn

-----------------------------------------------------------------------------
(* A step is one session's: what is left to show of the invariant.         *)

LEMMA ActiveLater ==
  ASSUME NEW g, NEW top \in Nat, NEW top2 \in Nat, top <= top2, NEW c, ActiveOK(g, top, c)
  PROVE  ActiveOK(g, top2, c)
<1>1. 1 .. top \subseteq 1 .. top2 /\ 1 .. top + 1 \subseteq 1 .. top2 + 1
  OBVIOUS
<1>2. c.id <= top => c.id <= top2
  BY DEF ActiveOK
<1> QED BY <1>1, <1>2 DEF ActiveOK

LEMMA TypedByStep ==
  ASSUME Typed, NEW s \in Sessions, OthersKept(s), build' = build, StateOK', lastId <= lastId',
         call'[s] = Idle \/ ActiveOK(Gen, lastId', call'[s]),
         LocksOf(Gen, call'[s])
  PROVE  Typed'
<1>1. Gen' = Gen
  BY DEF Gen
<1>2. lastId \in Nat /\ lastId' \in Nat
  BY DEF Typed, StateOK
<1>3. CallsOK'
  <2>1. DOMAIN call' = Sessions
    BY DEF OthersKept
  <2>2. ASSUME NEW t \in Sessions PROVE call'[t] = Idle \/ ActiveOK(Gen', lastId', call'[t])
    <3>1. CASE t = s
      BY <1>1, <3>1
    <3>2. CASE t # s
      <4>1. call'[t] = call[t]
        BY <3>2 DEF OthersKept
      <4>2. call[t] = Idle \/ ActiveOK(Gen, lastId, call[t])
        BY DEF Typed, CallsOK
      <4> QED BY <1>1, <1>2, <4>1, <4>2, ActiveLater
    <3> QED BY <3>1, <3>2
  <2> QED BY <2>1, <2>2 DEF CallsOK
<1>4. LocksAsDone'
  <2>1. ASSUME NEW t \in Sessions PROVE LocksOf(Gen', call'[t])
    BY <1>1 DEF Typed, LocksAsDone, OthersKept
  <2> QED BY <2>1 DEF LocksAsDone
<1> QED BY <1>3, <1>4 DEF Typed

LEMMA ApartByStep ==
  ASSUME Apart, NEW s \in Sessions, OthersKept(s),
         \A t \in Sessions : t # s =>
           /\ call'[s].reserved \cap call[t].reserved = {}
           /\ call'[s].alone => call[t].shared = {}
           /\ call[t].alone => call'[s].shared = {}
  PROVE  Apart'
  BY DEF Apart, OthersKept

LEMMA FollowByStep ==
  ASSUME NEW s \in Sessions, OthersKept(s), Follows(call'[s], db'),
         \A t \in Sessions : t # s => Follows(call[t], db')
  PROVE  DraftsFollow'
<1>1. ASSUME NEW t \in Sessions PROVE Follows(call'[t], db')
  BY DEF OthersKept
<1> QED BY <1>1 DEF DraftsFollow

LEMMA StagedByStep ==
  ASSUME NEW s \in Sessions, OthersKept(s), build' = build, StagedIn(Gen, call'[s], db', torn'),
         \A t \in Sessions : t # s => StagedIn(Gen, call[t], db', torn')
  PROVE  CallsStaged'
<1>1. Gen' = Gen
  BY DEF Gen
<1>2. ASSUME NEW t \in Sessions PROVE StagedIn(Gen', call'[t], db', torn')
  BY <1>1 DEF OthersKept
<1> QED BY <1>2 DEF CallsStaged

LEMMA SameState ==
  ASSUME Typed, UNCHANGED <<build, db, lastId, calls, torn>>
  PROVE  StateOK'
  BY DEF Typed, StateOK, FilesOK

LEMMA HalfwayIs == \A s : Halfway(s) <=> HalfIn(Gen, call[s])
<1> SUFFICES ASSUME NEW s PROVE Halfway(s) <=> HalfIn(Gen, call[s])
  OBVIOUS
<1>1. Program(call[s].op) = ProgramOf(Gen, call[s].op)
  BY DEF Program, ProgramOf
<1>2. InTransaction(call[s].op) <=> TransactionIn(Gen, call[s].op)
  BY TransactionsAre
<1>3. (\E n \in 1 .. call[s].at - 1 : Program(call[s].op)[n] \notin Reads) <=> Past(Gen, call[s]) \ Reads # {}
  BY <1>1 DEF Past, Before
<1> QED BY <1>2, <1>3 DEF Halfway, HalfIn

LEMMA SettledIs == \A i, what : Settled(i, what) <=> SettledIn(Gen, call, torn, i, what)
  BY HalfwayIs DEF Settled, SettledIn

(* A step that leaves a track settled found it so.                         *)
LEMMA SettledBefore ==
  ASSUME NEW s \in Sessions, OthersKept(s), NEW g, NEW i, NEW what,
         <<i, what>> \in torn => <<i, what>> \in torn',
         call[s].id = i /\ HalfIn(g, call[s]) /\ what \in Concerns(call[s].op) =>
           \/ <<i, what>> \in torn'
           \/ call'[s].id = i /\ HalfIn(g, call'[s]) /\ what \in Concerns(call'[s].op),
         SettledIn(g, call', torn', i, what)
  PROVE  SettledIn(g, call, torn, i, what)
<1>1. <<i, what>> \notin torn
  BY DEF SettledIn
<1>2. ASSUME NEW t \in Sessions, call[t].id = i, HalfIn(g, call[t]) PROVE what \notin Concerns(call[t].op)
  <2>1. CASE t = s
    BY <1>2, <2>1 DEF SettledIn
  <2>2. CASE t # s
    BY <1>2, <2>2 DEF SettledIn, OthersKept
  <2> QED BY <2>1, <2>2
<1> QED BY <1>1, <1>2 DEF SettledIn

LEMMA AgreesLessCalm ==
  ASSUME NEW g, NEW d, NEW i, NEW calm, NEW calm2, calm2 => calm, RowAgrees(g, d, i, calm)
  PROVE  RowAgrees(g, d, i, calm2)
  BY DEF RowAgrees

LEMMA AgreesSameRows ==
  ASSUME NEW g, NEW d, NEW e, NEW i, SameRows(d, e, i), NEW calm, RowAgrees(g, d, i, calm)
  PROVE  RowAgrees(g, e, i, calm)
  BY DEF RowAgrees, SameRows, SameColumns, SameBlobs

LEMMA RowsByStep ==
  ASSUME build' = build, \A i : RowAgrees(Gen, db', i, SettledIn(Gen, call', torn', i, "rows"))
  PROVE  RowsAgree'
<1>1. Gen' = Gen
  BY DEF Gen
<1> QED BY <1>1 DEF RowsAgree

LEMMA BpmsByStep ==
  ASSUME build' = build,
         \A i \in DOMAIN (db').m : SettledIn(Gen, call', torn', i, "bpm") =>
           (db').m[i].bpm = (db').m[i].analyzed
  PROVE  BpmsAgree'
<1>1. Gen' = Gen
  BY DEF Gen
<1> QED BY <1>1 DEF BpmsAgree

LEMMA BpmStagedByStep ==
  ASSUME NEW s \in Sessions, OthersKept(s), build' = build,
         BpmHalf(call'[s], db', torn', call'), BpmWhole(Gen, call'[s], db', torn'),
         \A t \in Sessions : t # s =>
           BpmHalf(call[t], db', torn', call') /\ BpmWhole(Gen, call[t], db', torn')
  PROVE  BpmStaged'
<1>1. Gen' = Gen
  BY DEF Gen
<1>2. ASSUME NEW t \in Sessions
      PROVE  BpmHalf(call'[t], db', torn', call') /\ BpmWhole(Gen', call'[t], db', torn')
  BY <1>1 DEF OthersKept
<1> QED BY <1>2 DEF BpmStaged

(* The calls are on the tracks that they were on.                          *)
LEMMA PairsByStep ==
  ASSUME NEW s \in Sessions, OthersKept(s), build' = build, torn \subseteq torn',
         call'[s] = Idle \/ (call'[s].op = call[s].op /\ call'[s].id = call[s].id),
         OneAtATime, OneBpmAtATime
  PROVE  OneAtATime' /\ OneBpmAtATime'
<1>1. Gen' = Gen
  BY DEF Gen
<1>2. Idle.op = "none" /\ Idle.id = 0 /\ Concerns("none") = {}
  BY IdleIs DEF Concerns
<1>3. \A t \in Sessions : \/ call'[t].op = call[t].op /\ call'[t].id = call[t].id
                          \/ call'[t].op = "none" /\ call'[t].id = 0
  BY <1>2 DEF OthersKept
<1>4. OneAtATime'
  <2> SUFFICES ASSUME Gen # 1, NEW u \in Sessions, NEW t \in Sessions, u # t,
                      call'[u].id = call'[t].id, call'[u].id # 0,
                      "rows" \in Concerns(call'[u].op), "rows" \in Concerns(call'[t].op)
               PROVE  <<call'[u].id, "rows">> \in torn'
    BY <1>1 DEF OneAtATime
  <2>1. /\ call'[t].op = call[t].op /\ call'[t].id = call[t].id
        /\ call'[u].op = call[u].op /\ call'[u].id = call[u].id
    BY <1>2, <1>3
  <2> QED BY <2>1 DEF OneAtATime
<1>5. OneBpmAtATime'
  <2> SUFFICES ASSUME NEW u \in Sessions, NEW t \in Sessions, u # t,
                      call'[u].id = call'[t].id, call'[u].op = "bpm", "bpm" \in Concerns(call'[t].op)
               PROVE  <<call'[u].id, "bpm">> \in torn' \/ (Gen = 1 /\ call'[t].op = "create")
    BY <1>1 DEF OneBpmAtATime
  <2>1. /\ call'[t].op = call[t].op /\ call'[t].id = call[t].id
        /\ call'[u].op = call[u].op /\ call'[u].id = call[u].id
    BY <1>2, <1>3
  <2> QED BY <2>1 DEF OneBpmAtATime
<1> QED BY <1>4, <1>5

-----------------------------------------------------------------------------
(* A blob is read. *)

LEMMA ViewIds ==
  ASSUME Typed, NEW s \in Sessions, Busy(s)
  PROVE  /\ DOMAIN View(s).m \subseteq (1 .. lastId) \cup {call[s].id}
         /\ DOMAIN View(s).p \subseteq (1 .. lastId) \cup {call[s].id}
<1>1. View(s) = ViewOf(call[s], db)
  BY ViewsAre
<1>2. DOMAIN db.m \subseteq 1 .. lastId /\ DOMAIN db.p \subseteq 1 .. lastId
  BY DEF Typed, StateOK
<1>3. ActiveOK(Gen, lastId, call[s])
  BY Locks DEF HereIn
<1> QED BY <1>1, <1>2, <1>3, ViewFiles DEF ActiveOK

LEMMA ReadView ==
  ASSUME Typed, NEW s \in Sessions, Busy(s), ReadIn(s)
  PROVE  SameFiles(View(s), ViewOf(call'[s], db'))
<1> DEFINE c == call[s]
           e == call'[s]
           f == FileOf(Step(s))
<1>1. View(s) = ViewOf(c, db) /\ db' = db
  BY ViewsAre DEF ReadIn
<1>2. CASE InTransaction(c.op)
  <2>1. e.shared = c.shared \cup {f} /\ e.draft = [g \in c.shared \cup {f} |-> View(s)[g]]
    BY <1>2 DEF ReadIn
  <2>2. ViewOf(e, db').m = View(s).m
    <3>1. CASE "m" \in e.shared
      BY <2>1, <3>1, ViewFiles
    <3>2. CASE "m" \notin e.shared
      BY <1>1, <2>1, <3>2, ViewFiles
    <3> QED BY <3>1, <3>2
  <2>3. ViewOf(e, db').p = View(s).p
    <3>1. CASE "p" \in e.shared
      BY <2>1, <3>1, ViewFiles
    <3>2. CASE "p" \notin e.shared
      BY <1>1, <2>1, <3>2, ViewFiles
    <3> QED BY <3>1, <3>2
  <2> QED BY <2>2, <2>3 DEF SameFiles
<1>3. CASE ~InTransaction(c.op)
  <2>1. e.shared = c.shared /\ e.draft = c.draft
    BY <1>3 DEF ReadIn, SameLocks
  <2> QED BY <1>1, <2>1, ViewFiles DEF SameFiles
<1> QED BY <1>2, <1>3

LEMMA RowsFor ==
  ASSUME NEW d, FilesOK(d), NEW i
  PROVE  RowFor(d, i).td \in TrackData /\ RowFor(d, i).bd \in BeatData
<1>1. CASE i \in DOMAIN d.p
  <2>1. RowFor(d, i) \in Performance
    BY <1>1 DEF RowFor, FilesOK
  <2> QED BY <2>1 DEF Performance
<1>2. CASE i \notin DOMAIN d.p
  BY <1>2, TrackCallsValues DEF RowFor, NoBlobs, Blobs, TrackData, BeatData
<1> QED BY <1>1, <1>2

(* More is done, and more is locked.                                       *)
LEMMA ReadLocks ==
  ASSUME NEW g, NEW done, NEW step \in Reads
  PROVE  /\ Touched(g, done \cup {step}) = Touched(g, done) \cup {FileIn(g, step)}
         /\ Altered(g, done \cup {step}) = Altered(g, done)
         /\ "commit m" \in done \cup {step} <=> "commit m" \in done
<1>1. (done \cup {step}) \ Reads = done \ Reads
  OBVIOUS
<1>2. step # "commit m"
  BY DEF Reads
<1> QED BY <1>1, <1>2 DEF Touched, Altered

LEMMA ReadTyped ==
  ASSUME Typed, NEW s \in Sessions, Busy(s), ReadIn(s), OthersKept(s)
  PROVE  Typed'
<1> DEFINE c == call[s]
           e == call'[s]
           f == FileOf(Step(s))
<1>1. HereIn(s) /\ LockFacts(s) /\ FilesOK(View(s))
  BY Locks, ViewTyped
<1>2. /\ e.op = c.op /\ e.id = c.id /\ e.val = c.val /\ e.of = c.of /\ e.at = c.at + 1
      /\ e.alone = c.alone /\ e.reserved = c.reserved /\ DOMAIN e = DOMAIN Idle
      /\ Step(s) \in Reads /\ ~Last(s)
      /\ build' = build /\ lastId' = lastId /\ db' = db
  BY DEF ReadIn, Continues
<1>3. StateOK'
  BY SameState DEF ReadIn
<1>4. Past(Gen, e) = Past(Gen, c) \cup {Step(s)} /\ e.at \in DOMAIN ProgramOf(Gen, e.op) /\ e.at > 1
  BY <1>1, <1>2, Onward
<1>5. ActiveOK(Gen, lastId, c) /\ c.op \in AllOperations
  BY <1>1 DEF HereIn
<1>6. c.op # "create"
  BY <1>1, <1>2 DEF HereIn, InOrder
<1>7. e.td \in TrackData /\ e.bd \in BeatData
  BY <1>1, <1>5, RowsFor DEF ReadIn, ActiveOK, CallOK
<1>8. CallOK(e)
  BY <1>2, <1>5, <1>7 DEF ActiveOK, CallOK
<1>9. /\ "m" \in e.shared => ViewOf(e, db).m = e.draft["m"]
      /\ "p" \in e.shared => ViewOf(e, db).p = e.draft["p"]
  BY ViewFiles
<1>10. ViewOf(e, db).m = View(s).m /\ ViewOf(e, db).p = View(s).p
  BY <1>2, ReadView DEF SameFiles
<1>11. /\ DOMAIN View(s).m \subseteq (1 .. lastId) \cup {e.id}
       /\ DOMAIN View(s).p \subseteq (1 .. lastId) \cup {e.id}
  BY <1>2, ViewIds
<1>12. DOMAIN e.draft = e.shared
  <2>1. CASE InTransaction(c.op)
    BY <2>1 DEF ReadIn
  <2>2. CASE ~InTransaction(c.op)
    BY <1>5, <2>2 DEF ReadIn, SameLocks, ActiveOK
  <2> QED BY <2>1, <2>2
<1>13. ActiveOK(Gen, lastId', e)
  BY <1>1, <1>2, <1>4, <1>5, <1>6, <1>8, <1>9, <1>10, <1>11, <1>12 DEF ActiveOK, FilesOK
<1>14. LocksOf(Gen, e)
  <2>1. CASE TransactionIn(Gen, c.op)
    <3>1. e.shared = Touched(Gen, Past(Gen, c)) \cup {FileIn(Gen, Step(s))}
      BY <1>1, <2>1, TransactionsAre, FilesOfSteps DEF LockFacts, ReadIn
    <3>2. e.reserved = Altered(Gen, Past(Gen, c)) /\ (e.alone <=> "commit m" \in Past(Gen, c))
      BY <1>1, <1>2, <2>1 DEF LockFacts
    <3>3. /\ Touched(Gen, Past(Gen, e)) = Touched(Gen, Past(Gen, c)) \cup {FileIn(Gen, Step(s))}
          /\ Altered(Gen, Past(Gen, e)) = Altered(Gen, Past(Gen, c))
          /\ "commit m" \in Past(Gen, e) <=> "commit m" \in Past(Gen, c)
      <4>1. PICK done : done = Past(Gen, c)
        OBVIOUS
      <4>2. PICK step \in Reads : step = Step(s)
        BY <1>2
      <4>3. /\ Touched(Gen, done \cup {step}) = Touched(Gen, done) \cup {FileIn(Gen, step)}
            /\ Altered(Gen, done \cup {step}) = Altered(Gen, done)
            /\ "commit m" \in done \cup {step} <=> "commit m" \in done
        BY ReadLocks
      <4>4. Past(Gen, e) = done \cup {step}
        BY <1>4, <4>1, <4>2
      <4> QED BY <4>1, <4>2, <4>3, <4>4
    <3>4. e.op # "none"
      BY <1>2 DEF Busy
    <3> QED BY <1>2, <2>1, <3>1, <3>2, <3>3, <3>4 DEF LocksOf
  <2>2. CASE ~TransactionIn(Gen, c.op)
    <3>1. e.shared = c.shared
      BY <2>2, TransactionsAre DEF ReadIn, SameLocks
    <3> QED BY <1>1, <1>2, <2>2, <3>1 DEF LocksOf, LockFacts
  <2> QED BY <2>1, <2>2
<1>15. lastId <= lastId'
  BY <1>2 DEF Typed, StateOK
<1> QED BY <1>2, <1>3, <1>13, <1>14, <1>15, TypedByStep

LEMMA SameFilesSameRows ==
  ASSUME NEW d, NEW e, SameFiles(d, e) PROVE \A i : SameRows(d, e, i)
  BY DEF SameFiles, SameRows, SameColumns, SameBlobs

(* What a call may rely on when it does a statement.                       *)
LEMMA StagedHere ==
  ASSUME IInv, NEW s \in Sessions, Busy(s), Free(s), Step(s) \notin Commits,
         TransactionIn(Gen, call[s].op) \/ "rows" \in Concerns(call[s].op),
         call[s].op = "create" => call[s].at > 1
  PROVE  Staged(Gen, call[s], Past(Gen, call[s]), View(s), <<call[s].id, "rows">> \notin torn)
<1> DEFINE c == call[s]
           calm == <<c.id, "rows">> \notin torn
<1>1. HereIn(s) /\ LockFacts(s) /\ Typed
  BY Locks DEF IInv
<1>2. CASE c.at > 1
  <2>1. TrackedIn(Gen, c)
    BY <1>2 DEF TrackedIn, Busy
  <2>2. StagedIn(Gen, c, db, torn)
    BY DEF IInv, CallsStaged
  <2> QED BY <2>1, <2>2, ViewsAre DEF StagedIn
<1>3. CASE ~(c.at > 1)
  <2>1. c.at = 1 /\ Past(Gen, c) = {} /\ c.op # "create"
    BY <1>1, <1>3, Begun
  <2>2. c.shared = {} /\ ~c.alone
    BY <1>1, <2>1 DEF LockFacts, Touched
  <2>3. SameFiles(View(s), db)
    BY <2>2, ViewsAre, ViewOfUnlocked
  <2>4. SettledIn(Gen, call, torn, c.id, "rows") \/ ~calm
    <3> SUFFICES ASSUME calm, NEW t \in Sessions, call[t].id = c.id, HalfIn(Gen, call[t]),
                        "rows" \in Concerns(call[t].op)
                 PROVE  FALSE
      BY DEF SettledIn
    <3>1. CASE Gen = 1
      <4>1. call[t].alone
        BY <3>1, TransactionsIn DEF HalfIn
      <4> QED BY <1>1, <2>2, <4>1, NoneAlone
    <3>2. CASE Gen # 1
      <4>1. ~TransactionIn(Gen, c.op) /\ ~TransactionIn(Gen, call[t].op)
        BY <3>2, TransactionsIn
      <4>2. t # s
        BY <2>1, <4>1 DEF HalfIn
      <4>3. c.id # 0
        BY <1>1, <2>1 DEF HereIn, ActiveOK
      <4> QED BY <3>2, <4>1, <4>2, <4>3 DEF IInv, OneAtATime
    <3> QED BY <3>1, <3>2
  <2>5. RowAgrees(Gen, db, c.id, calm)
    BY <2>4, AgreesLessCalm DEF IInv, RowsAgree
  <2>6. Staged(Gen, c, {}, db, calm)
    BY <2>5, StagedAtFirst
  <2>7. SameRows(db, View(s), c.id)
    BY <2>3 DEF SameFiles, SameRows, SameColumns, SameBlobs
  <2> QED BY <2>1, <2>6, <2>7, StagedSameRows
<1> QED BY <1>2, <1>3

LEMMA SameViewFollows ==
  ASSUME NEW c, NEW e, NEW d, SameFiles(ViewOf(c, d), ViewOf(e, d)),
         e.op = c.op, e.id = c.id, e.alone = c.alone, e.reserved = c.reserved, Follows(c, d)
  PROVE  Follows(e, d)
<1>1. PICK v : v = ViewOf(c, d)
  OBVIOUS
<1>2. PICK w : w = ViewOf(e, d)
  OBVIOUS
<1>3. v.m = w.m /\ v.p = w.p
  BY <1>1, <1>2 DEF SameFiles
<1>4. OthersSame(d, w, e.id)
  BY <1>1, <1>3 DEF Follows, OthersSame, SameRows, SameColumns, SameBlobs
<1>5. \A f \in Files \ e.reserved : w[f] = d[f]
  BY <1>1, <1>3 DEF Follows, Files
<1>6. e.alone => w["m"] = d["m"]
  BY <1>1, <1>3 DEF Follows
<1>7. KeptIn(e.op, d, w, e.id)
  BY <1>1, <1>3 DEF Follows, KeptIn
<1> QED BY <1>2, <1>4, <1>5, <1>6, <1>7 DEF Follows

LEMMA ReadStep ==
  ASSUME IInv, NEW s \in Sessions, Busy(s), Free(s), ReadIn(s), OthersKept(s)
  PROVE  IInv'
<1> DEFINE c == call[s]
           e == call'[s]
<1>1. HereIn(s) /\ LockFacts(s) /\ Typed
  BY Locks DEF IInv
<1>2. /\ e.op = c.op /\ e.id = c.id /\ e.val = c.val /\ e.at = c.at + 1
      /\ e.alone = c.alone /\ e.reserved = c.reserved
      /\ Step(s) \in Reads /\ ~Last(s)
      /\ build' = build /\ lastId' = lastId /\ db' = db /\ torn' = torn /\ calls' = calls
  BY DEF ReadIn, Continues
<1>3. Typed'
  BY <1>1, ReadTyped
<1>4. /\ Past(Gen, e) = Past(Gen, c) \cup {Step(s)} /\ e.at > 1
      /\ Step(s) \notin Commits /\ c.op \notin {"create", "update"} /\ Gen' = Gen
  BY <1>1, <1>2, Onward DEF HereIn, InOrder, Reads, Commits, Gen
<1>5. SameFiles(View(s), ViewOf(e, db'))
  BY <1>1, ReadView
<1>6. View(s) = ViewOf(c, db)
  BY ViewsAre
<1>7. Room'
  <2>1. {t \in Sessions : Pending(t)'} = {t \in Sessions : Pending(t)}
    BY <1>2, <1>4 DEF Pending, OthersKept
  <2> QED BY <1>2, <2>1 DEF IInv, Room
<1>8. Apart'
  <2>1. ASSUME NEW t \in Sessions, t # s
        PROVE  /\ e.reserved \cap call[t].reserved = {}
               /\ e.alone => call[t].shared = {}
               /\ call[t].alone => e.shared = {}
    BY <1>1, <1>2, <1>4, <2>1, NoneAlone DEF IInv, Apart
  <2> QED BY <2>1, ApartByStep DEF IInv
<1>9. DraftsFollow'
  <2>1. Follows(e, db')
    BY <1>2, <1>5, <1>6, SameViewFollows DEF IInv, DraftsFollow
  <2>2. \A t \in Sessions : t # s => Follows(call[t], db')
    BY <1>2 DEF IInv, DraftsFollow
  <2> QED BY <2>1, <2>2, FollowByStep
<1>10. CallsStaged'
  <2>1. StagedIn(Gen, e, db', torn')
    <3> SUFFICES ASSUME TrackedIn(Gen, e)
                 PROVE  Staged(Gen, e, Past(Gen, e), ViewOf(e, db'), <<e.id, "rows">> \notin torn')
      BY DEF StagedIn
    <3>1. PICK calm : calm = (<<c.id, "rows">> \notin torn)
      OBVIOUS
    <3>2. Staged(Gen, c, Past(Gen, c), View(s), calm)
      BY <1>2, <1>4, <3>1, StagedHere DEF TrackedIn
    <3>3. /\ e.td = IF Step(s) = "read td" THEN RowFor(View(s), c.id).td ELSE c.td
          /\ e.bd = IF Step(s) = "read bd" THEN RowFor(View(s), c.id).bd ELSE c.bd
      BY DEF ReadIn
    <3>4. Staged(Gen, e, Past(Gen, c) \cup {Step(s)}, View(s), calm)
      BY <1>2, <3>2, <3>3, StagedByRead
    <3>5. SameRows(View(s), ViewOf(e, db'), e.id)
      BY <1>5, SameFilesSameRows
    <3>6. Staged(Gen, e, Past(Gen, e), ViewOf(e, db'), calm)
      BY <1>4, <3>4, <3>5, StagedSameRows
    <3> QED BY <1>2, <3>1, <3>6
  <2>2. \A t \in Sessions : t # s => StagedIn(Gen, call[t], db', torn')
    BY <1>2 DEF IInv, CallsStaged
  <2> QED BY <1>2, <2>1, <2>2, StagedByStep
<1>11. OneAtATime' /\ OneBpmAtATime'
  BY <1>2, PairsByStep DEF IInv
<1>12. \A i, what : SettledIn(Gen, call', torn', i, what) => SettledIn(Gen, call, torn, i, what)
  <2> SUFFICES ASSUME NEW i, NEW what, SettledIn(Gen, call', torn', i, what)
               PROVE  SettledIn(Gen, call, torn, i, what)
    OBVIOUS
  <2>1. HalfIn(Gen, c) => HalfIn(Gen, e)
    BY <1>2, <1>4 DEF HalfIn
  <2> QED BY <1>2, <2>1, SettledBefore
<1>13. RowsAgree'
  <2>1. \A i : RowAgrees(Gen, db', i, SettledIn(Gen, call', torn', i, "rows"))
    BY <1>2, <1>12, AgreesLessCalm DEF IInv, RowsAgree
  <2> QED BY <1>2, <2>1, RowsByStep
<1>14. BpmsAgree'
  <2>1. \A i \in DOMAIN (db').m : SettledIn(Gen, call', torn', i, "bpm") =>
           (db').m[i].bpm = (db').m[i].analyzed
    BY <1>2, <1>12 DEF IInv, BpmsAgree
  <2> QED BY <1>2, <2>1, BpmsByStep
<1>15. BpmStaged'
  <2>1. \A i : BeingMade(call, i) => BeingMade(call', i)
    BY <1>2 DEF BeingMade, OthersKept
  <2>2. BpmHalf(e, db', torn', call') /\ BpmWhole(Gen, e, db', torn')
    <3>1. c.op # "bpm"
      BY <1>1, <1>2 DEF HereIn, InOrder, Reads
    <3> QED BY <1>2, <1>4, <3>1 DEF BpmHalf, BpmWhole
  <2>3. ASSUME NEW t \in Sessions, t # s
        PROVE  BpmHalf(call[t], db', torn', call') /\ BpmWhole(Gen, call[t], db', torn')
    <3>1. BpmHalf(call[t], db, torn, call) /\ BpmWhole(Gen, call[t], db, torn)
      BY DEF IInv, BpmStaged
    <3> QED BY <1>2, <2>1, <3>1 DEF BpmHalf, BpmWhole
  <2> QED BY <1>2, <2>2, <2>3, BpmStagedByStep
<1> QED BY <1>3, <1>7, <1>8, <1>9, <1>10, <1>11, <1>13, <1>14, <1>15 DEF IInv

-----------------------------------------------------------------------------
(* What a statement leaves as it is. *)

LEMMA BlobOutcome ==
  ASSUME NEW s \in Sessions, OutcomeIn(s), Step(s) \in OnBlobs
  PROVE  BlobWrittenIn(View(s), call[s], Step(s), Outcome(s)) /\ Target(s) = call[s]
<1>1. /\ CallOK(call[s]) /\ Target(s) = call[s] /\ FilesOK(View(s))
      /\ InOrder(Gen, call[s].op, Step(s), Past(Gen, call[s]), Last(s))
      /\ call[s].id \in DOMAIN View(s).p
  BY DEF OutcomeIn, OnBlobs
<1> QED BY <1>1, BlobWritten DEF InOrder, OnBlobs, Outcome

(* The calls that put or take away no row of columns.                      *)
Setters == {"loudness", "key", "size", "beatgrid", "waveform", "bpm"}

(* What a setter of blobs does to the row of its track.                    *)
LEMMA ChangeKeeps ==
  ASSUME NEW s \in Sessions, OutcomeIn(s), call[s].op \in Setters, NEW calm, Gen = 1 \/ calm,
         Step(s) \in {"write td", "write bd"} =>
           Staged(Gen, call[s], Past(Gen, call[s]), View(s), calm)
  PROVE  /\ KeptIn(call[s].op, View(s), Outcome(s), call[s].id)
         /\ call[s].id \in DOMAIN Outcome(s).p <=> call[s].id \in DOMAIN View(s).p
<1> DEFINE c == call[s]
           i == call[s].id
<1>1. PICK v : v = View(s)
  OBVIOUS
<1>2. PICK w : w = Outcome(s)
  OBVIOUS
<1>3. /\ CallOK(c) /\ FilesOK(v) /\ Target(s) = c
      /\ InOrder(Gen, c.op, Step(s), Past(Gen, c), Last(s))
  <2>1. Step(s) # "insert"
    BY DEF OutcomeIn, HereIn, InOrder, Setters
  <2> QED BY <1>1, <2>1 DEF OutcomeIn
<1>4. w = Result(v, c, Step(s))
  BY <1>1, <1>2, <1>3 DEF Outcome
<1>5. CASE Step(s) \in OnBlobs
  <2>1. BlobWrittenIn(v, c, Step(s), w)
    BY <1>1, <1>2, <1>5, BlobOutcome
  <2>2. SameColumns(v, w, i) /\ i \in DOMAIN v.p /\ i \in DOMAIN w.p
    BY <2>1 DEF BlobWrittenIn
  <2>3. CASE Step(s) = "write td"
    <3>1. c.op \in {"loudness", "key", "size"} /\ "read td" \in Past(Gen, c) /\ "write td" \notin Past(Gen, c)
      BY <1>3, <2>3 DEF InOrder
    <3>2. BlobPart(Gen, c, Past(Gen, c), v, calm)
      BY <1>1, <2>3 DEF Staged
    <3>3. c.td = v.p[i].td
      BY <2>2, <3>1, <3>2 DEF BlobPart, BlobsStaged, Unseen
    <3>4. /\ w.p[i].bd = v.p[i].bd
          /\ w.p[i].td.size = IF c.op = "size" THEN c.val ELSE c.td.size
          /\ w.p[i].td.key = IF c.op = "key" THEN c.val ELSE c.td.key
          /\ w.p[i].td.loud = IF c.op = "loudness" THEN c.val ELSE c.td.loud
      BY <1>3, <2>1, <2>3, <3>1, EditedTyped DEF BlobWrittenIn
    <3>5. KeptIn(c.op, v, w, i)
      BY <2>2, <3>1, <3>3, <3>4 DEF KeptIn, FieldsOf, FieldOf, SameColumns
    <3> QED BY <1>1, <1>2, <2>2, <3>5
  <2>4. CASE Step(s) = "write bd"
    <3>1. c.op \in {"beatgrid", "size"} /\ "read bd" \in Past(Gen, c) /\ "write bd" \notin Past(Gen, c)
      BY <1>3, <2>4 DEF InOrder
    <3>2. BlobPart(Gen, c, Past(Gen, c), v, calm)
      BY <1>1, <2>4 DEF Staged
    <3>3. c.bd = v.p[i].bd
      BY <2>2, <3>1, <3>2 DEF BlobPart, BlobsStaged, Unseen
    <3>4. /\ w.p[i].td = v.p[i].td
          /\ w.p[i].bd.size = IF c.op = "size" THEN c.val ELSE c.bd.size
          /\ w.p[i].bd.grid = IF c.op = "beatgrid" THEN c.val ELSE c.bd.grid
      BY <1>3, <2>1, <2>4, <3>1, EditedTyped DEF BlobWrittenIn
    <3>5. KeptIn(c.op, v, w, i)
      BY <2>2, <3>1, <3>3, <3>4 DEF KeptIn, FieldsOf, FieldOf, SameColumns
    <3> QED BY <1>1, <1>2, <2>2, <3>5
  <2>5. CASE Step(s) = "write wave"
    <3>1. w.p[i].td = v.p[i].td /\ w.p[i].bd = v.p[i].bd
      BY <2>1, <2>5 DEF BlobWrittenIn
    <3>2. KeptIn(c.op, v, w, i)
      BY <2>2, <3>1 DEF KeptIn, SameColumns
    <3> QED BY <1>1, <1>2, <2>2, <3>2
  <2> QED BY <1>5, <2>3, <2>4, <2>5 DEF OnBlobs
<1>6. CASE Step(s) = "fit wave"
  <2>1. WaveFittedIn(v, c, w)
    BY <1>3, <1>4, <1>6, WaveFitted
  <2>2. KeptIn(c.op, v, w, i) /\ (i \in DOMAIN w.p <=> i \in DOMAIN v.p)
    BY <2>1 DEF WaveFittedIn, KeptIn, SameColumns
  <2> QED BY <1>1, <1>2, <2>2
<1>7. CASE Step(s) \in {"write key", "write len", "write analyzed", "write bpm"}
  <2>1. ColumnWrittenIn(v, c, Step(s), w)
    BY <1>3, <1>4, <1>7, ColumnWritten
  <2>2. (i \in DOMAIN w.p <=> i \in DOMAIN v.p) /\ (i \in DOMAIN v.p => w.p[i] = v.p[i])
    BY <2>1 DEF ColumnWrittenIn, SameBlobs
  <2>3. c.op \in {"key", "size"} => Step(s) # "write bpm" /\ Step(s) # "write analyzed"
    BY <1>3 DEF InOrder
  <2>4. KeptIn(c.op, v, w, i)
    BY <2>1, <2>2, <2>3 DEF ColumnWrittenIn, KeptIn
  <2> QED BY <1>1, <1>2, <2>2, <2>4
<1>8. Step(s) \in Changes
  BY DEF OutcomeIn
<1>9. Step(s) \notin {"insert", "replace", "put columns", "put data", "put", "delete"}
  BY <1>3 DEF InOrder, Setters
<1> QED BY <1>5, <1>6, <1>7, <1>8, <1>9, ChangesAre DEF OnBlobs

(* A call that writes all columns of a track writes both of its bpm.       *)
LEMMA ChangeBpm ==
  ASSUME NEW s \in Sessions, OutcomeIn(s), call[s].op \in {"create", "update"},
         Target(s).id \in DOMAIN Outcome(s).m,
         call[s].at > 1 /\ call[s].id \in DOMAIN View(s).m =>
           View(s).m[call[s].id].bpm = View(s).m[call[s].id].analyzed
  PROVE  Outcome(s).m[Target(s).id].bpm = Outcome(s).m[Target(s).id].analyzed
<1> DEFINE i == Target(s).id
<1>1. PICK v : v = View(s)
  OBVIOUS
<1>2. PICK w : w = Outcome(s)
  OBVIOUS
<1>3. PICK c : c = Target(s)
  OBVIOUS
<1>4. /\ CallOK(c) /\ FilesOK(v) /\ w = Result(v, c, Step(s)) /\ Gen \in 1 .. 3
      /\ Step(s) \in Changes /\ InOrder(Gen, c.op, Step(s), Past(Gen, call[s]), Last(s))
      /\ c.op = call[s].op /\ (Step(s) # "insert" => c = call[s])
  BY <1>1, <1>2, <1>3, Targets DEF OutcomeIn, Outcome, HereIn
<1>5. CASE Step(s) = "insert"
  <2>1. InsertedIn(v, c, w)
    BY <1>4, <1>5, InsertedShape
  <2> QED BY <1>2, <1>3, <2>1 DEF InsertedIn, NewColumns
<1>6. CASE Step(s) = "put columns"
  <2>1. ColumnsPutIn(v, c, w)
    BY <1>4, <1>6, PutShape
  <2> QED BY <1>2, <1>3, <2>1 DEF ColumnsPutIn, NewColumns
<1>7. CASE Step(s) = "put"
  <2>1. PutIn(v, c, w)
    BY <1>4, <1>7, PutShape
  <2> QED BY <1>2, <1>3, <2>1 DEF PutIn, NewColumns
<1>8. CASE Step(s) \in {"replace", "put data"}
  <2>1. SameColumns(v, w, c.id)
    <3>1. Step(s) = "replace" => ReplacedIn(v, c, w)
      BY <1>4, ReplacedShape
    <3>2. Step(s) = "put data" => DataPutIn(v, c, w)
      BY <1>4, PutShape
    <3> QED BY <1>8, <3>1, <3>2 DEF ReplacedIn, DataPutIn
  <2>2. c = call[s] /\ call[s].at > 1
    <3>1. HereIn(s)
      BY DEF OutcomeIn
    <3>2. Past(Gen, call[s]) # {}
      BY <1>4, <1>8 DEF InOrder
    <3>3. call[s].at # 1 /\ call[s].at \in Nat \ {0}
      BY <3>1, <3>2, Begun
    <3>4. call[s].at > 1
      BY <3>3
    <3> QED BY <1>4, <1>8, <3>4
  <2> QED BY <1>1, <1>2, <1>3, <2>1, <2>2 DEF SameColumns
<1>9. Step(s) \notin {"write td", "write bd", "write wave", "fit wave", "write key", "write len",
                      "write analyzed", "write bpm", "delete"}
  BY <1>4 DEF InOrder
<1> QED BY <1>4, <1>5, <1>6, <1>7, <1>8, <1>9, ChangesAre

-----------------------------------------------------------------------------
(* A statement of a transaction writes to its own copy. *)

LEMMA DraftView ==
  ASSUME NEW s \in Sessions, OutcomeIn(s), DraftIn(s), Gen = 1
  PROVE  SameFiles(Outcome(s), ViewOf(call'[s], db'))
<1> DEFINE c == call[s]
           f == FileOf(Step(s))
<1>1. PICK e : e = call'[s]
  OBVIOUS
<1>2. PICK w : w = Outcome(s)
  OBVIOUS
<1>3. /\ db' = db /\ e.shared = c.shared \cup {f} /\ e.draft[f] = w[f]
      /\ \A g \in c.shared \ {f} : e.draft[g] = c.draft[g]
  BY <1>1, <1>2 DEF DraftIn
<1>4. \A g \in Files : g # f => w[g] = View(s)[g]
  BY <1>2 DEF OutcomeIn
<1>5. \A g \in Files : View(s)[g] = IF g \in c.shared THEN c.draft[g] ELSE db[g]
  BY DEF View
<1>6. ASSUME NEW g \in Files PROVE ViewOf(e, db')[g] = w[g]
  <2>1. ViewOf(e, db')[g] = IF g \in e.shared THEN e.draft[g] ELSE db[g]
    BY <1>3 DEF ViewOf
  <2> QED BY <1>3, <1>4, <1>5, <2>1
<1>7. ViewOf(e, db')["m"] = w["m"] /\ ViewOf(e, db')["p"] = w["p"]
  BY <1>6 DEF Files
<1> QED BY <1>1, <1>2, <1>7 DEF SameFiles

LEMMA WriteLocks ==
  ASSUME NEW g, NEW done, NEW step \in Changes
  PROVE  /\ Touched(g, done \cup {step}) = Touched(g, done) \cup {FileIn(g, step)}
         /\ Altered(g, done \cup {step}) = Altered(g, done) \cup {FileIn(g, step)}
         /\ "commit m" \in done \cup {step} <=> "commit m" \in done
<1>1. (done \cup {step}) \ Reads = (done \ Reads) \cup {step}
  BY DEF Changes
<1>2. step # "commit m"
  BY DEF Changes, Commits
<1> QED BY <1>1, <1>2 DEF Touched, Altered

(* The ids in the files, after a statement.                                *)
LEMMA OutcomeIds ==
  ASSUME Typed, NEW s \in Sessions, Busy(s), OutcomeIn(s)
  PROVE  /\ DOMAIN Outcome(s).m \subseteq (1 .. lastId) \cup {Target(s).id}
         /\ DOMAIN Outcome(s).p \subseteq (1 .. lastId) \cup {Target(s).id}
<1>1. OthersSame(View(s), Outcome(s), Target(s).id)
  BY DEF OutcomeIn
<1>2. /\ DOMAIN View(s).m \subseteq (1 .. lastId) \cup {Target(s).id}
      /\ DOMAIN View(s).p \subseteq (1 .. lastId) \cup {Target(s).id}
  <2>1. CASE Step(s) # "insert"
    BY <2>1, ViewIds DEF OutcomeIn
  <2>2. CASE Step(s) = "insert"
    <3>1. SameFiles(View(s), db)
      BY <2>2, ViewsAre, ViewOfUnlocked DEF OutcomeIn, NewIdIn
    <3> QED BY <3>1 DEF SameFiles, Typed, StateOK
  <2> QED BY <2>1, <2>2
<1> QED BY <1>1, <1>2 DEF OthersSame, SameRows, SameColumns, SameBlobs

LEMMA DraftTyped ==
  ASSUME Typed, NEW s \in Sessions, Busy(s), OutcomeIn(s), DraftIn(s), OthersKept(s)
  PROVE  Typed'
<1> DEFINE c == call[s]
           e == call'[s]
           f == FileOf(Step(s))
           k == Target(s)
<1>1. /\ HereIn(s) /\ LockFacts(s) /\ FilesOK(Outcome(s)) /\ Step(s) \in Changes
      /\ InOrder(Gen, c.op, Step(s), Past(Gen, c), Last(s))
  BY DEF OutcomeIn, HereIn
<1>2. /\ e.op = c.op /\ e.id = k.id /\ e.val = c.val /\ e.of = c.of /\ e.at = c.at + 1
      /\ e.td = c.td /\ e.bd = c.bd
      /\ e.alone = c.alone /\ DOMAIN e = DOMAIN Idle /\ ~Last(s) /\ TransactionIn(Gen, c.op)
      /\ e.shared = c.shared \cup {f} /\ e.reserved = c.reserved \cup {f}
      /\ DOMAIN e.draft = e.shared
      /\ build' = build /\ lastId' = lastId /\ db' = db
  BY TransactionsAre DEF DraftIn, Continues
<1>3. StateOK'
  BY SameState DEF DraftIn
<1>4. Past(Gen, e) = Past(Gen, c) \cup {Step(s)} /\ e.at \in DOMAIN ProgramOf(Gen, e.op) /\ e.at > 1
  BY <1>1, <1>2, Onward
<1>5. ActiveOK(Gen, lastId, c) /\ Gen = 1 /\ ~c.alone
  BY <1>1, <1>2, TransactionsIn DEF HereIn, LockFacts, Changes, Commits
<1>6. CallOK(e)
  BY <1>2, <1>5 DEF ActiveOK, CallOK
<1>7. /\ e.id \in Nat
      /\ e.op = "create" => e.id \in 1 .. lastId + 1
      /\ e.op # "create" => e.id \in 1 .. lastId
  <2>1. CASE Step(s) = "insert"
    <3>1. NewIdIn(s)
      BY <2>1 DEF OutcomeIn
    <3>2. e.id \in 1 .. lastId + 1 /\ e.op = "create"
      BY <1>2, <3>1 DEF NewIdIn
    <3>3. e.id \in Nat
      BY <3>2 DEF Typed, StateOK
    <3> QED BY <3>2, <3>3
  <2>2. CASE Step(s) # "insert"
    <3>1. e.id = c.id
      BY <1>2, <2>2 DEF OutcomeIn
    <3>2. c.op = "create" => c.at > 1
      <4>1. c.op = "create" => Past(Gen, c) # {}
        BY <1>1, <2>2 DEF InOrder
      <4>2. c.at \in Nat \ {0} /\ (c.op = "create" => c.at # 1)
        BY <1>1, <4>1, Begun
      <4> QED BY <4>2
    <3> QED BY <1>2, <1>5, <3>1, <3>2 DEF ActiveOK
  <2> QED BY <2>1, <2>2
<1>8. /\ "m" \in e.shared => ViewOf(e, db).m = e.draft["m"]
      /\ "p" \in e.shared => ViewOf(e, db).p = e.draft["p"]
  BY ViewFiles
<1>9. ViewOf(e, db).m = Outcome(s).m /\ ViewOf(e, db).p = Outcome(s).p
  BY <1>2, <1>5, DraftView DEF SameFiles
<1>10. /\ DOMAIN Outcome(s).m \subseteq (1 .. lastId) \cup {e.id}
       /\ DOMAIN Outcome(s).p \subseteq (1 .. lastId) \cup {e.id}
  BY <1>2, OutcomeIds
<1>11. ActiveOK(Gen, lastId', e)
  BY <1>1, <1>2, <1>4, <1>5, <1>6, <1>7, <1>8, <1>9, <1>10 DEF ActiveOK, FilesOK
<1>12. LocksOf(Gen, e)
  <2>1. PICK done : done = Past(Gen, c)
    OBVIOUS
  <2>2. PICK step \in Changes : step = Step(s)
    BY <1>1
  <2>3. /\ c.shared = Touched(Gen, done) /\ c.reserved = Altered(Gen, done)
        /\ c.alone <=> "commit m" \in done
        /\ f = FileIn(Gen, step)
    BY <1>1, <1>2, <2>1, <2>2, FilesOfSteps DEF LockFacts
  <2>4. /\ Touched(Gen, done \cup {step}) = Touched(Gen, done) \cup {FileIn(Gen, step)}
        /\ Altered(Gen, done \cup {step}) = Altered(Gen, done) \cup {FileIn(Gen, step)}
        /\ "commit m" \in done \cup {step} <=> "commit m" \in done
    BY WriteLocks
  <2>5. Past(Gen, e) = done \cup {step}
    BY <1>4, <2>1, <2>2
  <2>6. e.op # "none" /\ TransactionIn(Gen, e.op)
    BY <1>2 DEF Busy
  <2>7. e.shared = Touched(Gen, Past(Gen, e)) /\ e.reserved = Altered(Gen, Past(Gen, e))
    BY <1>2, <2>3, <2>4, <2>5
  <2>8. e.alone <=> "commit m" \in Past(Gen, e)
    BY <1>2, <2>3, <2>4, <2>5
  <2> QED BY <2>6, <2>7, <2>8 DEF LocksOf
<1>13. lastId <= lastId'
  BY <1>2 DEF Typed, StateOK
<1> QED BY <1>2, <1>3, <1>11, <1>12, <1>13, TypedByStep

(* What has been kept from d to v and from v to w is kept from d to w.     *)
LEMMA KeptOn ==
  ASSUME NEW op, NEW d, NEW v, NEW w, NEW i, KeptIn(op, d, v, i), KeptIn(op, v, w, i),
         i \in DOMAIN w.p <=> i \in DOMAIN v.p
  PROVE  KeptIn(op, d, w, i)
  BY DEF KeptIn

LEMMA KeptByAll ==
  ASSUME NEW op \in {"create", "update"}, NEW d, NEW w, NEW i PROVE KeptIn(op, d, w, i)
  BY DEF KeptIn, FieldsOf

(* The columns that a call has staged, on the way to the next state.       *)
LEMMA DraftFollows ==
  ASSUME IInv, NEW s \in Sessions, Busy(s), Free(s), OutcomeIn(s), DraftIn(s), OthersKept(s)
  PROVE  Follows(call'[s], db')
<1> DEFINE c == call[s]
           f == FileOf(Step(s))
           k == Target(s)
<1>1. PICK e : e = call'[s]
  OBVIOUS
<1>2. PICK v : v = View(s)
  OBVIOUS
<1>3. PICK w : w = Outcome(s)
  OBVIOUS
<1>4. PICK x : x = ViewOf(e, db)
  OBVIOUS
<1>5. /\ e.op = c.op /\ e.id = k.id /\ e.alone = c.alone /\ TransactionIn(Gen, c.op) /\ Gen = 1
      /\ e.reserved = c.reserved \cup {f} /\ db' = db /\ Step(s) \in Changes
  BY <1>1, TransactionsAre, TransactionsIn DEF DraftIn, Continues
<1>6. /\ x.m = w.m /\ x.p = w.p
  BY <1>1, <1>3, <1>4, <1>5, DraftView DEF SameFiles
<1>7. ~c.alone
  BY <1>5 DEF OutcomeIn, LockFacts, Changes, Commits
<1>8. Follows(c, db) /\ v = ViewOf(c, db)
  BY <1>2, ViewsAre DEF IInv, DraftsFollow
<1>9. OthersSame(v, w, k.id)
  BY <1>2, <1>3 DEF OutcomeIn
<1>10. OthersSame(db, x, e.id)
  <2>1. CASE Step(s) = "insert"
    <3>1. SameFiles(v, db)
      BY <1>8, <2>1, ViewOfUnlocked DEF OutcomeIn, NewIdIn
    <3> QED BY <1>5, <1>6, <1>9, <3>1 DEF SameFiles, OthersSame, SameRows, SameColumns, SameBlobs
  <2>2. CASE Step(s) # "insert"
    <3>1. k.id = c.id
      BY <2>2 DEF OutcomeIn
    <3>2. OthersSame(db, v, c.id)
      BY <1>8 DEF Follows
    <3> QED BY <1>5, <1>6, <1>9, <3>1, <3>2 DEF OthersSame, SameRows, SameColumns, SameBlobs
  <2> QED BY <2>1, <2>2
<1>11. \A g \in Files \ e.reserved : x[g] = db[g]
  <2> SUFFICES ASSUME NEW g \in Files, g \notin c.reserved, g # f PROVE x[g] = db[g]
    BY <1>5
  <2>1. w[g] = v[g]
    BY <1>2, <1>3, <1>5 DEF OutcomeIn
  <2>2. v[g] = db[g]
    BY <1>8 DEF Follows
  <2>3. x[g] = w[g]
    BY <1>6 DEF Files
  <2> QED BY <2>1, <2>2, <2>3
<1>12. KeptIn(e.op, db, x, e.id)
  <2>1. CASE c.op \in {"create", "update"}
    BY <1>5, <2>1, KeptByAll
  <2>2. CASE c.op \notin {"create", "update"}
    <3>1. c.op \in Setters /\ k = c
      BY <1>5, <2>2 DEF OutcomeIn, HereIn, TransactionIn, InOrder, AllOperations, Setters
    <3>2. Step(s) \notin Commits
      BY <1>5 DEF Changes
    <3>3. Staged(Gen, c, Past(Gen, c), v, <<c.id, "rows">> \notin torn)
      BY <1>2, <1>5, <2>2, <3>2, StagedHere
    <3>4. KeptIn(c.op, v, w, c.id) /\ (c.id \in DOMAIN w.p <=> c.id \in DOMAIN v.p)
      BY <1>2, <1>3, <1>5, <3>1, <3>3, ChangeKeeps
    <3>5. KeptIn(c.op, db, v, c.id)
      BY <1>8 DEF Follows
    <3>6. KeptIn(c.op, db, w, c.id)
      BY <3>4, <3>5, KeptOn
    <3> QED BY <1>5, <1>6, <3>1, <3>6 DEF KeptIn
  <2> QED BY <2>1, <2>2
<1> QED BY <1>1, <1>4, <1>5, <1>7, <1>10, <1>11, <1>12 DEF Follows

(* What a call that writes rows together has staged, a statement further.  *)
LEMMA ChangeStaged ==
  ASSUME IInv, NEW s \in Sessions, Busy(s), Free(s), OutcomeIn(s), NEW calm,
         TransactionIn(Gen, call[s].op) \/ "rows" \in Concerns(call[s].op),
         calm => <<Target(s).id, "rows">> \notin torn
  PROVE  Staged(Gen, Target(s), Past(Gen, call[s]) \cup {Step(s)}, Outcome(s), calm)
<1> DEFINE c == call[s]
<1>1. PICK v : v = View(s)
  OBVIOUS
<1>2. PICK k : k = Target(s)
  OBVIOUS
<1>3. /\ FilesOK(v) /\ CallOK(k) /\ Step(s) \in Changes /\ Gen \in 1 .. 3 /\ HereIn(s)
      /\ InOrder(Gen, k.op, Step(s), Past(Gen, c), Last(s))
      /\ Step(s) \in OnBlobs => k.id \in DOMAIN v.p
      /\ Outcome(s) = Result(v, k, Step(s)) /\ k.op = c.op
      /\ Step(s) # "insert" => k = c
  BY <1>1, <1>2, Targets DEF OutcomeIn, HereIn, Outcome
<1>4. Step(s) # "insert" => Staged(Gen, k, Past(Gen, c), v, calm)
  <2> SUFFICES ASSUME Step(s) # "insert" PROVE Staged(Gen, c, Past(Gen, c), v, calm)
    BY <1>3
  <2>1. c.op = "create" => c.at > 1
    <3>1. c.op = "create" => Past(Gen, c) # {}
      BY <1>3 DEF InOrder
    <3>2. c.at \in Nat \ {0} /\ (c.op = "create" => c.at # 1)
      BY <1>3, <3>1, Begun
    <3> QED BY <3>2
  <2>2. Step(s) \notin Commits
    BY <1>3 DEF Changes
  <2>3. Staged(Gen, c, Past(Gen, c), v, <<c.id, "rows">> \notin torn)
    BY <1>1, <2>1, <2>2, StagedHere
  <2>4. calm => <<c.id, "rows">> \notin torn
    BY <1>2, <1>3
  <2> QED BY <2>3, <2>4, StagedLessCalm
<1>5. c.op \notin {"bpm", "remove"}
  BY DEF TransactionIn, Concerns
<1>6. Staged(Gen, k, Past(Gen, c) \cup {Step(s)}, Result(v, k, Step(s)), calm)
  BY <1>3, <1>4, <1>5, StagedByChange
<1> QED BY <1>2, <1>3, <1>6

LEMMA DraftStep ==
  ASSUME IInv, NEW s \in Sessions, Busy(s), Free(s), OutcomeIn(s), DraftIn(s), OthersKept(s)
  PROVE  IInv'
<1> DEFINE c == call[s]
           e == call'[s]
           k == Target(s)
           f == FileOf(Step(s))
<1>1. HereIn(s) /\ LockFacts(s) /\ Typed
  BY Locks DEF IInv
<1>2. /\ e.op = c.op /\ e.id = k.id /\ e.val = c.val /\ e.at = c.at + 1
      /\ e.td = c.td /\ e.bd = c.bd /\ e.alone = c.alone
      /\ e.shared = c.shared \cup {f} /\ e.reserved = c.reserved \cup {f}
      /\ Step(s) \in Changes /\ ~Last(s)
      /\ build' = build /\ lastId' = lastId /\ db' = db /\ torn' = torn /\ calls' = calls
  BY DEF DraftIn, Continues
<1>3. Typed'
  BY <1>1, DraftTyped
<1>4. /\ TransactionIn(Gen, c.op) /\ InTransaction(c.op) /\ Gen = 1 /\ Gen' = Gen
      /\ Step(s) \notin Commits /\ Step(s) \notin Reads /\ c.op # "bpm"
  BY <1>2, TransactionsAre, TransactionsIn DEF DraftIn, Changes, Gen, TransactionIn
<1>5. Past(Gen, e) = Past(Gen, c) \cup {Step(s)} /\ e.at > 1 /\ ~c.alone
  BY <1>1, <1>2, <1>4, Onward DEF LockFacts, Commits
<1>6. SameFiles(Outcome(s), ViewOf(e, db'))
  BY <1>4, DraftView
<1>7. k.op = c.op /\ k.val = c.val /\ k.td = c.td /\ k.bd = c.bd /\ (Step(s) # "insert" => k = c)
  BY <1>1, Targets
<1>8. Room'
  <2>1. {t \in Sessions : Pending(t)'} = {t \in Sessions : Pending(t)}
    BY <1>2, <1>4 DEF Pending, OthersKept
  <2> QED BY <1>2, <2>1 DEF IInv, Room
<1>9. Apart'
  <2>1. ASSUME NEW t \in Sessions, t # s
        PROVE  /\ e.reserved \cap call[t].reserved = {}
               /\ e.alone => call[t].shared = {}
               /\ call[t].alone => e.shared = {}
    <3>1. f \notin call[t].reserved
      BY <1>4, <2>1 DEF Free, Others
    <3>2. c.reserved \cap call[t].reserved = {}
      BY <2>1 DEF IInv, Apart
    <3> QED BY <1>1, <1>2, <1>4, <1>5, <2>1, <3>1, <3>2, NoneAlone
  <2> QED BY <2>1, ApartByStep DEF IInv
<1>10. DraftsFollow'
  <2>1. \A t \in Sessions : t # s => Follows(call[t], db')
    BY <1>2 DEF IInv, DraftsFollow
  <2> QED BY <2>1, DraftFollows, FollowByStep
<1>11. CallsStaged'
  <2>1. StagedIn(Gen, e, db', torn')
    <3>1. PICK calm : calm = (<<e.id, "rows">> \notin torn)
      OBVIOUS
    <3>2. Staged(Gen, k, Past(Gen, c) \cup {Step(s)}, Outcome(s), calm)
      BY <1>2, <1>4, <3>1, ChangeStaged
    <3>3. Alike(k, e)
      BY <1>2, <1>7 DEF Alike
    <3>4. Staged(Gen, e, Past(Gen, e), Outcome(s), calm)
      BY <1>5, <3>2, <3>3, StagedAlike
    <3>5. SameRows(Outcome(s), ViewOf(e, db'), e.id)
      BY <1>6, SameFilesSameRows
    <3>6. Staged(Gen, e, Past(Gen, e), ViewOf(e, db'), calm)
      BY <3>4, <3>5, StagedSameRows
    <3> QED BY <1>2, <3>1, <3>6 DEF StagedIn
  <2>2. \A t \in Sessions : t # s => StagedIn(Gen, call[t], db', torn')
    BY <1>2 DEF IInv, CallsStaged
  <2> QED BY <1>2, <2>1, <2>2, StagedByStep
<1>12. OneAtATime'
  BY <1>4 DEF OneAtATime
<1>13. OneBpmAtATime'
  <2> SUFFICES ASSUME NEW u \in Sessions, NEW t \in Sessions, u # t,
                      call'[u].id = call'[t].id, call'[u].op = "bpm", "bpm" \in Concerns(call'[t].op)
               PROVE  <<call'[u].id, "bpm">> \in torn' \/ (Gen = 1 /\ call'[t].op = "create")
    BY <1>4 DEF OneBpmAtATime
  <2>1. call'[u] = call[u]
    BY <1>2, <1>4 DEF OthersKept
  <2>2. CASE t = s /\ c.op = "create"
    BY <1>2, <1>4, <2>2
  <2>3. CASE t = s /\ c.op # "create"
    <3>1. Step(s) # "insert"
      BY <1>1, <2>3 DEF HereIn, InOrder
    <3> QED BY <1>2, <1>4, <1>7, <2>1, <2>3, <3>1 DEF IInv, OneBpmAtATime
  <2>4. CASE t # s
    <3>1. call'[t] = call[t]
      BY <2>4 DEF OthersKept
    <3> QED BY <1>2, <1>4, <2>1, <3>1 DEF IInv, OneBpmAtATime
  <2> QED BY <2>2, <2>3, <2>4
<1>14. \A i, what : SettledIn(Gen, call', torn', i, what) => SettledIn(Gen, call, torn, i, what)
  <2> SUFFICES ASSUME NEW i, NEW what, SettledIn(Gen, call', torn', i, what)
               PROVE  SettledIn(Gen, call, torn, i, what)
    OBVIOUS
  <2>1. ~HalfIn(Gen, c)
    BY <1>4, <1>5 DEF HalfIn
  <2> QED BY <1>2, <2>1, SettledBefore
<1>15. RowsAgree'
  <2>1. \A i : RowAgrees(Gen, db', i, SettledIn(Gen, call', torn', i, "rows"))
    BY <1>2, <1>14, AgreesLessCalm DEF IInv, RowsAgree
  <2> QED BY <1>2, <2>1, RowsByStep
<1>16. BpmsAgree'
  <2>1. \A i \in DOMAIN (db').m : SettledIn(Gen, call', torn', i, "bpm") =>
           (db').m[i].bpm = (db').m[i].analyzed
    BY <1>2, <1>14 DEF IInv, BpmsAgree
  <2> QED BY <1>2, <2>1, BpmsByStep
<1>17. BpmStaged'
  <2>1. \A i : BeingMade(call, i) => BeingMade(call', i)
    BY <1>5 DEF BeingMade, OthersKept
  <2>2. BpmHalf(e, db', torn', call')
    BY <1>2, <1>4 DEF BpmHalf
  <2>3. BpmWhole(Gen, e, db', torn')
    <3> DEFINE x == ViewOf(e, db')
    <3> SUFFICES ASSUME e.op \in {"create", "update"}, e.id \in DOMAIN x.m
                 PROVE  x.m[e.id].bpm = x.m[e.id].analyzed
      BY DEF BpmWhole
    <3>1. x.m = Outcome(s).m
      BY <1>6 DEF SameFiles
    <3>2. BpmWhole(Gen, c, db, torn)
      BY DEF IInv, BpmStaged
    <3>3. c.at > 1 /\ c.id \in DOMAIN View(s).m => View(s).m[c.id].bpm = View(s).m[c.id].analyzed
      BY <1>2, <1>4, <3>2, ViewsAre DEF BpmWhole
    <3> QED BY <1>2, <3>1, <3>3, ChangeBpm
  <2>4. ASSUME NEW t \in Sessions, t # s
        PROVE  BpmHalf(call[t], db', torn', call') /\ BpmWhole(Gen, call[t], db', torn')
    <3>1. BpmHalf(call[t], db, torn, call) /\ BpmWhole(Gen, call[t], db, torn)
      BY DEF IInv, BpmStaged
    <3> QED BY <1>2, <2>1, <3>1 DEF BpmHalf, BpmWhole
  <2> QED BY <1>2, <2>2, <2>3, <2>4, BpmStagedByStep
<1> QED BY <1>3, <1>8, <1>9, <1>10, <1>11, <1>12, <1>13, <1>15, <1>16, <1>17 DEF IInv

-----------------------------------------------------------------------------
(* A call stops, or is over. *)

LEMMA IdleLocks == \A g : LocksOf(g, Idle)
  BY IdleIs DEF LocksOf

LEMMA UnlockedFollows ==
  ASSUME NEW c, c.shared = {}, ~c.alone, NEW d PROVE Follows(c, d)
<1>1. PICK v : v = ViewOf(c, d)
  OBVIOUS
<1>2. v.m = d.m /\ v.p = d.p
  BY <1>1, ViewOfUnlocked DEF SameFiles
<1>3. OthersSame(d, v, c.id)
  BY <1>2 DEF OthersSame, SameRows, SameColumns, SameBlobs
<1>4. KeptIn(c.op, d, v, c.id)
  BY <1>2 DEF KeptIn
<1>5. \A f \in Files : v[f] = d[f]
  BY <1>2 DEF Files
<1> QED BY <1>1, <1>3, <1>4, <1>5 DEF Follows

LEMMA StagedMoreTorn ==
  ASSUME NEW g, NEW c, NEW d, NEW S, NEW T, <<c.id, "rows">> \in S => <<c.id, "rows">> \in T,
         StagedIn(g, c, d, S)
  PROVE  StagedIn(g, c, d, T)
  BY StagedLessCalm DEF StagedIn

LEMMA ConcernsAre == \A op : Concerns(op) \subseteq {"bpm", "rows"}
  BY DEF Concerns

(* Only a track that is there is left halfway.                             *)
LEMMA HalfwayIds ==
  ASSUME Typed, Room, NEW s \in Sessions, Busy(s), HalfIn(Gen, call[s])
  PROVE  call[s].id \in 1 .. lastId /\ call[s].id \in Ids
<1> DEFINE c == call[s]
<1>1. HereIn(s) /\ LockFacts(s)
  BY Locks
<1>2. Past(Gen, c) # {}
  BY <1>1 DEF HalfIn, LockFacts
<1>3. c.at # 1 /\ c.at \in Nat \ {0}
  BY <1>1, <1>2, Begun
<1>4. c.at > 1
  BY <1>3
<1>5. Gen # 1 \/ c.alone \/ c.op # "create"
  BY DEF HalfIn, TransactionIn
<1>6. ActiveOK(Gen, lastId, c)
  BY <1>1 DEF HereIn
<1>7. lastId \in Nat /\ lastId \in Ids
  BY LastIdIsAnId DEF Typed, StateOK
<1>8. c.id \in 1 .. lastId
  <2>1. CASE c.op = "create"
    <3>1. c.id \in 1 .. lastId + 1 /\ c.id <= lastId
      BY <1>4, <1>5, <1>6, <2>1 DEF ActiveOK
    <3> QED BY <1>7, <3>1
  <2>2. CASE c.op # "create"
    BY <1>6, <2>2 DEF ActiveOK
  <2> QED BY <2>1, <2>2
<1> QED BY <1>7, <1>8, TrackCallsBounds DEF Ids

(* There is no less room if nobody else is to have an id.                  *)
LEMMA RoomFewer ==
  ASSUME Typed, Room, NEW P, P \subseteq {t \in Sessions : Pending(t)},
         NEW last \in Nat, last <= lastId, NEW n \in Nat, calls <= n
  PROVE  IsFiniteSet(P) /\ Cardinality(P) + last <= 1 + n
<1> DEFINE Q == {t \in Sessions : Pending(t)}
<1>1. IsFiniteSet(Q) /\ Cardinality(Q) + lastId <= 1 + calls
  BY DEF Room
<1>2. P \subseteq Q
  OBVIOUS
<1> HIDE DEF Q
<1>3. IsFiniteSet(P) /\ Cardinality(P) <= Cardinality(Q)
  BY <1>1, <1>2, FS_Subset
<1>4. Cardinality(P) \in Nat /\ Cardinality(Q) \in Nat
  BY <1>1, <1>3, FS_CardinalityType
<1>5. lastId \in Nat /\ calls \in Nat
  BY DEF Typed, StateOK
<1> QED BY <1>1, <1>3, <1>4, <1>5

LEMMA StopStep ==
  ASSUME IInv, NEW s \in Sessions, Busy(s), StopIn(s), OthersKept(s)
  PROVE  IInv'
<1> DEFINE c == call[s]
           e == call'[s]
<1>1. HereIn(s) /\ LockFacts(s) /\ Typed /\ Room
  BY Locks DEF IInv
<1>2. /\ e = Idle
      /\ build' = build /\ lastId' = lastId /\ db' = db /\ calls' = calls
      /\ torn' = IF HalfIn(Gen, c) THEN torn \cup {c.id} \X Concerns(c.op) ELSE torn
  BY HalfwayIs DEF StopIn
<1>3. torn \subseteq torn' /\ Gen' = Gen
  BY <1>2 DEF Gen
<1>4. /\ e.op = "none" /\ e.id = 0 /\ e.at = 1 /\ e.shared = {} /\ e.reserved = {} /\ ~e.alone
  BY <1>2, IdleIs
<1>5. StateOK'
  <2>1. torn' \subseteq Ids \X {"bpm", "rows"}
    <3>1. torn \subseteq Ids \X {"bpm", "rows"}
      BY <1>1 DEF Typed, StateOK
    <3>2. HalfIn(Gen, c) => c.id \in Ids
      BY <1>1, HalfwayIds
    <3> QED BY <1>2, <3>1, <3>2, ConcernsAre
  <2> QED BY <1>1, <1>2, <2>1 DEF Typed, StateOK, FilesOK
<1>6. Typed'
  <2>1. lastId <= lastId' /\ LocksOf(Gen, e)
    BY <1>1, <1>2, IdleLocks DEF Typed, StateOK
  <2> QED BY <1>1, <1>2, <1>5, <2>1, TypedByStep
<1>7. Room'
  <2>1. {t \in Sessions : Pending(t)'} \subseteq {t \in Sessions : Pending(t)}
    BY <1>2, <1>3, <1>4 DEF Pending, OthersKept
  <2>2. lastId \in Nat /\ calls \in Nat
    BY <1>1 DEF Typed, StateOK
  <2>3. /\ IsFiniteSet({t \in Sessions : Pending(t)'})
        /\ Cardinality({t \in Sessions : Pending(t)'}) + lastId <= 1 + calls
    BY <1>1, <2>1, <2>2, RoomFewer
  <2> QED BY <1>2, <2>3 DEF Room
<1>8. Apart'
  <2>1. ASSUME NEW t \in Sessions, t # s
        PROVE  /\ e.reserved \cap call[t].reserved = {}
               /\ e.alone => call[t].shared = {}
               /\ call[t].alone => e.shared = {}
    BY <1>4
  <2> QED BY <2>1, ApartByStep DEF IInv
<1>9. DraftsFollow'
  <2>1. Follows(e, db')
    BY <1>4, UnlockedFollows
  <2>2. \A t \in Sessions : t # s => Follows(call[t], db')
    BY <1>2 DEF IInv, DraftsFollow
  <2> QED BY <2>1, <2>2, FollowByStep
<1>10. CallsStaged'
  <2>1. StagedIn(Gen, e, db', torn')
    BY <1>4 DEF StagedIn, TrackedIn
  <2>2. \A t \in Sessions : t # s => StagedIn(Gen, call[t], db', torn')
    BY <1>2, <1>3, StagedMoreTorn DEF IInv, CallsStaged
  <2> QED BY <1>2, <2>1, <2>2, StagedByStep
<1>11. OneAtATime' /\ OneBpmAtATime'
  BY <1>2, <1>3, PairsByStep DEF IInv
<1>12. \A i, what : SettledIn(Gen, call', torn', i, what) => SettledIn(Gen, call, torn, i, what)
  <2> SUFFICES ASSUME NEW i, NEW what, SettledIn(Gen, call', torn', i, what)
               PROVE  SettledIn(Gen, call, torn, i, what)
    OBVIOUS
  <2> QED BY <1>2, <1>3, SettledBefore
<1>13. RowsAgree'
  <2>1. \A i : RowAgrees(Gen, db', i, SettledIn(Gen, call', torn', i, "rows"))
    BY <1>2, <1>12, AgreesLessCalm DEF IInv, RowsAgree
  <2> QED BY <1>2, <2>1, RowsByStep
<1>14. BpmsAgree'
  <2>1. \A i \in DOMAIN (db').m : SettledIn(Gen, call', torn', i, "bpm") =>
           (db').m[i].bpm = (db').m[i].analyzed
    BY <1>2, <1>12 DEF IInv, BpmsAgree
  <2> QED BY <1>2, <2>1, BpmsByStep
<1>15. BpmStaged'
  <2>1. ASSUME NEW i, BeingMade(call, i) PROVE BeingMade(call', i) \/ <<i, "bpm">> \in torn'
    <3>1. PICK t \in Sessions : call[t].alone /\ call[t].op = "create" /\ call[t].id = i
      BY <2>1 DEF BeingMade
    <3>2. CASE t = s
      <4>1. HalfIn(Gen, c) /\ "bpm" \in Concerns(c.op)
        BY <1>1, <3>1, <3>2 DEF HalfIn, LockFacts, Concerns
      <4> QED BY <1>2, <3>1, <3>2, <4>1
    <3>3. CASE t # s
      BY <3>1, <3>3 DEF BeingMade, OthersKept
    <3> QED BY <3>2, <3>3
  <2>2. BpmHalf(e, db', torn', call') /\ BpmWhole(Gen, e, db', torn')
    BY <1>4 DEF BpmHalf, BpmWhole
  <2>3. ASSUME NEW t \in Sessions, t # s
        PROVE  BpmHalf(call[t], db', torn', call') /\ BpmWhole(Gen, call[t], db', torn')
    <3>1. BpmHalf(call[t], db, torn, call) /\ BpmWhole(Gen, call[t], db, torn)
      BY DEF IInv, BpmStaged
    <3>2. BpmHalf(call[t], db', torn', call')
      BY <1>2, <1>3, <2>1, <3>1 DEF BpmHalf
    <3>3. BpmWhole(Gen, call[t], db', torn')
      BY <1>2, <1>3, <3>1 DEF BpmWhole
    <3> QED BY <3>2, <3>3
  <2> QED BY <1>2, <2>2, <2>3, BpmStagedByStep
<1> QED BY <1>6, <1>7, <1>8, <1>9, <1>10, <1>11, <1>13, <1>14, <1>15 DEF IInv

-----------------------------------------------------------------------------
(* A call begins. *)

LEMMA ConflictsAre ==
  ASSUME NEW s \in Sessions, NEW op, NEW i, NEW t \in Sessions, t # s, call[t].id = i, i # 0,
         ~(InTransaction(op) /\ InTransaction(call[t].op)),
         NEW what, what \in Concerns(op), what \in Concerns(call[t].op)
  PROVE  <<i, what>> \in {i} \X Conflicts(s, op, i)
<1>1. what \in Conflicts(s, op, i)
  BY DEF Conflicts, Others
<1> QED BY <1>1

LEMMA ConflictsConcern == \A s, op, i : Conflicts(s, op, i) \subseteq {"bpm", "rows"}
<1> SUFFICES ASSUME NEW s, NEW op, NEW i, NEW what \in Conflicts(s, op, i) PROVE what \in {"bpm", "rows"}
  OBVIOUS
<1>1. what \in Concerns(op)
  BY DEF Conflicts
<1> QED BY <1>1, ConcernsAre

LEMMA NoConflicts == \A s, op : Conflicts(s, op, 0) = {}
  BY DEF Conflicts

LEMMA BeginTyped ==
  ASSUME Typed, Room, NEW s \in Sessions, NEW op \in Operations, NEW i \in 0 .. lastId, NEW v \in Values,
         BeginIn(s, op, i, v), OthersKept(s)
  PROVE  Typed' /\ Room'
<1> DEFINE c == call[s]
           e == call'[s]
<1>1. /\ ~Busy(s) /\ calls < MaxCalls /\ calls' = calls + 1
      /\ build' = build /\ lastId' = lastId /\ db' = db
      /\ torn' = torn \cup {i} \X Conflicts(s, op, i)
      /\ DOMAIN e = DOMAIN Idle /\ e.op = op /\ e.id = i /\ e.val = v /\ e.of = calls + 1 /\ e.at = 1
      /\ e.td = Idle.td /\ e.bd = Idle.bd
      /\ e.shared = Idle.shared /\ e.reserved = Idle.reserved /\ e.alone = Idle.alone
      /\ e.draft = Idle.draft /\ (op = "create" <=> i = 0)
  BY DEF BeginIn, SameLocks
<1>2. /\ lastId \in Nat /\ lastId \in Ids /\ calls \in Nat /\ MaxCalls \in Nat /\ calls \in 0 .. MaxCalls
      /\ Gen \in 1 .. 3 /\ Gen' = Gen
  BY <1>1, LastIdIsAnId, TrackCallsBounds, GenIs DEF Typed, StateOK, Gen
<1>3. op \in AllOperations
  BY OperationsAre
<1>4. e.shared = {} /\ e.reserved = {} /\ ~e.alone
  BY <1>1, IdleIs
<1>5. StateOK'
  <2>1. torn \subseteq Ids \X {"bpm", "rows"}
    BY DEF Typed, StateOK
  <2>2. CASE i = 0
    <3>1. torn' = torn
      BY <1>1, <2>2, NoConflicts
    <3> QED BY <1>1, <1>2, <3>1, <2>1 DEF Typed, StateOK, FilesOK
  <2>3. CASE i # 0
    <3>1. i \in Ids
      BY <1>2, <2>3, TrackCallsBounds DEF Ids
    <3>2. torn' \subseteq Ids \X {"bpm", "rows"}
      BY <1>1, <2>1, <3>1, ConflictsConcern
    <3> QED BY <1>1, <1>2, <3>2 DEF Typed, StateOK, FilesOK
  <2> QED BY <2>2, <2>3
<1>6. CallOK(e)
  <2>1. calls + 1 \in 0 .. MaxCalls
    BY <1>1, <1>2
  <2> QED BY <1>1, <1>3, <2>1, IdleIs DEF CallOK
<1>7. ActiveOK(Gen, lastId, e)
  <2>1. e.at \in DOMAIN ProgramOf(Gen, op)
    <3>1. IsProgram(ProgramOf(Gen, op))
      BY <1>2, <1>3, ProgramsAre
    <3> QED BY <1>1, <3>1 DEF IsProgram
  <2>2. e.id \in Nat /\ e.of > 0
    BY <1>1, <1>2
  <2>3. op # "create" => e.id \in 1 .. lastId
    BY <1>1, <1>2
  <2>4. ~(e.at > 1)
    BY <1>1
  <2>5. DOMAIN e.draft = e.shared
    BY <1>1, <1>4, IdleIs
  <2>6. "m" \notin e.shared /\ "p" \notin e.shared /\ e.alone \in BOOLEAN
    BY <1>4, <1>1, IdleIs
  <2> QED BY <1>1, <1>6, <2>1, <2>2, <2>3, <2>4, <2>5, <2>6 DEF ActiveOK
<1>8. LocksOf(Gen, e)
  <2>1. Past(Gen, e) = {}
    BY <1>1, BeforeFirst DEF Past
  <2> QED BY <1>4, <2>1 DEF LocksOf, Touched, Altered
<1>9. Typed'
  <2>1. lastId <= lastId'
    BY <1>1, <1>2
  <2> QED BY <1>1, <1>5, <1>7, <1>8, <2>1, TypedByStep
<1>10. Room'
  <2> DEFINE Q == {t \in Sessions : Pending(t)}
             P == {t \in Sessions : Pending(t)'}
  <2>1. P \subseteq Q \cup {s}
    BY <1>2 DEF Pending, OthersKept
  <2>2. IsFiniteSet(Q) /\ Cardinality(Q) + lastId <= 1 + calls
    BY DEF Room
  <2> HIDE DEF P, Q
  <2>3. IsFiniteSet(Q \cup {s}) /\ Cardinality(Q \cup {s}) <= Cardinality(Q) + 1
    <3>1. Cardinality(Q) \in Nat
      BY <2>2, FS_CardinalityType
    <3> QED BY <2>2, <3>1, FS_AddElement
  <2>4. IsFiniteSet(P) /\ Cardinality(P) <= Cardinality(Q \cup {s})
    BY <2>1, <2>3, FS_Subset
  <2>5. Cardinality(P) \in Nat /\ Cardinality(Q) \in Nat /\ Cardinality(Q \cup {s}) \in Nat
    BY <2>2, <2>3, <2>4, FS_CardinalityType
  <2>6. Cardinality(P) + lastId <= 1 + (calls + 1)
    BY <1>2, <2>2, <2>3, <2>4, <2>5
  <2> QED BY <1>1, <2>4, <2>6 DEF Room, P
<1> QED BY <1>9, <1>10

LEMMA BeginStep ==
  ASSUME IInv, NEW s \in Sessions, NEW op \in Operations, NEW i \in 0 .. lastId, NEW v \in Values,
         BeginIn(s, op, i, v), OthersKept(s)
  PROVE  IInv'
<1> DEFINE c == call[s]
           e == call'[s]
<1>1. /\ c.op = "none"
      /\ build' = build /\ lastId' = lastId /\ db' = db
      /\ torn' = torn \cup {i} \X Conflicts(s, op, i)
      /\ e.op = op /\ e.id = i /\ e.at = 1 /\ (op = "create" <=> i = 0)
      /\ e.shared = {} /\ e.reserved = {} /\ ~e.alone
  BY IdleIs DEF BeginIn, SameLocks, Busy
<1>2. Typed /\ Room /\ Typed' /\ Room'
  BY BeginTyped DEF IInv
<1>3. torn \subseteq torn' /\ Gen' = Gen
  BY <1>1 DEF Gen
<1>4. ~c.alone /\ Concerns(c.op) = {}
  BY <1>1, <1>2, Locks DEF LockFacts, Busy, Concerns
<1>5. Apart'
  <2>1. ASSUME NEW t \in Sessions, t # s
        PROVE  /\ e.reserved \cap call[t].reserved = {}
               /\ e.alone => call[t].shared = {}
               /\ call[t].alone => e.shared = {}
    BY <1>1
  <2> QED BY <2>1, ApartByStep DEF IInv
<1>6. DraftsFollow'
  <2>1. Follows(e, db')
    BY <1>1, UnlockedFollows
  <2>2. \A t \in Sessions : t # s => Follows(call[t], db')
    BY <1>1 DEF IInv, DraftsFollow
  <2> QED BY <2>1, <2>2, FollowByStep
<1>7. CallsStaged'
  <2>1. StagedIn(Gen, e, db', torn')
    BY <1>1 DEF StagedIn, TrackedIn
  <2>2. \A t \in Sessions : t # s => StagedIn(Gen, call[t], db', torn')
    BY <1>1, <1>3, StagedMoreTorn DEF IInv, CallsStaged
  <2> QED BY <1>1, <2>1, <2>2, StagedByStep
<1>8. ASSUME NEW t \in Sessions, t # s, call[t].id = i, i # 0,
             ~(TransactionIn(Gen, op) /\ TransactionIn(Gen, call[t].op)),
             NEW what, what \in Concerns(op), what \in Concerns(call[t].op)
      PROVE  <<i, what>> \in torn'
  <2>1. <<i, what>> \in {i} \X Conflicts(s, op, i)
    BY <1>8, TransactionsAre, ConflictsAre
  <2> QED BY <1>1, <2>1
<1>9. OneAtATime'
  <2> SUFFICES ASSUME Gen # 1, NEW u \in Sessions, NEW t \in Sessions, u # t,
                      call'[u].id = call'[t].id, call'[u].id # 0,
                      "rows" \in Concerns(call'[u].op), "rows" \in Concerns(call'[t].op)
               PROVE  <<call'[u].id, "rows">> \in torn'
    BY <1>3 DEF OneAtATime
  <2>1. \A op2 : ~TransactionIn(Gen, op2)
    BY DEF TransactionIn
  <2>2. CASE u = s
    <3>1. call'[t] = call[t] /\ t # s
      BY <2>2 DEF OthersKept
    <3> QED BY <1>1, <1>8, <2>1, <2>2, <3>1
  <2>3. CASE t = s
    <3>1. call'[u] = call[u] /\ u # s
      BY <2>3 DEF OthersKept
    <3> QED BY <1>1, <1>8, <2>1, <2>3, <3>1
  <2>4. CASE u # s /\ t # s
    BY <1>3, <2>4 DEF IInv, OneAtATime, OthersKept
  <2> QED BY <2>2, <2>3, <2>4
<1>10. OneBpmAtATime'
  <2> SUFFICES ASSUME NEW u \in Sessions, NEW t \in Sessions, u # t,
                      call'[u].id = call'[t].id, call'[u].op = "bpm", "bpm" \in Concerns(call'[t].op)
               PROVE  <<call'[u].id, "bpm">> \in torn' \/ (Gen = 1 /\ call'[t].op = "create")
    BY <1>3 DEF OneBpmAtATime
  <2>1. ~TransactionIn(Gen, "bpm") /\ "bpm" \in Concerns("bpm")
    BY DEF TransactionIn, Concerns
  <2>2. CASE u = s
    <3>1. call'[t] = call[t] /\ t # s
      BY <2>2 DEF OthersKept
    <3> QED BY <1>1, <1>8, <2>1, <2>2, <3>1
  <2>3. CASE t = s
    <3>1. call'[u] = call[u] /\ u # s
      BY <2>3 DEF OthersKept
    <3>2. HereIn(u)
      BY <1>2, <3>1, Locks DEF Busy
    <3>3. call[u].id \in 1 .. lastId
      BY <3>1, <3>2 DEF HereIn, ActiveOK
    <3>4. i # 0
      BY <1>1, <2>3, <3>1, <3>3
    <3> QED BY <1>1, <1>8, <2>1, <2>3, <3>1, <3>4
  <2>4. CASE u # s /\ t # s
    BY <1>3, <2>4 DEF IInv, OneBpmAtATime, OthersKept
  <2> QED BY <2>2, <2>3, <2>4
<1>11. \A j, what : SettledIn(Gen, call', torn', j, what) => SettledIn(Gen, call, torn, j, what)
  <2> SUFFICES ASSUME NEW j, NEW what, SettledIn(Gen, call', torn', j, what)
               PROVE  SettledIn(Gen, call, torn, j, what)
    OBVIOUS
  <2> QED BY <1>3, <1>4, SettledBefore
<1>12. RowsAgree'
  <2>1. \A j : RowAgrees(Gen, db', j, SettledIn(Gen, call', torn', j, "rows"))
    BY <1>1, <1>11, AgreesLessCalm DEF IInv, RowsAgree
  <2> QED BY <1>1, <2>1, RowsByStep
<1>13. BpmsAgree'
  <2>1. \A j \in DOMAIN (db').m : SettledIn(Gen, call', torn', j, "bpm") =>
           (db').m[j].bpm = (db').m[j].analyzed
    BY <1>1, <1>11 DEF IInv, BpmsAgree
  <2> QED BY <1>1, <2>1, BpmsByStep
<1>14. BpmStaged'
  <2>1. ASSUME NEW j, BeingMade(call, j) PROVE BeingMade(call', j)
    <3>1. PICK t \in Sessions : call[t].alone /\ call[t].op = "create" /\ call[t].id = j
      BY <2>1 DEF BeingMade
    <3>2. t # s
      BY <1>4, <3>1
    <3> QED BY <3>1, <3>2 DEF BeingMade, OthersKept
  <2>2. BpmHalf(e, db', torn', call') /\ BpmWhole(Gen, e, db', torn')
    BY <1>1 DEF BpmHalf, BpmWhole
  <2>3. ASSUME NEW t \in Sessions, t # s
        PROVE  BpmHalf(call[t], db', torn', call') /\ BpmWhole(Gen, call[t], db', torn')
    <3>1. BpmHalf(call[t], db, torn, call) /\ BpmWhole(Gen, call[t], db, torn)
      BY DEF IInv, BpmStaged
    <3>2. BpmHalf(call[t], db', torn', call')
      BY <1>1, <1>3, <2>1, <3>1 DEF BpmHalf
    <3>3. BpmWhole(Gen, call[t], db', torn')
      BY <1>1, <1>3, <3>1 DEF BpmWhole
    <3> QED BY <3>2, <3>3
  <2> QED BY <1>1, <2>2, <2>3, BpmStagedByStep
<1> QED BY <1>2, <1>5, <1>6, <1>7, <1>9, <1>10, <1>12, <1>13, <1>14 DEF IInv
-----------------------------------------------------------------------------
(* What another call's statement leaves of what a call has staged. *)

(* What Staged and RowAgrees say of the track i is as true of e as of d.   *)
Undisturbed(g, d, e, i) ==
  /\ i \in DOMAIN e.m => /\ i \in DOMAIN d.m
                         /\ e.m[i].of = d.m[i].of /\ e.m[i].key = d.m[i].key /\ e.m[i].len = d.m[i].len
  /\ i \in DOMAIN e.p => /\ i \in DOMAIN d.p
                         /\ e.p[i].of = d.p[i].of /\ e.p[i].td = d.p[i].td /\ e.p[i].bd = d.p[i].bd
                         /\ g = 1 => e.p[i].wave = d.p[i].wave
  /\ i \in DOMAIN e.m /\ i \in DOMAIN d.p => i \in DOMAIN e.p

LEMMA SameIsUndisturbed ==
  ASSUME NEW g, NEW d, NEW e, NEW i, SameRows(d, e, i) PROVE Undisturbed(g, d, e, i)
  BY DEF Undisturbed, SameRows, SameColumns, SameBlobs

LEMMA StagedUndisturbed ==
  ASSUME NEW g, NEW c, NEW done, NEW d, NEW e, NEW calm, Undisturbed(g, d, e, c.id),
         Staged(g, c, done, d, calm)
  PROVE  Staged(g, c, done, e, calm)
<1>1. BlobPart(g, c, done, e, calm)
  <2> SUFFICES ASSUME c.id \in DOMAIN e.p, ~Unseen(g, c.op, done), g = 1 \/ calm
               PROVE  BlobsStaged(g, c, done, e.p[c.id])
    BY DEF BlobPart
  <2>1. BlobsStaged(g, c, done, d.p[c.id])
    BY DEF Undisturbed, Staged, BlobPart
  <2>2. e.p[c.id].td = d.p[c.id].td /\ e.p[c.id].bd = d.p[c.id].bd
        /\ (g = 1 => e.p[c.id].wave = d.p[c.id].wave)
    BY DEF Undisturbed
  <2> QED BY <2>1, <2>2 DEF BlobsStaged
<1>2. ColumnPart(g, c, done, e, calm)
  BY DEF Undisturbed, Staged, ColumnPart, ColumnsStaged
<1>3. OwnPart(g, c, done, e, calm)
  BY DEF Undisturbed, Staged, OwnPart
<1>4. BothPart(g, c, done, e, calm)
  BY DEF Undisturbed, Staged, BothPart, BothStaged
<1> QED BY <1>1, <1>2, <1>3, <1>4 DEF Staged

LEMMA AgreesUndisturbed ==
  ASSUME NEW g, NEW d, NEW e, NEW i, NEW calm, Undisturbed(g, d, e, i), RowAgrees(g, d, i, calm)
  PROVE  RowAgrees(g, e, i, calm)
  BY DEF Undisturbed, RowAgrees

(* Where calls have met without a transaction, nothing is claimed.         *)
LEMMA StagedTorn ==
  ASSUME NEW g, g # 1, NEW c, NEW done, "replace" \notin done, NEW d
  PROVE  Staged(g, c, done, d, FALSE)
  BY DEF Staged, BlobPart, ColumnPart, OwnPart, BothPart, BothStaged

(* The draft of a call follows what another writes to a file it has not locked. *)
LEMMA FollowsOtherFile ==
  ASSUME NEW c, NEW d, NEW e, NEW f \in Files, f \notin c.shared, c.reserved \subseteq c.shared,
         ~c.alone, \A g \in Files : g # f => e[g] = d[g], Follows(c, d)
  PROVE  Follows(c, e)
<1>1. PICK v : v = ViewOf(c, d)
  OBVIOUS
<1>2. PICK w : w = ViewOf(c, e)
  OBVIOUS
<1>3. /\ OthersSame(d, v, c.id) /\ \A g \in Files \ c.reserved : v[g] = d[g]
      /\ KeptIn(c.op, d, v, c.id)
  BY <1>1 DEF Follows
<1>4. /\ \A g \in Files \ {f} : w[g] = v[g] /\ e[g] = d[g]
      /\ w[f] = e[f]
  BY <1>1, <1>2 DEF ViewOf
<1>5. \A g \in Files \ c.reserved : w[g] = e[g]
  BY <1>3, <1>4
<1>6. CASE f = "m"
  <2>1. w.m = e.m /\ w.p = v.p /\ e.p = d.p
    BY <1>4, <1>6, FilesAre
  <2>2. OthersSame(e, w, c.id)
    BY <1>3, <2>1 DEF OthersSame, SameRows, SameColumns, SameBlobs
  <2>3. KeptIn(c.op, e, w, c.id)
    BY <1>3, <2>1 DEF KeptIn
  <2> QED BY <1>2, <1>5, <2>2, <2>3 DEF Follows
<1>7. CASE f = "p"
  <2>1. w.p = e.p /\ w.m = v.m /\ e.m = d.m
    BY <1>4, <1>7, FilesAre
  <2>2. OthersSame(e, w, c.id)
    BY <1>3, <2>1 DEF OthersSame, SameRows, SameColumns, SameBlobs
  <2>3. KeptIn(c.op, e, w, c.id)
    BY <1>3, <2>1 DEF KeptIn
  <2> QED BY <1>2, <1>5, <2>2, <2>3 DEF Follows
<1> QED BY <1>6, <1>7, FilesAre

(* The call of a session is on a track that no other call is on.           *)
LEMMA PairsByNewId ==
  ASSUME NEW s \in Sessions, OthersKept(s), build' = build, torn \subseteq torn',
         \A t \in Sessions : t # s => call[t].id # call'[s].id,
         OneAtATime, OneBpmAtATime
  PROVE  OneAtATime' /\ OneBpmAtATime'
<1>1. Gen' = Gen
  BY DEF Gen
<1>2. \A t, u \in Sessions : t # u /\ call'[t].id = call'[u].id =>
        call'[t] = call[t] /\ call'[u] = call[u]
  BY DEF OthersKept
<1>3. OneAtATime'
  BY <1>1, <1>2 DEF OneAtATime
<1>4. OneBpmAtATime'
  BY <1>1, <1>2 DEF OneBpmAtATime
<1> QED BY <1>3, <1>4

-----------------------------------------------------------------------------
(* What a statement leaves of its track. *)

LEMMA OutcomeUndisturbs ==
  ASSUME NEW s \in Sessions, OutcomeIn(s), call[s].op \in {"bpm", "remove", "waveform"},
         ~TransactionIn(Gen, call[s].op)
  PROVE  Undisturbed(Gen, View(s), Outcome(s), call[s].id)
<1>1. PICK v : v = View(s)
  OBVIOUS
<1>2. PICK w : w = Outcome(s)
  OBVIOUS
<1>3. PICK c : c = call[s]
  OBVIOUS
<1>4. /\ FilesOK(v) /\ Gen \in 1 .. 3 /\ Step(s) \in Changes
      /\ InOrder(Gen, c.op, Step(s), Past(Gen, c), Last(s))
  BY <1>1, <1>3, Targets DEF OutcomeIn, HereIn
<1>5. Target(s) = c /\ CallOK(c) /\ w = Result(v, c, Step(s))
  BY <1>1, <1>2, <1>3, <1>4 DEF OutcomeIn, Outcome, InOrder
<1>6. CASE c.op = "bpm"
  <2>1. Step(s) \in {"write key", "write len", "write analyzed", "write bpm"}
        /\ Step(s) # "write key" /\ Step(s) # "write len"
    BY <1>4, <1>6 DEF InOrder
  <2>2. ColumnWrittenIn(v, c, Step(s), w)
    BY <1>4, <1>5, <2>1, ColumnWritten
  <2> QED BY <1>1, <1>2, <1>3, <2>1, <2>2 DEF ColumnWrittenIn, Undisturbed, SameBlobs
<1>7. CASE c.op = "remove"
  <2>1. Step(s) = "delete"
    BY <1>4, <1>7 DEF InOrder
  <2>2. DeletedIn(v, c, w)
    BY <1>4, <1>5, <2>1, DeletedShape DEF Result
  <2> QED BY <1>1, <1>2, <1>3, <2>2 DEF DeletedIn, Undisturbed, SameBlobs
<1>8. CASE c.op = "waveform"
  <2>1. Step(s) = "write wave"
    BY <1>4, <1>8, ChangesAre DEF InOrder
  <2>2. BlobWrittenIn(v, c, "write wave", w)
    BY <1>1, <1>2, <1>3, <2>1, BlobOutcome DEF OnBlobs
  <2>3. Gen # 1
    BY <1>3, <1>8 DEF TransactionIn
  <2> QED BY <1>1, <1>2, <1>3, <2>2, <2>3 DEF BlobWrittenIn, Undisturbed, SameColumns
<1> QED BY <1>3, <1>6, <1>7, <1>8

SameBpm(d, e, i) ==
  i \in DOMAIN e.m => i \in DOMAIN d.m /\ e.m[i].bpm = d.m[i].bpm /\ e.m[i].analyzed = d.m[i].analyzed

LEMMA OutcomeKeepsBpm ==
  ASSUME NEW s \in Sessions, OutcomeIn(s), "bpm" \notin Concerns(call[s].op)
  PROVE  SameBpm(View(s), Outcome(s), call[s].id) /\ Target(s) = call[s]
<1>1. PICK v : v = View(s)
  OBVIOUS
<1>2. PICK w : w = Outcome(s)
  OBVIOUS
<1>3. PICK c : c = call[s]
  OBVIOUS
<1>4. /\ FilesOK(v) /\ Gen \in 1 .. 3 /\ Step(s) \in Changes
      /\ InOrder(Gen, c.op, Step(s), Past(Gen, c), Last(s))
  BY <1>1, <1>3, Targets DEF OutcomeIn, HereIn
<1>5. c.op \notin {"bpm", "create", "update"}
  BY <1>3 DEF Concerns
<1>6. Target(s) = c /\ CallOK(c) /\ w = Result(v, c, Step(s))
  BY <1>1, <1>2, <1>3, <1>4, <1>5 DEF OutcomeIn, Outcome, InOrder
<1>7. Step(s) \in {"write td", "write bd", "write wave", "fit wave", "write key", "write len", "delete"}
  BY <1>4, <1>5, ChangesAre DEF InOrder
<1>8. CASE Step(s) \in OnBlobs
  <2>1. BlobWrittenIn(v, c, Step(s), w)
    BY <1>1, <1>2, <1>3, <1>8, BlobOutcome
  <2> QED BY <1>1, <1>2, <1>3, <1>6, <2>1 DEF BlobWrittenIn, SameColumns, SameBpm
<1>9. CASE Step(s) = "fit wave"
  <2>1. WaveFittedIn(v, c, w)
    BY <1>4, <1>6, <1>9, WaveFitted
  <2> QED BY <1>1, <1>2, <1>3, <1>6, <2>1 DEF WaveFittedIn, SameColumns, SameBpm
<1>10. CASE Step(s) \in {"write key", "write len"}
  <2>1. ColumnWrittenIn(v, c, Step(s), w)
    BY <1>4, <1>6, <1>10, ColumnWritten
  <2> QED BY <1>1, <1>2, <1>3, <1>6, <1>10, <2>1 DEF ColumnWrittenIn, SameBpm
<1>11. CASE Step(s) = "delete"
  <2>1. DeletedIn(v, c, w)
    BY <1>4, <1>6, <1>11, DeletedShape DEF Result
  <2> QED BY <1>1, <1>2, <1>3, <1>6, <2>1 DEF DeletedIn, SameBpm
<1> QED BY <1>7, <1>8, <1>9, <1>10, <1>11 DEF OnBlobs
-----------------------------------------------------------------------------
(* A statement without a transaction is written at once. *)

(* Target(s) is on the track of the call, or on a new one.                 *)
WroteIn(s) ==
  LET c == call[s]
      k == Target(s)
  IN  /\ ~TransactionIn(Gen, c.op) /\ ("rows" \in Concerns(c.op) => Gen # 1)
      /\ c.shared = {} /\ c.reserved = {} /\ ~c.alone
      /\ Step(s) # "insert" => k = c /\ k.id \in 1 .. lastId
      /\ Step(s) = "insert" => Gen # 1 /\ k.id = lastId + 1 /\ c.op = "create" /\ c.id = 0 /\ c.at = 1
      /\ Step(s) \notin Commits /\ Step(s) \notin Reads /\ FileOf(Step(s)) = "m"
      /\ FilesOK(db') /\ OthersSame(db, db', k.id) /\ SameFiles(View(s), db)
      /\ Gen = 1 => db'.p = db.p
      /\ \A t \in Sessions : t # s => "m" \notin call[t].shared /\ ~call[t].alone

LEMMA Wrote ==
  ASSUME Typed, NEW s \in Sessions, Busy(s), Free(s), OutcomeIn(s), WriteIn(s)
  PROVE  WroteIn(s)
<1> DEFINE c == call[s]
           k == Target(s)
<1>1. HereIn(s) /\ LockFacts(s) /\ lastId \in Nat \ {0}
  BY Locks DEF Typed, StateOK
<1>2. ~TransactionIn(Gen, c.op) /\ ~InTransaction(c.op) /\ Step(s) \in Changes /\ db' = Outcome(s)
  BY TransactionsAre DEF WriteIn
<1>3. Step(s) \notin Commits /\ Step(s) \notin Reads
  BY <1>2 DEF Changes
<1>4. c.shared = {} /\ c.reserved = {} /\ ~c.alone
  BY <1>1, <1>2 DEF LockFacts
<1>5. FileOf(Step(s)) = "m"
  BY <1>1, <1>2, FilesOfSteps DEF HereIn, InOrder
<1>6. SameFiles(View(s), db)
  BY <1>4, ViewsAre, ViewOfUnlocked
<1>7. FilesOK(db') /\ OthersSame(db, db', k.id)
  <2>1. FilesOK(db') /\ OthersSame(View(s), db', k.id)
    BY <1>2 DEF OutcomeIn
  <2> QED BY <1>6, <2>1 DEF SameFiles, OthersSame, SameRows, SameColumns, SameBlobs
<1>8. Gen = 1 => db'.p = db.p
  <2>1. Gen = 1 => db'["p"] = View(s)["p"]
    BY <1>2, <1>5, FilesAre DEF OutcomeIn
  <2> QED BY <1>6, <2>1 DEF SameFiles
<1>9. "rows" \in Concerns(c.op) => Gen # 1
  BY <1>2, TransactionsIn
<1>10. Step(s) = "insert" => Gen # 1 /\ k.id = lastId + 1 /\ c.op = "create" /\ c.id = 0 /\ c.at = 1
  <2>1. Step(s) = "insert" => NewIdIn(s)
    BY DEF OutcomeIn
  <2>2. c.op = "create" => Gen # 1
    BY <1>2 DEF TransactionIn
  <2> QED BY <2>1, <2>2 DEF NewIdIn
<1>11. Step(s) # "insert" => k = c /\ k.id \in 1 .. lastId
  <2> SUFFICES ASSUME Step(s) # "insert" PROVE k = c /\ c.id \in 1 .. lastId
    OBVIOUS
  <2>1. k = c
    BY DEF OutcomeIn
  <2>2. CASE c.op = "create"
    <3>1. Past(Gen, c) # {}
      BY <1>1, <2>2 DEF HereIn, InOrder
    <3>2. c.at # 1 /\ c.at \in Nat \ {0}
      BY <1>1, <3>1, Begun
    <3>3. c.at > 1
      BY <3>2
    <3>4. Gen # 1
      BY <1>2, <2>2 DEF TransactionIn
    <3>5. c.id \in 1 .. lastId + 1 /\ c.id <= lastId
      BY <1>1, <2>2, <3>3, <3>4 DEF HereIn, ActiveOK
    <3> QED BY <1>1, <2>1, <3>5
  <2>3. CASE c.op # "create"
    BY <1>1, <2>1, <2>3 DEF HereIn, ActiveOK
  <2> QED BY <2>2, <2>3
<1>12. ASSUME NEW t \in Sessions, t # s PROVE "m" \notin call[t].shared /\ ~call[t].alone
  <2>1. "m" \notin call[t].shared
    BY <1>2, <1>3, <1>5, <1>12 DEF Free, Others
  <2> QED BY <1>3, <1>12, <2>1, NoneAlone
<1> QED BY <1>2, <1>3, <1>4, <1>5, <1>6, <1>7, <1>8, <1>9, <1>10, <1>11, <1>12 DEF WroteIn

(* The call after it. *)
LEMMA WroteOn ==
  ASSUME Typed, NEW s \in Sessions, Busy(s), WriteIn(s), WroteIn(s), ~Last(s)
  PROVE  LET e == call'[s]
         IN  /\ Past(Gen, e) = Past(Gen, call[s]) \cup {Step(s)} /\ e.at > 1
             /\ e.op = call[s].op /\ e.id = Target(s).id /\ e.val = call[s].val
             /\ e.td = call[s].td /\ e.bd = call[s].bd /\ e.shared = {} /\ e.reserved = {} /\ ~e.alone
             /\ ~TransactionIn(Gen, e.op) /\ HalfIn(Gen, e)
<1> DEFINE c == call[s]
           e == call'[s]
<1>1. HereIn(s)
  BY Locks
<1>2. /\ e.op = c.op /\ e.id = Target(s).id /\ e.val = c.val /\ e.at = c.at + 1
      /\ e.td = c.td /\ e.bd = c.bd /\ e.shared = {} /\ e.reserved = {} /\ ~e.alone
  BY DEF WriteIn, WroteIn, Continues, SameLocks
<1>3. Past(Gen, e) = Past(Gen, c) \cup {Step(s)} /\ e.at > 1
  BY <1>1, <1>2, Onward
<1>4. ~TransactionIn(Gen, e.op)
  BY <1>2 DEF WroteIn
<1>5. HalfIn(Gen, e)
  BY <1>3, <1>4 DEF HalfIn, WroteIn
<1> QED BY <1>2, <1>3, <1>4, <1>5

LEMMA WriteTyped ==
  ASSUME Typed, NEW s \in Sessions, Busy(s), OutcomeIn(s), WriteIn(s), WroteIn(s), OthersKept(s)
  PROVE  Typed' /\ lastId' \in Nat /\ lastId <= lastId'
<1> DEFINE c == call[s]
           e == call'[s]
           k == Target(s)
<1>1. HereIn(s) /\ LockFacts(s) /\ lastId \in Nat \ {0}
  BY Locks DEF Typed, StateOK
<1>2. /\ build' = build /\ calls' = calls /\ torn' = torn /\ db' = Outcome(s)
      /\ lastId' = IF k.id > lastId THEN k.id ELSE lastId
  BY DEF WriteIn
<1>3. k.id \in 1 .. lastId + 1 /\ k.id \in Nat
  BY <1>1 DEF WroteIn
<1>4. lastId' \in Nat \ {0} /\ lastId <= lastId' /\ k.id \in 1 .. lastId'
  BY <1>1, <1>2, <1>3
<1>5. StateOK'
  <2>1. /\ DOMAIN (db').m \subseteq (1 .. lastId) \cup {k.id}
        /\ DOMAIN (db').p \subseteq (1 .. lastId) \cup {k.id}
    BY <1>2, OutcomeIds
  <2>2. /\ DOMAIN (db').m \subseteq 1 .. lastId'
        /\ DOMAIN (db').p \subseteq 1 .. lastId'
    BY <1>1, <1>4, <2>1
  <2>3. FilesOK(db')
    BY DEF WroteIn
  <2> QED BY <1>2, <1>4, <2>2, <2>3 DEF Typed, StateOK, FilesOK
<1>6. e = Idle \/ ActiveOK(Gen, lastId', e)
  <2> SUFFICES ASSUME ~Last(s) PROVE ActiveOK(Gen, lastId', e)
    BY DEF WriteIn
  <2>1. /\ DOMAIN e = DOMAIN Idle /\ e.op = c.op /\ e.val = c.val /\ e.of = c.of /\ e.at = c.at + 1
        /\ e.alone = c.alone /\ e.draft = c.draft /\ e.shared = c.shared
    BY DEF WriteIn, Continues, SameLocks
  <2>2. /\ e.id = k.id /\ e.td = c.td /\ e.bd = c.bd /\ e.shared = {} /\ e.at > 1
    BY WroteOn
  <2>3. CallOK(e)
    BY <1>1, <2>1, <2>2 DEF HereIn, ActiveOK, CallOK
  <2>4. e.at \in DOMAIN ProgramOf(Gen, e.op)
    BY <1>1, <2>1, Onward
  <2>5. e.op \in Operations /\ e.of > 0 /\ e.alone \in BOOLEAN /\ DOMAIN e.draft = e.shared
    BY <1>1, <2>1 DEF HereIn, ActiveOK
  <2>6. e.id \in Nat /\ e.id \in 1 .. lastId' /\ e.id \in 1 .. lastId' + 1 /\ e.id <= lastId'
    BY <1>3, <1>4, <2>2
  <2>7. ~(e.at = 1)
    BY <2>2, <1>1, <2>1, Onward
  <2> QED BY <2>2, <2>3, <2>4, <2>5, <2>6, <2>7 DEF ActiveOK
<1>7. LocksOf(Gen, e)
  <2>1. CASE Last(s)
    BY <2>1, IdleLocks DEF WriteIn
  <2>2. CASE ~Last(s)
    BY <2>2, WroteOn DEF LocksOf
  <2> QED BY <2>1, <2>2
<1> QED BY <1>2, <1>4, <1>5, <1>6, <1>7, TypedByStep

LEMMA WriteRoom ==
  ASSUME Typed, Room, NEW s \in Sessions, Busy(s), OutcomeIn(s), WriteIn(s), WroteIn(s), OthersKept(s)
  PROVE  Room'
<1> DEFINE Q == {t \in Sessions : Pending(t)}
           P == {t \in Sessions : Pending(t)'}
<1>1. lastId \in Nat /\ calls \in Nat /\ Gen' = Gen /\ build' = build /\ calls' = calls
  BY DEF Typed, StateOK, WriteIn, Gen
<1>2. ~Pending(s)'
  <2>1. CASE Last(s)
    BY <2>1, IdleIs DEF Pending, WriteIn
  <2>2. CASE ~Last(s)
    <3>1. call'[s].at # 1 /\ ~TransactionIn(Gen, call'[s].op)
      <4>1. HereIn(s)
        BY Locks
      <4>2. call'[s].at \in Nat /\ call'[s].at > 1
        BY <2>2, <4>1, Onward DEF WriteIn, Continues
      <4> QED BY <2>2, <4>2, WroteOn
    <3> QED BY <1>1, <3>1 DEF Pending, TransactionIn
  <2> QED BY <2>1, <2>2
<1>3. P \subseteq Q \ {s}
  BY <1>1, <1>2 DEF Pending, OthersKept
<1>4. CASE lastId' = lastId
  BY <1>1, <1>3, <1>4, RoomFewer DEF Room
<1>5. CASE Step(s) = "insert"
  <2>1. lastId' = lastId + 1
    BY <1>1, <1>5 DEF WriteIn, WroteIn
  <2>2. s \in Q
    BY <1>5 DEF OutcomeIn, NewIdIn
  <2>3. IsFiniteSet(Q) /\ Cardinality(Q) + lastId <= 1 + calls
    BY DEF Room
  <2> HIDE DEF P, Q
  <2>4. IsFiniteSet(Q \ {s}) /\ Cardinality(Q \ {s}) = Cardinality(Q) - 1
    BY <2>2, <2>3, FS_RemoveElement
  <2>5. IsFiniteSet(P) /\ Cardinality(P) <= Cardinality(Q \ {s})
    BY <1>3, <2>4, FS_Subset
  <2>6. Cardinality(P) \in Nat /\ Cardinality(Q) \in Nat
    BY <2>3, <2>5, FS_CardinalityType
  <2>7. Cardinality(P) + (lastId + 1) <= 1 + calls
    BY <1>1, <2>3, <2>4, <2>5, <2>6
  <2> QED BY <1>1, <2>1, <2>5, <2>7 DEF Room, P
<1>6. CASE Step(s) # "insert"
  <2>1. lastId' = lastId
    BY <1>1, <1>6 DEF WriteIn, WroteIn
  <2> QED BY <1>4, <2>1
<1> QED BY <1>5, <1>6
(* The ids of calls, where rows are given theirs at once.                  *)
LEMMA CallIds ==
  ASSUME Typed, Gen # 1, NEW t \in Sessions PROVE call[t].id \in 0 .. lastId
<1>0. lastId \in Nat
  BY DEF Typed, StateOK
<1>1. CASE call[t] = Idle
  BY <1>0, <1>1, IdleIs
<1>2. CASE call[t] # Idle
  <2>1. ActiveOK(Gen, lastId, call[t])
    BY <1>2 DEF Typed, CallsOK
  <2>2. CASE call[t].op # "create"
    BY <1>0, <2>1, <2>2 DEF ActiveOK
  <2>3. CASE call[t].op = "create"
    <3>1. Busy(t)
      BY <2>3 DEF Busy
    <3>2. call[t].at \in Nat \ {0}
      BY <3>1, Locks, Begun
    <3>3. CASE call[t].at = 1
      BY <1>0, <2>1, <2>3, <3>3 DEF ActiveOK
    <3>4. CASE call[t].at > 1
      <4>1. call[t].id \in 1 .. lastId + 1 /\ call[t].id <= lastId
        BY <2>1, <2>3, <3>4 DEF ActiveOK
      <4> QED BY <1>0, <4>1
    <3> QED BY <3>2, <3>3, <3>4
  <2> QED BY <2>2, <2>3
<1> QED BY <1>1, <1>2

(* What the statement is to the other sessions.                            *)
LEMMA WriteUndisturbs ==
  ASSUME Typed, NEW s \in Sessions, Busy(s), OutcomeIn(s), WriteIn(s), WroteIn(s),
         NEW i, i # Target(s).id \/ "rows" \notin Concerns(call[s].op)
  PROVE  Undisturbed(Gen, db, db', i)
<1>1. CASE i # Target(s).id
  BY <1>1, SameIsUndisturbed DEF WroteIn, OthersSame
<1>2. CASE i = Target(s).id /\ "rows" \notin Concerns(call[s].op)
  <2>1. HereIn(s)
    BY Locks
  <2>2. call[s].op \in {"bpm", "remove", "waveform"}
    BY <1>2, <2>1 DEF HereIn, AllOperations, Concerns
  <2>3. Step(s) # "insert"
    BY <2>1, <2>2 DEF HereIn, InOrder
  <2>4. Undisturbed(Gen, View(s), Outcome(s), call[s].id)
    BY <2>2, OutcomeUndisturbs DEF WroteIn
  <2>5. SameFiles(View(s), db) /\ db' = Outcome(s) /\ i = call[s].id
    BY <1>2, <2>3 DEF WroteIn, WriteIn
  <2> QED BY <2>4, <2>5 DEF Undisturbed, SameFiles
<1> QED BY <1>1, <1>2

LEMMA WriteStagedOthers ==
  ASSUME IInv, NEW s \in Sessions, Busy(s), OutcomeIn(s), WriteIn(s), WroteIn(s),
         NEW t \in Sessions, t # s
  PROVE  StagedIn(Gen, call[t], db', torn')
<1> SUFFICES ASSUME TrackedIn(Gen, call[t])
             PROVE  Staged(Gen, call[t], Past(Gen, call[t]), ViewOf(call[t], db'),
                           <<call[t].id, "rows">> \notin torn')
  BY DEF StagedIn
<1> DEFINE c == call[t]
           calm == <<c.id, "rows">> \notin torn
<1>1. torn' = torn /\ Typed
  BY DEF WriteIn, IInv
<1>2. PICK v : v = ViewOf(c, db)
  OBVIOUS
<1>3. PICK w : w = ViewOf(c, db')
  OBVIOUS
<1>4. Staged(Gen, c, Past(Gen, c), v, calm)
  BY <1>2 DEF IInv, CallsStaged, StagedIn
<1>5. Busy(t) /\ HereIn(t) /\ LockFacts(t)
  BY <1>1, Locks DEF TrackedIn, Busy
<1>6. w.m = (db').m /\ v.m = db.m
  BY <1>2, <1>3, ViewFiles DEF WroteIn
<1>7. v.p = w.p \/ (v.p = db.p /\ w.p = (db').p)
  <2>1. CASE "p" \in c.shared
    BY <1>2, <1>3, <2>1, ViewFiles
  <2>2. CASE "p" \notin c.shared
    BY <1>2, <1>3, <2>2, ViewFiles
  <2> QED BY <2>1, <2>2
<1>8. CASE c.id # Target(s).id \/ "rows" \notin Concerns(call[s].op)
  <2>1. Undisturbed(Gen, db, db', c.id)
    BY <1>1, <1>8, WriteUndisturbs
  <2>2. Undisturbed(Gen, v, w, c.id)
    <3>1. CASE v.p = db.p /\ w.p = (db').p
      BY <1>6, <2>1, <3>1 DEF Undisturbed
    <3>2. CASE v.p = w.p
      BY <1>6, <2>1, <3>2 DEF Undisturbed
    <3> QED BY <1>7, <3>1, <3>2
  <2> QED BY <1>1, <1>3, <1>4, <2>2, StagedUndisturbed
<1>9. CASE c.id = Target(s).id /\ "rows" \in Concerns(call[s].op)
  <2>1. Gen # 1 /\ "rows" \in Concerns(c.op)
    BY <1>9 DEF WroteIn, TrackedIn, TransactionIn
  <2>2. c.id # 0 /\ Step(s) # "insert" /\ Target(s) = call[s]
    <3>1. c.id \in 0 .. lastId /\ lastId \in Nat
      BY <1>1, <2>1, CallIds DEF Typed, StateOK
    <3>2. Step(s) # "insert"
      BY <1>9, <3>1 DEF WroteIn
    <3> QED BY <1>9, <3>1, <3>2 DEF WroteIn
  <2>3. ~calm
    BY <1>9, <2>1, <2>2 DEF IInv, OneAtATime
  <2>4. "replace" \notin Past(Gen, c)
    BY <1>5, <2>1 DEF HereIn, InOrder
  <2>5. Staged(Gen, c, Past(Gen, c), w, FALSE)
    BY <2>1, <2>4, StagedTorn
  <2> QED BY <1>1, <1>3, <2>3, <2>5
<1> QED BY <1>8, <1>9

LEMMA WriteStagedSelf ==
  ASSUME IInv, NEW s \in Sessions, Busy(s), Free(s), OutcomeIn(s), WriteIn(s), WroteIn(s)
  PROVE  StagedIn(Gen, call'[s], db', torn')
<1> DEFINE c == call[s]
           e == call'[s]
           k == Target(s)
<1> SUFFICES ASSUME TrackedIn(Gen, e)
             PROVE  Staged(Gen, e, Past(Gen, e), ViewOf(e, db'), <<e.id, "rows">> \notin torn')
  BY DEF StagedIn
<1>1. ~Last(s) /\ torn' = torn /\ db' = Outcome(s) /\ Typed
  BY IdleIs DEF WriteIn, TrackedIn, IInv
<1>2. /\ Past(Gen, e) = Past(Gen, c) \cup {Step(s)}
      /\ e.op = c.op /\ e.id = k.id /\ e.val = c.val /\ e.td = c.td /\ e.bd = c.bd /\ e.shared = {}
      /\ ~TransactionIn(Gen, e.op)
  BY <1>1, WroteOn
<1>3. PICK calm : calm = (<<e.id, "rows">> \notin torn)
  OBVIOUS
<1>4. Staged(Gen, k, Past(Gen, c) \cup {Step(s)}, Outcome(s), calm)
  BY <1>2, <1>3, ChangeStaged DEF TrackedIn
<1>5. Alike(k, e)
  <2>1. HereIn(s)
    BY <1>1, Locks
  <2> QED BY <1>2, <2>1, Targets DEF Alike
<1>6. Staged(Gen, e, Past(Gen, e), db', calm)
  BY <1>1, <1>2, <1>4, <1>5, StagedAlike
<1>7. SameRows(db', ViewOf(e, db'), e.id)
  <2>1. SameFiles(ViewOf(e, db'), db')
    BY <1>2, ViewOfUnlocked
  <2> QED BY <2>1 DEF SameFiles, SameRows, SameColumns, SameBlobs
<1> QED BY <1>1, <1>3, <1>6, <1>7, StagedSameRows

(* What was settled, for who looks at a track afterwards.                  *)
LEMMA WriteSettled ==
  ASSUME IInv, NEW s \in Sessions, Busy(s), OutcomeIn(s), WriteIn(s), WroteIn(s), OthersKept(s),
         NEW what, NEW i, i # Target(s).id \/ what \notin Concerns(call[s].op),
         SettledIn(Gen, call', torn', i, what)
  PROVE  SettledIn(Gen, call, torn, i, what)
<1>1. torn' = torn
  BY DEF WriteIn
<1>2. ~(call[s].id = i /\ HalfIn(Gen, call[s]) /\ what \in Concerns(call[s].op))
  <2> SUFFICES ASSUME call[s].id = i, HalfIn(Gen, call[s]), what \in Concerns(call[s].op) PROVE FALSE
    OBVIOUS
  <2>1. HereIn(s)
    BY Locks DEF IInv
  <2>2. Past(Gen, call[s]) # {}
    BY DEF HalfIn, WroteIn
  <2>3. Step(s) # "insert"
    BY <2>1, <2>2 DEF HereIn, InOrder
  <2> QED BY <2>3 DEF WroteIn
<1> QED BY <1>1, <1>2, SettledBefore

LEMMA WriteRows ==
  ASSUME IInv, NEW s \in Sessions, Busy(s), Free(s), OutcomeIn(s), WriteIn(s), WroteIn(s), OthersKept(s)
  PROVE  RowsAgree'
<1> DEFINE c == call[s]
           k == Target(s)
<1>1. build' = build /\ Typed
  BY DEF WriteIn, IInv
<1> SUFFICES ASSUME NEW i PROVE RowAgrees(Gen, db', i, SettledIn(Gen, call', torn', i, "rows"))
  BY <1>1, RowsByStep
<1>2. CASE i # k.id \/ "rows" \notin Concerns(c.op)
  <2>1. RowAgrees(Gen, db, i, SettledIn(Gen, call, torn, i, "rows"))
    BY DEF IInv, RowsAgree
  <2>2. RowAgrees(Gen, db', i, SettledIn(Gen, call, torn, i, "rows"))
    BY <1>1, <1>2, <2>1, WriteUndisturbs, AgreesUndisturbed
  <2> QED BY <1>2, <2>2, WriteSettled, AgreesLessCalm
<1>3. CASE i = k.id /\ "rows" \in Concerns(c.op)
  <2>1. Gen # 1 /\ torn' = torn /\ db' = Outcome(s)
    BY <1>3 DEF WroteIn, WriteIn
  <2>2. CASE ~Last(s)
    <3>1. call'[s].id = i /\ call'[s].op = c.op /\ HalfIn(Gen, call'[s])
      BY <1>1, <1>3, <2>2, WroteOn
    <3>2. ~SettledIn(Gen, call', torn', i, "rows")
      BY <1>3, <3>1 DEF SettledIn
    <3> QED BY <2>1, <3>2 DEF RowAgrees
  <2>3. CASE Last(s)
    <3>1. PICK calm : calm = (<<k.id, "rows">> \notin torn)
      OBVIOUS
    <3>2. Staged(Gen, k, Past(Gen, c) \cup {Step(s)}, db', calm)
      BY <1>3, <2>1, <3>1, ChangeStaged
    <3>3. HereIn(s) /\ k.op = c.op
      BY <1>1, Locks, Targets
    <3>4. c.op \notin {"bpm", "remove", "waveform"}
      BY <1>3 DEF Concerns
    <3>5. Complete(Gen, k.op, Past(Gen, c) \cup {Step(s)})
      BY <2>3, <3>3, <3>4 DEF HereIn, InOrder
    <3>6. SettledIn(Gen, call', torn', i, "rows") => calm
      BY <1>3, <2>1, <3>1 DEF SettledIn
    <3> QED BY <1>3, <3>2, <3>5, <3>6, StagedAtLast
  <2> QED BY <2>2, <2>3
<1> QED BY <1>2, <1>3
(* The two columns of the bpm, in the row of the track.                    *)
LEMMA WriteBpm ==
  ASSUME IInv, NEW s \in Sessions, Busy(s), OutcomeIn(s), WriteIn(s), WroteIn(s)
  PROVE  /\ \A i : i # Target(s).id \/ "bpm" \notin Concerns(call[s].op) => SameBpm(db, db', i)
         /\ /\ call[s].op \in {"create", "update"} /\ <<Target(s).id, "bpm">> \notin torn
            /\ Target(s).id \in DOMAIN (db').m
            => (db').m[Target(s).id].bpm = (db').m[Target(s).id].analyzed
         /\ call[s].op = "bpm" => ColumnWrittenIn(db, call[s], Step(s), db')
<1> DEFINE c == call[s]
           k == Target(s)
<1>1. /\ SameFiles(View(s), db) /\ db' = Outcome(s) /\ HereIn(s) /\ Typed
  BY Locks DEF WroteIn, WriteIn, IInv
<1>2. ASSUME NEW i, i # k.id \/ "bpm" \notin Concerns(c.op) PROVE SameBpm(db, db', i)
  <2>1. CASE i # k.id
    BY <2>1 DEF WroteIn, OthersSame, SameRows, SameColumns, SameBpm
  <2>2. CASE i = k.id /\ "bpm" \notin Concerns(c.op)
    <3>1. SameBpm(View(s), Outcome(s), c.id) /\ k = c
      BY <2>2, OutcomeKeepsBpm
    <3> QED BY <1>1, <2>2, <3>1 DEF SameBpm, SameFiles
  <2> QED BY <1>2, <2>1, <2>2
<1>3. ASSUME c.op \in {"create", "update"}, <<k.id, "bpm">> \notin torn, k.id \in DOMAIN (db').m
      PROVE  (db').m[k.id].bpm = (db').m[k.id].analyzed
  <2>1. ASSUME c.at > 1, c.id \in DOMAIN View(s).m
        PROVE  View(s).m[c.id].bpm = View(s).m[c.id].analyzed
    <3>1. Step(s) # "insert"
      BY <2>1 DEF WroteIn
    <3>2. k = c
      BY <3>1 DEF WroteIn
    <3>3. BpmWhole(Gen, c, db, torn)
      BY DEF IInv, BpmStaged
    <3> QED BY <1>3, <2>1, <3>2, <3>3, ViewsAre DEF BpmWhole
  <2> QED BY <1>1, <1>3, <2>1, ChangeBpm
<1>4. ASSUME c.op = "bpm" PROVE ColumnWrittenIn(db, c, Step(s), db')
  <2>1. Step(s) \in {"write key", "write len", "write analyzed", "write bpm"}
    BY <1>1, <1>4 DEF HereIn, InOrder
  <2>2. k = c /\ CallOK(c) /\ FilesOK(View(s))
    BY <2>1 DEF WroteIn, OutcomeIn
  <2>3. ColumnWrittenIn(View(s), c, Step(s), db')
    BY <1>1, <2>1, <2>2, ColumnWritten DEF Outcome
  <2> QED BY <1>1, <2>3 DEF ColumnWrittenIn, SameFiles, OthersSame, SameRows, SameColumns, SameBlobs
<1> QED BY <1>2, <1>3, <1>4

LEMMA NobodyBeingMade ==
  ASSUME NEW s \in Sessions, WroteIn(s) PROVE \A i : ~BeingMade(call, i)
  BY DEF BeingMade, WroteIn

LEMMA WriteBpmsAgree ==
  ASSUME IInv, NEW s \in Sessions, Busy(s), OutcomeIn(s), WriteIn(s), WroteIn(s), OthersKept(s)
  PROVE  BpmsAgree'
<1> DEFINE c == call[s]
           k == Target(s)
<1>1. build' = build /\ Typed /\ torn' = torn /\ HereIn(s)
  BY Locks DEF WriteIn, IInv
<1> SUFFICES ASSUME NEW i \in DOMAIN (db').m, SettledIn(Gen, call', torn', i, "bpm")
             PROVE  (db').m[i].bpm = (db').m[i].analyzed
  BY <1>1, BpmsByStep
<1>2. CASE i # k.id \/ "bpm" \notin Concerns(c.op)
  <2>1. SameBpm(db, db', i)
    BY <1>2, WriteBpm
  <2>2. SettledIn(Gen, call, torn, i, "bpm")
    BY <1>2, WriteSettled
  <2> QED BY <2>1, <2>2 DEF IInv, BpmsAgree, SameBpm
<1>3. CASE i = k.id /\ c.op \in {"create", "update"}
  <2>1. <<i, "bpm">> \notin torn
    BY <1>1 DEF SettledIn
  <2> QED BY <1>3, <2>1, WriteBpm
<1>4. CASE i = k.id /\ c.op = "bpm"
  <2>1. CASE Step(s) = "write analyzed"
    <3>1. ~Last(s)
      BY <1>1, <1>4, <2>1 DEF HereIn, InOrder
    <3>2. call'[s].id = i /\ call'[s].op = "bpm" /\ HalfIn(Gen, call'[s])
      BY <1>1, <1>4, <3>1, WroteOn
    <3> QED BY <3>2 DEF SettledIn, Concerns
  <2>2. CASE Step(s) = "write bpm"
    <3>1. Past(Gen, c) # {}
      BY <1>1, <1>4, <2>2 DEF HereIn, InOrder
    <3>2. c.at # 1 /\ c.at \in Nat \ {0}
      BY <1>1, <3>1, Begun
    <3>3. c.at > 1
      BY <3>2
    <3>4. k = c
      BY <2>2 DEF WroteIn
    <3>5. ColumnWrittenIn(db, c, "write bpm", db')
      BY <1>4, <2>2, WriteBpm
    <3>6. /\ i \in DOMAIN db.m /\ (db').m[i].bpm = c.val
          /\ (db').m[i].analyzed = db.m[i].analyzed
      BY <1>4, <3>4, <3>5 DEF ColumnWrittenIn
    <3>7. <<i, "bpm">> \notin torn
      BY <1>1 DEF SettledIn
    <3>8. BpmHalf(c, db, torn, call)
      BY DEF IInv, BpmStaged
    <3>9. db.m[i].analyzed = c.val
      BY <1>4, <3>3, <3>4, <3>6, <3>7, <3>8, NobodyBeingMade DEF BpmHalf
    <3> QED BY <3>6, <3>9
  <2> QED BY <1>1, <1>4, <2>1, <2>2 DEF HereIn, InOrder
<1> QED BY <1>2, <1>3, <1>4 DEF Concerns

LEMMA WriteBpmStaged ==
  ASSUME IInv, NEW s \in Sessions, Busy(s), OutcomeIn(s), WriteIn(s), WroteIn(s), OthersKept(s)
  PROVE  BpmStaged'
<1> DEFINE c == call[s]
           e == call'[s]
           k == Target(s)
<1>1. build' = build /\ Typed /\ torn' = torn /\ HereIn(s)
  BY Locks DEF WriteIn, IInv
<1>2. BpmHalf(e, db', torn', call')
  <2> SUFFICES ASSUME e.op = "bpm", e.at > 1, e.id \in DOMAIN (db').m
               PROVE  (db').m[e.id].analyzed = e.val
    BY DEF BpmHalf
  <2>1. ~Last(s)
    BY IdleIs DEF WriteIn
  <2>2. e.op = c.op /\ e.id = k.id /\ e.val = c.val
    BY <1>1, <2>1, WroteOn
  <2>3. Step(s) = "write analyzed"
    BY <1>1, <2>1, <2>2 DEF HereIn, InOrder
  <2>4. ColumnWrittenIn(db, c, "write analyzed", db') /\ k = c
    BY <2>2, <2>3, WriteBpm DEF WroteIn
  <2> QED BY <2>2, <2>4 DEF ColumnWrittenIn
<1>3. BpmWhole(Gen, e, db', torn')
  <2> DEFINE v == ViewOf(e, db')
  <2> SUFFICES ASSUME e.op \in {"create", "update"}, e.at > 1, e.id \in DOMAIN v.m,
                      Gen = 1 \/ <<e.id, "bpm">> \notin torn
               PROVE  v.m[e.id].bpm = v.m[e.id].analyzed
    BY <1>1 DEF BpmWhole
  <2>1. ~Last(s)
    BY IdleIs DEF WriteIn
  <2>2. e.op = c.op /\ e.id = k.id /\ e.shared = {}
    BY <1>1, <2>1, WroteOn
  <2>3. v.m = (db').m
    BY <2>2, ViewOfUnlocked DEF SameFiles
  <2>4. Gen # 1
    BY <2>2 DEF WroteIn, TransactionIn
  <2> QED BY <2>2, <2>3, <2>4, WriteBpm
<1>4. ASSUME NEW t \in Sessions, t # s PROVE BpmHalf(call[t], db', torn', call')
  <2> DEFINE b == call[t]
  <2> SUFFICES ASSUME b.op = "bpm", b.at > 1, b.id \in DOMAIN (db').m, <<b.id, "bpm">> \notin torn
               PROVE  (db').m[b.id].analyzed = b.val
    BY <1>1 DEF BpmHalf
  <2>1. SameBpm(db, db', b.id)
    <3>1. CASE b.id # k.id \/ "bpm" \notin Concerns(c.op)
      BY <3>1, WriteBpm
    <3>2. CASE b.id = k.id /\ "bpm" \in Concerns(c.op)
      <4>1. ~(Gen = 1 /\ c.op = "create")
        BY DEF WroteIn, TransactionIn
      <4>2. b.id \in 1 .. lastId /\ lastId \in Nat
        <5>1. HereIn(t)
          BY <1>1, Locks DEF Busy
        <5> QED BY <1>1, <5>1 DEF HereIn, ActiveOK, Typed, StateOK
      <4>3. Step(s) # "insert"
        BY <3>2, <4>2 DEF WroteIn
      <4>4. k = c
        BY <4>3 DEF WroteIn
      <4>5. <<b.id, "bpm">> \in torn
        BY <1>4, <3>2, <4>1, <4>4 DEF IInv, OneBpmAtATime
      <4> QED BY <4>5
    <3> QED BY <3>1, <3>2
  <2>2. BpmHalf(b, db, torn, call)
    BY DEF IInv, BpmStaged
  <2>3. b.id \in DOMAIN db.m /\ (db').m[b.id].analyzed = db.m[b.id].analyzed
    BY <2>1 DEF SameBpm
  <2>4. db.m[b.id].analyzed = b.val
    BY <2>2, <2>3, NobodyBeingMade DEF BpmHalf
  <2> QED BY <2>3, <2>4
<1>5. ASSUME NEW t \in Sessions, t # s PROVE BpmWhole(Gen, call[t], db', torn')
  <2> DEFINE b == call[t]
             v == ViewOf(b, db')
  <2> SUFFICES ASSUME b.op \in {"create", "update"}, b.at > 1, b.id \in DOMAIN v.m,
                      Gen = 1 \/ <<b.id, "bpm">> \notin torn
               PROVE  v.m[b.id].bpm = v.m[b.id].analyzed
    BY <1>1 DEF BpmWhole
  <2>1. HereIn(t) /\ LockFacts(t) /\ Busy(t)
    BY <1>1, Locks DEF Busy
  <2>2. Gen # 1
    <3> SUFFICES ASSUME Gen = 1 PROVE FALSE
      OBVIOUS
    <3>1. Past(Gen, b) # {} /\ TransactionIn(Gen, b.op)
      BY <2>1, Begun DEF TransactionIn
    <3>2. "m" \in Touched(Gen, Past(Gen, b))
      BY <2>1, <3>1 DEF HereIn, InOrder
    <3>3. "m" \in b.shared
      BY <2>1, <3>1, <3>2 DEF LockFacts
    <3> QED BY <1>5, <3>3 DEF WroteIn
  <2>3. v.m = (db').m /\ ViewOf(b, db).m = db.m
    BY <1>5, ViewFiles DEF WroteIn
  <2>4. BpmWhole(Gen, b, db, torn)
    BY DEF IInv, BpmStaged
  <2>5. CASE SameBpm(db, db', b.id)
    BY <2>2, <2>3, <2>4, <2>5 DEF BpmWhole, SameBpm
  <2>6. CASE b.id = k.id /\ c.op \in {"create", "update"}
    BY <2>2, <2>3, <2>6, WriteBpm
  <2>7. CASE b.id = k.id /\ c.op = "bpm"
    <3>1. Step(s) # "insert"
      BY <2>7 DEF WroteIn
    <3>2. k = c
      BY <3>1 DEF WroteIn
    <3>3. c.id = b.id /\ "bpm" \in Concerns(b.op)
      BY <2>7, <3>2 DEF Concerns
    <3>4. <<c.id, "bpm">> \in torn
      BY <1>5, <2>2, <2>7, <3>3 DEF IInv, OneBpmAtATime
    <3> QED BY <2>2, <3>3, <3>4
  <2> QED BY <2>5, <2>6, <2>7, WriteBpm DEF Concerns
<1> QED BY <1>1, <1>2, <1>3, <1>4, <1>5, BpmStagedByStep

LEMMA WriteStep ==
  ASSUME IInv, NEW s \in Sessions, Busy(s), Free(s), OutcomeIn(s), WriteIn(s), OthersKept(s)
  PROVE  IInv'
<1> DEFINE c == call[s]
           e == call'[s]
           k == Target(s)
<1>1. Typed /\ Room /\ WroteIn(s) /\ HereIn(s)
  BY Wrote, Locks DEF IInv
<1>2. Typed' /\ Room' /\ build' = build /\ torn' = torn
  BY <1>1, WriteTyped, WriteRoom DEF WriteIn
<1>3. e.shared = {} /\ e.reserved = {} /\ ~e.alone
  <2>1. CASE Last(s)
    BY <2>1, IdleIs DEF WriteIn
  <2>2. CASE ~Last(s)
    BY <1>1, <2>2, WroteOn
  <2> QED BY <2>1, <2>2
<1>4. Apart'
  <2>1. ASSUME NEW t \in Sessions, t # s
        PROVE  /\ e.reserved \cap call[t].reserved = {}
               /\ e.alone => call[t].shared = {}
               /\ call[t].alone => e.shared = {}
    BY <1>3
  <2> QED BY <2>1, ApartByStep DEF IInv
<1>5. DraftsFollow'
  <2>1. Follows(e, db')
    BY <1>3, UnlockedFollows
  <2>2. ASSUME NEW t \in Sessions, t # s PROVE Follows(call[t], db')
    <3>1. LockFacts(t) /\ "m" \notin call[t].shared /\ ~call[t].alone
      BY <1>1, <2>2, Locks DEF WroteIn
    <3>2. CASE Gen # 1
      BY <3>1, <3>2, UnlockedFollows DEF LockFacts
    <3>3. CASE Gen = 1
      <4>1. \A g \in Files : g # "m" => db'[g] = db[g]
        BY <1>1, <3>3, FilesAre DEF WroteIn
      <4>2. Follows(call[t], db) /\ call[t].reserved \subseteq call[t].shared /\ "m" \in Files
        BY <3>1, FilesAre DEF IInv, DraftsFollow, LockFacts
      <4> QED BY <3>1, <4>1, <4>2, FollowsOtherFile
    <3> QED BY <3>2, <3>3
  <2> QED BY <2>1, <2>2, FollowByStep
<1>6. CallsStaged'
  BY <1>1, <1>2, WriteStagedSelf, WriteStagedOthers, StagedByStep
<1>7. OneAtATime' /\ OneBpmAtATime'
  <2>1. CASE Step(s) # "insert" \/ Last(s)
    <3>1. e = Idle \/ (e.op = c.op /\ e.id = c.id)
      <4>1. CASE Last(s)
        BY <4>1 DEF WriteIn
      <4>2. CASE ~Last(s) /\ Step(s) # "insert"
        BY <1>1, <4>2, WroteOn DEF WroteIn
      <4> QED BY <2>1, <4>1, <4>2
    <3> QED BY <1>2, <3>1, PairsByStep DEF IInv
  <2>2. CASE Step(s) = "insert" /\ ~Last(s)
    <3>1. e.id = lastId + 1 /\ Gen # 1 /\ lastId \in Nat
      BY <1>1, <2>2, WroteOn DEF WroteIn, Typed, StateOK
    <3>2. \A t \in Sessions : t # s => call[t].id # e.id
      BY <1>1, <3>1, CallIds
    <3> QED BY <1>2, <3>2, PairsByNewId DEF IInv
  <2> QED BY <2>1, <2>2
<1>8. RowsAgree' /\ BpmsAgree' /\ BpmStaged'
  BY <1>1, WriteRows, WriteBpmsAgree, WriteBpmStaged
<1> QED BY <1>2, <1>4, <1>5, <1>6, <1>7, <1>8 DEF IInv
-----------------------------------------------------------------------------
(* The first file of a transaction is committed. *)

LEMMA UnlockedIsUntracked ==
  ASSUME Typed, Gen = 1, NEW t \in Sessions, call[t].shared = {} PROVE ~TrackedIn(Gen, call[t])
<1> SUFFICES ASSUME TrackedIn(Gen, call[t]) PROVE FALSE
  OBVIOUS
<1>1. Busy(t) /\ TransactionIn(Gen, call[t].op) /\ call[t].at > 1
  BY TransactionsIn DEF TrackedIn, Busy
<1>2. HereIn(t) /\ LockFacts(t)
  BY <1>1, Locks
<1>3. Past(Gen, call[t]) # {}
  BY <1>1, <1>2, Begun
<1>4. Touched(Gen, Past(Gen, call[t])) # {}
  BY <1>3 DEF Touched
<1> QED BY <1>1, <1>2, <1>4 DEF LockFacts

LEMMA CommitLocks ==
  ASSUME NEW done, Touched(1, done) = Files, Altered(1, done) = Files
  PROVE  /\ Touched(1, done \cup {"commit m"}) = Files /\ Altered(1, done \cup {"commit m"}) = Files
<1>1. FileIn(1, "commit m") \in Files
  BY DEF FileIn, Files
<1> QED BY <1>1 DEF Touched, Altered

LEMMA StagedByCommit ==
  ASSUME NEW g, NEW c, NEW done, NEW d, NEW calm, Staged(g, c, done, d, calm)
  PROVE  Staged(g, c, done \cup {"commit m"}, d, calm)
<1> DEFINE after == done \cup {"commit m"}
<1>1. /\ SizeInTd(c.op, after) <=> SizeInTd(c.op, done)
      /\ SizeInBd(c.op, after) <=> SizeInBd(c.op, done)
      /\ Waveless(c.op, after) <=> Waveless(c.op, done)
      /\ KeyInColumns(after) <=> KeyInColumns(done)
      /\ KeyInBlob(g, c.op, after) <=> KeyInBlob(g, c.op, done)
      /\ LenInColumns(after) <=> LenInColumns(done)
      /\ Unseen(g, c.op, after) <=> Unseen(g, c.op, done)
  BY DEF SizeInTd, SizeInBd, Waveless, KeyInColumns, KeyInBlob, LenInColumns, Unseen
<1>2. /\ "replace" \in after <=> "replace" \in done
      /\ "write td" \in after <=> "write td" \in done
      /\ "write bd" \in after <=> "write bd" \in done
      /\ "read td" \in after <=> "read td" \in done
      /\ "read bd" \in after <=> "read bd" \in done
  OBVIOUS
<1>3. BlobPart(g, c, done, d, calm) /\ ColumnPart(g, c, done, d, calm)
      /\ OwnPart(g, c, done, d, calm) /\ BothPart(g, c, done, d, calm)
  BY DEF Staged
<1> HIDE DEF after
<1>4. BlobPart(g, c, after, d, calm)
  BY <1>1, <1>2, <1>3 DEF BlobPart, BlobsStaged
<1>5. ColumnPart(g, c, after, d, calm)
  BY <1>1, <1>3 DEF ColumnPart, ColumnsStaged
<1>6. OwnPart(g, c, after, d, calm)
  BY <1>1, <1>2, <1>3 DEF OwnPart
<1>7. BothPart(g, c, after, d, calm)
  BY <1>1, <1>3 DEF BothPart, BothStaged
<1> QED BY <1>4, <1>5, <1>6, <1>7 DEF Staged, after

FirstIn(s) ==
  LET c == call[s]
      e == call'[s]
  IN  /\ TransactionIn(Gen, c.op) /\ Gen = 1 /\ c.at > 1 /\ c.op \in {"key", "size", "create", "update"}
      /\ Altered(Gen, Past(Gen, c)) = Files /\ Touched(Gen, Past(Gen, c)) = Files
      /\ c.reserved = Files /\ c.shared = Files /\ ~c.alone
      /\ \A t \in Sessions : t # s => call[t].shared = {} /\ call[t].reserved = {} /\ ~call[t].alone
      /\ (db').m = View(s).m /\ (db').p = db.p
      /\ c.op # "create" => c.id \in 1 .. lastId
      /\ c.id \in 1 .. lastId + 1
      /\ Past(Gen, e) = Past(Gen, c) \cup {"commit m"} /\ e.at > 1
      /\ e.at \in DOMAIN ProgramOf(Gen, e.op)
      /\ SameFiles(View(s), ViewOf(e, db'))

LEMMA First ==
  ASSUME Typed, NEW s \in Sessions, Busy(s), Free(s), CommitMIn(s)
  PROVE  FirstIn(s)
<1> DEFINE c == call[s]
           e == call'[s]
<1>1. HereIn(s) /\ LockFacts(s) /\ lastId \in Nat \ {0} /\ DOMAIN db = Files
  BY Locks DEF Typed, StateOK, FilesOK
<1>2. /\ Step(s) = "commit m" /\ ~Last(s) /\ db' = [db EXCEPT !["m"] = c.draft["m"]]
      /\ e.op = c.op /\ e.at = c.at + 1 /\ e.shared = c.shared /\ e.draft = c.draft
  BY DEF CommitMIn, CommitsFile, Continues
<1>3. Step(s) \in Commits
  BY <1>2 DEF Commits
<1>4. TransactionIn(Gen, c.op)
  BY <1>1, <1>3 DEF HereIn, InOrder
<1>5. /\ Gen = 1 /\ "commit m" \notin Past(Gen, c) /\ Altered(Gen, Past(Gen, c)) = Files
      /\ c.op \in {"key", "size", "create", "update"}
  <2>1. InOrder(Gen, c.op, Step(s), Past(Gen, c), Last(s))
    BY <1>1 DEF HereIn
  <2>2. Gen = 1
    BY <1>4, TransactionsIn
  <2>3. "commit m" \notin Past(Gen, c)
    BY <1>2, <2>1 DEF InOrder
  <2>4. Altered(Gen, Past(Gen, c)) = Files /\ c.op \in {"key", "size", "create", "update"}
    BY <1>2, <1>4, <2>1 DEF InOrder
  <2> QED BY <2>2, <2>3, <2>4
<1>6. c.reserved = Files /\ c.shared = Files /\ ~c.alone /\ Touched(Gen, Past(Gen, c)) = Files
  BY <1>1, <1>4, <1>5 DEF LockFacts
<1>7. c.at > 1
  <2>1. Past(Gen, c) # {}
    BY <1>5, FilesAre DEF Altered
  <2>2. c.at # 1 /\ c.at \in Nat \ {0}
    BY <1>1, <2>1, Begun
  <2> QED BY <2>2
<1>8. ASSUME NEW t \in Sessions, t # s
      PROVE  call[t].shared = {} /\ call[t].reserved = {} /\ ~call[t].alone
  <2>1. call[t].shared \cap c.reserved = {}
    <3>1. Step(s) \notin Reads
      BY <1>2 DEF Reads
    <3>2. t \in Others(s)
      BY <1>8 DEF Others
    <3>3. call[s].alone \/ \A u \in Others(s) : call[u].shared \cap call[s].reserved = {}
      BY <1>3, <3>1 DEF Free
    <3> QED BY <1>6, <3>2, <3>3
  <2>2. LockFacts(t)
    BY Locks
  <2> QED BY <1>6, <2>1, <2>2, FilesAre DEF LockFacts
<1>9. (db').m = View(s).m /\ (db').p = db.p
  <2>1. View(s).m = c.draft["m"]
    BY <1>6, ViewsAre, ViewFiles, FilesAre
  <2> QED BY <1>1, <1>2, <2>1, FilesAre
<1>10. c.op # "create" => c.id \in 1 .. lastId
  BY <1>1 DEF HereIn, ActiveOK
<1>11. c.id \in 1 .. lastId + 1
  <2>1. CASE c.op = "create"
    BY <1>1, <1>7, <2>1 DEF HereIn, ActiveOK
  <2>2. CASE c.op # "create"
    BY <1>1, <1>10, <2>2
  <2> QED BY <2>1, <2>2
<1>12. Past(Gen, e) = Past(Gen, c) \cup {"commit m"} /\ e.at > 1 /\ e.at \in DOMAIN ProgramOf(Gen, e.op)
  BY <1>1, <1>2, Onward
<1>13. SameFiles(View(s), ViewOf(e, db'))
  <2>1. "m" \in e.shared /\ "p" \in e.shared /\ "m" \in c.shared /\ "p" \in c.shared
    BY <1>2, <1>6, FilesAre
  <2>2. ViewOf(e, db').m = e.draft["m"] /\ ViewOf(e, db').p = e.draft["p"]
    BY <2>1, ViewFiles
  <2>3. View(s).m = c.draft["m"] /\ View(s).p = c.draft["p"]
    BY <2>1, ViewsAre, ViewFiles
  <2> QED BY <1>2, <2>2, <2>3 DEF SameFiles
<1> QED BY <1>4, <1>5, <1>6, <1>7, <1>8, <1>9, <1>10, <1>11, <1>12, <1>13 DEF FirstIn

LEMMA FirstTyped ==
  ASSUME Typed, NEW s \in Sessions, Busy(s), CommitMIn(s), FirstIn(s), OthersKept(s)
  PROVE  Typed'
<1> DEFINE c == call[s]
           e == call'[s]
<1>1. HereIn(s) /\ LockFacts(s) /\ lastId \in Nat \ {0} /\ DOMAIN db = Files
  BY Locks DEF Typed, StateOK, FilesOK
<1>2. /\ build' = build /\ calls' = calls /\ torn' = torn /\ db' = [db EXCEPT !["m"] = c.draft["m"]]
      /\ lastId' = IF c.id > lastId THEN c.id ELSE lastId
      /\ DOMAIN e = DOMAIN Idle /\ e.op = c.op /\ e.val = c.val /\ e.of = c.of
      /\ e.id = c.id /\ e.td = c.td /\ e.bd = c.bd
      /\ e.shared = c.shared /\ e.reserved = c.reserved /\ e.draft = c.draft /\ e.alone = TRUE
      /\ e.at = c.at + 1
  BY DEF CommitMIn, CommitsFile, Continues
<1>3. c.id \in 1 .. lastId + 1 /\ c.id \in Nat
  <2>1. c.id \in 1 .. lastId + 1
    BY DEF FirstIn
  <2> QED BY <1>1, <2>1
<1>4. /\ lastId' \in Nat \ {0} /\ lastId <= lastId' /\ c.id \in 1 .. lastId'
      /\ 1 .. lastId \subseteq 1 .. lastId'
  BY <1>1, <1>2, <1>3
<1>5. StateOK'
  <2>1. /\ DOMAIN (db').m \subseteq 1 .. lastId'
        /\ DOMAIN (db').p \subseteq 1 .. lastId'
    <3>1. DOMAIN View(s).m \subseteq (1 .. lastId) \cup {c.id}
      BY ViewIds
    <3>2. DOMAIN db.p \subseteq 1 .. lastId
      BY DEF Typed, StateOK
    <3> QED BY <1>4, <3>1, <3>2 DEF FirstIn
  <2>2. FilesOK(db')
    <3>1. FilesOK(View(s)) /\ FilesOK(db)
      BY ViewTyped DEF Typed, StateOK
    <3>2. DOMAIN db' = Files
      BY <1>1, <1>2
    <3> QED BY <3>1, <3>2 DEF FilesOK, FirstIn
  <2> QED BY <1>2, <1>4, <2>1, <2>2 DEF Typed, StateOK, FilesOK
<1>6. ActiveOK(Gen, lastId', e)
  <2>1. ActiveOK(Gen, lastId, c)
    BY <1>1 DEF HereIn
  <2>2. CallOK(e) /\ e.op \in Operations /\ e.of > 0 /\ DOMAIN e.draft = e.shared
    BY <1>2, <2>1 DEF ActiveOK, CallOK
  <2>3. e.at \in DOMAIN ProgramOf(Gen, e.op) /\ ~(e.at = 1)
    <3>1. ~Last(s)
      BY DEF CommitMIn
    <3>2. e.at \in DOMAIN ProgramOf(Gen, e.op) /\ e.at \in Nat /\ e.at > 1
      BY <1>1, <1>2, <3>1, Onward
    <3> QED BY <3>2
  <2>4. e.id \in Nat /\ e.id \in 1 .. lastId' /\ e.id \in 1 .. lastId' + 1 /\ e.id <= lastId'
    BY <1>2, <1>3, <1>4
  <2>5. /\ DOMAIN e.draft.m \subseteq (1 .. lastId') \cup {e.id}
        /\ \A i \in DOMAIN e.draft.m : e.draft.m[i] \in Track
    BY <1>2, <1>4, <2>1, FilesAre DEF FirstIn, ActiveOK
  <2>6. /\ DOMAIN e.draft.p \subseteq (1 .. lastId') \cup {e.id}
        /\ \A i \in DOMAIN e.draft.p : e.draft.p[i] \in Performance
    BY <1>2, <1>4, <2>1, FilesAre DEF FirstIn, ActiveOK
  <2>7. e.alone \in BOOLEAN
    BY <1>2
  <2> QED BY <2>2, <2>3, <2>4, <2>5, <2>6, <2>7 DEF ActiveOK
<1>7. LocksOf(Gen, e)
  <2>1. Touched(Gen, Past(Gen, e)) = Files /\ Altered(Gen, Past(Gen, e)) = Files
    BY CommitLocks DEF FirstIn
  <2>2. TransactionIn(Gen, e.op) /\ e.op # "none" /\ e.shared = Files /\ e.reserved = Files
        /\ "commit m" \in Past(Gen, e)
    BY <1>2 DEF FirstIn
  <2> QED BY <1>2, <2>1, <2>2 DEF LocksOf
<1> QED BY <1>2, <1>4, <1>5, <1>6, <1>7, TypedByStep

LEMMA FirstRoom ==
  ASSUME Typed, Room, NEW s \in Sessions, Busy(s), CommitMIn(s), FirstIn(s), OthersKept(s)
  PROVE  Room'
<1> DEFINE Q == {t \in Sessions : Pending(t)}
           P == {t \in Sessions : Pending(t)'}
<1>1. lastId \in Nat /\ calls \in Nat /\ Gen' = Gen /\ calls' = calls
  <2>1. build' = build /\ calls' = calls
    BY DEF CommitMIn, CommitsFile
  <2> QED BY <2>1 DEF Typed, StateOK, Gen
<1>0. call[s].id \in 1 .. lastId + 1 /\ (call[s].op # "create" => call[s].id \in 1 .. lastId)
  BY DEF FirstIn
<1>2. lastId' = IF call[s].id > lastId THEN call[s].id ELSE lastId
  BY DEF CommitMIn, CommitsFile
<1>3. P \subseteq Q \ {s}
  BY <1>1 DEF Pending, OthersKept, CommitMIn
<1>4. CASE call[s].op # "create"
  <2>1. lastId' = lastId
    BY <1>0, <1>1, <1>2, <1>4
  <2> QED BY <1>1, <1>3, <2>1, RoomFewer DEF Room
<1>5. CASE call[s].op = "create"
  <2>1. lastId' \in Nat /\ lastId' <= lastId + 1
    BY <1>0, <1>1, <1>2
  <2>2. s \in Q
    BY <1>5 DEF Pending, FirstIn
  <2>3. IsFiniteSet(Q) /\ Cardinality(Q) + lastId <= 1 + calls
    BY DEF Room
  <2> HIDE DEF P, Q
  <2>4. IsFiniteSet(Q \ {s}) /\ Cardinality(Q \ {s}) = Cardinality(Q) - 1
    BY <2>2, <2>3, FS_RemoveElement
  <2>5. IsFiniteSet(P) /\ Cardinality(P) <= Cardinality(Q \ {s})
    BY <1>3, <2>4, FS_Subset
  <2>6. Cardinality(P) \in Nat /\ Cardinality(Q) \in Nat
    BY <2>3, <2>5, FS_CardinalityType
  <2>7. Cardinality(P) + lastId' <= 1 + calls
    BY <1>1, <2>1, <2>3, <2>4, <2>5, <2>6
  <2> QED BY <1>1, <2>5, <2>7 DEF Room, P
<1> QED BY <1>4, <1>5
LEMMA FirstStaged ==
  ASSUME IInv, NEW s \in Sessions, Busy(s), CommitMIn(s), FirstIn(s), OthersKept(s)
  PROVE  CallsStaged'
<1> DEFINE c == call[s]
           e == call'[s]
<1>1. build' = build /\ torn' = torn /\ Typed
  BY DEF CommitMIn, CommitsFile, IInv
<1>2. PICK calm : calm = (<<c.id, "rows">> \notin torn)
  OBVIOUS
<1>3. Staged(Gen, c, Past(Gen, c), View(s), calm)
  <2>1. TrackedIn(Gen, c)
    BY DEF TrackedIn, FirstIn, Busy
  <2> QED BY <1>2, <2>1, ViewsAre DEF IInv, CallsStaged, StagedIn
<1>4. Staged(Gen, c, Past(Gen, e), View(s), calm)
  <2>1. Staged(Gen, c, Past(Gen, c) \cup {"commit m"}, View(s), calm)
    BY <1>3, StagedByCommit
  <2> QED BY <2>1 DEF FirstIn
<1>5. Alike(c, e) /\ e.id = c.id
  BY DEF Alike, CommitMIn, Continues
<1>6. Staged(Gen, e, Past(Gen, e), View(s), calm)
  BY <1>4, <1>5, StagedAlike
<1>7. SameRows(View(s), ViewOf(e, db'), e.id)
  BY SameFilesSameRows DEF FirstIn
<1>8. StagedIn(Gen, e, db', torn')
  BY <1>1, <1>2, <1>5, <1>6, <1>7, StagedSameRows DEF StagedIn
<1>9. \A t \in Sessions : t # s => StagedIn(Gen, call[t], db', torn')
  BY <1>1, UnlockedIsUntracked DEF FirstIn, StagedIn
<1> QED BY <1>1, <1>8, <1>9, StagedByStep

(* The columns of the track as the call has written them; all else as it was. *)
LEMMA FirstFollows ==
  ASSUME IInv, NEW s \in Sessions, Busy(s), CommitMIn(s), FirstIn(s)
  PROVE  /\ \A i : i # call[s].id => SameRows(db, db', i)
         /\ KeptIn(call[s].op, db, View(s), call[s].id)
         /\ Follows(call'[s], db')
<1> DEFINE c == call[s]
           e == call'[s]
<1>1. PICK v : v = View(s)
  OBVIOUS
<1>2. PICK w : w = ViewOf(e, db')
  OBVIOUS
<1>3. OthersSame(db, v, c.id) /\ KeptIn(c.op, db, v, c.id)
  BY <1>1, ViewsAre DEF IInv, DraftsFollow, Follows
<1>4. (db').m = v.m /\ (db').p = db.p /\ w.m = v.m /\ w.p = v.p
  BY <1>1, <1>2 DEF FirstIn, SameFiles
<1>5. e.op = c.op /\ e.id = c.id /\ e.reserved = Files
  BY DEF CommitMIn, Continues, FirstIn
<1>6. OthersSame(db', w, e.id)
  BY <1>3, <1>4, <1>5 DEF OthersSame, SameRows, SameColumns, SameBlobs
<1>7. KeptIn(e.op, db', w, e.id)
  BY <1>3, <1>4, <1>5 DEF KeptIn
<1>8. w["m"] = db'["m"]
  BY <1>4
<1>9. Follows(e, db')
  BY <1>2, <1>5, <1>6, <1>7, <1>8 DEF Follows
<1>10. \A i : i # c.id => SameRows(db, db', i)
  BY <1>3, <1>4 DEF OthersSame, SameRows, SameColumns, SameBlobs
<1> QED BY <1>1, <1>3, <1>9, <1>10

LEMMA FirstBpm ==
  ASSUME IInv, NEW s \in Sessions, Busy(s), CommitMIn(s), FirstIn(s), OthersKept(s)
  PROVE  BpmsAgree' /\ BpmStaged'
<1> DEFINE c == call[s]
           e == call'[s]
<1>1. /\ build' = build /\ torn' = torn /\ e.op = c.op /\ e.id = c.id /\ e.alone /\ Typed
      /\ c.op \in {"key", "size", "create", "update"} /\ Gen = 1 /\ ~c.alone
  BY DEF CommitMIn, CommitsFile, Continues, IInv, FirstIn
<1>2. \A i : i # c.id => SameRows(db, db', i)
  BY FirstFollows
<1>3. c.op \in {"key", "size"} => SameBpm(db, db', c.id)
  <2>1. KeptIn(c.op, db, View(s), c.id)
    BY FirstFollows
  <2>2. (db').m = View(s).m
    BY DEF FirstIn
  <2> QED BY <2>1, <2>2 DEF KeptIn, SameBpm
<1>4. \A i : ~BeingMade(call, i)
  BY <1>1 DEF BeingMade, FirstIn
<1>5. BpmsAgree'
  <2> SUFFICES ASSUME NEW i \in DOMAIN (db').m, SettledIn(Gen, call', torn', i, "bpm")
               PROVE  (db').m[i].bpm = (db').m[i].analyzed
    BY <1>1, BpmsByStep
  <2>1. i = c.id => c.op \in {"key", "size"}
    <3>1. HalfIn(Gen, e)
      BY <1>1 DEF HalfIn, FirstIn
    <3>2. i = c.id => "bpm" \notin Concerns(c.op)
      BY <1>1, <3>1 DEF SettledIn
    <3> QED BY <1>1, <3>2 DEF Concerns
  <2>2. SettledIn(Gen, call, torn, i, "bpm")
    <3>1. ~HalfIn(Gen, c)
      BY <1>1 DEF HalfIn, FirstIn
    <3> QED BY <1>1, <3>1, SettledBefore
  <2>3. SameBpm(db, db', i)
    <3>1. CASE i = c.id
      BY <1>3, <2>1, <3>1
    <3>2. CASE i # c.id
      BY <1>2, <3>2 DEF SameRows, SameColumns, SameBpm
    <3> QED BY <3>1, <3>2
  <2> QED BY <2>2, <2>3 DEF IInv, BpmsAgree, SameBpm
<1>6. BpmHalf(e, db', torn', call')
  BY <1>1 DEF BpmHalf
<1>7. BpmWhole(Gen, e, db', torn')
  <2>1. BpmWhole(Gen, c, db, torn)
    BY DEF IInv, BpmStaged
  <2>2. ViewOf(e, db').m = View(s).m /\ c.at > 1
    BY DEF FirstIn, SameFiles
  <2> QED BY <1>1, <2>1, <2>2, ViewsAre DEF BpmWhole
<1>8. ASSUME NEW t \in Sessions, t # s
      PROVE  BpmHalf(call[t], db', torn', call') /\ BpmWhole(Gen, call[t], db', torn')
  <2> DEFINE b == call[t]
  <2>1. BpmWhole(Gen, b, db', torn')
    <3> SUFFICES ASSUME b.op \in {"create", "update"}, b.at > 1 PROVE FALSE
      BY DEF BpmWhole
    <3>1. TrackedIn(Gen, b)
      BY <1>1 DEF TrackedIn, TransactionIn
    <3> QED BY <1>1, <1>8, <3>1, UnlockedIsUntracked DEF FirstIn
  <2>2. BpmHalf(b, db', torn', call')
    <3> SUFFICES ASSUME b.op = "bpm", b.at > 1, b.id \in DOMAIN (db').m, <<b.id, "bpm">> \notin torn,
                        ~BeingMade(call', b.id)
                 PROVE  (db').m[b.id].analyzed = b.val
      BY <1>1 DEF BpmHalf
    <3>1. b.id = c.id => c.op \in {"key", "size"}
      <4>1. c.op = "create" /\ b.id = c.id => BeingMade(call', b.id)
        BY <1>1 DEF BeingMade
      <4>2. c.op = "update" /\ b.id = c.id => <<b.id, "bpm">> \in torn
        BY <1>8 DEF IInv, OneBpmAtATime, Concerns
      <4> QED BY <1>1, <4>1, <4>2
    <3>2. SameBpm(db, db', b.id)
      <4>1. CASE b.id = c.id
        BY <1>3, <3>1, <4>1
      <4>2. CASE b.id # c.id
        BY <1>2, <4>2 DEF SameRows, SameColumns, SameBpm
      <4> QED BY <4>1, <4>2
    <3>3. BpmHalf(b, db, torn, call)
      BY DEF IInv, BpmStaged
    <3> QED BY <1>4, <3>2, <3>3 DEF BpmHalf, SameBpm
  <2> QED BY <2>1, <2>2
<1>9. BpmStaged'
  BY <1>1, <1>6, <1>7, <1>8, BpmStagedByStep
<1> QED BY <1>5, <1>9

LEMMA FirstStep ==
  ASSUME IInv, NEW s \in Sessions, Busy(s), Free(s), CommitMIn(s), OthersKept(s)
  PROVE  IInv'
<1> DEFINE c == call[s]
           e == call'[s]
<1>1. Typed /\ Room /\ FirstIn(s)
  BY First DEF IInv
<1>2. Typed' /\ Room'
  BY <1>1, FirstTyped, FirstRoom
<1>3. /\ build' = build /\ torn' = torn /\ e.op = c.op /\ e.id = c.id /\ e.alone
      /\ (db').p = db.p /\ Gen = 1 /\ c.op \in {"key", "size", "create", "update"}
      /\ HalfIn(Gen, e) /\ ~HalfIn(Gen, c)
  BY <1>1 DEF CommitMIn, CommitsFile, Continues, FirstIn, HalfIn
<1>4. Apart'
  <2>1. ASSUME NEW t \in Sessions, t # s
        PROVE  /\ e.reserved \cap call[t].reserved = {}
               /\ e.alone => call[t].shared = {}
               /\ call[t].alone => e.shared = {}
    BY <1>1, <2>1 DEF FirstIn
  <2> QED BY <2>1, ApartByStep DEF IInv
<1>5. DraftsFollow'
  <2>1. Follows(e, db')
    BY <1>1, FirstFollows
  <2>2. \A t \in Sessions : t # s => Follows(call[t], db')
    BY <1>1, UnlockedFollows DEF FirstIn
  <2> QED BY <2>1, <2>2, FollowByStep
<1>6. CallsStaged'
  BY <1>1, FirstStaged
<1>7. OneAtATime' /\ OneBpmAtATime'
  BY <1>3, PairsByStep DEF IInv
<1>8. RowsAgree'
  <2> SUFFICES ASSUME NEW i PROVE RowAgrees(Gen, db', i, SettledIn(Gen, call', torn', i, "rows"))
    BY <1>3, RowsByStep
  <2>1. RowAgrees(Gen, db, i, SettledIn(Gen, call, torn, i, "rows"))
    BY DEF IInv, RowsAgree
  <2>2. CASE i # c.id
    <3>1. SettledIn(Gen, call', torn', i, "rows") => SettledIn(Gen, call, torn, i, "rows")
      BY <1>3, SettledBefore
    <3>2. SameRows(db, db', i)
      BY <1>1, <2>2, FirstFollows
    <3>3. RowAgrees(Gen, db', i, SettledIn(Gen, call, torn, i, "rows"))
      BY <2>1, <3>2, AgreesSameRows
    <3> QED BY <3>1, <3>3, AgreesLessCalm
  <2>3. CASE i = c.id
    <3>1. "rows" \in Concerns(e.op)
      BY <1>3 DEF Concerns
    <3>2. ~SettledIn(Gen, call', torn', i, "rows")
      BY <1>3, <2>3, <3>1 DEF SettledIn
    <3> QED BY <1>3, <2>1, <3>2 DEF RowAgrees
  <2> QED BY <2>2, <2>3
<1>9. BpmsAgree' /\ BpmStaged'
  BY <1>1, FirstBpm
<1> QED BY <1>2, <1>4, <1>5, <1>6, <1>7, <1>8, <1>9 DEF IInv
-----------------------------------------------------------------------------
(* The last file of a transaction is committed: the call is over. *)

OverIn(s) ==
  LET c == call[s]
  IN  /\ TransactionIn(Gen, c.op) /\ Gen = 1 /\ c.at > 1 /\ Complete(Gen, c.op, Past(Gen, c))
      /\ c.id \in 1 .. lastId /\ lastId' = lastId
      /\ \A t \in Sessions : t # s => "p" \notin call[t].shared /\ ~call[t].alone
      /\ DOMAIN db' = Files /\ (db').p = View(s).p /\ (db').m = db.m /\ View(s).m = db.m
      /\ \A i : i # c.id => SameRows(db, db', i)
      /\ KeptIn(c.op, db, View(s), c.id)

LEMMA Over ==
  ASSUME IInv, NEW s \in Sessions, Busy(s), Free(s), CommitPIn(s)
  PROVE  OverIn(s)
<1> DEFINE c == call[s]
<1>1. HereIn(s) /\ LockFacts(s) /\ lastId \in Nat \ {0} /\ DOMAIN db = Files /\ Typed
  BY Locks DEF Typed, StateOK, FilesOK, IInv
<1>2. /\ Step(s) = "commit p" /\ Last(s) /\ db' = [db EXCEPT !["p"] = c.draft["p"]]
      /\ lastId' = IF c.id > lastId THEN c.id ELSE lastId
  BY DEF CommitPIn, CommitsFile
<1>3. Step(s) \in Commits /\ Step(s) \notin Reads
  BY <1>2 DEF Commits, Reads
<1>4. TransactionIn(Gen, c.op) /\ InOrder(Gen, c.op, Step(s), Past(Gen, c), Last(s))
  BY <1>1, <1>3 DEF HereIn, InOrder
<1>5. Gen = 1
  BY <1>4, TransactionsIn
<1>6. /\ Altered(Gen, Past(Gen, c)) = IF "commit m" \in Past(Gen, c) THEN Files ELSE {"p"}
      /\ Complete(Gen, c.op, Past(Gen, c))
      /\ c.op = "create" => "commit m" \in Past(Gen, c)
  BY <1>2, <1>4 DEF InOrder
<1>7. c.reserved = (IF c.alone THEN Files ELSE {"p"}) /\ "p" \in c.reserved /\ "p" \in c.shared
      /\ (c.op = "create" => c.alone)
  <2>1. c.reserved = Altered(Gen, Past(Gen, c)) /\ (c.alone <=> "commit m" \in Past(Gen, c))
        /\ c.reserved \subseteq c.shared
    BY <1>1, <1>4 DEF LockFacts
  <2> QED BY <1>6, <2>1, FilesAre
<1>8. c.at > 1
  <2>1. Altered(Gen, Past(Gen, c)) # {}
    BY <1>6, FilesAre
  <2>2. Past(Gen, c) # {}
    BY <2>1 DEF Altered
  <2>3. c.at # 1 /\ c.at \in Nat \ {0}
    BY <1>1, <2>2, Begun
  <2> QED BY <2>3
<1>9. c.id \in 1 .. lastId
  <2>1. CASE c.op = "create"
    <3>1. c.id \in 1 .. lastId + 1 /\ c.id <= lastId
      BY <1>1, <1>7, <1>8, <2>1 DEF HereIn, ActiveOK
    <3> QED BY <1>1, <3>1
  <2>2. CASE c.op # "create"
    BY <1>1, <2>2 DEF HereIn, ActiveOK
  <2> QED BY <2>1, <2>2
<1>10. lastId' = lastId
  <2>1. lastId \in Nat
    BY <1>1
  <2>2. ~(c.id > lastId)
    BY <1>9, <2>1
  <2> QED BY <1>2, <2>2
<1>11. ASSUME NEW t \in Sessions, t # s PROVE "p" \notin call[t].shared /\ ~call[t].alone
  <2>1. "p" \notin call[t].shared
    <3>1. CASE c.alone
      BY <1>11, <3>1 DEF IInv, Apart
    <3>2. CASE ~c.alone
      <4>1. call[s].alone \/ \A u \in Others(s) : call[u].shared \cap call[s].reserved = {}
        BY <1>3 DEF Free
      <4>2. t \in Others(s)
        BY <1>11 DEF Others
      <4> QED BY <1>7, <3>2, <4>1, <4>2
    <3> QED BY <3>1, <3>2
  <2>2. LockFacts(t)
    BY <1>1, Locks
  <2> QED BY <2>1, <2>2, FilesAre DEF LockFacts
<1>12. PICK v : v = View(s)
  OBVIOUS
<1>13. /\ OthersSame(db, v, c.id) /\ \A f \in Files \ c.reserved : v[f] = db[f]
       /\ c.alone => v["m"] = db["m"]
       /\ KeptIn(c.op, db, v, c.id)
  BY <1>12, ViewsAre DEF IInv, DraftsFollow, Follows
<1>14. v.m = db.m
  <2>1. CASE c.alone
    BY <1>13, <2>1
  <2>2. CASE ~c.alone
    BY <1>7, <1>13, <2>2, FilesAre
  <2> QED BY <2>1, <2>2
<1>15. v.p = c.draft["p"]
  BY <1>7, <1>12, ViewsAre, ViewFiles
<1>16. DOMAIN db' = Files /\ (db').p = v.p /\ (db').m = db.m
  BY <1>1, <1>2, <1>15, FilesAre
<1>17. \A i : i # c.id => SameRows(db, db', i)
  BY <1>13, <1>16 DEF OthersSame, SameRows, SameColumns, SameBlobs
<1> QED BY <1>4, <1>5, <1>6, <1>8, <1>9, <1>10, <1>11, <1>12, <1>13, <1>14, <1>16, <1>17 DEF OverIn

(* What is known to be half written afterwards.                            *)
LEMMA OverTorn ==
  ASSUME Typed, NEW s \in Sessions, CommitPIn(s), OverIn(s)
  PROVE  /\ call[s].op # "create" => torn' = torn
         /\ \A i, what : i # call[s].id => (<<i, what>> \in torn' <=> <<i, what>> \in torn)
         /\ torn' \subseteq torn \cup {call[s].id} \X {"bpm", "rows"}
         /\ \A t \in Sessions : t # s /\ call[t].op = "bpm" /\ call[t].id = call[s].id /\ call[s].op = "create" =>
              <<call[s].id, "bpm">> \in torn'
<1> DEFINE c == call[s]
<1>1. c.op # "create" => torn' = torn
  BY DEF CommitPIn
<1>2. c.op = "create" => torn' = (torn \ ({c.id} \X Concerns("create"))) \cup {c.id} \X Conflicts(s, "create", c.id)
  BY DEF CommitPIn
<1>3. \A i, what : i # c.id => (<<i, what>> \in torn' <=> <<i, what>> \in torn)
  BY <1>1, <1>2
<1>4. torn' \subseteq torn \cup {c.id} \X {"bpm", "rows"}
  BY <1>1, <1>2, ConflictsConcern
<1>5. ASSUME NEW t \in Sessions, t # s, call[t].op = "bpm", call[t].id = c.id, c.op = "create"
      PROVE  <<c.id, "bpm">> \in torn'
  <2>1. c.id # 0
    BY DEF OverIn
  <2>2. ~InTransaction(call[t].op)
    BY <1>5 DEF InTransaction
  <2>3. "bpm" \in Concerns("create") /\ "bpm" \in Concerns(call[t].op)
    BY <1>5 DEF Concerns
  <2>4. <<c.id, "bpm">> \in {c.id} \X Conflicts(s, "create", c.id)
    BY <1>5, <2>1, <2>2, <2>3, ConflictsAre
  <2> QED BY <1>2, <1>5, <2>4
<1> QED BY <1>1, <1>3, <1>4, <1>5

LEMMA OverTyped ==
  ASSUME Typed, Room, NEW s \in Sessions, Busy(s), CommitPIn(s), OverIn(s), OthersKept(s)
  PROVE  Typed' /\ Room'
<1> DEFINE c == call[s]
           e == call'[s]
<1>1. build' = build /\ calls' = calls /\ lastId' = lastId /\ e = Idle /\ Gen' = Gen
  BY DEF CommitPIn, CommitsFile, OverIn, Gen
<1>2. lastId \in Nat /\ calls \in Nat /\ lastId \in Ids
  BY LastIdIsAnId DEF Typed, StateOK
<1>3. StateOK'
  <2>1. FilesOK(db')
    BY ViewTyped DEF OverIn, FilesOK, Typed, StateOK
  <2>2. DOMAIN (db').m \subseteq 1 .. lastId /\ DOMAIN (db').p \subseteq 1 .. lastId
    BY ViewIds DEF OverIn, Typed, StateOK
  <2>3. torn' \subseteq Ids \X {"bpm", "rows"}
    <3>1. c.id \in Ids
      BY <1>2, TrackCallsBounds DEF OverIn, Ids
    <3> QED BY <3>1, OverTorn DEF Typed, StateOK
  <2> QED BY <1>1, <2>1, <2>2, <2>3 DEF Typed, StateOK, FilesOK
<1>4. Typed'
  <2>1. lastId <= lastId' /\ LocksOf(Gen, e)
    BY <1>1, <1>2, IdleLocks
  <2> QED BY <1>1, <1>3, <2>1, TypedByStep
<1>5. Room'
  <2>1. {t \in Sessions : Pending(t)'} \subseteq {t \in Sessions : Pending(t)}
    BY <1>1, IdleIs DEF Pending, OthersKept
  <2>2. /\ IsFiniteSet({t \in Sessions : Pending(t)'})
        /\ Cardinality({t \in Sessions : Pending(t)'}) + lastId <= 1 + calls
    BY <1>2, <2>1, RoomFewer
  <2> QED BY <1>1, <2>2 DEF Room
<1> QED BY <1>4, <1>5

(* Who else writes to the track has not come to its blobs.                 *)
LEMMA OverStaged ==
  ASSUME IInv, NEW s \in Sessions, Busy(s), CommitPIn(s), OverIn(s), OthersKept(s)
  PROVE  CallsStaged'
<1>1. build' = build /\ call'[s] = Idle /\ Typed
  BY DEF CommitPIn, CommitsFile, IInv
<1>2. StagedIn(Gen, call'[s], db', torn')
  BY <1>1, IdleIs DEF StagedIn, TrackedIn
<1>3. ASSUME NEW t \in Sessions, t # s PROVE StagedIn(Gen, call[t], db', torn')
  <2> DEFINE c == call[t]
             calm == <<c.id, "rows">> \notin torn
  <2> SUFFICES ASSUME TrackedIn(Gen, c)
               PROVE  \A calm2 : Staged(Gen, c, Past(Gen, c), ViewOf(c, db'), calm2)
    BY DEF StagedIn
  <2>1. Busy(t) /\ TransactionIn(Gen, c.op) /\ c.at > 1 /\ Gen = 1
    BY TransactionsIn DEF TrackedIn, Busy, OverIn
  <2>2. HereIn(t) /\ LockFacts(t)
    BY <1>1, <2>1, Locks
  <2>3. Past(Gen, c) # {}
    BY <2>1, <2>2, Begun
  <2>4. "p" \notin Touched(Gen, Past(Gen, c))
    BY <1>3, <2>1, <2>2 DEF OverIn, LockFacts
  <2>5. Unseen(Gen, c.op, Past(Gen, c))
    BY <2>1, <2>2, <2>3, <2>4 DEF HereIn, InOrder
  <2>6. "replace" \notin Past(Gen, c)
    BY <2>5 DEF Unseen
  <2>7. ViewOf(c, db').m = ViewOf(c, db).m
    BY ViewFiles DEF OverIn
  <2>8. ColumnPart(Gen, c, Past(Gen, c), ViewOf(c, db), calm)
    BY DEF IInv, CallsStaged, StagedIn, Staged
  <2> TAKE calm2
  <2>9. ColumnPart(Gen, c, Past(Gen, c), ViewOf(c, db'), calm2)
    BY <2>1, <2>7, <2>8 DEF ColumnPart
  <2> QED BY <2>5, <2>9 DEF Staged, BlobPart, OwnPart, BothPart
<1> QED BY <1>1, <1>2, <1>3, StagedByStep
LEMMA OverRows ==
  ASSUME IInv, NEW s \in Sessions, Busy(s), CommitPIn(s), OverIn(s), OthersKept(s)
  PROVE  RowsAgree'
<1> DEFINE c == call[s]
<1>1. build' = build /\ call'[s] = Idle /\ Typed
  BY DEF CommitPIn, CommitsFile, IInv
<1> SUFFICES ASSUME NEW i PROVE RowAgrees(Gen, db', i, SettledIn(Gen, call', torn', i, "rows"))
  BY <1>1, RowsByStep
<1>2. CASE i # c.id
  <2>1. RowAgrees(Gen, db, i, SettledIn(Gen, call, torn, i, "rows"))
    BY DEF IInv, RowsAgree
  <2>2. SettledIn(Gen, call', torn', i, "rows") => SettledIn(Gen, call, torn, i, "rows")
    <3>1. <<i, "rows">> \in torn => <<i, "rows">> \in torn'
      BY <1>1, <1>2, OverTorn
    <3> QED BY <1>2, <3>1, SettledBefore
  <2>3. SameRows(db, db', i)
    BY <1>2 DEF OverIn
  <2>4. RowAgrees(Gen, db', i, SettledIn(Gen, call, torn, i, "rows"))
    BY <2>1, <2>3, AgreesSameRows
  <2> QED BY <2>2, <2>4, AgreesLessCalm
<1>3. CASE i = c.id
  <2>1. PICK calm : calm = (<<c.id, "rows">> \notin torn)
    OBVIOUS
  <2>2. PICK calm2 : calm2 = SettledIn(Gen, call', torn', i, "rows")
    OBVIOUS
  <2>3. Staged(Gen, c, Past(Gen, c), View(s), calm)
    <3>1. TrackedIn(Gen, c)
      BY DEF TrackedIn, OverIn, Busy
    <3> QED BY <2>1, <3>1, ViewsAre DEF IInv, CallsStaged, StagedIn
  <2>4. (calm2 => calm) \/ (Gen = 1 /\ c.op = "create")
    <3>1. CASE c.op = "create"
      BY <3>1 DEF OverIn
    <3>2. CASE c.op # "create"
      <4>1. torn' = torn
        BY <1>1, <3>2, OverTorn
      <4> QED BY <1>3, <2>1, <2>2, <4>1 DEF SettledIn
    <3> QED BY <3>1, <3>2
  <2>5. RowAgrees(Gen, View(s), c.id, calm2)
    BY <2>3, <2>4, StagedAtLast DEF OverIn
  <2>6. SameRows(View(s), db', c.id)
    BY DEF OverIn, SameRows, SameColumns, SameBlobs
  <2>7. RowAgrees(Gen, db', c.id, calm2)
    BY <2>5, <2>6, AgreesSameRows
  <2> QED BY <1>3, <2>2, <2>7
<1> QED BY <1>2, <1>3

LEMMA OverBpm ==
  ASSUME IInv, NEW s \in Sessions, Busy(s), CommitPIn(s), OverIn(s), OthersKept(s)
  PROVE  OneBpmAtATime' /\ BpmsAgree' /\ BpmStaged'
<1> DEFINE c == call[s]
           e == call'[s]
<1>1. /\ build' = build /\ e = Idle /\ Typed /\ Gen' = Gen /\ Gen = 1 /\ (db').m = db.m
      /\ e.op = "none" /\ e.at = 1 /\ c.op # "bpm"
  BY IdleIs DEF CommitPIn, CommitsFile, IInv, OverIn, Gen, TransactionIn
(* A bpm half written before is still known to be so.                      *)
<1>2. ASSUME NEW t \in Sessions, t # s, call[t].op = "bpm",
             <<call[t].id, "bpm">> \in torn \/ (c.op = "create" /\ call[t].id = c.id)
      PROVE  <<call[t].id, "bpm">> \in torn'
  <2>1. CASE call[t].id # c.id
    BY <1>1, <1>2, <2>1, OverTorn
  <2>2. CASE call[t].id = c.id /\ c.op = "create"
    BY <1>1, <1>2, <2>2, OverTorn
  <2>3. CASE call[t].id = c.id /\ c.op # "create"
    BY <1>1, <1>2, <2>3, OverTorn
  <2> QED BY <2>1, <2>2, <2>3
<1>3. OneBpmAtATime'
  <2> SUFFICES ASSUME NEW u \in Sessions, NEW t \in Sessions, u # t,
                      call'[u].id = call'[t].id, call'[u].op = "bpm", "bpm" \in Concerns(call'[t].op)
               PROVE  <<call'[u].id, "bpm">> \in torn' \/ (Gen = 1 /\ call'[t].op = "create")
    BY <1>1 DEF OneBpmAtATime
  <2>1. u # s /\ t # s
    BY <1>1 DEF Concerns
  <2>2. call'[u] = call[u] /\ call'[t] = call[t]
    BY <2>1 DEF OthersKept
  <2>3. <<call[u].id, "bpm">> \in torn \/ (Gen = 1 /\ call[t].op = "create")
    BY <2>2 DEF IInv, OneBpmAtATime
  <2> QED BY <1>2, <2>1, <2>2, <2>3
<1>4. BpmWhole(Gen, c, db, torn)
  BY DEF IInv, BpmStaged
<1>5. BpmsAgree'
  <2> SUFFICES ASSUME NEW i \in DOMAIN (db').m, SettledIn(Gen, call', torn', i, "bpm")
               PROVE  (db').m[i].bpm = (db').m[i].analyzed
    BY <1>1, BpmsByStep
  <2>1. CASE i = c.id /\ c.op \in {"create", "update"}
    <3>1. View(s).m = db.m /\ c.at > 1
      BY DEF OverIn
    <3> QED BY <1>1, <1>4, <2>1, <3>1, ViewsAre DEF BpmWhole
  <2>2. CASE i # c.id \/ c.op \notin {"create", "update"}
    <3>1. <<i, "bpm">> \in torn => <<i, "bpm">> \in torn'
      <4>1. CASE i # c.id
        BY <1>1, <4>1, OverTorn
      <4>2. CASE c.op # "create"
        BY <1>1, <4>2, OverTorn
      <4> QED BY <2>2, <4>1, <4>2
    <3>2. c.id = i => "bpm" \notin Concerns(c.op)
      BY <1>1, <2>2 DEF Concerns
    <3>3. SettledIn(Gen, call, torn, i, "bpm")
      BY <3>1, <3>2, SettledBefore
    <3> QED BY <1>1, <3>3 DEF IInv, BpmsAgree
  <2> QED BY <2>1, <2>2
<1>6. BpmHalf(e, db', torn', call') /\ BpmWhole(Gen, e, db', torn')
  BY <1>1 DEF BpmHalf, BpmWhole
<1>7. ASSUME NEW t \in Sessions, t # s
      PROVE  BpmHalf(call[t], db', torn', call') /\ BpmWhole(Gen, call[t], db', torn')
  <2> DEFINE b == call[t]
  <2>1. BpmHalf(b, db, torn, call) /\ BpmWhole(Gen, b, db, torn)
    BY DEF IInv, BpmStaged
  <2>2. BpmWhole(Gen, b, db', torn')
    <3>1. ViewOf(b, db').m = ViewOf(b, db).m
      BY <1>1, ViewFiles
    <3> QED BY <1>1, <2>1, <3>1 DEF BpmWhole
  <2>3. BpmHalf(b, db', torn', call')
    <3> SUFFICES ASSUME b.op = "bpm", b.at > 1, b.id \in DOMAIN db.m, <<b.id, "bpm">> \notin torn',
                        ~BeingMade(call', b.id)
                 PROVE  db.m[b.id].analyzed = b.val
      BY <1>1 DEF BpmHalf
    <3>1. <<b.id, "bpm">> \notin torn /\ ~(c.op = "create" /\ b.id = c.id)
      BY <1>2, <1>7
    <3>2. ~BeingMade(call, b.id)
      BY <3>1 DEF BeingMade, OverIn
    <3> QED BY <2>1, <3>1, <3>2 DEF BpmHalf
  <2> QED BY <2>2, <2>3
<1>8. BpmStaged'
  BY <1>1, <1>6, <1>7, BpmStagedByStep
<1> QED BY <1>3, <1>5, <1>8

LEMMA LastStep ==
  ASSUME IInv, NEW s \in Sessions, Busy(s), Free(s), CommitPIn(s), OthersKept(s)
  PROVE  IInv'
<1> DEFINE e == call'[s]
<1>1. Typed /\ Room /\ OverIn(s)
  BY Over DEF IInv
<1>2. Typed' /\ Room'
  BY <1>1, OverTyped
<1>3. /\ e.shared = {} /\ e.reserved = {} /\ ~e.alone /\ build' = build
  BY IdleIs DEF CommitPIn, CommitsFile
<1>4. Apart'
  <2>1. ASSUME NEW t \in Sessions, t # s
        PROVE  /\ e.reserved \cap call[t].reserved = {}
               /\ e.alone => call[t].shared = {}
               /\ call[t].alone => e.shared = {}
    BY <1>3
  <2> QED BY <2>1, ApartByStep DEF IInv
<1>5. DraftsFollow'
  <2>1. Follows(e, db')
    BY <1>3, UnlockedFollows
  <2>2. ASSUME NEW t \in Sessions, t # s PROVE Follows(call[t], db')
    <3>1. "p" \notin call[t].shared /\ ~call[t].alone
      BY <1>1, <2>2 DEF OverIn
    <3>2. call[t].reserved \subseteq call[t].shared
      BY <1>1, Locks DEF LockFacts
    <3>3. \A g \in Files : g # "p" => db'[g] = db[g]
      BY <1>1, FilesAre DEF OverIn
    <3>4. Follows(call[t], db) /\ "p" \in Files
      BY FilesAre DEF IInv, DraftsFollow
    <3> QED BY <3>1, <3>2, <3>3, <3>4, FollowsOtherFile
  <2> QED BY <2>1, <2>2, FollowByStep
<1>6. CallsStaged'
  BY <1>1, OverStaged
<1>7. OneAtATime'
  <2>1. Gen' = 1
    BY <1>1, <1>3 DEF OverIn, Gen
  <2> QED BY <2>1 DEF OneAtATime
<1>8. RowsAgree' /\ OneBpmAtATime' /\ BpmsAgree' /\ BpmStaged'
  BY <1>1, OverRows, OverBpm
<1> QED BY <1>2, <1>4, <1>5, <1>6, <1>7, <1>8 DEF IInv
-----------------------------------------------------------------------------
(* Every step is one of these. *)

Moves(s) ==
  /\ OthersKept(s)
  /\ \/ Busy(s) /\ Free(s) /\ ReadIn(s)
     \/ Busy(s) /\ Free(s) /\ OutcomeIn(s) /\ DraftIn(s)
     \/ Busy(s) /\ Free(s) /\ OutcomeIn(s) /\ WriteIn(s)
     \/ Busy(s) /\ Free(s) /\ CommitMIn(s)
     \/ Busy(s) /\ Free(s) /\ CommitPIn(s)
     \/ Busy(s) /\ StopIn(s)
     \/ \E op \in Operations, i \in 0 .. lastId, v \in Values : BeginIn(s, op, i, v)

LEMMA NextMoves ==
  ASSUME Typed, Room, Next
  PROVE  (\E s \in Sessions : Moves(s)) \/ UNCHANGED vars
<1>1. DOMAIN call = Sessions
  BY DEF Typed, CallsOK
<1>2. ASSUME NEW s \in Sessions, NEW op \in Operations, NEW i \in 0 .. lastId, NEW v \in Values, Begin(s, op, i, v)
      PROVE  Moves(s)
  BY <1>1, <1>2, BeginEffect DEF Moves
<1>3. ASSUME NEW s \in Sessions, Stop(s) PROVE Moves(s)
  BY <1>1, <1>3, StopEffect DEF Moves, Stop
<1>4. ASSUME NEW s \in Sessions, Busy(s), Free(s), ~Missing(s), ReadBlob(s) PROVE Moves(s)
  <2>1. HereIn(s)
    BY <1>4, Locks
  <2> QED BY <1>1, <1>4, <2>1, ReadEffect DEF Moves
<1>5. ASSUME NEW s \in Sessions, Busy(s), Free(s), ~Missing(s), Change(s) PROVE Moves(s)
  <2>1. HereIn(s) /\ call[s].shared \subseteq Files
    BY <1>5, Locks DEF LockFacts
  <2>2. Step(s) \in Changes
    BY <1>5, <2>1 DEF Change, Changes, HereIn, InOrder
  <2>3. OutcomeIn(s)
    BY <1>5, <2>2, Outcomes
  <2>4. CASE InTransaction(call[s].op)
    BY <1>1, <1>5, <2>1, <2>3, <2>4, DraftEffect DEF Moves
  <2>5. CASE ~InTransaction(call[s].op)
    BY <1>1, <1>5, <2>1, <2>3, <2>5, WriteEffect DEF Moves
  <2> QED BY <2>4, <2>5
<1>6. ASSUME NEW s \in Sessions, Busy(s), Free(s), ~Missing(s), Commit(s) PROVE Moves(s)
  <2>1. HereIn(s)
    BY <1>6, Locks
  <2> QED BY <1>1, <1>6, <2>1, CommitEffect DEF Moves
<1>7. ASSUME NEW s \in Sessions, Proceed(s) PROVE Moves(s)
  BY <1>3, <1>4, <1>5, <1>6, <1>7 DEF Proceed
<1>8. CASE Rest
  BY <1>8 DEF Rest
<1> QED BY <1>2, <1>3, <1>7, <1>8 DEF Next

LEMMA MovesKeep ==
  ASSUME IInv, NEW s \in Sessions, Moves(s) PROVE IInv'
<1>1. OthersKept(s)
  BY DEF Moves
<1>2. CASE Busy(s) /\ Free(s) /\ ReadIn(s)
  BY <1>1, <1>2, ReadStep
<1>3. CASE Busy(s) /\ Free(s) /\ OutcomeIn(s) /\ DraftIn(s)
  BY <1>1, <1>3, DraftStep
<1>4. CASE Busy(s) /\ Free(s) /\ OutcomeIn(s) /\ WriteIn(s)
  BY <1>1, <1>4, WriteStep
<1>5. CASE Busy(s) /\ Free(s) /\ CommitMIn(s)
  BY <1>1, <1>5, FirstStep
<1>6. CASE Busy(s) /\ Free(s) /\ CommitPIn(s)
  BY <1>1, <1>6, LastStep
<1>7. CASE Busy(s) /\ StopIn(s)
  BY <1>1, <1>7, StopStep
<1>8. CASE \E op \in Operations, i \in 0 .. lastId, v \in Values : BeginIn(s, op, i, v)
  BY <1>1, <1>8, BeginStep
<1> QED BY <1>2, <1>3, <1>4, <1>5, <1>6, <1>7, <1>8 DEF Moves

LEMMA StutterKeeps ==
  ASSUME IInv, UNCHANGED vars PROVE IInv'
<1>1. /\ build' = build /\ db' = db /\ lastId' = lastId /\ call' = call /\ calls' = calls /\ torn' = torn
      /\ Gen' = Gen
  BY DEF vars, Gen
<1>2. Typed'
  BY <1>1 DEF IInv, Typed, StateOK, CallsOK, LocksAsDone
<1>3. Room' /\ Apart' /\ DraftsFollow' /\ CallsStaged'
  BY <1>1 DEF IInv, Room, Pending, Apart, DraftsFollow, CallsStaged
<1>4. OneAtATime' /\ RowsAgree' /\ OneBpmAtATime' /\ BpmStaged' /\ BpmsAgree'
  BY <1>1 DEF IInv, OneAtATime, RowsAgree, OneBpmAtATime, BpmStaged, BpmsAgree
<1> QED BY <1>2, <1>3, <1>4 DEF IInv

(* The files that there are at first. *)
LEMMA FirstFiles ==
  ASSUME Init
  PROVE  /\ FilesOK(db) /\ DOMAIN db.m \subseteq {1} /\ DOMAIN db.p \subseteq {1}
         /\ 1 \in DOMAIN db.m => db.m[1] = Columns(0, 0) /\ 1 \in DOMAIN db.p
         /\ 1 \in DOMAIN db.p => db.p[1] = NoBlobs(0)
<1> DEFINE one == [m |-> [i \in {1} |-> Columns(0, 0)], p |-> [i \in {1} |-> NoBlobs(0)]]
           c == [Idle EXCEPT !.id = 1]
<1>1. /\ DOMAIN one = Files /\ DOMAIN one.m = {1} /\ DOMAIN one.p = {1}
      /\ one.m[1] = Columns(0, 0) /\ one.p[1] = NoBlobs(0)
  BY DEF Files
<1>2. Columns(0, 0) \in Track /\ NoBlobs(0) \in Performance
  BY NewRowsTyped, TrackCallsValues, TrackCallsBounds DEF NoBlobs
<1>3. FilesOK(one)
  BY <1>1, <1>2 DEF FilesOK
<1>4. db = one \/ db = Deleted(one, c)
  BY DEF Init
<1>5. c.id = 1
  BY IdleIs
<1> HIDE DEF one, c
<1>6. CASE db = one
  BY <1>1, <1>3, <1>6
<1>7. CASE db = Deleted(one, c)
  <2>1. DeletedIn(one, c, db)
    BY <1>3, <1>7, DeletedShape
  <2>2. FilesOK(db) /\ OthersSame(one, db, 1) /\ 1 \notin DOMAIN db.m
        /\ (1 \notin DOMAIN db.p \/ SameBlobs(one, db, 1))
    BY <1>5, <2>1 DEF DeletedIn
  <2>3. DOMAIN db.m \subseteq {1} /\ DOMAIN db.p \subseteq {1}
    BY <1>1, <2>2 DEF OthersSame, SameRows, SameColumns, SameBlobs
  <2> QED BY <1>1, <2>2, <2>3 DEF SameBlobs
<1> QED BY <1>4, <1>6, <1>7

LEMMA InitKeeps == Init => IInv
<1> SUFFICES ASSUME Init PROVE IInv
  OBVIOUS
<1>1. /\ build \in Builds /\ lastId = 1 /\ calls = 0 /\ torn = {}
      /\ DOMAIN call = Sessions /\ \A s \in Sessions : call[s] = Idle
  BY DEF Init
<1>2. Typed
  <2>1. StateOK
    BY <1>1, FirstFiles, TrackCallsBounds DEF StateOK
  <2>2. LocksAsDone
    BY <1>1, IdleLocks DEF LocksAsDone
  <2> QED BY <1>1, <2>1, <2>2 DEF Typed, CallsOK
<1>3. Room
  <2>1. {s \in Sessions : Pending(s)} = {}
    BY <1>1, IdleIs DEF Pending
  <2>2. IsFiniteSet({}) /\ Cardinality({}) = 0
    BY FS_EmptySet
  <2> QED BY <1>1, <2>1, <2>2 DEF Room
<1>4. Apart
  BY <1>1, IdleIs DEF Apart
<1>5. DraftsFollow
  BY <1>1, IdleIs, UnlockedFollows DEF DraftsFollow
<1>6. CallsStaged
  BY <1>1, IdleIs DEF CallsStaged, StagedIn, TrackedIn
<1>7. OneAtATime /\ OneBpmAtATime
  BY <1>1, IdleIs DEF OneAtATime, OneBpmAtATime
<1>8. Columns(0, 0).of = 0 /\ Columns(0, 0).key = 0 /\ Columns(0, 0).len = 0
      /\ Columns(0, 0).bpm = 0 /\ Columns(0, 0).analyzed = 0
  BY DEF Columns
<1>9. NoBlobs(0).of = 0 /\ NoBlobs(0).td.size = 0 /\ NoBlobs(0).td.key = 0 /\ NoBlobs(0).bd.size = 0
      /\ NoBlobs(0).wave = NoWave
  BY DEF NoBlobs, Blobs
<1>10. RowsAgree
  BY <1>8, <1>9, FirstFiles DEF RowsAgree, RowAgrees
<1>11. BpmsAgree
  BY <1>8, FirstFiles DEF BpmsAgree
<1>12. BpmStaged
  BY <1>1, IdleIs DEF BpmStaged, BpmHalf, BpmWhole
<1> QED BY <1>2, <1>3, <1>4, <1>5, <1>6, <1>7, <1>10, <1>11, <1>12 DEF IInv

(* Whatever the calls, and wherever they stop, the files and the calls are *)
(* related as IInv says.                                                   *)
THEOREM InvariantHolds == Spec => []IInv
<1>1. IInv /\ [Next]_vars => IInv'
  <2> SUFFICES ASSUME IInv, [Next]_vars PROVE IInv'
    OBVIOUS
  <2>1. CASE Next
    BY <2>1, NextMoves, MovesKeep, StutterKeeps DEF IInv
  <2>2. CASE UNCHANGED vars
    BY <2>2, StutterKeeps
  <2> QED BY <2>1, <2>2
<1> QED BY InitKeeps, <1>1, PTL DEF Spec
-----------------------------------------------------------------------------
(* What the runs check. *)

LEMMA CallsTyped ==
  ASSUME Typed, NEW s \in Sessions
  PROVE  /\ Busy(s) => /\ call[s].op \in Operations /\ call[s].id \in 0 .. lastId + 1
                       /\ call[s].at \in DOMAIN Program(call[s].op)
         /\ call[s].td \in TrackData /\ call[s].bd \in BeatData
         /\ DOMAIN call[s].draft = call[s].shared
         /\ call[s].reserved \subseteq call[s].shared
<1> DEFINE c == call[s]
<1>1. LockFacts(s) /\ lastId \in Nat /\ (Busy(s) => HereIn(s))
  BY Locks DEF Typed, StateOK
<1>2. CASE c = Idle
  <2>1. DOMAIN c.draft = {} /\ c.shared = {}
    BY <1>2, IdleIs
  <2> QED BY <1>1, <1>2, <2>1, IdleIs DEF LockFacts, Busy
<1>3. CASE ActiveOK(Gen, lastId, c)
  <2>1. c.op \in Operations /\ c.td \in TrackData /\ c.bd \in BeatData /\ DOMAIN c.draft = c.shared
    BY <1>3 DEF ActiveOK, CallOK
  <2>2. c.id \in 0 .. lastId + 1
    <3>1. c.id \in Nat /\ (c.op # "create" => c.id <= lastId)
      BY <1>1, <1>3 DEF ActiveOK
    <3>2. CASE c.op = "create" /\ c.at > 1
      <4>1. c.id \in 1 .. lastId + 1
        BY <1>3, <3>2 DEF ActiveOK
      <4> QED BY <1>1, <4>1
    <3>3. CASE c.op = "create" /\ ~(c.at > 1)
      <4>1. c.at = 1
        <5>1. HereIn(s)
          BY <1>1, <2>1, OperationsAre DEF Busy
        <5>2. c.at \in Nat \ {0}
          BY <5>1, Begun
        <5> QED BY <3>3, <5>2
      <4>2. c.id = 0
        BY <1>3, <3>3, <4>1 DEF ActiveOK
      <4> QED BY <1>1, <4>2
    <3> QED BY <1>1, <3>1, <3>2, <3>3
  <2>3. Busy(s) => c.at \in DOMAIN Program(c.op)
    BY <1>1 DEF HereIn
  <2>4. c.reserved \subseteq c.shared
    BY <1>1 DEF LockFacts
  <2> QED BY <2>1, <2>2, <2>3, <2>4
<1> QED BY <1>2, <1>3 DEF Typed, CallsOK

LEMMA StateTyped == IInv => TypeOK
<1> SUFFICES ASSUME IInv PROVE TypeOK
  OBVIOUS
<1>1. StateOK /\ Typed /\ Room
  BY DEF IInv, Typed
<1>2. lastId \in Ids
  BY <1>1, LastIdIsAnId
<1>3. DOMAIN db.m \cup DOMAIN db.p \subseteq 1 .. lastId
  BY <1>1 DEF StateOK
<1> QED BY <1>1, <1>2, <1>3, CallsTyped DEF TypeOK, StateOK, FilesOK

LEMMA RowsOfAgree ==
  ASSUME IInv, NEW i
  PROVE  /\ RowAgrees(Gen, db, i, Settled(i, "rows"))
         /\ i \in DOMAIN db.m /\ Settled(i, "bpm") => db.m[i].bpm = db.m[i].analyzed
<1>1. RowAgrees(Gen, db, i, SettledIn(Gen, call, torn, i, "rows"))
  BY DEF IInv, RowsAgree
<1>2. RowAgrees(Gen, db, i, Settled(i, "rows"))
  BY <1>1, SettledIs, AgreesLessCalm
<1>3. i \in DOMAIN db.m /\ Settled(i, "bpm") => db.m[i].bpm = db.m[i].analyzed
  BY SettledIs DEF IInv, BpmsAgree
<1> QED BY <1>2, <1>3

LEMMA IInvImplies == IInv => SizesAgree /\ ColumnsAreSound /\ OwnPerformanceData
<1> SUFFICES ASSUME IInv PROVE SizesAgree /\ ColumnsAreSound /\ OwnPerformanceData
  OBVIOUS
<1>1. SizesAgree
  BY RowsOfAgree DEF SizesAgree, RowAgrees
<1>2. OwnPerformanceData
  BY RowsOfAgree DEF OwnPerformanceData, RowAgrees
<1>3. ColumnsAgree
  BY RowsOfAgree DEF ColumnsAgree, RowAgrees
<1>4. BpmAgrees
  BY RowsOfAgree DEF BpmAgrees
<1> QED BY <1>1, <1>2, <1>3, <1>4, StateTyped DEF ColumnsAreSound

(* set_sample_count and set_sample_rate write the size of a track into every *)
(* blob that has one. No interleaving with other calls and no stop leaves two *)
(* sizes in generation 1; in 2 and 3 only stopped calls and calls that met do. *)
THEOREM SizesAlwaysAgree == Spec => []SizesAgree
  BY InvariantHolds, IInvImplies, PTL

(* Every part of the state has its type. The key and the length in the blobs *)
(* are those of the columns of Track, and both columns of the bpm agree,    *)
(* wherever no call on the track was stopped between the two or met another. *)
THEOREM ColumnsStaySound == Spec => []ColumnsAreSound
  BY InvariantHolds, IInvImplies, PTL

(* A track that create_track has finished has performance data, and not what *)
(* remove_track left behind of a track that had its id before.              *)
THEOREM DataIsTheTracksOwn == Spec => []OwnPerformanceData
  BY InvariantHolds, IInvImplies, PTL

-----------------------------------------------------------------------------
(* What a step may change of the blobs. *)

LEMMA ChangedKept ==
  ASSUME FilesOK(db), FilesOK(db'), NEW i \in DOMAIN db.p \cap DOMAIN (db').p,
         NEW op, KeptIn(op, db, db', i)
  PROVE  Changed(i) \subseteq FieldsOf(op)
<1>1. /\ DOMAIN db.p[i].td = {"size", "key", "loud"} /\ DOMAIN db.p[i].bd = {"size", "grid"}
  <2>1. db.p[i] \in Performance
    BY DEF FilesOK
  <2> QED BY <2>1, RecordFields DEF Performance
<1>2. \A f \in DOMAIN db.p[i].td : f \notin FieldsOf(op) => (db').p[i].td[f] = db.p[i].td[f]
  BY <1>1 DEF KeptIn
<1>3. \A f \in DOMAIN db.p[i].bd : f \notin FieldsOf(op) => (db').p[i].bd[f] = db.p[i].bd[f]
  BY <1>1 DEF KeptIn
<1> QED BY <1>2, <1>3 DEF Changed

LEMMA NothingChanged ==
  ASSUME NEW i, (db').p[i] = db.p[i] PROVE Changed(i) = {}
  BY DEF Changed

LEMMA AboveOne == \A n \in Nat \ {0} : n # 1 => n > 1
  OBVIOUS

(* A session that goes on to write the blobs of i changes its own fields.  *)
ChangesOwn(i) ==
  \E s \in Sessions : call'[s] # call[s] /\ Changed(i) \subseteq FieldsOf(call[s].op)

LEMMA WriteChangesOwn ==
  ASSUME IInv, NEW s \in Sessions, Busy(s), Free(s), OutcomeIn(s), WriteIn(s),
         NEW i \in DOMAIN db.p \cap DOMAIN (db').p, Gen = 1 \/ <<i, "rows">> \notin torn
  PROVE  Changed(i) = {} \/ Changed(i) \subseteq FieldsOf(call[s].op)
<1> DEFINE c == call[s]
           k == Target(s)
<1>1. WroteIn(s) /\ Typed /\ FilesOK(db)
  BY Wrote DEF IInv, Typed, StateOK
<1>2. FilesOK(db') /\ db' = Outcome(s) /\ SameFiles(View(s), db)
  BY <1>1 DEF WroteIn, WriteIn
<1>3. HereIn(s) /\ c.op \in AllOperations /\ InOrder(Gen, c.op, Step(s), Past(Gen, c), Last(s))
  BY DEF OutcomeIn, HereIn
<1>4. CASE i # k.id
  <2>1. (db').p[i] = db.p[i]
    BY <1>1, <1>4 DEF WroteIn, OthersSame, SameRows, SameBlobs
  <2> QED BY <2>1, NothingChanged
<1>5. CASE Gen = 1
  <2>1. (db').p[i] = db.p[i]
    BY <1>1, <1>5 DEF WroteIn
  <2> QED BY <2>1, NothingChanged
<1>6. CASE Gen # 1 /\ i = k.id /\ c.op \in Setters
  <2>1. k = c
    BY <1>1, <1>3, <1>6 DEF WroteIn, InOrder, Setters
  <2>2. Step(s) \in {"write td", "write bd"} => Staged(Gen, c, Past(Gen, c), View(s), TRUE)
    <3> SUFFICES ASSUME Step(s) \in {"write td", "write bd"}
                 PROVE  Staged(Gen, c, Past(Gen, c), View(s), TRUE)
      OBVIOUS
    <3>1. c.op \in {"loudness", "key", "size", "beatgrid"} /\ Past(Gen, c) # {}
      BY <1>3 DEF InOrder
    <3>2. c.at > 1
      <4>1. c.at \in Nat \ {0}
        BY <1>3, Begun
      <4>2. c.at # 1
        BY <1>3, <3>1, Begun
      <4> HIDE DEF c
      <4> QED BY <4>1, <4>2, AboveOne, Zenon
    <3>3. TrackedIn(Gen, c)
      BY <3>1, <3>2 DEF TrackedIn, Concerns
    <3>4. Staged(Gen, c, Past(Gen, c), ViewOf(c, db), <<c.id, "rows">> \notin torn)
      BY <3>3 DEF IInv, CallsStaged, StagedIn
    <3>5. <<c.id, "rows">> \notin torn
      BY <1>6, <2>1
    <3> QED BY <3>4, <3>5, ViewsAre, StagedLessCalm
  <2>3. KeptIn(c.op, View(s), Outcome(s), c.id)
    BY <1>6, <2>2, ChangeKeeps
  <2>4. KeptIn(c.op, db, db', i)
    BY <1>2, <1>6, <2>1, <2>3 DEF KeptIn, SameFiles
  <2> QED BY <1>1, <1>2, <2>4, ChangedKept
<1>7. CASE Gen # 1 /\ i = k.id /\ c.op \in {"create", "update"}
  <2>1. KeptIn(c.op, db, db', i)
    BY <1>7 DEF KeptIn, FieldsOf
  <2> QED BY <1>1, <1>2, <2>1, ChangedKept
<1>8. CASE Gen # 1 /\ i = k.id /\ c.op = "remove"
  <2>1. Step(s) = "delete" /\ k = c
    BY <1>1, <1>3, <1>8 DEF WroteIn, InOrder
  <2>2. db' = Deleted(View(s), c) /\ FilesOK(View(s))
    BY <1>2, <2>1 DEF Outcome, Result, OutcomeIn
  <2>3. DeletedIn(View(s), c, db')
    BY <2>2, DeletedShape
  <2>4. SameBlobs(View(s), db', i)
    BY <1>8, <2>1, <2>3 DEF DeletedIn
  <2>5. (db').p[i] = db.p[i]
    BY <1>2, <2>4 DEF SameBlobs, SameFiles
  <2> QED BY <2>5, NothingChanged
<1> QED BY <1>3, <1>4, <1>5, <1>6, <1>7, <1>8 DEF AllOperations, Setters

LEMMA OverChangesOwn ==
  ASSUME IInv, NEW s \in Sessions, Busy(s), Free(s), CommitPIn(s),
         NEW i \in DOMAIN db.p \cap DOMAIN (db').p
  PROVE  Changed(i) = {} \/ Changed(i) \subseteq FieldsOf(call[s].op)
<1> DEFINE c == call[s]
<1>1. OverIn(s) /\ Typed /\ FilesOK(db)
  BY Over DEF IInv, Typed, StateOK
<1>2. CASE i # c.id
  <2>1. (db').p[i] = db.p[i]
    BY <1>1, <1>2 DEF OverIn, SameRows, SameBlobs
  <2> QED BY <2>1, NothingChanged
<1>3. CASE i = c.id
  <2>1. FilesOK(View(s)) /\ (db').p = View(s).p /\ (db').m = View(s).m /\ DOMAIN db' = Files
    BY <1>1, ViewTyped DEF OverIn
  <2>2. FilesOK(db')
    BY <2>1 DEF FilesOK
  <2>3. KeptIn(c.op, db, db', i)
    BY <1>1, <1>3, <2>1 DEF OverIn, KeptIn
  <2> QED BY <1>1, <2>2, <2>3, ChangedKept
<1> QED BY <1>2, <1>3

LEMMA StepChangesOwn ==
  ASSUME IInv, Next, NEW i \in DOMAIN db.p \cap DOMAIN (db').p,
         Gen = 1 \/ <<i, "rows">> \notin torn, Changed(i) # {}
  PROVE  ChangesOwn(i)
<1>1. (db').p[i] # db.p[i]
  BY NothingChanged
<1>2. PICK s \in Sessions : Moves(s)
  <2>1. (\E s \in Sessions : Moves(s)) \/ UNCHANGED vars
    BY NextMoves DEF IInv
  <2>2. ~UNCHANGED vars
    BY <1>1 DEF vars
  <2> QED BY <2>1, <2>2
<1>3. Busy(s) /\ Free(s) /\ ((OutcomeIn(s) /\ WriteIn(s)) \/ CommitPIn(s))
  <2>1. ~(ReadIn(s) \/ DraftIn(s) \/ StopIn(s))
    BY <1>1 DEF ReadIn, DraftIn, StopIn
  <2>2. ~(\E op \in Operations, j \in 0 .. lastId, v \in Values : BeginIn(s, op, j, v))
    BY <1>1 DEF BeginIn
  <2>3. ~(Busy(s) /\ Free(s) /\ CommitMIn(s))
    <3> SUFFICES ASSUME Busy(s), Free(s), CommitMIn(s) PROVE FALSE
      OBVIOUS
    <3>1. FirstIn(s)
      BY First DEF IInv
    <3> QED BY <1>1, <3>1 DEF FirstIn
  <2> QED BY <1>2, <2>1, <2>2, <2>3 DEF Moves
<1>4. Changed(i) \subseteq FieldsOf(call[s].op)
  BY <1>3, WriteChangesOwn, OverChangesOwn
<1>5. call'[s] # call[s]
  <2>1. HereIn(s)
    BY <1>3, Locks DEF IInv
  <2>2. (call[s].at \in Nat /\ call'[s].at = call[s].at + 1) \/ call'[s] = Idle
    <3>1. call[s].at \in Nat
      BY <2>1, Begun
    <3> QED BY <1>3, <3>1 DEF WriteIn, CommitPIn, Continues
  <2>3. call[s] # Idle
    BY <1>3, IdleIs DEF Busy
  <2> QED BY <2>2, <2>3
<1> QED BY <1>4, <1>5 DEF ChangesOwn

(* A call changes no field of a blob but those that it sets: a setter, which *)
(* writes back the whole blob that it read, takes back no other session's   *)
(* write; in generations 2 and 3 where the calls have not met.              *)
THEOREM NoUpdateIsLost == Spec => NoLostUpdate
<1> DEFINE A == \A i \in DOMAIN db.p \cap DOMAIN (db').p :
                  (Gen = 1 \/ <<i, "rows">> \notin torn) /\ Changed(i) # {} => ChangesOwn(i)
<1>1. IInv /\ [Next]_vars => [A]_vars
  BY StepChangesOwn
<1>2. Spec => [][A]_vars
  BY <1>1, InvariantHolds, PTL DEF Spec
<1> QED BY <1>2 DEF NoLostUpdate, ChangesOwn

-----------------------------------------------------------------------------
(* Analyses: beatgrids, cues and waveforms.                                 *)

(* Numbers. *)

(* Dividing by a positive number. *)
LEMMA Division ==
  ASSUME NEW a \in Int, NEW q \in Nat, q > 0
  PROVE  /\ a \div q \in Int
         /\ a = q * (a \div q) + (a % q) /\ 0 <= a % q /\ a % q < q
  OBVIOUS

(* A quotient is told by what is left over. *)
LEMMA QuotientIs ==
  ASSUME NEW a \in Int, NEW q \in Nat, q > 0, NEW k \in Int, NEW r \in Int,
         a = q * k + r, 0 <= r, r < q
  PROVE  a \div q = k
  OBVIOUS

(* A product of numbers that are not negative. *)
LEMMA Products ==
  ASSUME NEW a \in Int, NEW b \in Int, NEW q \in Nat, a <= b
  PROVE  q * a \in Int /\ q * b \in Int /\ q * a <= q * b
  OBVIOUS

-----------------------------------------------------------------------------
(* Waveforms. *)

Points == UNION {{w[i] : i \in DOMAIN w} : w \in Waves}

(* The waveforms are sequences of points, and one is empty. *)
LEMMA WaveSeqs == <<>> \in Waves /\ \A w \in Waves : w \in Seq(Points)
  BY WaveformsWaves DEF WaveformsWaves, Points

(* The samples of an entry are a number. *)
LEMMA QuantumNat == ASSUME NEW r \in Nat PROVE Quantum(r) \in Nat
<1>1. r \div 210 \in Int /\ r = 210 * (r \div 210) + (r % 210) /\ r % 210 < 210
  BY Division
<1> QED BY <1>1 DEF Quantum

(* The extents are numbers, and those of the recommended waveform cover the *)
(* track with no entry past its end; those of the overview leave less than  *)
(* an entry.                                                                *)
LEMMA Extents ==
  ASSUME NEW n \in Nat, NEW r \in Nat
  PROVE  /\ HighExtents(n, r).entry = (IF Sizeless(n, r) THEN 0 ELSE Quantum(r))
         /\ HighExtents(n, r).entry \in Nat
         /\ OverviewExtents(n, r).all \in Nat
         /\ OverviewExtents(n, r).size = (IF Sizeless(n, r) THEN 0 ELSE OverviewSize)
         /\ ~Sizeless(n, r) =>
              /\ HighExtents(n, r).size * HighExtents(n, r).entry >= n
              /\ (HighExtents(n, r).size - 1) * HighExtents(n, r).entry < n
              /\ OverviewExtents(n, r).all <= n
              /\ n < OverviewExtents(n, r).all + Quantum(r)
<1> DEFINE q == Quantum(r)
<1>1. q \in Nat BY QuantumNat
<1>2. CASE Sizeless(n, r) BY <1>1, <1>2 DEF HighExtents, OverviewExtents
<1>3. CASE ~Sizeless(n, r)
  <2>1. q > 0 /\ n > 0 BY <1>1, <1>3 DEF Sizeless
  <2> DEFINE up == (n + q - 1) \div q
             down == n \div q
  <2>2. /\ HighExtents(n, r) = [size |-> up, entry |-> q]
        /\ OverviewExtents(n, r) = [size |-> OverviewSize, all |-> down * q]
    BY <1>3 DEF HighExtents, OverviewExtents
  <2> HIDE DEF q
  <2>3. /\ up \in Int /\ n + q - 1 = q * up + ((n + q - 1) % q)
        /\ 0 <= (n + q - 1) % q /\ (n + q - 1) % q < q
    <3>1. n + q - 1 \in Int BY <1>1
    <3> QED BY <1>1, <2>1, <3>1, Division
  <2>4. /\ down \in Int /\ n = q * down + (n % q) /\ 0 <= n % q /\ n % q < q
    BY <1>1, <2>1, Division
  <2> HIDE DEF up, down
  <2>5. q * up >= n /\ q * up - q < n
    <3> DEFINE rest == (n + q - 1) % q
    <3>1. rest \in Int BY <1>1, <2>1
    <3> QED BY <1>1, <2>3, <3>1
  <2>6. q * up = up * q /\ (up - 1) * q = q * up - q BY <1>1, <2>3
  <2>7. down * q = q * down /\ q * down <= n /\ n < q * down + q
    <3>1. n % q \in Int BY <1>1, <2>1
    <3> QED BY <1>1, <2>4, <3>1
  <2>8. down * q \in Nat
    <3>1. down >= 0
      <4>1. SUFFICES ASSUME down <= -1 PROVE FALSE BY <2>4
      <4>2. q * down <= q * (-1) BY <1>1, <2>4, <4>1, Products
      <4> QED BY <1>1, <2>4, <2>7, <4>2
    <3> QED BY <1>1, <2>4, <3>1
  <2>9. q * up \in Int /\ q * down \in Int BY <1>1, <2>3, <2>4
  <2> QED BY <1>1, <1>3, <2>1, <2>2, <2>5, <2>6, <2>7, <2>8, <2>9 DEF q
<1> QED BY <1>2, <1>3

(* The points of an overview are points of the waveform, and an overview of *)
(* a sequence of its own length is that sequence.                           *)
LEMMA OverviewOf ==
  ASSUME NEW w \in Seq(Points), w # <<>>, NEW n \in Nat
  PROVE  /\ Overview(w, n) \in Seq(Points) /\ Len(Overview(w, n)) = n
         /\ n = Len(w) => Overview(w, n) = w
<1>1. Len(w) \in Nat /\ Len(w) > 0 BY EmptySeq
<1> DEFINE at(i) == (Len(w) * (2 * i - 1)) \div (2 * n) + 1
<1>2. ASSUME NEW i \in 1 .. n PROVE at(i) \in 1 .. Len(w)
  <2> DEFINE L == Len(w)
             a == L * (2 * i - 1)
             q == 2 * n
             d == a \div q
  <2>1. L \in Nat /\ L > 0 BY <1>1
  <2> HIDE DEF L
  <2>2. a \in Int /\ a > 0 BY <2>1
  <2>3. q \in Nat /\ q > 0 OBVIOUS
  <2>4. a < q * L
    <3>1. q * L = L * q /\ L * (2 * i) <= L * q BY <2>1
    <3>2. a = L * (2 * i) - L BY <2>1
    <3> QED BY <2>1, <2>3, <3>1, <3>2
  <2> HIDE DEF a, q
  <2>5. d \in Int /\ a = q * d + (a % q) /\ 0 <= a % q /\ a % q < q
    BY <2>2, <2>3, Division
  <2>6. a % q \in Int BY <2>2, <2>3
  <2> HIDE DEF d
  <2>7. d >= 0
    <3>1. SUFFICES ASSUME d <= -1 PROVE FALSE BY <2>5
    <3>2. q * d <= q * (-1) BY <2>3, <2>5, <3>1, Products
    <3> QED BY <2>2, <2>3, <2>5, <2>6, <3>2
  <2>8. d < L
    <3>1. SUFFICES ASSUME L <= d PROVE FALSE BY <2>1, <2>5
    <3>2. q * L <= q * d BY <2>1, <2>3, <2>5, <3>1, Products
    <3> QED BY <2>1, <2>2, <2>3, <2>4, <2>5, <2>6, <3>2
  <2>9. d + 1 \in 1 .. L BY <2>1, <2>5, <2>7, <2>8
  <2> QED BY <2>9 DEF d, a, q, L
<1>3. ASSUME n = Len(w), NEW i \in 1 .. n PROVE at(i) = i
  <2> DEFINE a == n * (2 * i - 1)
             q == 2 * n
  <2>1. a \in Int /\ q \in Nat /\ q > 0 OBVIOUS
  <2>2. a = q * (i - 1) + n /\ 0 <= n /\ n < q OBVIOUS
  <2> HIDE DEF a, q
  <2>3. a \div q = i - 1 BY <2>1, <2>2, QuotientIs
  <2> QED BY <1>3, <2>3 DEF a, q
<1> HIDE DEF at
<1>4. Overview(w, n) = [i \in 1 .. n |-> w[at(i)]] BY DEF Overview, at
<1>5. \A i \in 1 .. n : w[at(i)] \in Points BY <1>2, ElementOfSeq
<1>6. Overview(w, n) \in [1 .. n -> Points] BY <1>4, <1>5
<1>7. Overview(w, n) \in Seq(Points) /\ Len(Overview(w, n)) = n BY <1>6, SeqDef
<1>8. ASSUME n = Len(w) PROVE Overview(w, n) = w
  <2>1. \A i \in 1 .. n : Overview(w, n)[i] = w[i] BY <1>3, <1>4, <1>8
  <2> QED BY <1>7, <1>8, <2>1, SeqEqual
<1> QED BY <1>7, <1>8

(* The inductive invariant of the waveforms: ExtentsFollow, with the types  *)
(* that it speaks of; and 2.x and 3.x have the overview of the waveform that*)
(* 1.x has, or none.                                                        *)
WaveInv ==
  /\ samples \in SampleCounts /\ rate \in SampleRates
  /\ high \in [entry : Nat, points : Waves]
  /\ over \in [1 .. 2 -> [all : Nat, points : Seq(Points)]]
  /\ \A e \in 1 .. 2 : Len(over[e].points) \in {0, OverviewSize}
  /\ late \in BOOLEAN /\ undefined \in BOOLEAN
  /\ over[1].points # <<>> => over[1].all = OverviewExtents(samples, rate).all
  /\ high.points # <<>> => /\ late => high.entry = 0
                           /\ ~late => high.entry = Quantum(rate)
  /\ over[2].points # <<>> =>
       high.points # <<>> /\ over[2].points = Overview(high.points, OverviewSize)

(* Sizes are numbers. *)
LEMMA SizesNat == samples \in SampleCounts /\ rate \in SampleRates => samples \in Nat /\ rate \in Nat
  BY WaveformsSizes DEF WaveformsSizes

(* The invariant of the waveforms says what the run checks. *)
LEMMA WaveInvShows == WaveInv => WaveTypeOK /\ ExtentsFollow
<1> SUFFICES ASSUME WaveInv PROVE WaveTypeOK /\ ExtentsFollow OBVIOUS
<1>1. samples \in Nat /\ rate \in Nat BY SizesNat DEF WaveInv
<1>2. WaveTypeOK BY DEF WaveInv, WaveTypeOK
<1>3. ExtentsFollow
  <2>1. samples # 0 /\ Quantum(rate) # 0 => ~Sizeless(samples, rate) BY DEF Sizeless
  <2>2. ASSUME over[1].points # <<>>
        PROVE  /\ over[1].all = OverviewExtents(samples, rate).all
               /\ samples # 0 /\ Quantum(rate) # 0 =>
                    over[1].all <= samples /\ samples < over[1].all + Quantum(rate)
    <3>1. over[1].all = OverviewExtents(samples, rate).all BY <2>2 DEF WaveInv
    <3> QED BY <1>1, <2>1, <3>1, Extents
  <2>3. ~Sizeless(samples, rate) =>
          LET e == HighExtents(samples, rate)
          IN  e.size * e.entry >= samples /\ (e.size - 1) * e.entry < samples
    BY <1>1, Extents
  <2>4. high.points # <<>> => /\ late => high.entry = 0
                              /\ ~late => high.entry = Quantum(rate)
    BY DEF WaveInv
  <2> QED BY <2>2, <2>3, <2>4 DEF ExtentsFollow
<1> QED BY <1>2, <1>3

(* A new overview is as large, and has the extents, as for the size that the track has. *)
LEMMA ScaledOverview ==
  ASSUME WaveInv, NEW w \in Seq(Points), w # <<>>
  PROVE  /\ Scaled(w) \in [all : Nat, points : Seq(Points)]
         /\ Len(Scaled(w).points) \in {0, OverviewSize}
         /\ Scaled(w).all = OverviewExtents(samples, rate).all
         /\ Scaled(w).points = IF Sizeless(samples, rate) THEN <<>> ELSE Overview(w, OverviewSize)
<1>1. samples \in Nat /\ rate \in Nat BY SizesNat DEF WaveInv
<1> DEFINE e == OverviewExtents(samples, rate)
<1>2. e.all \in Nat /\ e.size = IF Sizeless(samples, rate) THEN 0 ELSE OverviewSize
  BY <1>1, Extents
<1>3. e.size \in {0, OverviewSize} /\ e.size \in Nat
  BY <1>2, WaveformsOverviewSize DEF WaveformsOverviewSize
<1>4. Overview(w, e.size) \in Seq(Points) /\ Len(Overview(w, e.size)) = e.size
  BY <1>3, OverviewOf
<1>5. Scaled(w) = [all |-> e.all, points |-> Overview(w, e.size)] BY DEF Scaled
<1> HIDE DEF e
<1>6. Sizeless(samples, rate) => Overview(w, e.size) = <<>> BY <1>2, <1>4, EmptySeq
<1> QED BY <1>2, <1>3, <1>4, <1>5, <1>6 DEF e

(* An overview of the overview is the overview. *)
LEMMA OverviewAgain ==
  ASSUME NEW w \in Seq(Points), w # <<>>
  PROVE  Overview(Overview(w, OverviewSize), OverviewSize) = Overview(w, OverviewSize)
<1> DEFINE o == Overview(w, OverviewSize)
<1>1. OverviewSize \in Nat /\ OverviewSize # 0
  BY WaveformsOverviewSize DEF WaveformsOverviewSize
<1>2. o \in Seq(Points) /\ Len(o) = OverviewSize BY <1>1, OverviewOf
<1> HIDE DEF o
<1>3. o # <<>> BY <1>1, <1>2, EmptySeq
<1>4. Overview(o, OverviewSize) = o BY <1>1, <1>2, <1>3, OverviewOf
<1> QED BY <1>4 DEF o

(* Setting waveforms, the given or the stored ones, keeps the invariant. *)
LEMMA SetWaveformsKeeps ==
  ASSUME WaveInv, NEW w1 \in Waves, NEW w2 \in Seq(Points), SetWaveforms(w1, w2),
         w2 = w1 \/ (w1 = high.points /\ w2 = over[2].points)
  PROVE  WaveInv'
<1>1. samples \in Nat /\ rate \in Nat BY SizesNat DEF WaveInv
<1>2. w1 \in Seq(Points) /\ <<>> \in Waves BY WaveSeqs
<1> DEFINE OverviewFor(w) == IF w = <<>> THEN Blank ELSE Scaled(w)
<1>3. Blank \in [all : Nat, points : Seq(Points)] /\ Len(Blank.points) = 0 /\ Blank.points = <<>>
  BY EmptySeq DEF Blank
<1>4. \A w \in {w1, w2} : /\ OverviewFor(w) \in [all : Nat, points : Seq(Points)]
                          /\ Len(OverviewFor(w).points) \in {0, OverviewSize}
                          /\ w # <<>> => OverviewFor(w).all = OverviewExtents(samples, rate).all
                          /\ OverviewFor(w).points # <<>> =>
                               w # <<>> /\ OverviewFor(w).points = Overview(w, OverviewSize)
  BY <1>2, <1>3, ScaledOverview
<1>5. over' = <<OverviewFor(w1), OverviewFor(w2)>> BY DEF SetWaveforms
<1>6. w1 = <<>> => OverviewFor(w1).points = <<>> BY <1>3
<1> HIDE DEF OverviewFor
<1>7. UNCHANGED <<samples, rate>> /\ late' = (samples = 0) /\ undefined' \in BOOLEAN
  BY DEF SetWaveforms
<1>8. /\ over' \in [1 .. 2 -> [all : Nat, points : Seq(Points)]]
      /\ over'[1] = OverviewFor(w1) /\ over'[2] = OverviewFor(w2)
  BY <1>4, <1>5
<1>9. /\ high' \in [entry : Nat, points : Waves]
      /\ high'.points # <<>> => high'.entry = IF Sizeless(samples, rate) THEN 0 ELSE Quantum(rate)
  BY <1>1, <1>2, Extents DEF SetWaveforms
<1>10. high'.points # <<>> => /\ late' => high'.entry = 0
                              /\ ~late' => high'.entry = Quantum(rate)
  BY <1>7, <1>9 DEF Sizeless
<1>11. over'[1].points # <<>> => over'[1].all = OverviewExtents(samples, rate).all
  BY <1>4, <1>6, <1>8
<1>12. \A e \in 1 .. 2 : Len(over'[e].points) \in {0, OverviewSize} BY <1>4, <1>8
<1>13. late' \in BOOLEAN BY <1>7
<1>14. ASSUME over'[2].points # <<>>
       PROVE  high'.points # <<>> /\ over'[2].points = Overview(high'.points, OverviewSize)
  <2>1. w2 # <<>> /\ over'[2].points = Overview(w2, OverviewSize) BY <1>4, <1>8, <1>14
  <2>2. high'.points = w1 BY DEF SetWaveforms
  <2>3. CASE w2 = w1 BY <2>1, <2>2, <2>3
  <2>4. CASE w1 = high.points /\ w2 = over[2].points
    <3>1. w1 # <<>> /\ w2 = Overview(w1, OverviewSize) BY <2>1, <2>4 DEF WaveInv
    <3>2. Overview(w2, OverviewSize) = w2 BY <1>2, <3>1, OverviewAgain
    <3> QED BY <2>1, <2>2, <3>1, <3>2
  <2> QED BY <2>3, <2>4
<1> QED BY <1>7, <1>8, <1>9, <1>10, <1>11, <1>12, <1>13, <1>14 DEF WaveInv

(* Every call on the waveform or the size of a track keeps it. *)
LEMMA WaveSteps == WaveInv /\ [WaveNext]_waveVars => WaveInv'
<1> SUFFICES ASSUME WaveInv, [WaveNext]_waveVars PROVE WaveInv' OBVIOUS
<1>1. samples \in Nat /\ rate \in Nat BY SizesNat DEF WaveInv
<1>2. ASSUME NEW n \in SampleCounts, SetSampleCount(n) PROVE WaveInv'
  <2>1. n \in Nat BY WaveformsSizes DEF WaveformsSizes
  <2>2. OverviewExtents(n, rate).all \in Nat BY <1>1, <2>1, Extents
  <2> DEFINE x == OverviewExtents(n, rate).all
  <2>3. samples' = n /\ UNCHANGED <<rate, high, late, undefined>> BY <1>2 DEF SetSampleCount
  <2>4. over' = IF over[1].points = <<>> THEN over ELSE [over EXCEPT ![1].all = x]
    BY <1>2 DEF SetSampleCount
  <2>5. OverviewExtents(samples', rate').all = x BY <2>3
  <2> HIDE DEF x
  <2>6. over'[2] = over[2] BY <2>4 DEF WaveInv
  <2> QED BY <2>2, <2>3, <2>4, <2>5, <2>6 DEF WaveInv, x
<1>3. ASSUME NEW r \in SampleRates, SetSampleRate(r) PROVE WaveInv'
  <2>1. r \in Nat BY WaveformsSizes DEF WaveformsSizes
  <2> DEFINE x == OverviewExtents(samples, r).all
             h == HighExtents(samples, r).entry
  <2>2. x \in Nat /\ h \in Nat /\ h = IF Sizeless(samples, r) THEN 0 ELSE Quantum(r)
    BY <1>1, <2>1, Extents
  <2>3. rate' = r /\ UNCHANGED <<samples, undefined>> /\ late' = (samples = 0)
    BY <1>3 DEF SetSampleRate
  <2>4. /\ over' = IF over[1].points = <<>> THEN over ELSE [over EXCEPT ![1].all = x]
        /\ high' = IF high.points = <<>> THEN high ELSE [high EXCEPT !.entry = h]
    BY <1>3 DEF SetSampleRate, Rescale
  <2>5. OverviewExtents(samples', rate').all = x BY <2>3
  <2>6. (late' => h = 0) /\ (~late' => h = Quantum(rate')) BY <2>2, <2>3 DEF Sizeless
  <2>7. late' \in BOOLEAN BY <2>3
  <2> HIDE DEF x, h
  <2>8. /\ over' \in [1 .. 2 -> [all : Nat, points : Seq(Points)]]
        /\ \A e \in 1 .. 2 : Len(over'[e].points) \in {0, OverviewSize}
        /\ over'[1].points # <<>> => over'[1].all = x
    BY <2>2, <2>4 DEF WaveInv, x
  <2>9. /\ high' \in [entry : Nat, points : Waves]
        /\ high'.points # <<>> => high'.entry = h
    BY <2>2, <2>4 DEF WaveInv, h
  <2>10. over'[2] = over[2] /\ high'.points = high.points BY <2>4 DEF WaveInv
  <2> QED BY <2>3, <2>5, <2>6, <2>7, <2>8, <2>9, <2>10 DEF WaveInv
<1>4. ASSUME NEW w \in Waves, SetWaveform(w) PROVE WaveInv'
  BY <1>4, WaveSeqs, SetWaveformsKeeps DEF SetWaveform
<1>5. CASE SetAgain
  <2>1. high.points \in Waves /\ over[2].points \in Seq(Points) BY DEF WaveInv
  <2> QED BY <1>5, <2>1, SetWaveformsKeeps DEF SetAgain
<1>6. CASE UNCHANGED waveVars BY <1>6 DEF WaveInv, waveVars
<1> QED BY <1>2, <1>3, <1>4, <1>5, <1>6 DEF WaveNext

(* What is set again settles: 2.x and 3.x make the overview that they had,  *)
(* and 1.x makes it of its waveform.                                        *)
LEMMA SetAgainSettles ==
  ASSUME WaveInv, SetAgain, ~Sizeless(samples, rate)
  PROVE  /\ over'[2].points = over[2].points
         /\ over[2].points # <<>> => over'[1].points = over[2].points
<1> DEFINE v == high.points
           w == over[2].points
<1>1. v \in Seq(Points) /\ w \in Seq(Points) BY WaveSeqs DEF WaveInv
<1>2. /\ over'[1] = IF v = <<>> THEN Blank ELSE Scaled(v)
      /\ over'[2] = IF w = <<>> THEN Blank ELSE Scaled(w)
  BY DEF SetAgain, SetWaveforms
<1>3. CASE w = <<>> BY <1>2, <1>3 DEF Blank
<1>4. CASE w # <<>>
  <2>1. v # <<>> /\ w = Overview(v, OverviewSize) BY <1>4 DEF WaveInv
  <2>2. Overview(w, OverviewSize) = w BY <1>1, <2>1, OverviewAgain
  <2>3. /\ Scaled(v).points = Overview(v, OverviewSize)
        /\ Scaled(w).points = Overview(w, OverviewSize)
    BY <1>1, <1>4, <2>1, ScaledOverview
  <2> QED BY <1>2, <1>4, <2>1, <2>2, <2>3
<1> QED BY <1>3, <1>4

(* A track begins without a waveform. *)
LEMMA WaveBegins == WaveInit \/ WaveAtRest => WaveInv
<1>1. SUFFICES ASSUME WaveInit \/ WaveAtRest PROVE WaveInv OBVIOUS
<1>2. samples \in SampleCounts /\ rate \in SampleRates
  BY <1>1, WaveformsSizes DEF WaveInit, WaveAtRest, WaveformsSizes
<1>3. /\ high = [entry |-> 0, points |-> <<>>] /\ over = <<Blank, Blank>>
      /\ late = FALSE /\ undefined = FALSE
  BY <1>1 DEF WaveInit, WaveAtRest
<1>4. <<>> \in Waves BY WaveSeqs
<1>5. Blank \in [all : Nat, points : Seq(Points)] /\ Blank.points = <<>> /\ Len(Blank.points) = 0
  BY EmptySeq DEF Blank
<1>6. /\ over \in [1 .. 2 -> [all : Nat, points : Seq(Points)]]
      /\ \A e \in 1 .. 2 : over[e] = Blank
  BY <1>3, <1>5
<1>7. high \in [entry : Nat, points : Waves] /\ high.points = <<>> BY <1>3, <1>4
<1> QED BY <1>2, <1>3, <1>5, <1>6, <1>7 DEF WaveInv

-----------------------------------------------------------------------------
(* Cues. *)

(* A blob as it is kept, and the slots that there may be of it.            *)
Row == [slots : Seq(Slot), main : Offsets \ {-1}]

FewOrAll(b) == Len(b.slots) \in {0} \cup MaxSlots .. MaxSlots + 1

(* The inductive invariant of the cues: EnginesAlike holds because the      *)
(* blobs of the two engines are the same, have all their slots, and hold    *)
(* nothing that is not of the common ground.                                *)
Same ==
  /\ \A e \in Engines : blob[e] = put
  /\ Len(put.slots) = MaxSlots
  /\ \A i \in 1 .. MaxSlots : Common(put.slots[i])
  /\ answer[1] = answer[2] /\ answer[1].end = "ok"

Answers == [end : {"ok", "refused", "undefined"}, slot : Slot]

CueInv ==
  /\ kind \in {"cue", "loop"} /\ fit \in BOOLEAN
  /\ blob \in [Engines -> Row] /\ put \in Row /\ answer \in [Engines -> Answers]
  /\ \A b \in {blob[1], blob[2], put} : FewOrAll(b)
  /\ Len(blob[2].slots) <= MaxSlots
  /\ StoresWhatItReads
  /\ fit => Same

(* There is a slot. *)
LEMMA SlotsNat == MaxSlots \in Nat /\ MaxSlots >= 1
  BY CuesMaxSlots DEF CuesMaxSlots

(* What an empty slot is. *)
LEMMA NoneIsSlot == None \in Slot /\ ~None.set /\ None.label # "long" /\ None.at = -1
  BY DEF None, Slot

(* A common slot can be stored by both, and is read by both as it is.      *)
LEMMA CommonSlot ==
  ASSUME NEW s \in Slot, Common(s)
  PROVE  /\ s.set => s.label # "" /\ s.label # "long" /\ s.at # -1
         /\ \A e \in Engines : Read(e, s) = s
<1>1. CASE s = None BY <1>1, NoneIsSlot DEF Read
<1>2. CASE s.label = "short" /\ s.at # -1 BY <1>2 DEF Read
<1> QED BY <1>1, <1>2 DEF Common

(* A slot is empty, or is set and has a label. *)
LEMMA SlotOf ==
  ASSUME NEW s \in Slot
  PROVE  s = None \/ (s.set /\ s.label \in Labels)
  BY DEF Slot

(* Padding keeps what is there and fills up with empty slots. *)
LEMMA PaddedSlots ==
  ASSUME NEW s \in Seq(Slot)
  PROVE  /\ Padded(s) \in Seq(Slot)
         /\ Len(Padded(s)) = IF Len(s) <= MaxSlots THEN MaxSlots ELSE Len(s)
         /\ \A i \in 1 .. Len(Padded(s)) : Padded(s)[i] = IF i <= Len(s) THEN s[i] ELSE None
<1> DEFINE n == IF Len(s) <= MaxSlots THEN MaxSlots - Len(s) ELSE 0
           t == [i \in 1 .. MaxSlots - Len(s) |-> None]
<1>1. Len(s) \in Nat /\ n \in Nat /\ 1 .. MaxSlots - Len(s) = 1 .. n
  BY LenProperties, SlotsNat
<1>2. t \in [1 .. n -> Slot] /\ \A i \in 1 .. n : t[i] = None BY <1>1, NoneIsSlot
<1>4. n = IF Len(s) <= MaxSlots THEN MaxSlots - Len(s) ELSE 0 OBVIOUS
<1>8. Padded(s) = s \o t BY DEF Padded
<1> HIDE DEF n, t
<1>3. t \in Seq(Slot) /\ Len(t) = n BY <1>1, <1>2, SeqDef
<1>5. /\ s \o t \in Seq(Slot) /\ Len(s \o t) = Len(s) + Len(t)
      /\ \A i \in 1 .. Len(s) + Len(t) : (s \o t)[i] = IF i <= Len(s) THEN s[i] ELSE t[i - Len(s)]
  BY <1>3, ConcatProperties
<1>6. ASSUME NEW i \in 1 .. Len(s) + Len(t), ~(i <= Len(s)) PROVE t[i - Len(s)] = None
  BY <1>1, <1>2, <1>3, <1>6
<1>7. Len(s) + Len(t) = IF Len(s) <= MaxSlots THEN MaxSlots ELSE Len(s)
  BY <1>1, <1>4, <1>3, SlotsNat
<1> QED BY <1>8, <1>5, <1>6, <1>7

(* What the calls are.                                                      *)
LEMMA CallsAre ==
  ASSUME NEW c \in Calls
  PROVE  /\ c.op \in {"ask", "set_at", "set_all", "set_main"}
         /\ c.op \in {"ask", "set_at"} => c.i \in -1 .. MaxSlots
         /\ c.op = "set_at" => c.slot \in Slot
         /\ c.op = "set_all" => c.slots \in Seq(Slot) /\ Len(c.slots) <= MaxSlots + 1
         /\ c.op = "set_main" => c.main \in Offsets \ {-1}
<1> DEFINE Lists == UNION {[1 .. n -> Slot] : n \in 0 .. MaxSlots + 1}
<1>1. ASSUME NEW s \in Lists PROVE s \in Seq(Slot) /\ Len(s) <= MaxSlots + 1
  <2>1. PICK n \in 0 .. MaxSlots + 1 : s \in [1 .. n -> Slot] OBVIOUS
  <2>2. n \in Nat /\ n <= MaxSlots + 1 BY SlotsNat
  <2> QED BY <2>1, <2>2, SeqDef
<1>2. CASE c \in [op : {"ask"}, i : -1 .. MaxSlots] BY <1>2
<1>3. CASE c \in [op : {"set_at"}, i : -1 .. MaxSlots, slot : Slot] BY <1>3
<1> HIDE DEF Lists
<1>4. CASE c \in [op : {"set_all"}, slots : Lists] BY <1>1, <1>4
<1>5. CASE c \in [op : {"set_main"}, main : Offsets \ {-1}] BY <1>5
<1>6. \/ c \in [op : {"ask"}, i : -1 .. MaxSlots]
      \/ c \in [op : {"set_at"}, i : -1 .. MaxSlots, slot : Slot]
      \/ c \in [op : {"set_all"}, slots : Lists]
      \/ c \in [op : {"set_main"}, main : Offsets \ {-1}]
  BY DEF Calls, Lists
<1> QED BY <1>2, <1>3, <1>4, <1>5, <1>6

(* A set of slots that 1.x reads as it is. *)
ReadableIn1(slots) ==
  \A i \in DOMAIN slots : slots[i].label # "long" /\ Read(1, slots[i]) = slots[i]

(* What may come of a call for engine e. *)
Proper(e, r) ==
  /\ r.blob \in Row /\ FewOrAll(r.blob) /\ r.answer \in Answers
  /\ e = 1 => ReadableIn1(r.blob.slots)
  /\ e = 2 => Len(r.blob.slots) <= MaxSlots

(* A blob that is of the right form may be left behind. *)
LEMMA LeavingProper ==
  ASSUME NEW e \in Engines, NEW end \in {"ok", "refused", "undefined"}, NEW b \in Row, FewOrAll(b),
         e = 1 => ReadableIn1(b.slots), e = 2 => Len(b.slots) <= MaxSlots
  PROVE  Proper(e, Leaving(end, b))
  BY NoneIsSlot DEF Proper, Leaving, Ended, Answers

(* The blobs are of the right form, so a call may leave them as they are. *)
LEMMA AsItIs ==
  ASSUME CueInv, NEW e \in Engines
  PROVE  /\ blob[e] \in Row /\ FewOrAll(blob[e]) /\ blob[e].slots \in Seq(Slot)
         /\ blob[e].main \in Offsets \ {-1}
         /\ e = 1 => ReadableIn1(blob[e].slots)
         /\ e = 2 => Len(blob[e].slots) <= MaxSlots
         /\ \A end \in {"ok", "refused", "undefined"} : Proper(e, Leaving(end, blob[e]))
<1>1. blob[e] \in Row /\ FewOrAll(blob[e]) BY DEF CueInv, Engines
<1>2. e = 1 => ReadableIn1(blob[e].slots) BY DEF CueInv, StoresWhatItReads, ReadableIn1
<1>3. e = 2 => Len(blob[e].slots) <= MaxSlots BY DEF CueInv
<1>4. blob[e].slots \in Seq(Slot) /\ blob[e].main \in Offsets \ {-1} BY <1>1 DEF Row
<1> QED BY <1>1, <1>2, <1>3, <1>4, LeavingProper

(* What is stored is of the right form if what is given is. *)
LEMMA StoredProper ==
  ASSUME CueInv, NEW e \in Engines, NEW s \in Seq(Slot), NEW main \in Offsets \ {-1},
         Len(s) \in {0} \cup MaxSlots .. MaxSlots + 1, e = 2 => Len(s) <= MaxSlots
  PROVE  Proper(e, Stored(e, s, main))
<1> DEFINE b == [slots |-> s, main |-> main]
<1>1. b \in Row /\ FewOrAll(b) /\ b.slots = s BY DEF Row, FewOrAll
<1> HIDE DEF b
<1>2. CASE e = 2
  <2>1. Stored(e, s, main) = Leaving("ok", b) BY <1>2 DEF Stored, b
  <2> QED BY <1>1, <1>2, <2>1, LeavingProper
<1>3. CASE e = 1
  <2>1. Stored(e, s, main) \in {Leaving("refused", blob[1]), Leaving("undefined", blob[1])}
        \/ (Stored(e, s, main) = Leaving("ok", b) /\ Accepted(s))
    BY <1>3 DEF Stored, Stored1, b
  <2>2. ASSUME Accepted(s) PROVE ReadableIn1(s)
    <3> SUFFICES ASSUME NEW i \in DOMAIN s PROVE s[i].label # "long" /\ Read(1, s[i]) = s[i]
      BY DEF ReadableIn1
    <3>1. s[i] \in Slot BY LenProperties, ElementOfSeq
    <3>2. s[i].set => s[i].label # "long" /\ s[i].at # -1 BY <2>2 DEF Accepted
    <3> QED BY <3>1, <3>2, SlotOf, NoneIsSlot DEF Read
  <2>3. Accepted(s) => Proper(1, Leaving("ok", b))
    BY <1>1, <2>2, LeavingProper DEF Engines
  <2>4. Proper(1, Leaving("refused", blob[1])) /\ Proper(1, Leaving("undefined", blob[1]))
    BY AsItIs DEF Engines
  <2> QED BY <1>3, <2>1, <2>3, <2>4
<1> QED BY <1>2, <1>3 DEF Engines

(* Whatever the call, what comes of it is proper. *)
LEMMA MadeProper ==
  ASSUME CueInv, NEW e \in Engines, NEW c \in Calls
  PROVE  Proper(e, Made(e, c))
<1>0. \A end \in {"ok", "refused", "undefined"} : Proper(e, Leaving(end, blob[e])) BY AsItIs
<1>1. CASE c.op \in {"ask", "set_at"} /\ (TurnedAway(e, c.i) \/ ~Has(e, c.i))
  <2>1. Made(e, c) \in {Leaving("refused", blob[e]), Leaving("undefined", blob[e])}
    BY <1>1 DEF Made
  <2> QED BY <1>0, <2>1
<1>2. CASE c.op \in {"ask", "set_at"} /\ ~TurnedAway(e, c.i) /\ Has(e, c.i)
  <2> DEFINE s == blob[e].slots
             n == c.i + 1
  <2>1. s \in Seq(Slot) /\ Len(s) \in Nat BY AsItIs, LenProperties
  <2>2. c.i \in -1 .. MaxSlots BY <1>2, CallsAre
  <2>3. n \in 1 .. Len(s) BY <1>2, <2>1, <2>2, SlotsNat DEF Has
  <2>4. s[n] \in Slot BY <2>1, <2>3, ElementOfSeq
  <2>5. CASE c.op = "ask"
    <3>1. Made(e, c) = [answer |-> Ended("ok", Read(e, s[n])), blob |-> blob[e]]
      BY <1>2, <2>5 DEF Made
    <3>2. Read(e, s[n]) \in Slot BY <2>4, NoneIsSlot DEF Read
    <3>3. Ended("ok", Read(e, s[n])) \in Answers BY <3>2 DEF Ended, Answers
    <3>4. Made(e, c).blob = blob[e] /\ Made(e, c).answer \in Answers BY <3>1, <3>3
    <3> QED BY <3>4, AsItIs DEF Proper
  <2>6. CASE c.op = "set_at"
    <3> DEFINE t == [s EXCEPT ![n] = c.slot]
    <3>1. Made(e, c) = Stored(e, t, blob[e].main) BY <1>2, <2>6 DEF Made
    <3>2. c.slot \in Slot BY <2>6, CallsAre
    <3>3. t \in Seq(Slot) /\ Len(t) = Len(s) BY <2>1, <2>3, <3>2, ExceptSeq
    <3> HIDE DEF t
    <3>4. Len(s) \in {0} \cup MaxSlots .. MaxSlots + 1 /\ (e = 2 => Len(s) <= MaxSlots)
      BY AsItIs DEF FewOrAll
    <3> QED BY <3>1, <3>3, <3>4, AsItIs, StoredProper
  <2> QED BY <1>2, <2>5, <2>6
<1>3. CASE c.op = "set_all"
  <2>1. c.slots \in Seq(Slot) /\ Len(c.slots) <= MaxSlots + 1 /\ Len(c.slots) \in Nat
    BY <1>3, CallsAre, LenProperties
  <2>2. CASE e = 2 /\ Len(c.slots) > MaxSlots
    <3>1. Made(e, c) = Leaving("refused", blob[e]) BY <1>3, <2>2 DEF Made
    <3> QED BY <1>0, <3>1
  <2>3. CASE ~(e = 2 /\ Len(c.slots) > MaxSlots)
    <3> DEFINE t == Padded(c.slots)
    <3>1. Made(e, c) = Stored(e, t, blob[e].main) BY <1>3, <2>3 DEF Made
    <3>2. t \in Seq(Slot) /\ Len(t) = IF Len(c.slots) <= MaxSlots THEN MaxSlots ELSE Len(c.slots)
      BY <2>1, PaddedSlots
    <3> HIDE DEF t
    <3>3. Len(t) \in {0} \cup MaxSlots .. MaxSlots + 1 /\ (e = 2 => Len(t) <= MaxSlots)
      BY <2>1, <2>3, <3>2, SlotsNat
    <3> QED BY <3>1, <3>2, <3>3, AsItIs, StoredProper
  <2> QED BY <2>2, <2>3
<1>4. CASE c.op = "set_main"
  <2>1. Made(e, c) = Stored(e, blob[e].slots, c.main) BY <1>4 DEF Made
  <2>2. c.main \in Offsets \ {-1} BY <1>4, CallsAre
  <2>3. /\ Len(blob[e].slots) \in {0} \cup MaxSlots .. MaxSlots + 1
        /\ e = 2 => Len(blob[e].slots) <= MaxSlots
    BY AsItIs DEF FewOrAll
  <2> QED BY <2>1, <2>2, <2>3, AsItIs, StoredProper
<1> QED BY <1>1, <1>2, <1>3, <1>4, CallsAre

(* On the common ground both engines make the same of a call, and it is what *)
(* the history says.                                                        *)
LEMMA StoredSame ==
  ASSUME CueInv, fit, NEW s \in Seq(Slot), Len(s) = MaxSlots,
         \A i \in 1 .. MaxSlots : Common(s[i]), NEW main
  PROVE  \A e \in Engines : Stored(e, s, main) = Leaving("ok", [slots |-> s, main |-> main])
<1> DEFINE b == [slots |-> s, main |-> main]
<1>1. ASSUME NEW i \in DOMAIN s
      PROVE  s[i].set => s[i].label # "" /\ s[i].label # "long" /\ s[i].at # -1
  <2>1. i \in 1 .. MaxSlots /\ s[i] \in Slot BY LenProperties, ElementOfSeq
  <2> QED BY <2>1, CommonSlot
<1>2. blob[1].slots # <<>>
  <2>1. Len(blob[1].slots) = MaxSlots BY DEF CueInv, Same, Engines
  <2> QED BY <2>1, EmptySeq, SlotsNat
<1>3. Encodable(s) /\ Accepted(s) BY <1>1, <1>2 DEF Encodable, Accepted
<1>4. ~Overruns(s) BY SlotsNat DEF Overruns
<1>5. Stored(1, s, main) = Leaving("ok", b) BY <1>3, <1>4 DEF Stored, Stored1
<1>6. Stored(2, s, main) = Leaving("ok", b) BY DEF Stored
<1> QED BY <1>5, <1>6 DEF Engines

LEMMA MadeSame ==
  ASSUME CueInv, fit, NEW c \in Calls, BothTake(c)
  PROVE  /\ \A e \in Engines : Made(e, c).blob = Putting(c)
         /\ Made(1, c).answer = Made(2, c).answer /\ Made(1, c).answer.end = "ok"
         /\ Putting(c) \in Row /\ Len(Putting(c).slots) = MaxSlots
         /\ \A i \in 1 .. MaxSlots : Common(Putting(c).slots[i])
<1> DEFINE s == put.slots
<1>1. /\ \A e \in Engines : blob[e] = put
      /\ put \in Row /\ s \in Seq(Slot) /\ Len(s) = MaxSlots /\ put.main \in Offsets \ {-1}
      /\ put = [slots |-> s, main |-> put.main]
      /\ \A i \in 1 .. MaxSlots : Common(s[i])
  BY DEF CueInv, Same, Row
<1> HIDE DEF s
<1>2. ASSUME NEW t \in Seq(Slot), Len(t) = MaxSlots, \A i \in 1 .. MaxSlots : Common(t[i]),
             NEW m \in Offsets \ {-1}, Putting(c) = [slots |-> t, main |-> m],
             \A e \in Engines : Made(e, c) = Stored(e, t, m)
      PROVE  /\ \A e \in Engines : Made(e, c).blob = Putting(c)
             /\ Made(1, c).answer = Made(2, c).answer /\ Made(1, c).answer.end = "ok"
             /\ Putting(c) \in Row /\ Len(Putting(c).slots) = MaxSlots
             /\ \A i \in 1 .. MaxSlots : Common(Putting(c).slots[i])
  <2>1. \A e \in Engines : Made(e, c) = Leaving("ok", Putting(c)) BY <1>2, StoredSame
  <2>2. Putting(c) \in Row /\ Len(Putting(c).slots) = MaxSlots /\ Putting(c).slots = t
    BY <1>2 DEF Row
  <2> QED BY <1>2, <2>1, <2>2 DEF Leaving, Ended, Engines
<1>3. ASSUME c.op \in {"ask", "set_at"}
      PROVE  /\ c.i + 1 \in 1 .. MaxSlots
             /\ \A e \in Engines : ~TurnedAway(e, c.i) /\ Has(e, c.i)
  <2>1. c.i \in 0 .. MaxSlots - 1 BY <1>3 DEF BothTake
  <2> QED BY <1>1, <2>1, SlotsNat DEF TurnedAway, Has
<1>4. CASE c.op = "ask"
  <2>1. Putting(c) = put BY <1>4 DEF Putting
  <2>2. \A e \in Engines : Made(e, c) = [answer |-> Ended("ok", Read(e, s[c.i + 1])), blob |-> put]
    BY <1>1, <1>3, <1>4 DEF Made, s
  <2>3. \A e \in Engines : Read(e, s[c.i + 1]) = s[c.i + 1]
    <3>1. s[c.i + 1] \in Slot /\ Common(s[c.i + 1]) BY <1>1, <1>3, <1>4, ElementOfSeq
    <3> QED BY <3>1, CommonSlot
  <2> QED BY <1>1, <2>1, <2>2, <2>3 DEF Ended, Engines, s
<1>5. CASE c.op = "set_at"
  <2> DEFINE t == [s EXCEPT ![c.i + 1] = c.slot]
  <2>1. c.slot \in Slot /\ Common(c.slot) BY <1>5, CallsAre DEF BothTake
  <2>2. c.i + 1 \in 1 .. Len(s) BY <1>1, <1>3, <1>5
  <2>3. /\ t \in Seq(Slot) /\ Len(t) = MaxSlots
        /\ \A j \in 1 .. MaxSlots : t[j] = IF j = c.i + 1 THEN c.slot ELSE s[j]
    BY <1>1, <2>1, <2>2, ExceptSeq
  <2>4. \A i \in 1 .. MaxSlots : Common(t[i]) BY <1>1, <2>1, <2>3
  <2>5. Putting(c) = [slots |-> t, main |-> put.main] BY <1>1, <1>5 DEF Putting, s
  <2>6. \A e \in Engines : Made(e, c) = Stored(e, t, put.main)
    BY <1>1, <1>3, <1>5 DEF Made, s
  <2> HIDE DEF t
  <2> QED BY <1>1, <1>2, <2>3, <2>4, <2>5, <2>6
<1>6. CASE c.op = "set_all"
  <2> DEFINE t == Padded(c.slots)
  <2>1. /\ c.slots \in Seq(Slot) /\ Len(c.slots) \in Nat /\ Len(c.slots) <= MaxSlots
        /\ \A i \in 1 .. Len(c.slots) : Common(c.slots[i])
    BY <1>6, CallsAre, LenProperties DEF BothTake
  <2>2. /\ t \in Seq(Slot) /\ Len(t) = MaxSlots
        /\ \A i \in 1 .. MaxSlots : t[i] = IF i <= Len(c.slots) THEN c.slots[i] ELSE None
    BY <2>1, PaddedSlots
  <2>3. \A i \in 1 .. MaxSlots : Common(t[i]) BY <2>1, <2>2 DEF Common
  <2>4. Putting(c) = [slots |-> t, main |-> put.main] BY <1>1, <1>6 DEF Putting
  <2>5. \A e \in Engines : Made(e, c) = Stored(e, t, put.main)
    BY <1>1, <1>6, <2>1, SlotsNat DEF Made
  <2> HIDE DEF t
  <2> QED BY <1>1, <1>2, <2>2, <2>3, <2>4, <2>5
<1>7. CASE c.op = "set_main"
  <2>1. c.main \in Offsets \ {-1} BY <1>7, CallsAre
  <2>2. Putting(c) = [slots |-> s, main |-> c.main] BY <1>1, <1>7 DEF Putting
  <2>3. \A e \in Engines : Made(e, c) = Stored(e, s, c.main) BY <1>1, <1>7 DEF Made, s
  <2> QED BY <1>1, <1>2, <2>1, <2>2, <2>3
<1> QED BY <1>4, <1>5, <1>6, <1>7, CallsAre

(* Every call on the cues or loops keeps their invariant. *)
LEMMA CueSteps == CueInv /\ [CueNext]_cueVars => CueInv'
<1> SUFFICES ASSUME CueInv, [CueNext]_cueVars PROVE CueInv' OBVIOUS
<1>1. ASSUME NEW c \in Calls,
             blob'   = [e \in Engines |-> Made(e, c).blob],
             answer' = [e \in Engines |-> Made(e, c).answer],
             fit' = (fit /\ BothTake(c)), put' = IF fit' THEN Putting(c) ELSE put,
             UNCHANGED kind
      PROVE  CueInv'
  <2>1. \A e \in Engines : Proper(e, Made(e, c)) BY MadeProper
  <2>2. \A e \in Engines : blob'[e] = Made(e, c).blob /\ answer'[e] = Made(e, c).answer
    BY <1>1
  <2>3. blob' \in [Engines -> Row] /\ answer' \in [Engines -> Answers]
    BY <1>1, <2>1 DEF Proper
  <2>4. /\ FewOrAll(blob'[1]) /\ FewOrAll(blob'[2]) /\ Len(blob'[2].slots) <= MaxSlots
        /\ ReadableIn1(blob'[1].slots)
    BY <2>1, <2>2 DEF Proper, Engines
  <2>5. StoresWhatItReads' BY <1>1, <2>4 DEF StoresWhatItReads, ReadableIn1, Read
  <2>6. kind' \in {"cue", "loop"} /\ fit' \in BOOLEAN BY <1>1 DEF CueInv
  <2>7. CASE fit'
    <3>1. fit /\ BothTake(c) /\ put' = Putting(c) BY <1>1, <2>7
    <3>2. Same' BY <2>2, <3>1, MadeSame DEF Same, Engines
    <3>3. put' \in Row /\ FewOrAll(put') BY <3>1, MadeSame, SlotsNat DEF FewOrAll
    <3> QED BY <2>3, <2>4, <2>5, <2>6, <3>2, <3>3 DEF CueInv, FewOrAll
  <2>8. CASE ~fit'
    <3>1. put' = put BY <1>1, <2>8
    <3>2. put' \in Row /\ FewOrAll(put') BY <3>1 DEF CueInv
    <3> QED BY <2>3, <2>4, <2>5, <2>6, <2>8, <3>2 DEF CueInv, FewOrAll
  <2> QED BY <2>7, <2>8
<1>2. CASE UNCHANGED cueVars
  BY <1>2 DEF cueVars, CueInv, FewOrAll, Same, StoresWhatItReads, Read
<1> QED BY <1>1, <1>2 DEF CueNext

(* The invariant of the cues says what the run checks. *)
LEMMA CueInvShows == CueInv => CueTypeOK /\ EnginesAlike /\ StoresWhatItReads
<1> SUFFICES ASSUME CueInv PROVE CueTypeOK /\ EnginesAlike BY DEF CueInv
<1>1. \A b \in {blob[1], blob[2], put} : b \in Row /\ FewOrAll(b) BY DEF CueInv, Engines
<1>2. \A b \in {blob[1], blob[2], put} :
        /\ \A i \in DOMAIN b.slots : b.slots[i] \in Slot
        /\ Len(b.slots) \in {0} \cup MaxSlots .. MaxSlots + 1
        /\ b.main \in Offsets \ {-1}
  BY <1>1, LenProperties, ElementOfSeq DEF Row, FewOrAll
<1>3. CueTypeOK BY <1>2 DEF CueInv, CueTypeOK, Answers
<1>4. ASSUME fit PROVE \A e \in Engines : Readings(e) = put.slots /\ blob[e].main = put.main
  <2> SUFFICES ASSUME NEW e \in Engines PROVE Readings(e) = put.slots /\ blob[e].main = put.main
    OBVIOUS
  <2>1. /\ blob[e] = put /\ put.slots \in Seq(Slot) /\ Len(put.slots) = MaxSlots
        /\ \A i \in 1 .. MaxSlots : Common(put.slots[i])
    BY <1>4 DEF CueInv, Same, Row
  <2>2. \A i \in 1 .. MaxSlots : Read(e, put.slots[i]) = put.slots[i]
    BY <2>1, ElementOfSeq, CommonSlot
  <2>3. /\ Readings(e) = [i \in 1 .. MaxSlots |-> put.slots[i]]
        /\ put.slots = [i \in 1 .. MaxSlots |-> put.slots[i]]
    BY <2>1, <2>2, LenProperties DEF Readings
  <2> QED BY <2>1, <2>3
<1>5. EnginesAlike BY <1>4 DEF CueInv, EnginesAlike, Same
<1> QED BY <1>3, <1>5

(* A track begins with empty slots, or without a row or blob. *)
LEMMA CuesBegin == CueInit \/ CuesAtRest => CueInv
<1>0. SUFFICES ASSUME CueInit \/ CuesAtRest PROVE CueInv OBVIOUS
<1>1. /\ kind \in {"cue", "loop"} /\ blob = [e \in Engines |-> put]
      /\ answer = [e \in Engines |-> Ended("ok", None)]
      /\ \E s \in {<<>>, Padded(<<>>)} :
           put = [slots |-> s, main |-> 0] /\ (fit = FALSE \/ fit = (s # <<>>))
  BY <1>0 DEF CueInit, CuesAtRest
<1>2. PICK s \in {<<>>, Padded(<<>>)} :
        put = [slots |-> s, main |-> 0] /\ (fit = FALSE \/ fit = (s # <<>>))
  BY <1>1
<1>3. <<>> \in Seq(Slot) /\ Len(<<>>) = 0 BY EmptySeq
<1>4. /\ s \in Seq(Slot) /\ Len(s) \in {0, MaxSlots}
      /\ \A i \in 1 .. Len(s) : s[i] = None
      /\ s # <<>> => Len(s) = MaxSlots
  <2> DEFINE nones == Padded(<<>>)
  <2>1. /\ nones \in Seq(Slot)
        /\ Len(nones) = IF Len(<<>>) <= MaxSlots THEN MaxSlots ELSE Len(<<>>)
        /\ \A i \in 1 .. Len(nones) : nones[i] = IF i <= Len(<<>>) THEN <<>>[i] ELSE None
    BY <1>3, PaddedSlots
  <2>2. s = <<>> \/ s = nones OBVIOUS
  <2> HIDE DEF nones
  <2>3. Len(nones) = MaxSlots /\ \A i \in 1 .. Len(nones) : nones[i] = None
    BY <1>3, <2>1, SlotsNat
  <2>4. CASE s = <<>> BY <1>3, <2>4
  <2>5. CASE s = nones BY <2>1, <2>3, <2>5
  <2> QED BY <2>2, <2>4, <2>5
<1>5. put \in Row /\ FewOrAll(put) /\ put.slots = s
  BY <1>2, <1>4, SlotsNat, CuesOffsets DEF Row, FewOrAll, CuesOffsets
<1>6. blob \in [Engines -> Row] /\ blob[1] = put /\ blob[2] = put BY <1>1, <1>5 DEF Engines
<1>7. /\ answer \in [Engines -> Answers]
      /\ answer[1] = Ended("ok", None) /\ answer[2] = Ended("ok", None)
  BY <1>1, NoneIsSlot DEF Engines, Answers, Ended
<1>8. StoresWhatItReads
  <2>1. \A i \in DOMAIN s : s[i] = None BY <1>4, LenProperties
  <2>2. None.label # "long" /\ Read(1, None) = None BY NoneIsSlot DEF Read
  <2> QED BY <1>5, <1>6, <2>1, <2>2 DEF StoresWhatItReads
<1>9. fit => Same
  <2>1. fit => Len(s) = MaxSlots BY <1>2, <1>4
  <2> QED BY <1>4, <1>5, <1>6, <1>7, <2>1 DEF Same, Engines, Common, Ended
<1>10. fit \in BOOLEAN BY <1>2
<1>11. Len(blob[2].slots) <= MaxSlots BY <1>4, <1>5, <1>6, SlotsNat
<1> QED BY <1>1, <1>5, <1>6, <1>7, <1>8, <1>9, <1>10, <1>11 DEF CueInv

-----------------------------------------------------------------------------
(* Beatgrids. *)

(* The number that Earliest chooses is the least. *)
LEMMA EarliestIs ==
  ASSUME NEW S \in SUBSET Nat, NEW x
  PROVE  /\ S = {} => Earliest(S, x) = x
         /\ S # {} => Earliest(S, x) \in S /\ \A i \in S : Earliest(S, x) <= i
<1>1. CASE S = {} BY <1>1 DEF Earliest
<1>2. CASE S # {}
  <2>1. \E i \in S : \A j \in S : i <= j BY <1>2, LeastOf
  <2> DEFINE e == CHOOSE i \in S : \A j \in S : i <= j
  <2>2. e \in S /\ \A j \in S : e <= j BY <2>1
  <2>3. Earliest(S, x) = e BY <1>2 DEF Earliest
  <2> QED BY <1>2, <2>2, <2>3
<1> QED BY <1>1, <1>2

(* The least of them is the one that no other precedes. *)
LEMMA EarliestFound ==
  ASSUME NEW S \in SUBSET Nat, NEW x, NEW i \in S, \A j \in S : i <= j
  PROVE  Earliest(S, x) = i
<1>1. Earliest(S, x) \in S /\ Earliest(S, x) <= i BY EarliestIs
<1>2. i <= Earliest(S, x) BY <1>1
<1>3. i \in Nat /\ Earliest(S, x) \in Nat BY <1>1
<1> QED BY <1>1, <1>2, <1>3

(* Markers have a number and an offset. *)
LEMMA MarkerOf ==
  ASSUME NEW g \in Seq(Marker)
  PROVE  /\ Len(g) \in Nat /\ DOMAIN g = 1 .. Len(g)
         /\ \A i \in 1 .. Len(g) : g[i] \in Marker /\ g[i].index \in Int /\ g[i].offset \in Int
<1>1. Len(g) \in Nat /\ DOMAIN g = 1 .. Len(g) BY LenProperties
<1>2. \A i \in 1 .. Len(g) : g[i] \in Marker BY ElementOfSeq
<1> QED BY <1>1, <1>2 DEF Marker

(* In a proper grid a later marker has more of both. *)
LEMMA Monotone ==
  ASSUME NEW g \in Seq(Marker), Increasing(g), NEW i \in 1 .. Len(g), NEW j \in 1 .. Len(g), i < j
  PROVE  g[i].index < g[j].index /\ g[i].offset < g[j].offset
<1> DEFINE Good(k) == g[i].index < g[k].index /\ g[i].offset < g[k].offset
           Bad == {k \in 1 .. Len(g) : i < k /\ ~Good(k)}
<1>1. SUFFICES ASSUME Bad # {} PROVE FALSE OBVIOUS
<1>2. Len(g) \in Nat /\ \A k \in 1 .. Len(g) : g[k].index \in Int /\ g[k].offset \in Int
  BY MarkerOf
<1>3. Bad \in SUBSET Nat BY <1>2
<1>4. PICK k \in Bad : \A l \in Bad : k <= l
  <2> HIDE DEF Bad
  <2> QED BY <1>1, <1>3, LeastOf
<1> DEFINE p == k - 1
<1>5. p \in 1 .. Len(g) - 1 /\ p + 1 = k /\ i <= p /\ p \notin Bad
  <2>1. k \in 1 .. Len(g) /\ i < k BY <1>4
  <2>2. p \notin Bad
    <3> HIDE DEF Bad
    <3>1. ~(k <= k - 1) BY <1>2, <2>1
    <3> QED BY <1>4, <3>1
  <2> QED BY <1>2, <2>1, <2>2
<1> HIDE DEF p
<1>6. g[p].index < g[k].index /\ g[p].offset < g[k].offset BY <1>5 DEF Increasing
<1>7. i = p \/ Good(p) BY <1>2, <1>5
<1>8. Good(k)
  <2>1. p \in 1 .. Len(g) /\ k \in 1 .. Len(g) BY <1>2, <1>4, <1>5
  <2> QED BY <1>2, <1>6, <1>7, <2>1
<1> QED BY <1>4, <1>8

(* The tempo of a segment is what its beats, times it, make its samples.    *)
LEMMA TempoIs ==
  ASSUME NEW g, NEW i, NEW t \in Int,
         g[i].index \in Int, g[i + 1].index \in Int, g[i].offset \in Int, g[i + 1].offset \in Int,
         g[i].index # g[i + 1].index,
         g[i + 1].offset - g[i].offset = (g[i + 1].index - g[i].index) * t
  PROVE  Tempo(g, i) = t
<1> DEFINE s == g[i + 1].offset - g[i].offset
           b == g[i + 1].index - g[i].index
<1>1. s \in Int /\ b \in Int /\ b # 0 /\ s = b * t
  <2>1. s = b * t OBVIOUS
  <2>2. \A x, y \in Int : x - y \in Int /\ (x - y = 0 => x = y) OBVIOUS
  <2>3. s \in Int /\ b \in Int /\ b # 0 BY <2>2, Zenon
  <2> QED BY <2>1, <2>3
<1>2. Tempo(g, i) = IF b > 0 THEN s \div b ELSE (-s) \div (-b) BY DEF Tempo
<1> HIDE DEF s, b
<1>3. CASE b > 0
  <2>1. s = b * t + 0 /\ b \in Nat BY <1>1, <1>3
  <2>2. s \div b = t BY <1>1, <1>3, <2>1, QuotientIs
  <2> QED BY <1>2, <1>3, <2>2
<1>4. CASE b < 0
  <2>1. -s = (-b) * t + 0 /\ -b \in Nat /\ -b > 0 /\ -s \in Int BY <1>1, <1>4
  <2>2. (-s) \div (-b) = t BY <1>1, <2>1, QuotientIs
  <2> QED BY <1>1, <1>2, <1>4, <2>2
<1> QED BY <1>1, <1>3, <1>4

(* The tempo of a segment with beats is a number. *)
LEMMA TempoInt ==
  ASSUME NEW g \in Seq(Marker), NEW i \in 1 .. Len(g) - 1, g[i].index # g[i + 1].index
  PROVE  Tempo(g, i) \in Int
<1> DEFINE s == g[i + 1].offset - g[i].offset
           b == g[i + 1].index - g[i].index
<1>1. s \in Int /\ b \in Int /\ b # 0
  <2>1. i \in 1 .. Len(g) /\ i + 1 \in 1 .. Len(g) BY MarkerOf
  <2> QED BY <2>1, MarkerOf
<1>2. Tempo(g, i) = IF b > 0 THEN s \div b ELSE (-s) \div (-b) BY DEF Tempo
<1> HIDE DEF s, b
<1> QED BY <1>1, <1>2, Division

(* The segments of a proper grid, and those of a part of a grid.            *)
LEMMA Segments ==
  ASSUME NEW g \in Seq(Marker), Increasing(g), Whole(g), NEW i \in 1 .. Len(g) - 1
  PROVE  /\ Tempo(g, i) \in Nat /\ Tempo(g, i) > 0
         /\ g[i + 1].offset - g[i].offset = (g[i + 1].index - g[i].index) * Tempo(g, i)
<1> DEFINE s == g[i + 1].offset - g[i].offset
           b == g[i + 1].index - g[i].index
           t == Tempo(g, i)
<1>1. g[i].index # g[i + 1].index /\ s \in Int /\ b \in Int /\ b > 0 /\ s > 0
  <2>1. i \in 1 .. Len(g) /\ i + 1 \in 1 .. Len(g) BY MarkerOf
  <2> QED BY <2>1, MarkerOf DEF Increasing
<1>2. t \in Int BY <1>1, TempoInt
<1>3. s = b * t BY <1>1 DEF Whole
<1> HIDE DEF s, b, t
<1>4. t > 0
  <2>1. SUFFICES ASSUME t <= 0 PROVE FALSE BY <1>2
  <2>2. b * t <= b * 0 BY <1>1, <1>2, <2>1, Products
  <2> QED BY <1>1, <1>3, <2>2
<1> QED BY <1>2, <1>3, <1>4 DEF s, b, t

(* A part of a grid has its tempos, and its segments if they are whole. *)
LEMMA PartOf ==
  ASSUME NEW g \in Seq(Marker), NEW a \in 1 .. Len(g), NEW z \in a .. Len(g)
  PROVE  LET h == SubSeq(g, a, z)
         IN  /\ h \in Seq(Marker) /\ Len(h) = z - a + 1
             /\ \A i \in 1 .. Len(h) : h[i] = g[a + i - 1]
             /\ \A i \in 1 .. Len(h) - 1 : Tempo(h, i) = Tempo(g, a + i - 1)
             /\ Whole(g) => Whole(h)
<1> DEFINE h == SubSeq(g, a, z)
<1>1. Len(g) \in Nat /\ a \in Nat /\ z \in Nat BY MarkerOf
<1>2. \A i \in a .. z : g[i] \in Marker BY <1>1, MarkerOf
<1>3. /\ h \in Seq(Marker) /\ Len(h) = z - a + 1
      /\ \A i \in 1 .. z - a + 1 : h[i] = g[a + i - 1]
  BY <1>1, <1>2, SubSeqProperties
<1> HIDE DEF h
<1>4. ASSUME NEW i \in 1 .. Len(h) - 1
      PROVE  /\ h[i] = g[a + i - 1] /\ h[i + 1] = g[(a + i - 1) + 1]
             /\ a + i - 1 \in 1 .. Len(g) - 1
  <2>1. i \in 1 .. z - a + 1 /\ i + 1 \in 1 .. z - a + 1 BY <1>1, <1>3
  <2>2. a + (i + 1) - 1 = (a + i - 1) + 1 BY <1>1, <2>1
  <2>3. h[i + 1] = g[a + (i + 1) - 1] BY <1>3, <2>1
  <2> QED BY <1>1, <1>3, <2>1, <2>2, <2>3
<1>5. \A i \in 1 .. Len(h) - 1 : Tempo(h, i) = Tempo(g, a + i - 1) BY <1>4 DEF Tempo
<1>6. ASSUME Whole(g) PROVE Whole(h)
  <2> SUFFICES ASSUME NEW i \in 1 .. Len(h) - 1, h[i + 1].index - h[i].index # 0
               PROVE  h[i + 1].offset - h[i].offset = (h[i + 1].index - h[i].index) * Tempo(h, i)
    BY DEF Whole
  <2> DEFINE p == a + i - 1
  <2>1. p \in 1 .. Len(g) - 1 /\ h[i] = g[p] /\ h[i + 1] = g[p + 1] /\ Tempo(h, i) = Tempo(g, p)
    BY <1>4, <1>5
  <2> HIDE DEF p
  <2> QED BY <1>6, <2>1 DEF Whole
<1> QED BY <1>3, <1>5, <1>6 DEF h

(* The inductive invariant of the grids: a segment stays on its line, also  *)
(* when its ends are moved.                                                 *)
GridInv ==
  /\ count \in Counts /\ grid \in Seq(Marker) /\ Whole(grid)
  /\ readable \in BOOLEAN /\ result \in {"ok", "invalid_argument", "undefined"}

(* A sample count is a number. *)
LEMMA CountNat == GridInv => count \in Nat
  BY BeatgridsCounts DEF GridInv, BeatgridsCounts

(* What is left of a grid when it is trimmed: from the last marker not after *)
(* the start of the track to the first one after its end, if there are any. *)
LEMMA TrimmedIs ==
  ASSUME GridInv, grid # <<>>
  PROVE  \E a \in 1 .. Len(grid), z \in 1 .. Len(grid) :
           /\ a <= z /\ Trimmed(grid) = SubSeq(grid, a, z)
           /\ \A i \in 1 .. z - 1 : grid[i].offset <= count
           /\ z = Len(grid) \/ grid[z].offset > count
           /\ a = 1 \/ grid[a].offset <= 0
<1> DEFINE n == Len(grid)
           Beyond == {i \in DOMAIN grid : grid[i].offset > count}
           z == Earliest(Beyond, n)
           t == SubSeq(grid, 1, z)
<1>1. grid \in Seq(Marker) /\ count \in Nat BY CountNat DEF GridInv
<1>2. n \in Nat /\ n >= 1 /\ DOMAIN grid = 1 .. n BY <1>1, MarkerOf, EmptySeq
<1>16. \A i \in 1 .. n : grid[i].offset \in Int BY <1>1, MarkerOf
<1>3. Beyond \in SUBSET Nat /\ \A i \in Beyond : i \in 1 .. n BY <1>2
<1>4. \A i \in 1 .. n : i \notin Beyond => grid[i].offset <= count BY <1>1, <1>2, <1>16
<1>5. \A i \in Beyond : grid[i].offset > count OBVIOUS
<1> HIDE DEF Beyond
<1>6. /\ Beyond = {} => z = n
      /\ Beyond # {} => z \in Beyond /\ \A i \in Beyond : z <= i
  BY <1>3, EarliestIs
<1>7. ToTheEnd(grid) = t BY DEF ToTheEnd, Beyond
<1> HIDE DEF n, z
<1>8. /\ z \in 1 .. n /\ (z = n \/ grid[z].offset > count)
      /\ \A i \in 1 .. z - 1 : grid[i].offset <= count
  <2>0. z \in 1 .. n
    <3>1. CASE Beyond = {} BY <1>2, <1>6, <3>1
    <3>2. CASE Beyond # {} BY <1>3, <1>6, <3>2
    <3> QED BY <3>1, <3>2
  <2>1. z \in 1 .. n /\ (z = n \/ grid[z].offset > count) BY <1>5, <1>6, <2>0
  <2>2. ASSUME NEW i \in 1 .. z - 1 PROVE grid[i].offset <= count
    <3>1. i \in 1 .. n /\ ~(z <= i) BY <1>2, <2>1
    <3>2. i \notin Beyond BY <1>6, <3>1
    <3> QED BY <1>4, <3>1, <3>2
  <2> QED BY <2>1, <2>2
<1>17. z \in Nat /\ z >= 1 /\ z \in 1 .. n /\ 1 \in 1 .. n BY <1>2, <1>8
<1>9. t \in Seq(Marker) /\ Len(t) = z /\ \A i \in 1 .. z : t[i] = grid[i]
  <2>1. 1 \in 1 .. Len(grid) /\ z \in 1 .. Len(grid) BY <1>17 DEF n
  <2> QED BY <1>1, <1>2, <1>8, <2>1, PartOf
<1> DEFINE In == {i \in DOMAIN t : t[i].offset > 0}
           m == Earliest(In, Len(t) + 1)
<1>10. In \in SUBSET Nat /\ (\A i \in In : i \in 1 .. z)
       /\ \A i \in 1 .. z : i \notin In => grid[i].offset <= 0
  <2>1. DOMAIN t = 1 .. z BY <1>9, LenProperties
  <2>2. ASSUME NEW i \in 1 .. z PROVE t[i] = grid[i] /\ grid[i].offset \in Int
    <3>1. i \in 1 .. n BY <1>2, <1>17
    <3> QED BY <1>9, <1>16, <3>1
  <2> HIDE DEF t
  <2>3. \A i \in In : i \in 1 .. z BY <2>1
  <2>4. In \in SUBSET Nat BY <1>17, <2>1
  <2>5. \A i \in 1 .. z : i \notin In => grid[i].offset <= 0 BY <2>1, <2>2
  <2> QED BY <2>3, <2>4, <2>5
<1>11. FromTheStart(t) = IF m = 1 THEN t ELSE SubSeq(t, m - 1, Len(t)) BY DEF FromTheStart
<1>12. Trimmed(grid) = FromTheStart(t) BY <1>7 DEF Trimmed
<1> HIDE DEF t, In
<1>13. /\ In = {} => m = z + 1
       /\ In # {} => m \in In /\ \A i \in In : m <= i
  BY <1>9, <1>10, EarliestIs
<1> HIDE DEF m
<1>14. CASE m = 1
  <2>1. Trimmed(grid) = SubSeq(grid, 1, z) BY <1>11, <1>12, <1>14 DEF t
  <2>2. 1 \in 1 .. Len(grid) /\ z \in 1 .. Len(grid) /\ 1 <= z BY <1>17 DEF n
  <2> QED BY <1>8, <2>1, <2>2 DEF n
<1>15. CASE m # 1
  <2> DEFINE a == m - 1
  <2>1. m \in 2 .. z + 1
    <3>1. CASE In = {} BY <1>17, <1>13, <3>1
    <3>2. CASE In # {}
      <4>1. m \in 1 .. z BY <1>10, <1>13, <3>2
      <4> QED BY <1>17, <1>15, <4>1
    <3> QED BY <3>1, <3>2
  <2>2. a \in 1 .. z /\ a \in 1 .. Len(grid) BY <1>17, <2>1 DEF n
  <2>3. grid[a].offset <= 0
    <3>1. a \notin In BY <1>17, <1>13, <2>1
    <3> QED BY <1>10, <2>2, <3>1
  <2>4. Trimmed(grid) = SubSeq(t, a, z) BY <1>9, <1>11, <1>12, <1>15
  <2>5. SubSeq(t, a, z) = SubSeq(grid, a, z)
    <3>1. 1 \in 1 .. Len(grid) /\ z \in 1 .. Len(grid) /\ a \in 1 .. z - 1 + 1 /\ z \in 1 .. z - 1 + 1
      BY <1>17, <2>2 DEF n
    <3>2. SubSeq(SubSeq(grid, 1, z), a, z) = SubSeq(grid, 1 + a - 1, 1 + z - 1)
      BY <1>1, <3>1, SubSeqOfSubSeq
    <3>3. 1 + a - 1 = a /\ 1 + z - 1 = z BY <1>17, <2>2
    <3> QED BY <3>2, <3>3 DEF t
  <2> HIDE DEF a
  <2>6. a <= z /\ z \in 1 .. Len(grid) BY <1>17, <2>2 DEF n
  <2> QED BY <1>8, <2>2, <2>3, <2>4, <2>5, <2>6 DEF n
<1> QED BY <1>14, <1>15

(* Two markers that are moved along their line are still on it. *)
LEMMA AlongTheLine ==
  ASSUME NEW i1 \in Int, NEW o1 \in Int, NEW i2 \in Int, NEW o2 \in Int,
         NEW t \in Int, NEW m \in Int, NEW n \in Int, o2 - o1 = (i2 - i1) * t
  PROVE  (o2 + n * t) - (o1 + m * t) = ((i2 + n) - (i1 + m)) * t
<1>1. ((i2 + n) - (i1 + m)) * t = (i2 - i1) * t + n * t - m * t OBVIOUS
<1>2. n * t \in Int /\ m * t \in Int /\ (i2 - i1) * t \in Int OBVIOUS
<1> QED BY <1>1, <1>2

(* Markers n beats further along a line of tempo t. *)
Moved(marker, n, t) == [index |-> marker.index + n, offset |-> marker.offset + n * t]

(* No beats further is no way. *)
LEMMA NotMoved ==
  ASSUME NEW x \in Marker, NEW t \in Int
  PROVE  Moved(x, 0, t) = x
  BY DEF Moved, Marker

(* Marker y lies on the line of tempo t through marker x. *)
OnLine(x, y, t) == y.offset - x.offset = (y.index - x.index) * t

(* Moved along their line, two markers are on it. *)
LEMMA LineMoved ==
  ASSUME NEW x \in Marker, NEW y \in Marker, NEW t \in Int, NEW m \in Int, NEW n \in Int,
         OnLine(x, y, t)
  PROVE  /\ Moved(x, m, t) \in Marker /\ Moved(y, n, t) \in Marker
         /\ OnLine(Moved(x, m, t), Moved(y, n, t), t)
<1> DEFINE i1 == x.index
           o1 == x.offset
           i2 == y.index
           o2 == y.offset
<1>1. i1 \in Int /\ o1 \in Int /\ i2 \in Int /\ o2 \in Int BY DEF Marker
<1>2. o2 - o1 = (i2 - i1) * t BY DEF OnLine
<1>3. /\ Moved(x, m, t) = [index |-> i1 + m, offset |-> o1 + m * t]
      /\ Moved(y, n, t) = [index |-> i2 + n, offset |-> o2 + n * t]
  BY DEF Moved
<1> HIDE DEF i1, o1, i2, o2
<1>4. i1 + m \in Int /\ o1 + m * t \in Int /\ i2 + n \in Int /\ o2 + n * t \in Int BY <1>1
<1>5. (o2 + n * t) - (o1 + m * t) = ((i2 + n) - (i1 + m)) * t BY <1>1, <1>2, AlongTheLine
<1>6. Moved(x, m, t) \in Marker /\ Moved(y, n, t) \in Marker BY <1>3, <1>4 DEF Marker
<1>7. OnLine(Moved(x, m, t), Moved(y, n, t), t) BY <1>3, <1>5 DEF OnLine
<1> QED BY <1>6, <1>7

(* A line through two markers with beats between them has their tempo. *)
LEMMA TempoOfLine ==
  ASSUME NEW g \in Seq(Marker), NEW i \in 1 .. Len(g) - 1, NEW t \in Int,
         OnLine(g[i], g[i + 1], t), g[i].index # g[i + 1].index
  PROVE  Tempo(g, i) = t
<1>1. /\ g[i].index \in Int /\ g[i + 1].index \in Int
      /\ g[i].offset \in Int /\ g[i + 1].offset \in Int
  <2>1. i \in 1 .. Len(g) /\ i + 1 \in 1 .. Len(g) BY MarkerOf
  <2> QED BY <2>1, MarkerOf
<1> QED BY <1>1, TempoIs DEF OnLine

(* A grid of whole segments is one whose markers lie on lines.              *)
LEMMA WholeIs ==
  ASSUME NEW g \in Seq(Marker)
  PROVE  Whole(g) <=> \A i \in 1 .. Len(g) - 1 :
           g[i].index # g[i + 1].index => OnLine(g[i], g[i + 1], Tempo(g, i))
<1>1. ASSUME NEW i \in 1 .. Len(g) - 1
      PROVE  g[i + 1].index - g[i].index # 0 <=> g[i].index # g[i + 1].index
  <2>1. i \in 1 .. Len(g) /\ i + 1 \in 1 .. Len(g) BY MarkerOf
  <2>2. g[i].index \in Int /\ g[i + 1].index \in Int BY <2>1, MarkerOf
  <2>3. \A x, y \in Int : x - y # 0 <=> y # x OBVIOUS
  <2> QED BY <2>2, <2>3
<1> QED BY <1>1 DEF Whole, OnLine

(* ceil. *)
LEMMA BeatsOnIs ==
  ASSUME NEW s \in Int, NEW t \in Int, t # 0
  PROVE  /\ BeatsOn(s, t) \in Int
         /\ t > 0 => s <= BeatsOn(s, t) * t /\ (BeatsOn(s, t) - 1) * t < s
<1>1. CASE t > 0
  <2> DEFINE d == (-s) \div t
             r == (-s) % t
  <2>1. t \in Nat /\ -s \in Int BY <1>1
  <2>2. d \in Int /\ -s = t * d + r /\ 0 <= r /\ r < t BY <1>1, <2>1, Division
  <2>3. r \in Int BY <1>1
  <2>4. BeatsOn(s, t) = -d BY <1>1 DEF BeatsOn
  <2> HIDE DEF d, r
  <2>5. (-d) * t = -(t * d) /\ (-d - 1) * t = -(t * d) - t /\ t * d \in Int BY <2>2
  <2> QED BY <2>1, <2>2, <2>3, <2>4, <2>5
<1>2. CASE t < 0
  <2>1. -t \in Nat /\ -t > 0 BY <1>2
  <2>2. s \div (-t) \in Int BY <2>1, Division
  <2>3. BeatsOn(s, t) = -(s \div (-t)) BY <1>2 DEF BeatsOn
  <2> QED BY <1>2, <2>2, <2>3
<1> QED BY <1>1, <1>2

(* h is grid g with its ends moved along the first segment and the last, as  *)
(* it is when g is what is left after trimming and h the normalised grid.   *)
EndsMoved(g, h, k, on) ==
  /\ g \in Seq(Marker) /\ Whole(g) /\ k = Len(g) /\ k \in Nat /\ k >= 2
  /\ g[1].index # g[2].index /\ g[k - 1].index # g[k].index
  /\ Tempo(g, 1) \in Int /\ Tempo(g, k - 1) \in Int /\ Tempo(g, k - 1) # 0
  /\ on \in Int /\ on = BeatsOn(count - g[k].offset, Tempo(g, k - 1))
  /\ h \in Seq(Marker) /\ Len(h) = k
  /\ \A i \in 2 .. k - 1 : h[i] = g[i]
  /\ h[1] = Moved(g[1], -4 - g[1].index, Tempo(g, 1))
  /\ h[k] = Moved(g[k], on, Tempo(g, k - 1))

(* Normalising moves the ends of what is trimmed, each along its line. *)
LEMMA NormalisedIs ==
  ASSUME GridInv, Normalise, result' = "ok", grid # <<>>,
         NEW g, g = Trimmed(grid), NEW k, k = Len(g), NEW on,
         on = BeatsOn(count - g[k].offset, Tempo(g, k - 1))
  PROVE  EndsMoved(g, grid', k, on)
<1> DEFINE h == FirstAtMinusFour(g)
           t == Tempo(g, 1)
           u == Tempo(g, k - 1)
<1>1. grid \in Seq(Marker) /\ Whole(grid) /\ count \in Nat BY CountNat DEF GridInv
<1>2. g \in Seq(Marker) /\ Whole(g)
  <2>1. PICK a \in 1 .. Len(grid), z \in 1 .. Len(grid) : a <= z /\ g = SubSeq(grid, a, z)
    BY TrimmedIs
  <2>2. z \in a .. Len(grid)
    <3>1. Len(grid) \in Nat BY <1>1, MarkerOf
    <3> QED BY <2>1, <3>1
  <2> QED BY <1>1, <2>1, <2>2, PartOf
<1>3. k >= 2 /\ Divisible(g) /\ grid' = LastPastTheEnd(h) BY DEF Normalise
<1>4. k \in Nat /\ \A i \in 1 .. k : g[i].index \in Int /\ g[i].offset \in Int BY <1>2, MarkerOf
<1>5. g[1].index # g[2].index BY <1>3 DEF Divisible
<1>6. t \in Int
  <2>1. 1 \in 1 .. Len(g) - 1 BY <1>3, <1>4
  <2> QED BY <1>2, <1>5, <2>1, TempoInt
<1> HIDE DEF t, u
<1>7. Moved(g[1], -4 - g[1].index, t) \in Marker
      /\ Moved(g[1], -4 - g[1].index, t)
           = [index |-> -4, offset |-> g[1].offset - (4 + g[1].index) * t]
  <2> DEFINE i1 == g[1].index
             o1 == g[1].offset
  <2>1. i1 \in Int /\ o1 \in Int BY <1>3, <1>4
  <2> HIDE DEF i1, o1
  <2>2. i1 + (-4 - i1) = -4 /\ o1 + (-4 - i1) * t = o1 - (4 + i1) * t
        /\ o1 + (-4 - i1) * t \in Int
    BY <1>6, <2>1
  <2> QED BY <2>2 DEF Moved, Marker, i1, o1
<1>8. /\ h \in Seq(Marker) /\ Len(h) = k
      /\ \A i \in 1 .. k : h[i] = IF i = 1 THEN Moved(g[1], -4 - g[1].index, t) ELSE g[i]
  <2>1. h = [g EXCEPT ![1] = Moved(g[1], -4 - g[1].index, t)] BY <1>7 DEF FirstAtMinusFour, t
  <2>2. 1 \in 1 .. Len(g) BY <1>3, <1>4
  <2> HIDE DEF h
  <2> QED BY <1>2, <1>7, <2>1, <2>2, ExceptSeq
<1> HIDE DEF h
<1>9. h[k].index # h[k - 1].index /\ Tempo(h, k - 1) # 0
  <2>1. LastOf(h).index # h[Len(h) - 1].index /\ Tempo(h, Len(h) - 1) # 0
    BY <1>3 DEF Divisible, h
  <2> QED BY <1>8, <2>1 DEF LastOf
<1>10. Tempo(h, k - 1) = u
  <2>1. CASE k = 2
    <3>1. /\ 1 \in 1 .. Len(g) - 1 /\ 1 \in 1 .. Len(h) - 1 /\ 1 + 1 = 2
          /\ g[1] \in Marker /\ g[2] \in Marker
      <4>1. Len(g) = 2 /\ Len(h) = 2 BY <1>8, <2>1
      <4>2. 1 \in 1 .. Len(g) /\ 2 \in 1 .. Len(g) BY <4>1
      <4> QED BY <1>2, <4>1, <4>2, ElementOfSeq
    <3>2. OnLine(g[1], g[2], t) BY <1>2, <1>5, <3>1, WholeIs DEF t
    <3>3. -4 - g[1].index \in Int /\ 0 \in Int BY <3>1 DEF Marker
    <3>4. OnLine(Moved(g[1], -4 - g[1].index, t), Moved(g[2], 0, t), t)
      BY <1>6, <3>1, <3>2, <3>3, LineMoved
    <3>5. h[1] = Moved(g[1], -4 - g[1].index, t) /\ h[2] = Moved(g[2], 0, t)
      BY <1>6, <1>8, <2>1, <3>1, NotMoved
    <3>6. h[1].index # h[2].index BY <1>9, <2>1
    <3>7. Tempo(h, 1) = t BY <1>6, <1>8, <3>1, <3>4, <3>5, <3>6, TempoOfLine
    <3> QED BY <2>1, <3>7 DEF t, u
  <2>2. CASE k > 2
    <3>1. k - 1 \in 2 .. k /\ k \in 2 .. k /\ k - 1 + 1 = k BY <1>4, <2>2
    <3>2. h[k - 1] = g[k - 1] /\ h[k] = g[k] BY <1>8, <3>1
    <3> QED BY <3>1, <3>2 DEF Tempo, u
  <2> QED BY <1>3, <1>4, <2>1, <2>2
<1>11. u \in Int /\ u # 0
  <2>1. k - 1 \in 1 .. Len(h) - 1 /\ k - 1 + 1 = k BY <1>3, <1>4, <1>8
  <2> QED BY <1>8, <1>9, <1>10, <2>1, TempoInt
<1>12. h[k].offset = g[k].offset /\ h[k] = g[k]
  <2>1. k \in 2 .. k BY <1>3, <1>4
  <2> QED BY <1>8, <2>1
<1>13. on \in Int
  <2>1. count - g[k].offset \in Int BY <1>1, <1>3, <1>4
  <2> QED BY <1>11, <2>1, BeatsOnIs DEF u
<1>14. Moved(g[k], on, u) \in Marker
  <2>1. g[k].index \in Int /\ g[k].offset \in Int BY <1>3, <1>4
  <2>2. on * u \in Int BY <1>11, <1>13
  <2> QED BY <1>13, <2>1, <2>2 DEF Moved, Marker
<1>15. grid' = [h EXCEPT ![k] = Moved(g[k], on, u)]
  <2>1. LastOf(h) = h[k] BY <1>8 DEF LastOf
  <2>2. k \in DOMAIN h BY <1>3, <1>4, <1>8, MarkerOf
  <2>3. LastPastTheEnd(h) = [h EXCEPT ![k] = [index |-> @.index + on, offset |-> @.offset + on * u]]
    BY <1>8, <1>10, <1>12, <2>1 DEF LastPastTheEnd, u
  <2> QED BY <1>3, <1>12, <2>2, <2>3 DEF Moved
<1>16. /\ grid' \in Seq(Marker) /\ Len(grid') = k
       /\ \A i \in 1 .. k : grid'[i] = IF i = k THEN Moved(g[k], on, u) ELSE h[i]
  <2>1. k \in 1 .. Len(h) BY <1>3, <1>4, <1>8
  <2> QED BY <1>8, <1>14, <1>15, <2>1, ExceptSeq
<1>17. \A i \in 2 .. k - 1 : grid'[i] = g[i]
  <2> SUFFICES ASSUME NEW i \in 2 .. k - 1 PROVE grid'[i] = g[i] OBVIOUS
  <2>1. i \in 1 .. k /\ i # 1 /\ i # k BY <1>4
  <2> QED BY <1>8, <1>16, <2>1
<1>18. grid'[1] = Moved(g[1], -4 - g[1].index, t) /\ grid'[k] = Moved(g[k], on, u)
  <2>1. 1 \in 1 .. k /\ k \in 1 .. k /\ 1 # k BY <1>3, <1>4
  <2> QED BY <1>8, <1>16, <2>1
<1>19. g[k - 1].index # g[k].index
  <2>1. CASE k = 2 BY <1>5, <2>1
  <2>2. CASE k > 2
    <3>1. k - 1 \in 2 .. k BY <1>4, <2>2
    <3>2. h[k - 1] = g[k - 1] BY <1>8, <3>1
    <3> QED BY <1>9, <1>12, <3>2
  <2> QED BY <1>3, <1>4, <2>1, <2>2
<1> QED BY <1>2, <1>3, <1>4, <1>5, <1>6, <1>11, <1>13, <1>16, <1>17, <1>18, <1>19
        DEF EndsMoved, t, u

(* The segments stay on their lines, so they keep their tempos. *)
LEMMA LinesStay ==
  ASSUME NEW g, NEW h, NEW k, NEW on, EndsMoved(g, h, k, on)
  PROVE  /\ Whole(h)
         /\ \A i \in 1 .. k - 1 :
              /\ g[i].index # g[i + 1].index => OnLine(h[i], h[i + 1], Tempo(g, i))
              /\ h[i].index # h[i + 1].index =>
                   OnLine(h[i], h[i + 1], Tempo(g, i)) /\ Tempo(h, i) = Tempo(g, i)
<1>1. /\ g \in Seq(Marker) /\ Whole(g) /\ k = Len(g) /\ k \in Nat /\ k >= 2
      /\ h \in Seq(Marker) /\ Len(h) = k /\ on \in Int
  BY DEF EndsMoved
<1>2. ASSUME NEW i \in 1 .. k - 1, h[i].index # h[i + 1].index \/ g[i].index # g[i + 1].index
      PROVE  /\ OnLine(h[i], h[i + 1], Tempo(g, i))
             /\ h[i].index # h[i + 1].index => Tempo(h, i) = Tempo(g, i)
  <2> DEFINE j == i + 1
             t == Tempo(g, i)
  <2>1. i \in 1 .. k /\ j \in 1 .. k /\ (i = 1 \/ i \in 2 .. k - 1) /\ (j = k \/ j \in 2 .. k - 1)
        /\ (j = k => i = k - 1)
    BY <1>1
  <2>2. g[i] \in Marker /\ g[j] \in Marker BY <1>1, <2>1, ElementOfSeq
  <2>3. g[i].index # g[j].index
    <3>1. CASE i = 1 BY <3>1 DEF EndsMoved
    <3>2. CASE j = k BY <2>1, <3>2 DEF EndsMoved
    <3>3. CASE i \in 2 .. k - 1 /\ j \in 2 .. k - 1
      <4>1. h[i] = g[i] /\ h[j] = g[j] BY <3>3 DEF EndsMoved
      <4> QED BY <1>2, <4>1
    <3> QED BY <2>1, <3>1, <3>2, <3>3
  <2>4. t \in Int /\ OnLine(g[i], g[j], t)
    <3>1. i \in 1 .. Len(g) - 1 BY <1>1
    <3> QED BY <1>1, <2>3, <3>1, TempoInt, WholeIs
  <2> HIDE DEF j, t
  <2>5. \E m \in Int : h[i] = Moved(g[i], m, t)
    <3>1. CASE i = 1
      <4>1. -4 - g[1].index \in Int BY <2>2, <3>1 DEF Marker
      <4>2. h[i] = Moved(g[i], -4 - g[1].index, t) BY <3>1 DEF EndsMoved, t
      <4> QED BY <4>1, <4>2
    <3>2. CASE i \in 2 .. k - 1
      <4>1. h[i] = g[i] BY <3>2 DEF EndsMoved
      <4>2. g[i] = Moved(g[i], 0, t) BY <2>2, <2>4, NotMoved
      <4> QED BY <4>1, <4>2
    <3> QED BY <2>1, <3>1, <3>2
  <2>6. \E n \in Int : h[j] = Moved(g[j], n, t)
    <3>1. CASE j = k
      <4>1. h[j] = Moved(g[j], on, t) BY <2>1, <3>1 DEF EndsMoved, t
      <4> QED BY <1>1, <4>1
    <3>2. CASE j \in 2 .. k - 1
      <4>1. h[j] = g[j] BY <3>2 DEF EndsMoved
      <4>2. g[j] = Moved(g[j], 0, t) BY <2>2, <2>4, NotMoved
      <4> QED BY <4>1, <4>2
    <3> QED BY <2>1, <3>1, <3>2
  <2>7. PICK m \in Int, n \in Int : h[i] = Moved(g[i], m, t) /\ h[j] = Moved(g[j], n, t)
    BY <2>5, <2>6
  <2>8. OnLine(h[i], h[j], t)
    <3>1. OnLine(Moved(g[i], m, t), Moved(g[j], n, t), t) BY <2>2, <2>4, LineMoved
    <3> QED BY <2>7, <3>1
  <2>9. h[i].index # h[i + 1].index => Tempo(h, i) = t
    <3>1. i \in 1 .. Len(h) - 1 BY <1>1
    <3> QED BY <1>1, <2>4, <2>8, <3>1, TempoOfLine DEF j
  <2> QED BY <2>8, <2>9 DEF j, t
<1>3. Whole(h)
  <2>1. \A i \in 1 .. k - 1 : h[i].index # h[i + 1].index => OnLine(h[i], h[i + 1], Tempo(h, i))
    BY <1>2
  <2> QED BY <1>1, <2>1, WholeIs
<1> QED BY <1>2, <1>3

(* A stored grid has the markers it was made of, and 1.x reads it if they *)
(* are none, or proper and not too many.                                   *)
LEMMA EncodedBack ==
  ASSUME NEW g \in Seq(Marker)
  PROVE  /\ Markers(Encoded(g)) = g
         /\ Decodes1(Encoded(g)) <=> g = <<>> \/ (Increasing(g) /\ Len(g) <= MaxMarkers)
<1> DEFINE s == Encoded(g)
           n == Len(g)
<1>1. n \in Nat /\ DOMAIN g = 1 .. n /\ \A i \in 1 .. n : g[i] \in Marker
  BY MarkerOf
<1>2. /\ s = [i \in 1 .. n |-> s[i]] /\ DOMAIN s = 1 .. n
      /\ \A i \in 1 .. n :
           /\ s[i].index = g[i].index /\ s[i].offset = g[i].offset
           /\ s[i].beats = IF i < n THEN g[i + 1].index - g[i].index ELSE 0
  BY <1>1 DEF Encoded
<1>3. Len(s) = n
  <2>1. s \in [1 .. n -> {s[i] : i \in 1 .. n}] BY <1>2
  <2> HIDE DEF s
  <2>2. s \in Seq({s[i] : i \in 1 .. n}) BY <1>1, <2>1, SeqDef
  <2> QED BY <1>1, <1>2, <2>2, LenProperties
<1>4. Markers(s) = g
  <2>1. Markers(s) = [i \in 1 .. n |-> [index |-> g[i].index, offset |-> g[i].offset]]
    BY <1>2 DEF Markers
  <2>2. \A i \in 1 .. n : [index |-> g[i].index, offset |-> g[i].offset] = g[i]
    BY <1>1 DEF Marker
  <2>3. g = [i \in 1 .. n |-> g[i]] BY <1>1, LenProperties
  <2> QED BY <2>1, <2>2, <2>3
<1> HIDE DEF s
<1>5. s = <<>> <=> g = <<>>
  <2>1. s = <<>> => n = 0 BY <1>3
  <2>2. n = 0 => g = <<>> BY EmptySeq
  <2>3. ASSUME g = <<>> PROVE s = <<>>
    <3>1. n = 0 BY <2>3
    <3>2. s = [i \in 1 .. 0 |-> s[i]] BY <1>2, <3>1
    <3> QED BY <3>2
  <2> QED BY <2>1, <2>2, <2>3
<1>6. Increasing(s) <=> Increasing(g)
  <2>1. ASSUME NEW i \in 1 .. n - 1 PROVE i \in 1 .. n /\ i + 1 \in 1 .. n BY <1>1
  <2> QED BY <1>2, <1>3, <2>1 DEF Increasing
<1>7. \A i \in 1 .. n - 1 : s[i + 1].index - s[i].index = s[i].beats
  <2> SUFFICES ASSUME NEW i \in 1 .. n - 1 PROVE s[i + 1].index - s[i].index = s[i].beats
    OBVIOUS
  <2>1. i \in 1 .. n /\ i + 1 \in 1 .. n /\ i < n BY <1>1
  <2> QED BY <1>2, <2>1
<1>8. n >= 2 => LastOf(s).beats = 0
  <2>1. n >= 2 => n \in 1 .. n /\ ~(n < n) BY <1>1
  <2> QED BY <1>2, <1>3, <2>1 DEF LastOf
<1>9. Increasing(s) => n >= 2 BY <1>3 DEF Increasing
<1> QED BY <1>3, <1>4, <1>5, <1>6, <1>7, <1>8, <1>9 DEF Decodes1, s

(* Nothing is left of nothing. *)
LEMMA EmptyTrimmed == grid = <<>> => Trimmed(grid) = <<>>
<1> SUFFICES ASSUME grid = <<>> PROVE Trimmed(<<>>) = <<>> OBVIOUS
<1>1. DOMAIN <<>> = {} /\ Len(<<>>) = 0 OBVIOUS
<1>2. \A x : Earliest({}, x) = x BY EarliestIs
<1>3. ToTheEnd(<<>>) = <<>>
  <2>1. {i \in DOMAIN <<>> : <<>>[i].offset > count} = {} BY <1>1
  <2>2. ToTheEnd(<<>>) = SubSeq(<<>>, 1, 0) BY <1>1, <1>2, <2>1 DEF ToTheEnd
  <2> QED BY <2>2, SubSeqEmpty
<1>4. FromTheStart(<<>>) = <<>>
  <2>1. {i \in DOMAIN <<>> : <<>>[i].offset > 0} = {} BY <1>1
  <2>2. Earliest({}, Len(<<>>) + 1) = 1 BY <1>1, <1>2
  <2> QED BY <2>1, <2>2 DEF FromTheStart
<1> QED BY <1>3, <1>4 DEF Trimmed

(* Every call on the beatgrid keeps its invariant. *)
LEMMA GridSteps == GridInv /\ [GridNext]_gridVars => GridInv'
<1> SUFFICES ASSUME GridInv, [GridNext]_gridVars PROVE GridInv' OBVIOUS
<1>1. /\ count \in Counts /\ grid \in Seq(Marker) /\ Whole(grid)
      /\ readable \in BOOLEAN /\ result \in {"ok", "invalid_argument", "undefined"}
  BY DEF GridInv
<1>2. Markers(Encoded(grid)) = grid BY <1>1, EncodedBack
<1>3. CASE Normalise
  <2>1. UNCHANGED <<count, readable>> /\ result' \in {"ok", "invalid_argument", "undefined"}
    BY <1>3 DEF Normalise
  <2>2. grid' = grid \/ (grid # <<>> /\ result' = "ok")
    <3>1. Len(Trimmed(grid)) >= 2 => grid # <<>> BY EmptyTrimmed, EmptySeq
    <3> QED BY <1>3, <3>1 DEF Normalise
  <2>3. ASSUME grid # <<>>, result' = "ok" PROVE grid' \in Seq(Marker) /\ Whole(grid')
    <3> DEFINE g == Trimmed(grid)
               k == Len(g)
               on == BeatsOn(count - g[k].offset, Tempo(g, k - 1))
    <3>1. EndsMoved(g, grid', k, on) BY <1>3, <2>3, NormalisedIs
    <3> HIDE DEF g, k, on
    <3> QED BY <3>1, LinesStay DEF EndsMoved
  <2>4. grid' \in Seq(Marker) /\ Whole(grid')
    <3>1. grid' = grid => grid' \in Seq(Marker) /\ Whole(grid') BY <1>1 DEF Whole, Tempo
    <3> QED BY <2>2, <2>3, <3>1
  <2> QED BY <1>1, <2>1, <2>4 DEF GridInv
<1>4. ASSUME UNCHANGED grid, count' \in Counts, readable' \in BOOLEAN,
             result' \in {"ok", "invalid_argument", "undefined"}
      PROVE  GridInv'
  BY <1>1, <1>4 DEF GridInv, Whole, Tempo
<1>5. CASE Snapshot1
  <2>1. readable' \in BOOLEAN BY <1>5 DEF Snapshot1, Decodes1
  <2>2. UNCHANGED <<count, grid>> /\ result' \in {"ok", "invalid_argument", "undefined"}
    BY <1>2, <1>5 DEF Snapshot1
  <2> QED BY <1>1, <1>4, <2>1, <2>2
<1>6. CASE Set1
  <2>1. UNCHANGED <<count, grid, readable>> /\ result' \in {"ok", "invalid_argument", "undefined"}
    BY <1>2, <1>6 DEF Set1
  <2> QED BY <1>1, <1>4, <2>1
<1>7. CASE Keep2
  <2>1. UNCHANGED <<count, grid, readable>> /\ result' = "ok" BY <1>2, <1>7 DEF Keep2
  <2> QED BY <1>1, <1>4, <2>1
<1>8. CASE Measure BY <1>1, <1>4, <1>8 DEF Measure
<1>9. CASE UNCHANGED gridVars BY <1>1, <1>4, <1>9 DEF gridVars
<1> QED BY <1>3, <1>5, <1>6, <1>7, <1>8, <1>9 DEF GridNext

(* A grid in hand begins as one of Grids, or none. *)
LEMMA GridsBegin == GridInit \/ GridAtRest => GridInv
<1>1. SUFFICES ASSUME GridInit \/ GridAtRest PROVE GridInv OBVIOUS
<1>2. CASE GridInit
  BY <1>2, BeatgridsGrids DEF GridInit, GridInv, BeatgridsGrids
<1>3. CASE GridAtRest
  <2>1. count \in Counts BY <1>3, BeatgridsCounts DEF GridAtRest, BeatgridsCounts
  <2>2. grid \in Seq(Marker) /\ Len(grid) = 0 BY <1>3, EmptySeq DEF GridAtRest
  <2> QED BY <1>3, <2>1, <2>2 DEF GridAtRest, GridInv, Whole
<1> QED BY <1>1, <1>2, <1>3

(* Storing and reading back. *)
LEMMA ReadingBack ==
  ASSUME GridInv, [GridNext]_gridVars
  PROVE  /\ Increasing(grid) /\ (Keep2 \/ (Len(grid) <= MaxMarkers /\ (Snapshot1 \/ (readable /\ Set1)))) =>
              grid' = grid /\ result' = "ok"
         /\ readable # readable' => Snapshot1
         /\ readable /\ ~readable' =>
              grid # <<>> /\ (~Increasing(grid) \/ Len(grid) > MaxMarkers)
<1>1. grid \in Seq(Marker) /\ readable \in BOOLEAN BY DEF GridInv
<1>2. /\ Markers(Encoded(grid)) = grid
      /\ Decodes1(Encoded(grid)) <=> grid = <<>> \/ (Increasing(grid) /\ Len(grid) <= MaxMarkers)
  BY <1>1, EncodedBack
<1>3. readable # readable' => Snapshot1
  BY DEF gridVars, GridNext, Normalise, Set1, Keep2, Measure
<1>4. readable /\ ~readable' =>
        grid # <<>> /\ (~Increasing(grid) \/ Len(grid) > MaxMarkers)
  <2>1. Len(grid) \in Nat /\ MaxMarkers \in Nat
    BY <1>1, BeatgridsMaxMarkers DEF BeatgridsMaxMarkers
  <2>2. ~(Len(grid) <= MaxMarkers) => Len(grid) > MaxMarkers BY <2>1
  <2> QED BY <1>2, <1>3, <2>2 DEF Snapshot1
<1>5. Increasing(grid) /\ (Keep2 \/ (Len(grid) <= MaxMarkers /\ (Snapshot1 \/ (readable /\ Set1)))) =>
        grid' = grid /\ result' = "ok"
  BY <1>2 DEF Snapshot1, Keep2, Set1
<1> QED BY <1>3, <1>4, <1>5

-----------------------------------------------------------------------------
(* Where the beats lie. *)

(* Beat b on the line of segment i. *)
At(g, i, b) == g[i].offset + (b - g[i].index) * Tempo(g, i)

(* Segment i is the one that beat b is looked for in. *)
SegmentOf(g, i, b) ==
  /\ i \in 1 .. Len(g) - 1
  /\ i = Len(g) - 1 \/ b < g[i + 1].index
  /\ \A j \in 1 .. i - 1 : g[j + 1].index <= b

(* The segment that a beat is in tells where it lies. *)
LEMMA BeatIn ==
  ASSUME NEW g \in Seq(Marker), NEW i \in Int, NEW b \in Int, SegmentOf(g, i, b)
  PROVE  BeatAt(g, b) = At(g, i, b)
<1> DEFINE S == {j \in 1 .. Len(g) - 2 : b < g[j + 1].index}
           n == Len(g)
<1>1. n \in Nat /\ i \in 1 .. n - 1 BY MarkerOf DEF SegmentOf
<1>2. S \in SUBSET Nat /\ \A j \in S : j \in 1 .. n - 2 BY <1>1
<1>3. ASSUME NEW j \in S PROVE i <= j
  <2>1. SUFFICES ASSUME j < i PROVE FALSE BY <1>1, <1>2
  <2>2. j \in 1 .. i - 1 /\ j + 1 \in 1 .. n BY <1>1, <1>2, <2>1
  <2>3. g[j + 1].index \in Int BY <2>2, MarkerOf
  <2>4. b < g[j + 1].index /\ g[j + 1].index <= b BY <2>2 DEF SegmentOf
  <2> QED BY <2>3, <2>4
<1>4. Earliest(S, n - 1) = i
  <2>1. CASE S = {}
    <3>1. i = n - 1
      <4>1. SUFFICES ASSUME i # n - 1 PROVE FALSE OBVIOUS
      <4>2. b < g[i + 1].index /\ i \in 1 .. Len(g) - 2 BY <1>1, <4>1 DEF SegmentOf
      <4> QED BY <2>1, <4>2
    <3> HIDE DEF S
    <3> QED BY <2>1, <3>1, EarliestIs
  <2>2. CASE S # {}
    <3>1. i # n - 1
      <4>1. PICK j \in S : TRUE BY <2>2
      <4> QED BY <1>1, <1>2, <1>3, <4>1
    <3>2. i \in S BY <1>1, <3>1 DEF SegmentOf
    <3> HIDE DEF S
    <3> QED BY <1>2, <1>3, <3>2, EarliestFound
  <2> QED BY <2>1, <2>2
<1> QED BY <1>4 DEF BeatAt, At

(* Every beat has a segment in which it is looked for. *)
LEMMA BeatSegment ==
  ASSUME NEW g \in Seq(Marker), Len(g) >= 2, NEW b \in Int
  PROVE  \E i \in Int : SegmentOf(g, i, b) /\ BeatAt(g, b) = At(g, i, b)
<1> DEFINE S == {j \in 1 .. Len(g) - 2 : b < g[j + 1].index}
           n == Len(g)
           i == Earliest(S, n - 1)
<1>1. n \in Nat /\ n >= 2 BY MarkerOf
<1>2. S \in SUBSET Nat /\ \A j \in S : j \in 1 .. n - 2 /\ b < g[j + 1].index BY <1>1
<1>3. ASSUME NEW j \in 1 .. n - 2, j \notin S PROVE g[j + 1].index <= b
  <2>1. j + 1 \in 1 .. n BY <1>1
  <2>2. g[j + 1].index \in Int BY <2>1, MarkerOf
  <2>3. ~(b < g[j + 1].index) BY <1>3
  <2> QED BY <2>2, <2>3
<1> HIDE DEF S
<1>4. CASE S = {}
  <2>1. i = n - 1 BY <1>4, EarliestIs
  <2>2. \A j \in 1 .. i - 1 : j \in 1 .. n - 2 BY <1>1, <2>1
  <2>3. SegmentOf(g, i, b) BY <1>1, <1>3, <1>4, <2>1, <2>2 DEF SegmentOf
  <2>4. i \in Int BY <1>1, <2>1
  <2> QED BY <2>3, <2>4, BeatIn
<1>5. CASE S # {}
  <2>1. i \in S /\ \A j \in S : i <= j BY <1>2, <1>5, EarliestIs
  <2>2. i \in 1 .. n - 2 /\ b < g[i + 1].index BY <1>2, <2>1
  <2> HIDE DEF i
  <2>3. ASSUME NEW j \in 1 .. i - 1 PROVE g[j + 1].index <= b
    <3>1. j \in 1 .. n - 2 /\ ~(i <= j) BY <1>1, <2>2
    <3> QED BY <1>3, <2>1, <3>1
  <2>4. i \in 1 .. n - 1 BY <1>1, <2>2
  <2>5. SegmentOf(g, i, b) BY <2>2, <2>3, <2>4 DEF SegmentOf
  <2>6. i \in Int BY <2>2
  <2> QED BY <2>5, <2>6, BeatIn
<1> QED BY <1>4, <1>5

(* What normalising a proper grid does, in terms of the grid itself.        *)
Kept(g, h, a, z, on) ==
  /\ a \in 1 .. Len(grid) /\ z \in 1 .. Len(grid) /\ a < z
  /\ \A i \in 1 .. z - 1 : grid[i].offset <= count
  /\ z = Len(grid) \/ grid[z].offset > count
  /\ a = 1 \/ grid[a].offset <= 0
  /\ EndsMoved(g, h, z - a + 1, on)
  /\ \A i \in 1 .. z - a + 1 : g[i] = grid[a + i - 1]
  /\ \A i \in 1 .. z - a : Tempo(g, i) = Tempo(grid, a + i - 1)
  /\ Increasing(g)

(* A proper grid that is normalised is kept but for its ends. *)
LEMMA Keeps ==
  ASSUME GridInv, Normalised
  PROVE  \E a \in 1 .. Len(grid), z \in 1 .. Len(grid), on \in Int :
           Kept(Trimmed(grid), grid', a, z, on)
<1> DEFINE g == Trimmed(grid)
           k == Len(g)
           on == BeatsOn(count - g[k].offset, Tempo(g, k - 1))
<1>1. grid \in Seq(Marker) /\ Increasing(grid) /\ Len(grid) \in Nat /\ Len(grid) >= 2
  BY MarkerOf DEF GridInv, Normalised, Increasing
<1>2. grid # <<>> BY <1>1, EmptySeq
<1>3. EndsMoved(g, grid', k, on) BY <1>2, NormalisedIs DEF Normalised
<1>4. PICK a \in 1 .. Len(grid), z \in 1 .. Len(grid) :
        /\ a <= z /\ g = SubSeq(grid, a, z)
        /\ \A i \in 1 .. z - 1 : grid[i].offset <= count
        /\ z = Len(grid) \/ grid[z].offset > count
        /\ a = 1 \/ grid[a].offset <= 0
  BY <1>2, TrimmedIs
<1>5. z \in a .. Len(grid) BY <1>1, <1>4
<1>6. /\ g \in Seq(Marker) /\ k = z - a + 1
      /\ \A i \in 1 .. k : g[i] = grid[a + i - 1]
      /\ \A i \in 1 .. k - 1 : Tempo(g, i) = Tempo(grid, a + i - 1)
  BY <1>1, <1>4, <1>5, PartOf
<1>7. k >= 2 /\ on \in Int BY <1>3 DEF EndsMoved
<1> HIDE DEF on
<1>8. a < z /\ k - 1 = z - a BY <1>1, <1>4, <1>6, <1>7
<1>9. Increasing(g)
  <2>1. ASSUME NEW i \in 1 .. k - 1
        PROVE  g[i].index < g[i + 1].index /\ g[i].offset < g[i + 1].offset
    <3> DEFINE p == a + i - 1
    <3>1. p \in 1 .. Len(grid) - 1 /\ i \in 1 .. k /\ i + 1 \in 1 .. k /\ a + (i + 1) - 1 = p + 1
      BY <1>1, <1>4, <1>6, <1>8
    <3>2. g[i] = grid[p] /\ g[i + 1] = grid[p + 1] BY <1>6, <3>1
    <3> HIDE DEF p
    <3> QED BY <1>1, <3>1, <3>2 DEF Increasing
  <2> QED BY <1>7, <2>1 DEF Increasing
<1> HIDE DEF g, k
<1>10. Kept(g, grid', a, z, on) BY <1>3, <1>4, <1>6, <1>8, <1>9 DEF Kept
<1> QED BY <1>7, <1>10 DEF g

(* Where the ends of a normalised grid are. *)
LEMMA EndsAre ==
  ASSUME GridInv, NEW g, NEW h, NEW k, NEW on, EndsMoved(g, h, k, on), Increasing(g)
  PROVE  /\ h[1].index = -4
         /\ Tempo(g, k - 1) \in Nat /\ Tempo(g, k - 1) > 0
         /\ h[k].index \in Int /\ h[k].offset \in Int
         /\ count <= h[k].offset /\ h[k].offset - Tempo(g, k - 1) < count
<1> DEFINE u == Tempo(g, k - 1)
           last == g[k].offset
<1>1. /\ g \in Seq(Marker) /\ Whole(g) /\ k = Len(g) /\ k \in Nat /\ k >= 2
      /\ on \in Int /\ on = BeatsOn(count - last, u)
      /\ h \in Seq(Marker) /\ Len(h) = k
  BY DEF EndsMoved
<1>2. 1 \in 1 .. k /\ k \in 1 .. k /\ k - 1 \in 1 .. Len(g) - 1 BY <1>1
<1>3. u \in Nat /\ u > 0 BY <1>1, <1>2, Segments
<1>4. last \in Int /\ count \in Nat /\ g[1].index \in Int BY <1>1, <1>2, MarkerOf, CountNat
<1>5. h[1].index = -4
  <2>1. h[1].index = g[1].index + (-4 - g[1].index) BY DEF EndsMoved, Moved
  <2> QED BY <1>4, <2>1
<1>6. h[k].offset = last + on * u BY DEF EndsMoved, Moved
<1>7. h[k].index \in Int /\ h[k].offset \in Int BY <1>1, <1>2, MarkerOf
<1> HIDE DEF u, last
<1>8. count - last <= on * u /\ (on - 1) * u < count - last
  <2>1. count - last \in Int BY <1>4
  <2> QED BY <1>1, <1>3, <2>1, BeatsOnIs
<1>9. (on - 1) * u = on * u - u /\ on * u \in Int BY <1>1, <1>3
<1> QED BY <1>3, <1>4, <1>5, <1>6, <1>7, <1>8, <1>9 DEF u

(* The last beat of a normalised grid is the first one that is not before   *)
(* the end of the track.                                                    *)
LEMMA LastInPlace ==
  ASSUME GridInv, NEW g, NEW h, NEW k, NEW on, EndsMoved(g, h, k, on), Increasing(g), Increasing(h)
  PROVE  BeatAt(h, LastOf(h).index - 1) < count
<1> DEFINE b == h[k].index - 1
           u == Tempo(g, k - 1)
           p == k - 1
<1>1. /\ k = Len(g) /\ k \in Nat /\ k >= 2 /\ h \in Seq(Marker) /\ Len(h) = k BY DEF EndsMoved
<1>2. p \in 1 .. Len(h) - 1 /\ p + 1 = k /\ p \in Int /\ k \in 1 .. k /\ p \in 1 .. k BY <1>1
<1>3. u \in Nat /\ h[k].index \in Int /\ h[k].offset \in Int /\ h[k].offset - u < count
  BY EndsAre
<1>4. h[p].index \in Int /\ h[p].offset \in Int BY <1>1, <1>2, MarkerOf
<1>5. OnLine(h[p], h[k], u) /\ Tempo(h, p) = u
  <2>1. h[p].index < h[k].index BY <1>1, <1>2 DEF Increasing
  <2>2. h[p].index # h[p + 1].index BY <1>2, <1>3, <1>4, <2>1
  <2> QED BY <1>1, <1>2, <2>2, LinesStay
<1>6. SegmentOf(h, p, b)
  <2>1. ASSUME NEW j \in 1 .. p - 1 PROVE h[j + 1].index <= b
    <3>1. j + 1 \in 1 .. k /\ j + 1 < k BY <1>1, <1>2
    <3>2. h[j + 1].index < h[k].index /\ h[j + 1].index \in Int
      BY <1>1, <1>2, <3>1, Monotone, MarkerOf
    <3> QED BY <1>3, <3>2
  <2> QED BY <1>1, <1>2, <2>1 DEF SegmentOf
<1>7. BeatAt(h, b) = At(h, p, b)
  <2>1. b \in Int BY <1>3
  <2> QED BY <1>1, <1>2, <1>6, <2>1, BeatIn
<1>8. At(h, p, b) = h[k].offset - u
  <2> DEFINE i1 == h[p].index
             o1 == h[p].offset
             i2 == h[k].index
             o2 == h[k].offset
  <2>1. At(h, p, b) = o1 + ((i2 - 1) - i1) * u BY <1>5 DEF At
  <2>2. o2 - o1 = (i2 - i1) * u BY <1>5 DEF OnLine
  <2>3. i1 \in Int /\ i2 \in Int /\ o1 \in Int /\ o2 \in Int BY <1>3, <1>4
  <2> HIDE DEF u, i1, i2, o1, o2
  <2>4. ((i2 - 1) - i1) * u = (i2 - i1) * u - u /\ (i2 - i1) * u \in Int BY <1>3, <2>3
  <2> QED BY <1>3, <2>1, <2>2, <2>3, <2>4 DEF o2
<1>9. LastOf(h) = h[k] BY <1>1 DEF LastOf
<1> QED BY <1>3, <1>7, <1>8, <1>9

(* EndsInPlace, for one step. *)
LEMMA InPlace ==
  ASSUME GridInv, Normalised, Increasing(grid')
  PROVE  /\ grid'[1].index = -4
         /\ count <= LastOf(grid').offset
         /\ BeatAt(grid', LastOf(grid').index - 1) < count
<1>1. PICK a \in 1 .. Len(grid), z \in 1 .. Len(grid), on \in Int :
        Kept(Trimmed(grid), grid', a, z, on)
  BY Keeps
<1> DEFINE g == Trimmed(grid)
           k == z - a + 1
<1>2. EndsMoved(g, grid', k, on) /\ Increasing(g) /\ Len(grid') = k BY <1>1 DEF Kept, EndsMoved
<1> HIDE DEF g, k
<1>3. grid'[1].index = -4 /\ count <= grid'[k].offset BY <1>2, EndsAre
<1>4. BeatAt(grid', LastOf(grid').index - 1) < count BY <1>2, LastInPlace
<1> QED BY <1>2, <1>3, <1>4 DEF LastOf

(* On a line that goes up, more beats are more samples. *)
LEMMA LineUp ==
  ASSUME NEW x \in Marker, NEW y \in Marker, NEW t \in Nat, t > 0, OnLine(x, y, t)
  PROVE  x.index < y.index <=> x.offset < y.offset
<1> DEFINE b == y.index - x.index
           s == y.offset - x.offset
<1>1. /\ b \in Int /\ s \in Int
      /\ x.index < y.index <=> b > 0
      /\ x.offset < y.offset <=> s > 0
  BY DEF Marker
<1>2. s = b * t BY DEF OnLine
<1> HIDE DEF b, s
<1>3. s = t * b BY <1>1, <1>2
<1>4. ASSUME b > 0 PROVE s > 0
  <2>1. t * 1 <= t * b BY <1>1, <1>4, Products
  <2> QED BY <1>3, <2>1
<1>5. ASSUME b <= 0 PROVE s <= 0
  <2>1. t * b <= t * 0 BY <1>1, <1>5, Products
  <2> QED BY <1>3, <2>1
<1> QED BY <1>1, <1>4, <1>5

(* A normalised grid is proper unless one of its ends has gone past the     *)
(* marker next to it, or both past each other.                              *)
LEMMA ProperAgain ==
  ASSUME GridInv, Normalised,
         ~EndOnMarker(grid), ~StartsEarly(Trimmed(grid)), ~EndsEarly(Trimmed(grid))
  PROVE  Increasing(grid')
<1>1. PICK a \in 1 .. Len(grid), z \in 1 .. Len(grid), on \in Int :
        Kept(Trimmed(grid), grid', a, z, on)
  BY Keeps
<1> DEFINE g == Trimmed(grid)
           h == grid'
           k == z - a + 1
           t == Tempo(g, 1)
<1>2. /\ EndsMoved(g, h, k, on) /\ Increasing(g)
      /\ g \in Seq(Marker) /\ Whole(g) /\ k = Len(g) /\ k \in Nat /\ k >= 2
      /\ h \in Seq(Marker) /\ Len(h) = k
      /\ \A i \in 2 .. k - 1 : h[i] = g[i]
      /\ \A i \in 1 .. k : g[i] = grid[a + i - 1]
  BY <1>1 DEF Kept, EndsMoved
<1>3. g[2].index > -4 /\ BeatAt(g, -4) < count
  <2>1. 2 \in 1 .. Len(g) BY <1>2
  <2>2. g[2].index \in Int BY <1>2, <2>1, MarkerOf
  <2>3. ~(g[2].index <= -4) BY <1>2 DEF StartsEarly
  <2>4. ~(BeatAt(g, -4) >= count) BY <1>2 DEF EndsEarly
  <2>5. BeatAt(g, -4) \in Int
    <3>1. -4 \in Int OBVIOUS
    <3>2. PICK i \in Int : SegmentOf(g, i, -4) /\ BeatAt(g, -4) = At(g, i, -4)
      BY <1>2, <3>1, BeatSegment
    <3>3. i \in 1 .. Len(g) - 1 /\ i \in 1 .. Len(g) BY <1>2, <3>2 DEF SegmentOf
    <3>4. Tempo(g, i) \in Int /\ g[i].index \in Int /\ g[i].offset \in Int
      BY <1>2, <3>3, Segments, MarkerOf
    <3> QED BY <3>2, <3>4 DEF At
  <2>6. count \in Nat BY CountNat
  <2> QED BY <2>2, <2>3, <2>4, <2>5, <2>6
<1>4. h[1] = Moved(g[1], -4 - g[1].index, t) BY <1>2 DEF EndsMoved
<1>5. /\ h[1].index = -4 /\ count <= h[k].offset
  BY <1>2, EndsAre
<1>6. \A i \in 1 .. k : /\ g[i].index \in Int /\ g[i].offset \in Int /\ g[i] \in Marker
                        /\ h[i].index \in Int /\ h[i].offset \in Int /\ h[i] \in Marker
  BY <1>2, MarkerOf
<1>7. ASSUME NEW i \in 1 .. k - 1
      PROVE  /\ i + 1 \in 1 .. k /\ i \in 1 .. k
             /\ Tempo(g, i) \in Nat /\ Tempo(g, i) > 0 /\ OnLine(h[i], h[i + 1], Tempo(g, i))
             /\ h[i].index < h[i + 1].index <=> h[i].offset < h[i + 1].offset
  <2>1. i + 1 \in 1 .. k /\ i \in 1 .. k /\ i \in 1 .. Len(g) - 1 BY <1>2
  <2>2. g[i].index < g[i + 1].index BY <1>2, <2>1 DEF Increasing
  <2>3. g[i].index # g[i + 1].index BY <1>6, <2>1, <2>2
  <2>4. OnLine(h[i], h[i + 1], Tempo(g, i)) BY <1>2, <2>3, LinesStay
  <2>5. Tempo(g, i) \in Nat /\ Tempo(g, i) > 0 BY <1>2, <2>1, Segments
  <2> QED BY <1>6, <2>1, <2>4, <2>5, LineUp
<1> HIDE DEF h, g
<1>8. ASSUME NEW i \in 1 .. k - 1
      PROVE  h[i].index < h[i + 1].index \/ h[i].offset < h[i + 1].offset
  <2>1. CASE k = 2
    <3>1. i = 1 /\ i + 1 = k BY <2>1
    <3>2. h[1].offset = BeatAt(g, -4)
      <4>0. Len(g) = 2 /\ 1 \in 1 .. Len(g) - 1 /\ 1 = Len(g) - 1 /\ 1 .. 1 - 1 = {}
        <5>1. Len(g) = 2 BY <1>2, <2>1
        <5> QED BY <5>1
      <4>1. -4 \in Int /\ 1 \in Int /\ SegmentOf(g, 1, -4) BY <4>0 DEF SegmentOf
      <4>2. BeatAt(g, -4) = At(g, 1, -4) BY <1>2, <4>1, BeatIn
      <4>3. h[1].offset = g[1].offset + (-4 - g[1].index) * t BY <1>4 DEF Moved
      <4> QED BY <4>2, <4>3 DEF At
    <3>3. h[1].offset < count /\ count <= h[k].offset BY <1>3, <1>5, <3>2
    <3>4. h[1].offset \in Int /\ h[k].offset \in Int /\ count \in Nat
      <4>1. 1 \in 1 .. k /\ k \in 1 .. k BY <2>1
      <4> HIDE DEF k
      <4> QED BY <1>6, <4>1, CountNat
    <3> HIDE DEF k
    <3>5. \A x, y, c \in Int : x < c /\ c <= y => x < y OBVIOUS
    <3>6. h[1].offset < h[k].offset BY <3>3, <3>4, <3>5
    <3> QED BY <3>1, <3>6
  <2>2. CASE k > 2 /\ i = 1
    <3>1. h[2] = g[2] BY <1>2, <2>2
    <3> QED BY <1>3, <1>5, <2>2, <3>1
  <2>3. CASE k > 2 /\ i = k - 1
    <3> DEFINE y == z - 1
    <3>1. i \in 2 .. k - 1 /\ i \in 1 .. k /\ i + 1 = k BY <1>2, <2>3
    <3>2. /\ grid \in Seq(Marker) /\ Increasing(grid) /\ Len(grid) \in Nat
          /\ a \in 1 .. Len(grid) /\ z \in 1 .. Len(grid) /\ a < z
      BY <1>1, MarkerOf DEF GridInv, Normalised, Kept
    <3>3. y \in 1 .. Len(grid) - 1 /\ y + 1 = z /\ y \in 1 .. z - 1 /\ a + i - 1 = y
          /\ y \in 1 .. Len(grid) /\ z \in 1 .. Len(grid)
      BY <2>3, <3>2 DEF k
    <3>4. h[i] = grid[y] BY <1>2, <3>1, <3>3
    <3> HIDE DEF y
    <3>5. grid[y].offset <= count BY <1>1, <3>3 DEF Kept
    <3>6. grid[y].offset < grid[z].offset BY <3>2, <3>3 DEF Increasing
    <3>7. grid[y].offset \in Int /\ grid[z].offset \in Int /\ count \in Nat
      BY <3>2, <3>3, MarkerOf, CountNat
    <3>8. grid[y].offset # count
      <4>1. SUFFICES ASSUME grid[y].offset = count PROVE FALSE OBVIOUS
      <4>2. grid[y + 1].offset > count BY <3>3, <3>6, <3>7, <4>1
      <4> QED BY <3>3, <4>1, <4>2 DEF EndOnMarker
    <3>9. h[k].offset \in Int BY <1>2, <1>6
    <3> QED BY <1>5, <3>1, <3>4, <3>5, <3>7, <3>8, <3>9
  <2>4. CASE i # 1 /\ i # k - 1
    <3>1. i \in 2 .. k - 1 /\ i + 1 \in 2 .. k - 1 /\ i \in 1 .. Len(g) - 1 BY <1>2, <2>4
    <3>2. h[i] = g[i] /\ h[i + 1] = g[i + 1] BY <1>2, <3>1
    <3> QED BY <1>2, <3>1, <3>2 DEF Increasing
  <2> QED BY <1>2, <2>1, <2>2, <2>3, <2>4
<1>9. \A i \in 1 .. Len(h) - 1 : h[i].index < h[i + 1].index /\ h[i].offset < h[i + 1].offset
  BY <1>2, <1>7, <1>8
<1>10. Increasing(h) BY <1>2, <1>9 DEF Increasing
<1> QED BY <1>10 DEF h

(* A beat inside the track is in a segment that is kept, in the normalised   *)
(* grid as in the one before, and that is the same line in both.            *)
LEMMA BeatKept ==
  ASSUME GridInv, Normalised, Increasing(grid'), NEW b \in Int, Inside(BeatAt(grid, b))
  PROVE  BeatAt(grid', b) = BeatAt(grid, b)
<1>1. PICK a \in 1 .. Len(grid), z \in 1 .. Len(grid), on \in Int :
        Kept(Trimmed(grid), grid', a, z, on)
  BY Keeps
<1> DEFINE g == Trimmed(grid)
           h == grid'
           k == z - a + 1
           n == Len(grid)
<1>2. /\ EndsMoved(g, h, k, on) /\ Increasing(g)
      /\ g \in Seq(Marker) /\ Whole(g) /\ k = Len(g) /\ k \in Nat /\ k >= 2
      /\ h \in Seq(Marker) /\ Len(h) = k /\ Increasing(h)
  BY <1>1 DEF Kept, EndsMoved
<1>3. /\ grid \in Seq(Marker) /\ Whole(grid) /\ Increasing(grid) /\ n \in Nat /\ n >= 2
      /\ a \in 1 .. n /\ z \in 1 .. n /\ a < z
  BY <1>1, MarkerOf DEF GridInv, Normalised, Kept, Increasing
<1>4. /\ \A i \in 1 .. z - 1 : grid[i].offset <= count
      /\ z = n \/ grid[z].offset > count
      /\ a = 1 \/ grid[a].offset <= 0
      /\ \A i \in 1 .. k : g[i] = grid[a + i - 1]
      /\ \A i \in 1 .. k - 1 : Tempo(g, i) = Tempo(grid, a + i - 1)
      /\ \A i \in 2 .. k - 1 : h[i] = g[i]
      /\ h[1] = Moved(g[1], -4 - g[1].index, Tempo(g, 1))
  <2>1. k - 1 = z - a BY <1>3
  <2> QED BY <1>1, <2>1 DEF Kept, EndsMoved
<1>5. PICK s \in Int : SegmentOf(grid, s, b) /\ BeatAt(grid, b) = At(grid, s, b)
  BY <1>3, BeatSegment
<1> DEFINE T == Tempo(grid, s)
           p == At(grid, s, b)
<1>6. s \in 1 .. n - 1 /\ s \in 1 .. n /\ s + 1 \in 1 .. n BY <1>3, <1>5 DEF SegmentOf
<1>7. T \in Nat /\ T > 0 /\ grid[s + 1].offset - grid[s].offset = (grid[s + 1].index - grid[s].index) * T
  BY <1>3, <1>6, Segments
<1>8. \A i \in 1 .. n : grid[i].index \in Int /\ grid[i].offset \in Int BY <1>3, MarkerOf
<1>9. count \in Nat BY CountNat
<1>10. p \in Int /\ 0 <= p /\ p <= count
  <2>1. p = grid[s].offset + (b - grid[s].index) * T BY DEF At
  <2>2. p \in Int BY <1>6, <1>7, <1>8, <2>1
  <2> QED BY <1>5, <2>2 DEF Inside
(* Not one of those that are cut off before the start, *)
<1>11. s >= a
  <2>1. SUFFICES ASSUME s < a PROVE FALSE BY <1>3
  <2>2. s # n - 1 /\ a # 1 BY <1>3, <1>6, <2>1
  <2>3. b < grid[s + 1].index BY <1>5, <2>2 DEF SegmentOf
  <2>4. p < grid[s + 1].offset
    <3> DEFINE i1 == grid[s].index
               o1 == grid[s].offset
               i2 == grid[s + 1].index
               o2 == grid[s + 1].offset
    <3>1. p = o1 + (b - i1) * T /\ o2 - o1 = (i2 - i1) * T /\ b < i2 BY <1>7, <2>3 DEF At
    <3>2. i1 \in Int /\ o1 \in Int /\ i2 \in Int /\ o2 \in Int /\ T \in Nat BY <1>6, <1>7, <1>8
    <3> HIDE DEF i1, o1, i2, o2, T, p
    <3>3. T * (b - i1) <= T * (i2 - i1 - 1) BY <3>1, <3>2, Products
    <3>4. /\ T * (i2 - i1 - 1) = (i2 - i1) * T - T /\ T * (b - i1) = (b - i1) * T
          /\ (i2 - i1) * T \in Int /\ (b - i1) * T \in Int
      BY <3>2
    <3> DEFINE x == (i2 - i1) * T
               y == (b - i1) * T
    <3>5. T > 0 BY <1>7
    <3>6. x \in Int /\ y \in Int /\ y <= x - T BY <3>2, <3>3, <3>4
    <3>7. p = o1 + y /\ o2 - o1 = x BY <3>1
    <3> HIDE DEF x, y
    <3>8. p < o2 BY <3>2, <3>5, <3>6, <3>7
    <3> QED BY <3>8 DEF o2
  <2>5. grid[s + 1].offset <= grid[a].offset
    <3>1. s + 1 = a \/ s + 1 < a BY <1>3, <1>6, <2>1
    <3>2. s + 1 < a => grid[s + 1].offset < grid[a].offset BY <1>3, <1>6, Monotone
    <3> QED BY <1>3, <1>6, <1>8, <3>1, <3>2
  <2>6. grid[a].offset <= 0 BY <1>4, <2>2
  <2>7. grid[a].offset \in Int /\ grid[s + 1].offset \in Int BY <1>3, <1>6, <1>8
  <2> HIDE DEF p
  <2> QED BY <1>10, <2>4, <2>5, <2>6, <2>7
(* nor one of those beyond the end. *)
<1>12. s <= z - 1
  <2>1. SUFFICES ASSUME s >= z PROVE FALSE BY <1>3
  <2>2. z # n /\ s >= 2 BY <1>3, <1>6, <2>1
  <2>3. grid[s].index <= b
    <3>1. s - 1 \in 1 .. s - 1 /\ (s - 1) + 1 = s BY <2>2
    <3>2. grid[(s - 1) + 1].index <= b BY <1>5, <3>1 DEF SegmentOf
    <3> QED BY <3>1, <3>2
  <2>4. p >= grid[s].offset
    <3> DEFINE i1 == grid[s].index
               o1 == grid[s].offset
    <3>1. p = o1 + (b - i1) * T /\ i1 <= b BY <2>3 DEF At
    <3>2. i1 \in Int /\ o1 \in Int /\ T \in Nat BY <1>6, <1>7, <1>8
    <3> HIDE DEF i1, o1, T, p
    <3>3. T * 0 <= T * (b - i1) BY <3>1, <3>2, Products
    <3>4. T * (b - i1) = (b - i1) * T /\ (b - i1) * T \in Int BY <3>2
    <3> QED BY <3>1, <3>2, <3>3, <3>4 DEF o1
  <2>5. grid[z].offset <= grid[s].offset
    <3>1. s = z \/ z < s BY <1>3, <1>6, <2>1
    <3>2. z < s => grid[z].offset < grid[s].offset BY <1>3, <1>6, Monotone
    <3> QED BY <1>3, <1>6, <1>8, <3>1, <3>2
  <2>6. grid[z].offset > count BY <1>4, <2>2
  <2>7. grid[z].offset \in Int /\ grid[s].offset \in Int BY <1>3, <1>6, <1>8
  <2> HIDE DEF p
  <2> QED BY <1>9, <1>10, <2>4, <2>5, <2>6, <2>7
<1> DEFINE i == s - a + 1
<1>13. /\ i \in 1 .. k - 1 /\ i \in 1 .. k /\ i + 1 \in 1 .. k /\ i \in Int
       /\ a + i - 1 = s /\ a + (i + 1) - 1 = s + 1
  BY <1>3, <1>6, <1>11, <1>12
<1>14. Tempo(g, i) = T /\ g[i] = grid[s] BY <1>4, <1>13
<1>15. Tempo(h, i) = T
  <2>1. h[i].index < h[i + 1].index BY <1>2, <1>13 DEF Increasing
  <2>2. h[i].index \in Int /\ h[i + 1].index \in Int BY <1>2, <1>13, MarkerOf
  <2>3. h[i].index # h[i + 1].index BY <2>1, <2>2
  <2> QED BY <1>2, <1>13, <1>14, <2>3, LinesStay
<1> HIDE DEF g, h, k, n, T, p, i
<1>16. At(h, i, b) = p
  <2> DEFINE i1 == grid[s].index
             o1 == grid[s].offset
  <2>1. p = o1 + (b - i1) * T BY DEF At, p, T
  <2>2. i1 \in Int /\ o1 \in Int /\ T \in Nat BY <1>6, <1>7, <1>8
  <2>3. At(h, i, b) = h[i].offset + (b - h[i].index) * T BY <1>15 DEF At
  <2>4. \E m \in Int : h[i].index = i1 + m /\ h[i].offset = o1 + m * T
    <3>1. CASE i = 1
      <4>1. h[i] = Moved(grid[s], -4 - i1, T) BY <1>4, <1>14, <3>1
      <4>2. -4 - i1 \in Int BY <2>2
      <4> QED BY <4>1, <4>2 DEF Moved
    <3>2. CASE i # 1
      <4>1. i \in 2 .. k - 1 BY <1>13, <3>2
      <4>2. h[i] = grid[s] BY <1>4, <1>14, <4>1
      <4>3. i1 = i1 + 0 /\ o1 = o1 + 0 * T BY <2>2
      <4> QED BY <4>2, <4>3
    <3> QED BY <3>1, <3>2
  <2>5. PICK m \in Int : h[i].index = i1 + m /\ h[i].offset = o1 + m * T BY <2>4
  <2> HIDE DEF i1, o1
  <2>6. o1 + m * T + (b - (i1 + m)) * T = o1 + (b - i1) * T BY <2>2
  <2> QED BY <2>1, <2>3, <2>5, <2>6
<1>17. SegmentOf(h, i, b)
  <2>1. ASSUME NEW j \in 1 .. k - 2
        PROVE  /\ h[j + 1].index = grid[(a + j - 1) + 1].index
               /\ a + j - 1 \in 1 .. n - 1
    <3>1. /\ j + 1 \in 2 .. k - 1 /\ j + 1 \in 1 .. k /\ a + (j + 1) - 1 = (a + j - 1) + 1
          /\ a + j - 1 \in 1 .. n - 1
      BY <1>2, <1>3 DEF k
    <3> QED BY <1>4, <3>1
  <2>2. i = Len(h) - 1 \/ b < h[i + 1].index
    <3>1. SUFFICES ASSUME i # k - 1 PROVE b < h[i + 1].index BY <1>2
    <3>2. i \in 1 .. k - 2 BY <1>2, <1>13, <3>1
    <3>3. s # n - 1 BY <1>2, <1>3, <1>13, <3>2 DEF k
    <3>4. b < grid[s + 1].index BY <1>5, <3>3 DEF SegmentOf, n
    <3>5. h[i + 1].index = grid[s + 1].index BY <1>13, <2>1, <3>2
    <3> QED BY <3>4, <3>5
  <2>3. ASSUME NEW j \in 1 .. i - 1 PROVE h[j + 1].index <= b
    <3>1. j \in 1 .. k - 2 /\ a + j - 1 \in 1 .. s - 1 BY <1>2, <1>3, <1>13
    <3>2. grid[(a + j - 1) + 1].index <= b BY <1>5, <3>1 DEF SegmentOf
    <3> QED BY <2>1, <3>1, <3>2
  <2> QED BY <1>2, <1>13, <2>2, <2>3 DEF SegmentOf
<1>18. BeatAt(h, b) = At(h, i, b) BY <1>2, <1>13, <1>17, BeatIn
<1> QED BY <1>5, <1>16, <1>18 DEF h, p

-----------------------------------------------------------------------------
(* The theorems about Analyses. *)

(* A step of Analyses is one of a component, and leaves the others alone.   *)
LEMMA Parts ==
  [AnalysesNext]_analysisVars => [GridNext]_gridVars /\ [CueNext]_cueVars /\ [WaveNext]_waveVars
<1> SUFFICES ASSUME [AnalysesNext]_analysisVars
             PROVE  [GridNext]_gridVars /\ [CueNext]_cueVars /\ [WaveNext]_waveVars
  OBVIOUS
<1>1. CASE UNCHANGED analysisVars BY <1>1 DEF analysisVars
<1>2. CASE AnalysesRest BY <1>2 DEF AnalysesRest, analysisVars
<1>3. CASE GridNext /\ UNCHANGED <<of, cueVars, waveVars>> BY <1>3
<1>4. CASE CueNext /\ UNCHANGED <<of, gridVars, waveVars>> BY <1>4
<1>5. CASE WaveNext /\ UNCHANGED <<of, gridVars, cueVars>> BY <1>5
<1> QED BY <1>1, <1>2, <1>3, <1>4, <1>5 DEF AnalysesNext

AnalysesInv == of \in {"beatgrid", "cues", "waveform"} /\ GridInv /\ CueInv /\ WaveInv

(* The inductive invariant of Analyses. The grid in hand is a sequence of    *)
(* markers on whole segments, however often it is normalised; the blobs of  *)
(* the two engines are well formed, and alike on the common ground; the     *)
(* extents are those of the size that the track has.                        *)
THEOREM AnalysesInvariant == AnalysesSpec => []AnalysesInv
<1>1. AnalysesInit => AnalysesInv
  BY GridsBegin, CuesBegin, WaveBegins DEF AnalysesInit, AnalysesInv
<1>2. AnalysesInv /\ [AnalysesNext]_analysisVars => AnalysesInv'
  <2> SUFFICES ASSUME AnalysesInv, [AnalysesNext]_analysisVars PROVE AnalysesInv' OBVIOUS
  <2>1. GridInv' /\ CueInv' /\ WaveInv'
    BY Parts, GridSteps, CueSteps, WaveSteps DEF AnalysesInv
  <2>2. of' = of BY DEF AnalysesNext, AnalysesRest, analysisVars
  <2> QED BY <2>1, <2>2 DEF AnalysesInv
<1> QED BY <1>1, <1>2, PTL DEF AnalysesSpec

(* EnginesAlike: a program that keeps to the common ground of the engines    *)
(* (engine_track_impl.cpp, track_impl.cpp) reads from both what it has put, *)
(* for any number of slots and any offsets.                                 *)
THEOREM CommonGround == AnalysesSpec => []EnginesAlike
<1>1. AnalysesInv => EnginesAlike BY CueInvShows DEF AnalysesInv
<1> QED BY <1>1, AnalysesInvariant, PTL

(* BlobsAreSound: types are right, and the setters of 1.x store no slot that *)
(* is not read as it was put (performance_data_format.cpp).                 *)
THEOREM StoredIsReadable == AnalysesSpec => []BlobsAreSound
<1>1. GridInv => GridTypeOK BY DEF GridInv, GridTypeOK
<1>2. AnalysesInv => BlobsAreSound
  BY <1>1, CueInvShows, WaveInvShows DEF AnalysesInv, BlobsAreSound, AnalysesTypeOK
<1> QED BY <1>2, AnalysesInvariant, PTL

(* ExtentsFollow: the extents of waveform and overview (track_utils.hpp) are *)
(* those of the sample count and rate that the track has, but for the entry *)
(* that set_sample_count does not mend; they cover the track.               *)
THEOREM ExtentsAreRight == AnalysesSpec => []ExtentsFollow
<1>1. AnalysesInv => ExtentsFollow BY WaveInvShows DEF AnalysesInv
<1> QED BY <1>1, AnalysesInvariant, PTL

(* OverviewSettles: when what waveform() gives is set again, 2.x and 3.x     *)
(* keep the overview that they have, and 1.x makes the same one, for any    *)
(* size of overview and any waveforms.                                      *)
THEOREM OverviewsSettle == AnalysesSpec => OverviewSettles
<1>1. AnalysesInv /\ [AnalysesNext]_analysisVars =>
        [SetAgain /\ ~Sizeless(samples, rate) =>
           /\ over'[2].points = over[2].points
           /\ over[2].points # <<>> => over'[1].points = over[2].points]_waveVars
  BY SetAgainSettles DEF AnalysesInv
<1> QED BY <1>1, AnalysesInvariant, PTL DEF AnalysesSpec, OverviewSettles

(* ReadsBack: 2.x and 3.x give any proper grid back as it was written, and   *)
(* 1.x one of at most MaxMarkers markers, whatever that limit; a snapshot   *)
(* with another kind of grid, or a longer one, is the only way to a grid of *)
(* 1.x that cannot be read (decode_beatgrid, performance_data_format.cpp).  *)
THEOREM GridsReadBack == AnalysesSpec => ReadsBack
<1>1. AnalysesInv /\ [AnalysesNext]_analysisVars =>
        [/\ Increasing(grid) /\ (Keep2 \/ (Len(grid) <= MaxMarkers /\ (Snapshot1 \/ (readable /\ Set1)))) =>
              grid' = grid /\ result' = "ok"
         /\ readable # readable' => Snapshot1
         /\ readable /\ ~readable' =>
              grid # <<>> /\ (~Increasing(grid) \/ Len(grid) > MaxMarkers)]_gridVars
  BY Parts, ReadingBack DEF AnalysesInv
<1> QED BY <1>1, AnalysesInvariant, PTL DEF AnalysesSpec, ReadsBack

(* StaysProper: normalize_beatgrid (engine.cpp) makes a proper grid of a     *)
(* proper grid of any number of markers and any tempos, but in the three    *)
(* cases that the property names.                                           *)
THEOREM GridsStayProper == AnalysesSpec => StaysProper
<1>1. AnalysesInv /\ [AnalysesNext]_analysisVars =>
        [Normalised => \/ Increasing(grid') \/ EndOnMarker(grid)
                       \/ StartsEarly(Trimmed(grid)) \/ EndsEarly(Trimmed(grid))]_gridVars
  BY ProperAgain DEF AnalysesInv
<1> QED BY <1>1, AnalysesInvariant, PTL DEF AnalysesSpec, StaysProper

(* BeatsStay: whatever normalize_beatgrid trims and moves, a beat inside the *)
(* track lies where it lay.                                                 *)
THEOREM BeatsAreKept == AnalysesSpec => BeatsStay
<1>1. AnalysesInv /\ [AnalysesNext]_analysisVars =>
        [Normalised /\ Increasing(grid') =>
           \A b \in grid[1].index - 4 .. LastOf(grid).index + 4 :
             Inside(BeatAt(grid, b)) => BeatAt(grid', b) = BeatAt(grid, b)]_gridVars
  <2> SUFFICES ASSUME AnalysesInv, Normalised, Increasing(grid'),
                      NEW b \in grid[1].index - 4 .. LastOf(grid).index + 4,
                      Inside(BeatAt(grid, b))
               PROVE  BeatAt(grid', b) = BeatAt(grid, b)
    OBVIOUS
  <2>1. b \in Int OBVIOUS
  <2> QED BY <2>1, BeatKept DEF AnalysesInv
<1> QED BY <1>1, AnalysesInvariant, PTL DEF AnalysesSpec, BeatsStay

(* EndsInPlace: a normalised grid that is proper goes from beat -4 to the    *)
(* first beat that is not before the end of the track.                      *)
THEOREM GridsEndInPlace == AnalysesSpec => EndsInPlace
<1>1. AnalysesInv /\ [AnalysesNext]_analysisVars =>
        [Normalised /\ Increasing(grid') =>
           /\ grid'[1].index = -4
           /\ count <= LastOf(grid').offset
           /\ BeatAt(grid', LastOf(grid').index - 1) < count]_gridVars
  BY InPlace DEF AnalysesInv
<1> QED BY <1>1, AnalysesInvariant, PTL DEF AnalysesSpec, EndsInPlace
=============================================================================
