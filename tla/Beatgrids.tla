----------------------------- MODULE Beatgrids -----------------------------
(***************************************************************************)
(* The beatgrid of a track, on its way between an application and a        *)
(* database: normalize_beatgrid (engine.cpp), which trims a grid to the    *)
(* track and puts its ends where Engine expects them, and the forms in     *)
(* which the generations of engine keep it (1.x: performance_data_format,  *)
(* 2.x and 3.x: convert_beatgrid and beat_data_blob).                      *)
(*                                                                         *)
(* A grid is a sequence of markers [index, offset]: beat number index lies *)
(* at sample offset, and beats are spread evenly between markers. Offsets  *)
(* are integers here, and every segment has a whole number of samples per  *)
(* beat, so divisions are exact as long as indexes increase; what floating *)
(* point makes of ceil is left out.                                        *)
(***************************************************************************)
EXTENDS Integers, Sequences

CONSTANTS
  Grids,     (* the grids an application may start from                     *)
  Counts,    (* the sample counts of a track                                *)
  MaxMarkers (* the markers that decode_beatgrid of 1.x takes: 32768        *)

VARIABLES
  count,     (* the sample count that the application normalises to        *)
  grid,      (* the grid that it has in hand                                *)
  readable,  (* 1.x: can the grid of the track be read?                     *)
  result     (* what became of its last call                                *)

gridVars == <<count, grid, readable, result>>

LastOf(g) == g[Len(g)]

Marker == [index : Int, offset : Int]

(* Samples per beat from marker i to the next. *)
Tempo(g, i) ==
  LET samples == g[i + 1].offset - g[i].offset
      beats   == g[i + 1].index - g[i].index
  IN  IF beats > 0 THEN samples \div beats ELSE (-samples) \div (-beats)

(* A segment that has beats has a whole number of samples for each.        *)
Whole(g) ==
  \A i \in 1 .. Len(g) - 1 :
    LET beats == g[i + 1].index - g[i].index
    IN  beats # 0 => g[i + 1].offset - g[i].offset = beats * Tempo(g, i)

ASSUME BeatgridsCounts == Counts \subseteq Nat /\ Counts # {}
ASSUME BeatgridsMaxMarkers == MaxMarkers \in Nat
ASSUME BeatgridsGrids  == \A g \in Grids : g \in Seq(Marker) /\ Whole(g)

(* Both indexes and offsets go up, and there is at least one segment. *)
Increasing(g) ==
  /\ Len(g) >= 2
  /\ \A i \in 1 .. Len(g) - 1 : g[i].index < g[i + 1].index /\ g[i].offset < g[i + 1].offset

Earliest(S, otherwise) == IF S = {} THEN otherwise ELSE CHOOSE i \in S : \A j \in S : i <= j

-----------------------------------------------------------------------------
(* normalize_beatgrid. *)

(* Mutant: nothing is cut off. *)
UpToAll(g) == g

(* Nothing after the first marker beyond the end of the track. *)
ToTheEnd(g) == SubSeq(g, 1, Earliest({i \in DOMAIN g : g[i].offset > count}, Len(g)))

(* Nothing before the marker that precedes the first one inside; if none   *)
(* is inside only the last marker stays.                                   *)
FromTheStart(g) ==
  LET inside == Earliest({i \in DOMAIN g : g[i].offset > 0}, Len(g) + 1)
  IN  IF inside = 1 THEN g ELSE SubSeq(g, inside - 1, Len(g))

Trimmed(g) == FromTheStart(ToTheEnd(g))

(* Mutant: rounded down. *)
BeatsOnFloor(samples, tempo) ==
  IF tempo > 0 THEN samples \div tempo ELSE (-samples) \div (-tempo)

(* How far the last marker goes: ceil(samples / tempo) beats. *)
BeatsOn(samples, tempo) ==
  IF tempo > 0 THEN -((-samples) \div tempo) ELSE -(samples \div (-tempo))

(* Mutant: the index without the offset. *)
FirstRenumbered(g) == [g EXCEPT ![1].index = -4]

FirstAtMinusFour(g) ==
  [g EXCEPT ![1] = [index  |-> -4,
                    offset |-> g[1].offset - (4 + g[1].index) * Tempo(g, 1)]]

LastPastTheEnd(g) ==
  LET tempo == Tempo(g, Len(g) - 1)
      on    == BeatsOn(count - LastOf(g).offset, tempo)
  IN  [g EXCEPT ![Len(g)] = [index |-> @.index + on, offset |-> @.offset + on * tempo]]

(* Neither step divides by zero: there are beats in the first segment, and *)
(* beats and samples in the last one, once the first marker has moved.     *)
Divisible(g) ==
  /\ g[1].index # g[2].index
  /\ LET h == FirstAtMinusFour(g)
     IN  LastOf(h).index # h[Len(h) - 1].index /\ Tempo(h, Len(h) - 1) # 0

(* "undefined" is where a behaviour ends: in the last segment the division *)
(* casts an infinity or no number to an int; in the first one the offsets  *)
(* become infinite, and the code goes on with them, which is not followed. *)
Normalise ==
  LET g == Trimmed(grid)
  IN  /\ UNCHANGED <<count, readable>>
      /\ \/ /\ grid = <<>>
            /\ result' = "ok"
            /\ UNCHANGED grid
         \/ /\ grid # <<>> /\ Len(g) < 2
            /\ result' = "invalid_argument"
            /\ UNCHANGED grid
         \/ /\ Len(g) >= 2 /\ ~Divisible(g)
            /\ result' = "undefined"
            /\ UNCHANGED grid
         \/ /\ Len(g) >= 2 /\ Divisible(g)
            /\ result' = "ok"
            /\ grid' = LastPastTheEnd(FirstAtMinusFour(g))

-----------------------------------------------------------------------------
(* Written to a database, and read back. *)

(* Mutant: beats since the marker before. *)
EncodedSinceBefore(g) ==
  [i \in DOMAIN g |-> [index |-> g[i].index, offset |-> g[i].offset,
                       beats |-> IF i > 1 THEN g[i].index - g[i - 1].index ELSE 0]]

(* A stored marker also tells how many beats there are to the next one. *)
Encoded(g) ==
  [i \in DOMAIN g |-> [index |-> g[i].index, offset |-> g[i].offset,
                       beats |-> IF i < Len(g) THEN g[i + 1].index - g[i].index ELSE 0]]

Markers(stored) ==
  [i \in DOMAIN stored |-> [index |-> stored[i].index, offset |-> stored[i].offset]]

(* 1.x: decode_beatgrid is strict, and takes no more than MaxMarkers.       *)
(* beat_data::decode means to go on without a grid that it refuses, but     *)
(* then finds it where only zeros may follow, and throws.                   *)
Decodes1(stored) ==
  \/ stored = <<>>
  \/ /\ Increasing(stored)
     /\ Len(stored) <= MaxMarkers
     /\ \A i \in 1 .. Len(stored) - 1 : stored[i + 1].index - stored[i].index = stored[i].beats
     /\ LastOf(stored).beats = 0

(* create_track or update with a snapshot write the blob as it is; that it  *)
(* cannot be read is noticed by whoever reads it.                          *)
Snapshot1 ==
  LET stored == Encoded(grid)
  IN  /\ readable' = Decodes1(stored)
      /\ IF readable' THEN grid' = Markers(stored) /\ result' = "ok"
                      ELSE result' = "invalid_argument" /\ UNCHANGED grid
      /\ UNCHANGED count

(* set_beatgrid in 1.x reads the blob that is there, and reads the one that *)
(* it is about to write.                                                   *)
Set1 ==
  LET stored == Encoded(grid)
  IN  /\ IF readable /\ Decodes1(stored)
         THEN grid' = Markers(stored) /\ result' = "ok"
         ELSE result' = "invalid_argument" /\ UNCHANGED grid
      /\ UNCHANGED <<count, readable>>

(* 2.x and 3.x take and give any grid. *)
Keep2 == grid' = Markers(Encoded(grid)) /\ result' = "ok" /\ UNCHANGED <<count, readable>>

(* The track gets another file, and the grid is to fit that one. *)
Measure == count' \in Counts /\ result' = "ok" /\ UNCHANGED <<grid, readable>>

-----------------------------------------------------------------------------
GridInit == count \in Counts /\ grid \in Grids /\ readable = TRUE /\ result = "ok"

GridNext == result # "undefined" /\ (Normalise \/ Snapshot1 \/ Set1 \/ Keep2 \/ Measure)

-----------------------------------------------------------------------------
GridTypeOK ==
  /\ count \in Counts
  /\ grid \in Seq(Marker)
  /\ readable \in BOOLEAN
  /\ result \in {"ok", "invalid_argument", "undefined"}

(* The reference: where beat number b lies, by the segment it is in or, past *)
(* an end, by the segment there.                                           *)
BeatAt(g, b) ==
  LET i == Earliest({j \in 1 .. Len(g) - 2 : b < g[j + 1].index}, Len(g) - 1)
  IN  g[i].offset + (b - g[i].index) * Tempo(g, i)

Inside(offset) == 0 <= offset /\ offset <= count

(* The ways in which normalising a proper grid makes one that is not: a    *)
(* marker exactly on the end of the track, to which the last one is drawn  *)
(* back; a first beat inside the track with a number below -4; and a track *)
(* that has ended at beat -4, so that the last marker is drawn back to it, *)
(* or past it.                                                             *)
EndOnMarker(g) == \E i \in 1 .. Len(g) - 1 : g[i].offset = count /\ g[i + 1].offset > count
StartsEarly(g) == Len(g) >= 2 /\ g[2].index <= -4
EndsEarly(g)   == Len(g) >= 2 /\ BeatAt(g, -4) >= count

Normalised == Normalise /\ result' = "ok" /\ Increasing(grid)

(* No beat inside the track is moved by normalize_beatgrid, whatever it    *)
(* trims and wherever it puts the first and the last marker.               *)
BeatsStay ==
  [][Normalised /\ Increasing(grid') =>
       \A b \in grid[1].index - 4 .. LastOf(grid).index + 4 :
         Inside(BeatAt(grid, b)) => BeatAt(grid', b) = BeatAt(grid, b)]_gridVars

(* A normalised grid, if it is a proper one, starts at beat -4 and ends    *)
(* with the first beat that is not before the end of the track             *)
(* (engine.hpp:165-172).                                                   *)
EndsInPlace ==
  [][Normalised /\ Increasing(grid') =>
       /\ grid'[1].index = -4
       /\ count <= LastOf(grid').offset
       /\ BeatAt(grid', LastOf(grid').index - 1) < count]_gridVars

(* A proper grid that is normalised, and one that is normalised again for  *)
(* a file of another length, is a proper grid, so that 1.x can read it and *)
(* the next call does not divide by zero - but for the ways above.         *)
StaysProper ==
  [][Normalised => \/ Increasing(grid') \/ EndOnMarker(grid)
                   \/ StartsEarly(Trimmed(grid)) \/ EndsEarly(Trimmed(grid))]_gridVars

(* 2.x and 3.x give any proper grid back as it was written, and 1.x one of *)
(* at most MaxMarkers markers. A track of 1.x whose beat data can be read  *)
(* stays so, but for a snapshot with another kind of grid, or with a longer*)
(* one: beatgrid(), and every setter that starts by reading the blob,      *)
(* throws from then on, until a snapshot is written once more.             *)
ReadsBack ==
  [][/\ Increasing(grid) /\ (Keep2 \/ (Len(grid) <= MaxMarkers /\ (Snapshot1 \/ (readable /\ Set1)))) =>
          grid' = grid /\ result' = "ok"
     /\ readable # readable' => Snapshot1
     /\ readable /\ ~readable' =>
          grid # <<>> /\ (~Increasing(grid) \/ Len(grid) > MaxMarkers)]_gridVars
============================================================================
