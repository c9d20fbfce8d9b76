----------------------------- MODULE Waveforms -----------------------------
(***************************************************************************)
(* The waveform of a track, and the size of the track that it is scaled by,*)
(* in two libraries side by side that get the same public calls: one of    *)
(* engine 1.x (engine_track_impl.cpp), which keeps the waveform it is given*)
(* and an overview of it, and one of engine 2.x or 3.x (track_impl.cpp,    *)
(* convert_waveform.hpp), which keeps the overview alone. The extents are  *)
(* those of track_utils.hpp.                                               *)
(*                                                                         *)
(* 0 stands for no sample count and for no sample rate, as in the blobs;   *)
(* rates are integers, and a waveform is a sequence of points. The opacity *)
(* of a point, which no overview keeps, is left out.                       *)
(***************************************************************************)
EXTENDS Integers, Sequences

CONSTANTS
  OverviewSize,   (* OVERVIEW_WAVEFORM_SIZE: 1024                           *)
  SampleCounts,   (* the sample counts given, with 0                        *)
  SampleRates,    (* the sample rates given, with 0                         *)
  Waves           (* the waveforms given, with the empty one                *)

VARIABLES
  samples,   (* the sample count in the track data of both libraries        *)
  rate,      (* and the sample rate                                         *)
  high,      (* 1.x: the waveform, and the samples of one entry of it       *)
  over,      (* per engine: the overview, and the samples of all of it      *)
  late,      (* history: was the entry of high scaled with no sample count? *)
  undefined  (* has an optional without a value been dereferenced?          *)

waveVars == <<samples, rate, high, over, late, undefined>>

ASSUME WaveformsOverviewSize == OverviewSize \in Nat \ {0}
ASSUME WaveformsSizes == /\ 0 \in SampleCounts /\ SampleCounts \subseteq Nat
                         /\ 0 \in SampleRates  /\ SampleRates \subseteq Nat
ASSUME WaveformsWaves ==
  LET points == UNION {{w[i] : i \in DOMAIN w} : w \in Waves}
  IN  <<>> \in Waves /\ \A w \in Waves : w \in Seq(points)

-----------------------------------------------------------------------------
(* track_utils.hpp. *)

(* waveform_quantisation_number. *)
Quantum(r) == (r \div 210) * 2

Sizeless(n, r) == n = 0 \/ Quantum(r) = 0

HighExtents(n, r) ==
  IF Sizeless(n, r) THEN [size |-> 0, entry |-> 0]
  ELSE [size |-> (n + Quantum(r) - 1) \div Quantum(r), entry |-> Quantum(r)]

(* all is the rounded sample count, samples_per_entry times the size. *)
OverviewExtents(n, r) ==
  IF Sizeless(n, r) THEN [size |-> 0, all |-> 0]
  ELSE [size |-> OverviewSize, all |-> (n \div Quantum(r)) * Quantum(r)]

(* Mutant: as if between the first point and the last. *)
OverviewBetween(w, n) == [i \in 1 .. n |-> w[((Len(w) - 1) * (2 * i - 1)) \div (2 * n) + 1]]

(* The point in the middle of each of n parts. *)
Overview(w, n) == [i \in 1 .. n |-> w[(Len(w) * (2 * i - 1)) \div (2 * n) + 1]]

-----------------------------------------------------------------------------
(* The calls. *)

Blank     == [all |-> 0, points |-> <<>>]
Scaled(w) == LET e == OverviewExtents(samples, rate)
             IN  [all |-> e.all, points |-> Overview(w, e.size)]

(* set_sample_count: 1.x rescales the overview if there is one, and has no *)
(* need to look at the waveform; 2.x and 3.x rescale nothing.              *)
SetSampleCount(n) ==
  /\ samples' = n
  /\ over' = IF over[1].points = <<>> THEN over
             ELSE [over EXCEPT ![1].all = OverviewExtents(n, rate).all]
  /\ UNCHANGED <<rate, high, late, undefined>>

(* Mutant: rescales the waveform, and not the overview. *)
RescaleWaveOnly(r) ==
  /\ high' = IF high.points = <<>> THEN high
             ELSE [high EXCEPT !.entry = HighExtents(samples, r).entry]
  /\ UNCHANGED over

(* 1.x rescales what there is of the two to the new rate. *)
Rescale(r) ==
  /\ high' = IF high.points = <<>> THEN high
             ELSE [high EXCEPT !.entry = HighExtents(samples, r).entry]
  /\ over' = IF over[1].points = <<>> THEN over
             ELSE [over EXCEPT ![1].all = OverviewExtents(samples, r).all]

SetSampleRate(r) ==
  /\ rate' = r
  /\ Rescale(r)
  /\ late' = (samples = 0)
  /\ UNCHANGED <<samples, undefined>>

(* set_waveform, with w1 in 1.x and w2 in 2.x and 3.x, where a waveform for *)
(* a track without sample count or rate dereferences an empty optional.    *)
SetWaveforms(w1, w2) ==
  /\ IF w1 = <<>> THEN high' = [entry |-> 0, points |-> <<>>]
     ELSE high' = [entry |-> HighExtents(samples, rate).entry, points |-> w1]
  /\ over' = <<IF w1 = <<>> THEN Blank ELSE Scaled(w1), IF w2 = <<>> THEN Blank ELSE Scaled(w2)>>
  /\ undefined' = (w2 # <<>> /\ (samples = 0 \/ rate = 0))
  /\ late' = (samples = 0)
  /\ UNCHANGED <<samples, rate>>

SetWaveform(w) == SetWaveforms(w, w)

(* What waveform() gives is set again: all of it in 1.x, and the overview  *)
(* in 2.x and 3.x.                                                         *)
SetAgain == SetWaveforms(high.points, over[2].points)

-----------------------------------------------------------------------------
WaveInit ==
  /\ samples \in SampleCounts /\ rate \in SampleRates
  /\ high = [entry |-> 0, points |-> <<>>]
  /\ over = <<Blank, Blank>>
  /\ late = FALSE
  /\ undefined = FALSE

WaveNext ==
  /\ ~undefined
  /\ \/ \E n \in SampleCounts : SetSampleCount(n)
     \/ \E r \in SampleRates : SetSampleRate(r)
     \/ \E w \in Waves : SetWaveform(w)
     \/ SetAgain

-----------------------------------------------------------------------------
WaveTypeOK ==
  /\ samples \in SampleCounts /\ rate \in SampleRates
  /\ high.points \in Waves /\ high.entry \in Nat
  /\ \A e \in 1 .. 2 : over[e].all \in Nat /\ Len(over[e].points) \in {0, OverviewSize}
  /\ late \in BOOLEAN /\ undefined \in BOOLEAN

(* In 1.x the waveform and the overview are always scaled to the size that *)
(* the track has now, in whatever order its parts were set - except that   *)
(* an entry of the waveform has no samples if there was no sample count    *)
(* when the waveform or the rate was set: set_sample_count does not mend it.*)
(* A waveform of the recommended extents covers the track with no entry    *)
(* past its end, and the overview covers it up to less than one entry.     *)
ExtentsFollow ==
  /\ ~Sizeless(samples, rate) =>
       LET e == HighExtents(samples, rate)
       IN  e.size * e.entry >= samples /\ (e.size - 1) * e.entry < samples
  /\ over[1].points # <<>> =>
       /\ over[1].all = OverviewExtents(samples, rate).all
       /\ samples # 0 /\ Quantum(rate) # 0 =>
            over[1].all <= samples /\ samples < over[1].all + Quantum(rate)
  /\ high.points # <<>> =>
       /\ late => high.entry = 0
       /\ ~late => high.entry = Quantum(rate)

(* What waveform() gives can be set again, so long as the track has a size:*)
(* in 2.x and 3.x, where it is not the waveform that was set, the overview *)
(* of the overview is itself. And the engines then show the same: 1.x makes*)
(* that same overview from the waveform it kept. (Where 2.x and 3.x have   *)
(* no overview, as a waveform set for a track without a size leaves none,  *)
(* there is nothing to set again, while 1.x can make one later.)           *)
OverviewSettles ==
  [][SetAgain /\ ~Sizeless(samples, rate) =>
       /\ over'[2].points = over[2].points
       /\ over[2].points # <<>> => over'[1].points = over[2].points]_waveVars
============================================================================
