------------------------------ MODULE Analyses ------------------------------
(***************************************************************************)
(* What the analysis of a track comes to in a database: its beatgrid, its  *)
(* cues or loops, and its waveform. They are held in blobs of their own,   *)
(* and no call on the one reads the other, so that a behaviour here is one *)
(* of the calls on a single kind.                                          *)
(***************************************************************************)
EXTENDS Beatgrids, Cues, Waveforms

VARIABLE
  of    (* which of the three this behaviour is about                       *)

analysisVars == <<of, gridVars, cueVars, waveVars>>

(* The other two stay as they are in one of their initial states. *)
GridAtRest == count = (CHOOSE n \in Counts : TRUE) /\ grid = <<>> /\ readable = TRUE /\ result = "ok"
CuesAtRest == /\ kind = "cue" /\ put = [slots |-> <<>>, main |-> 0] /\ fit = FALSE
              /\ blob = [e \in Engines |-> put]
              /\ answer = [e \in Engines |-> Ended("ok", None)]
WaveAtRest == /\ samples = 0 /\ rate = 0 /\ high = [entry |-> 0, points |-> <<>>]
              /\ over = <<Blank, Blank>> /\ late = FALSE /\ undefined = FALSE

AnalysesInit ==
  \/ of = "beatgrid" /\ GridInit   /\ CuesAtRest /\ WaveAtRest
  \/ of = "cues"     /\ GridAtRest /\ CueInit    /\ WaveAtRest
  \/ of = "waveform" /\ GridAtRest /\ CuesAtRest /\ WaveInit

(* A call has run into undefined behaviour, or left what cannot be read. *)
AnalysesRest == (result = "undefined" \/ Undefined \/ undefined) /\ UNCHANGED analysisVars

AnalysesNext ==
  \/ of = "beatgrid" /\ GridNext /\ UNCHANGED <<of, cueVars, waveVars>>
  \/ of = "cues"     /\ CueNext  /\ UNCHANGED <<of, gridVars, waveVars>>
  \/ of = "waveform" /\ WaveNext /\ UNCHANGED <<of, gridVars, cueVars>>
  \/ AnalysesRest

AnalysesSpec == AnalysesInit /\ [][AnalysesNext]_analysisVars

(* Every part of the state is what its comment says.                       *)
AnalysesTypeOK ==
  /\ of \in {"beatgrid", "cues", "waveform"}
  /\ GridTypeOK /\ CueTypeOK /\ WaveTypeOK

(* And what the setters of 1.x store 1.x can read back; 2.x and 3.x write  *)
(* a label that is too long (Garbled in Cues) as what they do not read.     *)
BlobsAreSound == AnalysesTypeOK /\ StoresWhatItReads
=============================================================================
