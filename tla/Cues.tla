-------------------------------- MODULE Cues --------------------------------
(***************************************************************************)
(* The hot cues of a track with its main cue, or its loops: slots in one   *)
(* blob, which every call reads, changes and writes back as a whole. Two   *)
(* libraries side by side get the same public calls: one of engine 1.x     *)
(* (engine_track_impl, quick_cues_data, loops_data), and one of engine 2.x *)
(* or 3.x (track_impl, convert_hot_cues, convert_loops, quick_cues_blob).  *)
(*                                                                         *)
(* A label is empty, short, or longer than the one byte of its length can  *)
(* tell; colours are left out. Slots are counted from 0, as in the code.   *)
(***************************************************************************)
EXTENDS Integers, Sequences

CONSTANTS
  MaxSlots,    (* MAX_QUICK_CUES, MAX_LOOPS: 8                              *)
  Offsets      (* sample offsets; -1 is that of an empty slot, 0 that of no *)
               (* main cue                                                  *)

VARIABLES
  kind,        (* "cue" or "loop"                                           *)
  blob,        (* per engine: the slots as stored, and the main cue         *)
  answer,      (* per engine: how the last call ended                       *)
  put,         (* history: what was last put where                          *)
  fit          (* history: have all calls been such as both engines take?   *)

cueVars == <<kind, blob, answer, put, fit>>

ASSUME CuesMaxSlots == MaxSlots \in Nat \ {0}
ASSUME CuesOffsets  == Offsets \subseteq Int /\ {-1, 0} \subseteq Offsets

Engines == {1, 2}
Labels  == {"", "short", "long"}
None    == [label |-> "", at |-> -1, set |-> FALSE]
Slot    == [label : Labels, at : Offsets \ {0}, set : {TRUE}] \cup {None}

(* Padded up to the number of slots, and never cut. *)
Padded(slots) == slots \o [i \in 1 .. MaxSlots - Len(slots) |-> None]

Calls ==
  [op : {"ask"}, i : -1 .. MaxSlots] \cup
  [op : {"set_at"}, i : -1 .. MaxSlots, slot : Slot] \cup
  [op : {"set_all"}, slots : UNION {[1 .. n -> Slot] : n \in 0 .. MaxSlots + 1}] \cup
  (IF kind = "cue" THEN [op : {"set_main"}, main : Offsets \ {-1}] ELSE {})

-----------------------------------------------------------------------------
(* Reading. An empty slot is told by its offset; in 2.x and 3.x a loop, by *)
(* flags of its own.                                                       *)

Read(e, slot) == IF ~(kind = "loop" /\ e = 2) /\ slot.at = -1 THEN None ELSE slot

Readings(e) == [i \in DOMAIN blob[e].slots |-> Read(e, blob[e].slots[i])]

Has(e, i) == i \in 0 .. Len(blob[e].slots) - 1

(* 2.x and 3.x check the index, and let one through that is too many; 1.x  *)
(* does not check it.                                                      *)
TurnedAway(e, i) == e = 2 /\ (i < 0 \/ i > Len(blob[e].slots))

-----------------------------------------------------------------------------
(* Writing, with the slots and main cue that a call has arrived at.        *)

Encodable(slots) == \A i \in DOMAIN slots : slots[i].set => slots[i].label # ""

(* quick_cues_data::encode() has a buffer for MaxSlots cues, and the main  *)
(* cue comes last; loops_data::encode() one for as many as there are.      *)
Overruns(slots) == kind = "cue" /\ Len(slots) > MaxSlots

(* Mutant: without reading it back. *)
AcceptedUnread(slots) == blob[1].slots # <<>>

(* set_performance_data_column wants to find a row, and to read back what  *)
(* it is about to write.                                                   *)
Accepted(slots) ==
  /\ blob[1].slots # <<>>
  /\ \A i \in DOMAIN slots : slots[i].set => slots[i].label # "long" /\ slots[i].at # -1

Ended(end, slot) == [end |-> end, slot |-> slot]

Leaving(end, b) == [answer |-> Ended(end, None), blob |-> b]

Stored1(slots, main) ==
  IF ~Encodable(slots) THEN Leaving("refused", blob[1])
  ELSE IF Overruns(slots) THEN Leaving("undefined", blob[1])
  ELSE IF ~Accepted(slots) THEN Leaving("refused", blob[1])
  ELSE Leaving("ok", [slots |-> slots, main |-> main])

(* Mutant: the rest of the blob is made anew. *)
StoredAnew(e, slots, main) ==
  IF e = 1 THEN Stored1(slots, main) ELSE Leaving("ok", [slots |-> slots, main |-> 0])

Stored(e, slots, main) ==
  IF e = 1 THEN Stored1(slots, main) ELSE Leaving("ok", [slots |-> slots, main |-> main])

(* What an engine makes of a call: hot_cue_at and loop_at, set_hot_cue_at  *)
(* and set_loop_at, set_hot_cues and set_loops, set_main_cue.              *)
Made(e, c) ==
  CASE c.op \in {"ask", "set_at"} /\ TurnedAway(e, c.i) -> Leaving("refused", blob[e])
    [] c.op \in {"ask", "set_at"} /\ ~TurnedAway(e, c.i) /\ ~Has(e, c.i) ->
         Leaving("undefined", blob[e])
    [] c.op = "ask" /\ Has(e, c.i) /\ ~TurnedAway(e, c.i) ->
         [answer |-> Ended("ok", Read(e, blob[e].slots[c.i + 1])), blob |-> blob[e]]
    [] c.op = "set_at" /\ Has(e, c.i) /\ ~TurnedAway(e, c.i) ->
         Stored(e, [blob[e].slots EXCEPT ![c.i + 1] = c.slot], blob[e].main)
    [] c.op = "set_all" /\ e = 2 /\ Len(c.slots) > MaxSlots -> Leaving("refused", blob[e])
    [] c.op = "set_all" /\ ~(e = 2 /\ Len(c.slots) > MaxSlots) ->
         Stored(e, Padded(c.slots), blob[e].main)
    [] c.op = "set_main" -> Stored(e, blob[e].slots, c.main)

(* What both engines take: indexes of slots, at most MaxSlots of them, with *)
(* labels of a length that fits, and offsets other than that of an empty   *)
(* slot.                                                                   *)
Common(slot) == slot = None \/ (slot.label = "short" /\ slot.at # -1)

BothTake(c) ==
  CASE c.op = "ask"      -> c.i \in 0 .. MaxSlots - 1
    [] c.op = "set_at"   -> c.i \in 0 .. MaxSlots - 1 /\ Common(c.slot)
    [] c.op = "set_all"  -> Len(c.slots) <= MaxSlots /\ \A i \in DOMAIN c.slots : Common(c.slots[i])
    [] c.op = "set_main" -> TRUE

Putting(c) ==
  CASE c.op = "ask"      -> put
    [] c.op = "set_at"   -> [put EXCEPT !.slots[c.i + 1] = c.slot]
    [] c.op = "set_all"  -> [put EXCEPT !.slots = Padded(c.slots)]
    [] c.op = "set_main" -> [put EXCEPT !.main = c.main]

-----------------------------------------------------------------------------
(* A track of this library's, with all its slots; or one that has no row of *)
(* performance data in 1.x, and no blob in 2.x or 3.x.                     *)
CueInit ==
  /\ kind \in {"cue", "loop"}
  /\ \E slots \in {<<>>, Padded(<<>>)} :
       /\ put = [slots |-> slots, main |-> 0]
       /\ fit = (slots # <<>>)
  /\ blob = [e \in Engines |-> put]
  /\ answer = [e \in Engines |-> Ended("ok", None)]

(* A label that is too long makes 2.x and 3.x write what they do not read   *)
(* back: its length is cut, and what follows is taken for something else.  *)
Garbled == \E i \in DOMAIN blob[2].slots : blob[2].slots[i].label = "long"

(* Nothing can be said of what comes after. *)
Undefined == Garbled \/ \E e \in Engines : answer[e].end = "undefined"

CueNext ==
  /\ ~Undefined
  /\ \E c \in Calls :
       /\ blob'   = [e \in Engines |-> Made(e, c).blob]
       /\ answer' = [e \in Engines |-> Made(e, c).answer]
       /\ fit' = (fit /\ BothTake(c))
       /\ put' = IF fit' THEN Putting(c) ELSE put
  /\ UNCHANGED kind

-----------------------------------------------------------------------------
CueTypeOK ==
  /\ kind \in {"cue", "loop"}
  /\ \A b \in {blob[1], blob[2], put} :
       /\ \A i \in DOMAIN b.slots : b.slots[i] \in Slot
       /\ Len(b.slots) \in {0} \cup MaxSlots .. MaxSlots + 1
       /\ b.main \in Offsets \ {-1}
  /\ Len(blob[2].slots) <= MaxSlots
  /\ \A e \in Engines : answer[e] \in [end : {"ok", "refused", "undefined"}, slot : Slot]

(* A program that keeps to the common ground need not know which engine a  *)
(* library is of: no call is refused, both answer alike, and each slot and *)
(* the main cue read as what was last put there, whichever calls on the    *)
(* same blob came after.                                                   *)
EnginesAlike ==
  fit => /\ answer[1] = answer[2] /\ answer[1].end = "ok"
         /\ \A e \in Engines : Readings(e) = put.slots /\ blob[e].main = put.main

(* Whatever they are given, the setters of 1.x store nothing that is not    *)
(* read back as it was put.                                                *)
StoresWhatItReads ==
  \A i \in DOMAIN blob[1].slots :
    blob[1].slots[i].label # "long" /\ Read(1, blob[1].slots[i]) = blob[1].slots[i]
============================================================================
