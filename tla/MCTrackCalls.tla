---------------------------- MODULE MCTrackCalls ----------------------------
(* Two sessions, and at most MaxCalls calls between them. *)
EXTENDS TrackCalls
=============================================================================
