----------------------------- MODULE MCPlaylists1 -----------------------------
(* Instances of Playlists1 for TLC. *)
EXTENDS Playlists1

(* What the next calls depend on; see MCLibrary. *)
State == <<build, data>>
=============================================================================
