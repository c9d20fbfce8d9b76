------------------------------- MODULE MCLibrary -------------------------------
(* Instances of LibraryContract for TLC. *)
EXTENDS LibraryContract, TLC

(* Titles are only compared with each other. *)
TitleSymmetry == Permutations(Titles)

(* What the next calls depend on.  How the last one ended, and which it    *)
(* was, only matters to properties of steps, and those are checked at      *)
(* every step that leads to a state.                                       *)
State == <<listVars, entityVars, trackVars, outcome = "never_returns">>
=============================================================================
