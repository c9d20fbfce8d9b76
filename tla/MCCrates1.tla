------------------------------ MODULE MCCrates1 ------------------------------
(* Instances of Crates1 for TLC. *)
EXTENDS Crates1

(* Titles are only compared with each other. *)
TitleSymmetry == Permutations(Titles)

(* What the next calls depend on; see MCLibrary.  Of the order of rows only*)
(* that of the rows below one crate is ever seen.                          *)
State ==
  <<build, lists, held, moved, outcome = "never_returns",
    [i \in Ids |-> Children(i)],
    {parents[k] : k \in DOMAIN parents}, Cardinality(DOMAIN parents)>>
=============================================================================
