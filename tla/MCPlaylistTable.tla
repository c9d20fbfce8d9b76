--------------------------- MODULE MCPlaylistTable ---------------------------
(* Instances of PlaylistTable for TLC. *)
EXTENDS PlaylistTable, TLC

(* Titles are only compared with each other. *)
TitleSymmetry == Permutations(Titles)

(* No step depends on how the last call ended. *)
Table == <<lists, seq>>
=============================================================================
