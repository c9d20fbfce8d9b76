--------------------------- MODULE MCPlaylistEntity ---------------------------
(* Instances of PlaylistEntity for TLC. *)
EXTENDS PlaylistEntity, TLC

(* Playlists and databases are only compared with others of their kind. *)
RowSymmetry == Permutations(Playlists) \cup Permutations(Uuids)
=============================================================================
