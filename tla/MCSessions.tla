------------------------------ MODULE MCSessions ------------------------------
(* Two sessions: any two calls, and three calls that move, rename and      *)
(* remove playlists, or put tracks in and out of them.                     *)
EXTENDS Sessions

MCMenus ==
  { [ops |-> Operations, calls |-> 2],
    [ops |-> {"set_name", "set_parent", "remove_list"}, calls |-> 3],
    [ops |-> {"add_track_after", "remove_track"}, calls |-> 3] }
=============================================================================
