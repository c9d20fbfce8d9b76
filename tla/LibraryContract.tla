--------------------------- MODULE LibraryContract ---------------------------
(***************************************************************************)
(* That the calls of Library do what DjLibrary promises of them, when the  *)
(* two tables are read the way the query methods read them: children() by  *)
(* the nextListId links, tracks() by the nextEntityId links.               *)
(***************************************************************************)
EXTENDS Library

Promise == INSTANCE DjLibrary
  WITH Root    <- None,
       tree    <- [p \in Owners |-> PT!ChildIds(lists, p)],
       name    <- [i \in DOMAIN lists |-> lists[i].title],
       content <- [p \in DOMAIN lists |-> PE!TrackIds(entities, p)]

(* Every call that succeeds does exactly what it promises, to the place of *)
(* every playlist and of every track, and every one that fails changes     *)
(* nothing that a caller can see.                                          *)
KeepsPromises ==
  /\ Promise!Init
  /\ [][IF outcome' = "ok" THEN Promise!Promised(call') ELSE UNCHANGED Promise!all]_vars
=============================================================================
