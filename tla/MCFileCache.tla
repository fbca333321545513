---------------------------- MODULE MCFileCache ----------------------------
(***************************************************************************)
(* Two processes, and files enough for the one at the path, one that was   *)
(* renamed over while it is read, a temporary one and one left behind.     *)
(***************************************************************************)
EXTENDS FileCache, TLC

Symmetric == Permutations(Processes) \cup Permutations(Files)
=============================================================================
