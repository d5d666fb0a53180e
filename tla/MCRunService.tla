--------------------------- MODULE MCRunService ---------------------------
(* RunService on small instances; the values are in the .cfg files.  The     *)
(* symmetry is used by runs without liveness properties only.                *)
EXTENDS RunService, TLC

Symmetry == Permutations(Chats) \cup Permutations(Runs) \cup Permutations(Ops)
============================================================================
