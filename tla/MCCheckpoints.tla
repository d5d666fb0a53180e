--------------------------- MODULE MCCheckpoints ---------------------------
(* Checkpoints on small instances; the values are in the .cfg files.       *)
EXTENDS Checkpoints
============================================================================
