---------------------------- MODULE MCWorkspace -----------------------------
(* Instance of Workspace for TLC; see README.md for the bounds.             *)
EXTENDS Workspace

\* The second revision loses a file; its other file does not fit into the cache twice.
MCFilesOf == [r \in 1..2 |-> IF r = 1 THEN {"app", "style"} ELSE {"app"}]
MCSize == [f \in {"app", "style"} |-> IF f = "app" THEN 2 ELSE 1]
=============================================================================
