-------------------------- MODULE RuntimeOwnership --------------------------
(***************************************************************************)
(* What the sandbox_runtimes table promises, free of tasks, locks and      *)
(* handles: an operation is owned before the provider hears of it, its     *)
(* sandbox is created, put to sleep and woken only while owned, and        *)
(* ownership ends only when the sandbox is known to be gone.               *)
(* RunService is shown to implement this specification.                    *)
(***************************************************************************)
CONSTANT Ops

VARIABLES owned,  \* operations some durable row stands for
          sb      \* the provider's view of each operation

Init ==
    /\ owned = {}
    /\ sb = [o \in Ops |-> "unused"]

Move(o, from, to) == sb[o] \in from /\ sb' = [sb EXCEPT ![o] = to]

Intend(o) == Move(o, {"unused"}, "requested") /\ owned' = owned \cup {o}

\* Creation, sleep and wake-up.
Live(o) ==
    /\ o \in owned
    /\ \/ Move(o, {"requested", "paused"}, "running")
       \/ Move(o, {"running"}, "paused")
    /\ UNCHANGED owned

\* A rejected request or a lost sandbox; a termination names sandboxes that exist.
End(o) == Move(o, {"requested", "running", "paused"}, "gone") /\ UNCHANGED owned

Terminate(ids) ==
    /\ \A o \in ids : sb[o] \in {"running", "paused", "gone"}
    /\ sb' = [o \in Ops |-> IF o \in ids THEN "gone" ELSE sb[o]]
    /\ UNCHANGED owned

Disown(o) ==
    /\ o \in owned
    /\ sb[o] = "gone"
    /\ owned' = owned \ {o}
    /\ UNCHANGED sb

Next ==
    \/ \E o \in Ops : Intend(o) \/ Live(o) \/ End(o) \/ Disown(o)
    \/ \E ids \in SUBSET Ops : Terminate(ids)

Spec == Init /\ [][Next]_<<owned, sb>>
=============================================================================
