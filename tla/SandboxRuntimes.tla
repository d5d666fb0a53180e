-------------------------- MODULE SandboxRuntimes --------------------------
(***************************************************************************)
(* Durable ownership of the disposable E2B sandboxes                       *)
(* (src/agent/sandbox_runtime.py): the sandbox_runtimes table, the         *)
(* in-memory handles, and the provider the rows stand for.  Each operator  *)
(* below is one step of a SandboxRuntimes method between two awaits; the   *)
(* module RunService composes them into the callers' control flow.         *)
(*                                                                         *)
(* A sandbox is named by the operation_id it was requested under: the      *)
(* provider creates at most one sandbox for an operation.                  *)
(***************************************************************************)
EXTENDS Integers, FiniteSets

CONSTANTS Chats,    \* project ids
          Ops,      \* operation ids, one for every AsyncSandbox.create
          MaxRev,   \* bound: revisions saved in all the projects together
          None      \* Python's None

ASSUME RuntimesAssumption ==
    /\ MaxRev \in Nat
    /\ None \notin Chats
    /\ None \notin Ops

VARIABLES row,      \* row[c]: the sandbox_runtimes row of project c
          handles,  \* handles[c]: the connected AsyncSandbox, or None
          sb,       \* sb[o]: what the provider knows of operation o
          content   \* content[o]: the source tree inside the sandbox

rtVars == <<row, handles, sb, content>>

\* Revision 0 is the starter template (no saved revision yet); Dirty is a tree
\* that equals no saved revision.
Revs == 0..MaxRev
Dirty == -1

RowStates == {"absent", "creating", "running", "paused", "retiring"}

RowType == [state : RowStates, op : Ops \cup {None}, sid : Ops \cup {None},
            reusable : BOOLEAN, rev : Revs]

NoRow == [state |-> "absent", op |-> None, sid |-> None, reusable |-> FALSE, rev |-> 0]

\* An operation is "requested" from the commit of its ownership intent on: the
\* create request may be processed at any later time, or never.
SandboxStates == {"unused", "requested", "running", "paused", "gone"}

RuntimesTypeOK ==
    /\ row \in [Chats -> RowType]
    /\ handles \in [Chats -> Ops \cup {None}]
    /\ sb \in [Ops -> SandboxStates]
    /\ content \in [Ops -> Revs \cup {Dirty}]

RuntimesInit ==
    /\ row = [c \in Chats |-> NoRow]
    /\ handles = [c \in Chats |-> None]
    /\ sb = [o \in Ops |-> "unused"]
    /\ content = [o \in Ops |-> 0]

----------------------------------------------------------------------------
(* Reads.                                                                  *)

HasRow(c) == row[c].state # "absent"

\* Projects whose row occupies a running slot: every state but 'paused'.
Reserved == {c \in Chats : HasRow(c) /\ row[c].state # "paused"}

Compatible(c, r) ==
    /\ row[c].reusable
    /\ row[c].sid # None
    /\ row[c].rev = r
    /\ row[c].state \in {"running", "paused"}

----------------------------------------------------------------------------
(* Writes of the row and of the handle.                                    *)

\* The compare-and-set on operation_id that every row update goes through.
Change(c, o, new) ==
    /\ HasRow(c) /\ row[c].op = o
    /\ row' = [row EXCEPT ![c] = new]

DeleteRow(c, o) == row' = [row EXCEPT ![c] = IF @.op = o THEN NoRow ELSE @]

ForgetHandle(c) == handles' = [handles EXCEPT ![c] = None]

\* Mutant: the handle survives its row.
RemoveKeepsHandle(c, o) == DeleteRow(c, o) /\ UNCHANGED <<handles, sb, content>>

Remove(c, o) == DeleteRow(c, o) /\ ForgetHandle(c) /\ UNCHANGED <<sb, content>>

\* remove() cancelled after the commit of its DELETE and before forget_handle.
RemoveCut(c, o) == DeleteRow(c, o) /\ UNCHANGED <<handles, sb, content>>

\* Ownership intent is committed before the provider request.
InsertRow(c, o) ==
    /\ ~HasRow(c)
    /\ sb[o] = "unused"
    /\ row' = [row EXCEPT ![c] = [NoRow EXCEPT !.state = "creating", !.op = o]]
    /\ sb' = [sb EXCEPT ![o] = "requested"]
    /\ UNCHANGED <<handles, content>>

\* The create call returned a sandbox.
CreateReturns(c, o) ==
    /\ sb[o] \in {"running", "paused"}
    /\ handles' = [handles EXCEPT ![c] = o]
    /\ UNCHANGED <<row, sb, content>>

\* Mutant: a lost response is taken for a rejection.
CreateLostIsRejected(o) == sb[o] \in {"requested", "running"} /\ UNCHANGED rtVars

\* The provider rejected the request: no sandbox will ever exist for it.
CreateRejected(o) ==
    /\ sb[o] = "requested"
    /\ sb' = [sb EXCEPT ![o] = "gone"]
    /\ UNCHANGED <<row, handles, content>>

RegisterSandbox(c, o) ==
    /\ Change(c, o, [row[c] EXCEPT !.sid = o, !.state = "running"])
    /\ UNCHANGED <<handles, sb, content>>

\* Mutant: a paused runtime is taken for a dead one.
StateNotRunning(c, o) == sb[o] \in {"paused", "gone"} /\ Remove(c, o)

\* state(row): the three control-plane answers that change anything.
StateMissing(c, o) == sb[o] = "gone" /\ Remove(c, o)

StateRunning(c, o) ==
    /\ sb[o] = "running"
    /\ Change(c, o, [row[c] EXCEPT !.state = "running"])
    /\ UNCHANGED <<handles, sb, content>>

StatePaused(c, o) ==
    /\ sb[o] = "paused"
    /\ Change(c, o, [row[c] EXCEPT !.state = "paused"])
    /\ ForgetHandle(c)
    /\ UNCHANGED <<sb, content>>

\* The row says 'running' before connect may wake the sandbox.
ReserveResume(c, o) ==
    /\ Change(c, o, [row[c] EXCEPT !.state = "running"])
    /\ UNCHANGED <<handles, sb, content>>

ConnectReturns(c, o) ==
    /\ sb[o] \in {"running", "paused"}
    /\ sb' = [sb EXCEPT ![o] = "running"]
    /\ handles' = [handles EXCEPT ![c] = o]
    /\ UNCHANGED <<row, content>>

\* The connect woke the sandbox, its answer was lost.
ConnectLost(o) ==
    /\ sb[o] \in {"running", "paused"}
    /\ sb' = [sb EXCEPT ![o] = "running"]
    /\ UNCHANGED <<row, handles, content>>

\* Mutant: the run starts to edit a runtime that is still offered for reuse.
InvalidateNothing(c) == HasRow(c) /\ UNCHANGED rtVars

InvalidateRow(c) ==
    /\ HasRow(c)
    /\ row' = [row EXCEPT ![c] = [@ EXCEPT !.reusable = FALSE]]
    /\ UNCHANGED <<handles, sb, content>>

MarkReusable(c, r) ==
    /\ handles[c] # None
    /\ r # 0
    /\ row[c].sid = handles[c]
    /\ row[c].state = "running"
    /\ row' = [row EXCEPT ![c] = [@ EXCEPT !.reusable = TRUE, !.rev = r]]
    /\ UNCHANGED <<handles, sb, content>>

PauseSandbox(c, o) ==
    /\ sb[o] \in {"running", "paused"}
    /\ sb' = [sb EXCEPT ![o] = "paused"]
    /\ Change(c, o, [row[c] EXCEPT !.state = "paused"])
    /\ ForgetHandle(c)
    /\ UNCHANGED content

\* A refused or timed-out pause: the sandbox may or may not have stopped, and
\* the row keeps its reservation.
PauseFails(o) ==
    /\ \/ sb[o] = "running" /\ sb' = [sb EXCEPT ![o] = "paused"]
       \/ UNCHANGED sb
    /\ UNCHANGED <<row, handles, content>>

----------------------------------------------------------------------------
(* The steps of retire(chat_id).                                           *)

\* Mutant: a row without a sandbox id still contributes its id.
KnownIdsUnfiltered(c) == {row[c].sid, handles[c]}

\* The sandboxes retire() knows without asking the provider.
KnownIds(c) == {row[c].sid, handles[c]} \ {None}

MarkRetiring(c) ==
    /\ row' = IF HasRow(c)
              THEN [row EXCEPT ![c] = [@ EXCEPT !.state = "retiring", !.reusable = FALSE]]
              ELSE row
    /\ UNCHANGED <<handles, sb, content>>

\* Killing a sandbox that is already absent also succeeds.
Kill(ids) ==
    /\ sb' = [o \in Ops |-> IF o \in ids THEN "gone" ELSE sb[o]]
    /\ content' = [o \in Ops |-> IF o \in ids THEN 0 ELSE content[o]]
    /\ UNCHANGED <<row, handles>>

\* retire() confirmed the termination: drop the row it read, if it read one.
RetireRemove(c, o) ==
    IF o # None THEN Remove(c, o) ELSE ForgetHandle(c) /\ UNCHANGED <<row, sb, content>>

----------------------------------------------------------------------------
(* The provider, acting on its own.                                        *)

\* A create request that was sent is processed, perhaps long after the caller
\* gave up on it.
Provision(o) ==
    /\ sb[o] = "requested"
    /\ sb' = [sb EXCEPT ![o] = "running"]
    /\ UNCHANGED <<row, handles, content>>

\* lifecycle on_timeout = 'pause', auto_resume off.
AutoPause(o) ==
    /\ sb[o] = "running"
    /\ sb' = [sb EXCEPT ![o] = "paused"]
    /\ UNCHANGED <<row, handles, content>>

\* The provider loses or expires a sandbox.
Vanish(o) ==
    /\ sb[o] \in {"running", "paused"}
    /\ sb' = [sb EXCEPT ![o] = "gone"]
    /\ content' = [content EXCEPT ![o] = 0]
    /\ UNCHANGED <<row, handles>>

----------------------------------------------------------------------------
(* Ownership.                                                              *)

Alive(o) == sb[o] \in {"requested", "running", "paused"}

\* A sandbox the provider runs, keeps paused or may still create is owned by a
\* durable row, whatever failed, crashed or got lost since its request
\* (sandbox_runtime.py: "Only callers with confirmed absence/termination remove
\* runtime ownership").
NoOrphan == \A o \in Ops : Alive(o) => \E c \in Chats : row[c].op = o

RowShape ==
    \A c \in Chats : /\ row[c].op = None <=> row[c].state = "absent"
                     /\ row[c].sid \in {None, row[c].op}
                     /\ row[c].op # None => sb[row[c].op] # "unused"

UniqueOp == \A c, d \in Chats : row[c].op # None /\ row[c].op = row[d].op => c = d

\* A row stands for one operation, and no other row stands for it.
RowsApart == RowShape /\ UniqueOp

\* A handle belongs to the row's own sandbox: what retire() adds to its ids.
HandleMatchesRow == \A c \in Chats : handles[c] # None => handles[c] = row[c].op

RowsOwn == RowShape /\ UniqueOp /\ HandleMatchesRow /\ NoOrphan
=============================================================================
