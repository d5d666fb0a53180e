----------------------------- MODULE RunService -----------------------------
(***************************************************************************)
(* The single-worker run service (src/agent/service.py and the project     *)
(* routes of src/main.py): admission under one asyncio lock, the execute   *)
(* task of every run, preview opening, cancellation, project deletion, the *)
(* idle reaper, history snapshots, crash and startup.  Steps are the code  *)
(* between two awaits that can matter to another task.                     *)
(***************************************************************************)
EXTENDS SandboxRuntimes

CONSTANTS Runs,                 \* run ids (bound: requests to admit)
          Opens,                \* open_preview requests
          Reaper,               \* the maintenance task that sweeps the runtimes
          Free,                 \* nobody holds the admission lock
          MAX_CONCURRENT_RUNS,
          MAX_LIVE_SANDBOXES,
          MaxCrashes,           \* bound: process crashes
          CutRemove,            \* may a cancellation land inside remove()?
          StaleReads            \* may reserved()'s answer be overtaken by another task?

Jobs == Runs \cup Opens
\* A project's own process is the cleanup its DELETE request runs.
Procs == Jobs \cup Chats \cup {Reaper}

ASSUME ServiceAssumption ==
    /\ MAX_CONCURRENT_RUNS \in Nat
    /\ MAX_LIVE_SANDBOXES \in Nat
    /\ MaxCrashes \in Nat
    /\ CutRemove \in BOOLEAN
    /\ StaleReads \in BOOLEAN
    /\ Free \notin Procs
    /\ None \notin Procs
    /\ Reaper \notin Jobs \cup Chats
    /\ Runs \cap Opens = {}
    /\ Jobs \cap Chats = {}

VARIABLES pc,          \* where each task stands
          chat,        \* the project each task works for
          admission,   \* holder of Service.admission
          resv,        \* the reserved() set an admission read
          active,      \* Service.active: the live runs
          opening,     \* Service.opening
          cancelling,  \* LiveRun.cancelling
          op,          \* the operation a job read or created
          rev,         \* the revision get_e2b_sandbox reads (LiveRun.revision_id later)
          base,        \* the revision open_preview read first
          fin,         \* the status execute() will record
          ret,         \* local state of a retire() call
          sweep,       \* what the maintain() pass has still to visit: <<project, retire it?>>
          phase,       \* of the process: "up", "down", "starting"
          crashes,
          project,     \* the chats table: "new", "exists", "deleted"
          saved,       \* chats.latest_saved_revision_id
          pending,     \* pending revisions whose object is uploaded: <<rev, parent>>
          nextRev,     \* revisions handed out so far
          runStatus,   \* runs.status
          snap         \* runs a snapshot() read as running and has not judged yet

locVars == <<chat, op, rev, base, fin>>
jobVars == <<pc, ret, locVars>>
lockVars == <<admission, resv>>
regVars == <<active, opening, cancelling>>
procVars == <<sweep, phase, crashes>>
memVars == <<lockVars, regVars, procVars>>
dbVars  == <<project, saved, pending, nextRev, runStatus>>
vars == <<jobVars, memVars, dbVars, snap, rtVars>>

Statuses == {"none", "running", "succeeded", "failed", "cancelled", "interrupted", "deleted"}
Terminal == {"succeeded", "failed", "cancelled", "interrupted"}

\* The body of execute() / open_preview(): an exception here reaches unwind.
Acquiring == {"acquire", "inspect", "resume", "connect", "replace", "reserve",
              "create", "rejected", "register", "restore"}
Body == {"start", "source"} \cup Acquiring \cup {"invalidate", "edit", "probe", "publish"}
\* The finally block of execute().
Finally == {"unwind", "retiring", "finish", "unwind2", "retiring2", "pop"}
PCs == {"none", "admitting", "committed"} \cup Body \cup Finally
         \cup {"dead", "leaked", "done", "sweep", "sweepstate", "sweeppause"}

RetPCs == {"idle", "list", "kill", "remove", "ok", "failed"}
IdleRet == [pc |-> "idle", op |-> None, ids |-> {}]

JobsTypeOK ==
    /\ pc \in [Procs -> PCs]
    /\ ret \in [Procs -> [pc : RetPCs, op : Ops \cup {None}, ids : SUBSET Ops]]
    /\ chat \in [Procs -> Chats \cup {None}]
    /\ op \in [Jobs -> Ops \cup {None}]
    /\ rev \in [Jobs -> Revs]
    /\ base \in [Jobs -> Revs]
    /\ fin \in [Jobs -> Statuses]

MemTypeOK ==
    /\ admission \in Procs \cup {Free}
    /\ resv \in SUBSET Chats
    /\ active \in SUBSET Runs
    /\ opening \in SUBSET Chats
    /\ cancelling \in SUBSET Runs
    /\ sweep \in SUBSET (Chats \X BOOLEAN)
    /\ phase \in {"up", "down", "starting"}
    /\ crashes \in 0..MaxCrashes
    /\ snap \in SUBSET Runs

DbTypeOK ==
    /\ project \in [Chats -> {"new", "exists", "deleted"}]
    /\ saved \in [Chats -> Revs]
    /\ pending \in [Chats -> SUBSET (Revs \X Revs)]
    /\ nextRev \in Revs
    /\ runStatus \in [Runs -> Statuses]

\* The state of the program has the shape its classes and tables give it.
TypeOK == RuntimesTypeOK /\ JobsTypeOK /\ MemTypeOK /\ DbTypeOK

Init ==
    /\ RuntimesInit
    /\ pc = [p \in Procs |-> "none"]
    /\ chat = [p \in Procs |-> IF p \in Chats THEN p ELSE None]
    /\ admission = Free /\ resv = {} /\ active = {} /\ opening = {} /\ cancelling = {}
    /\ op = [j \in Jobs |-> None]
    /\ rev = [j \in Jobs |-> 0]
    /\ base = [j \in Jobs |-> 0]
    /\ fin = [j \in Jobs |-> "none"]
    /\ ret = [p \in Procs |-> IdleRet]
    /\ sweep = {} /\ phase = "up" /\ crashes = 0
    /\ project = [c \in Chats |-> "new"]
    /\ saved = [c \in Chats |-> 0]
    /\ pending = [c \in Chats |-> {}]
    /\ nextRev = 0
    /\ runStatus = [r \in Runs |-> "none"]
    /\ snap = {}

----------------------------------------------------------------------------
(* Abbreviations.                                                          *)

ActiveChats == {chat[r] : r \in active}

\* Mutant: the live runs are forgotten.
BusyOpening == opening

\* The projects some job owns.
Busy == opening \cup ActiveChats

Goto(p, l) == pc' = [pc EXCEPT ![p] = l]
Step(p, from, to) == pc[p] = from /\ Goto(p, to)

\* A step of one task that touches nothing but the runtimes ...
Quiet == UNCHANGED <<ret, locVars, memVars, dbVars, snap>>
\* ... and one that leaves the shared state of the service alone.
Stay == UNCHANGED <<memVars, dbVars, snap>>

Release(p) == admission' = IF admission = p THEN Free ELSE admission

\* A job is over: its local variables are gone.  A Run keeps its project; an
\* open_preview request leaves nothing and may come again.
Over(j) ==
    /\ Goto(j, IF j \in Runs THEN "done" ELSE "none")
    /\ chat' = IF j \in Runs THEN chat ELSE [chat EXCEPT ![j] = None]
    /\ op' = [op EXCEPT ![j] = None]
    /\ rev' = [rev EXCEPT ![j] = 0]
    /\ base' = [base EXCEPT ![j] = 0]
    /\ fin' = [fin EXCEPT ![j] = "none"]
    /\ ret' = [ret EXCEPT ![j] = IdleRet]

\* An exception leaves the body: execute() will record the status l.
Fail(j, l) == Goto(j, "unwind") /\ fin' = [fin EXCEPT ![j] = l]

----------------------------------------------------------------------------
(* Admission: admit() and the head of open_preview().                      *)

\* Take the lock, pass the concurrency test, and read reserved().
AdmitLock(j, c) ==
    /\ phase = "up" /\ admission = Free
    /\ Cardinality(active) + Cardinality(opening) < MAX_CONCURRENT_RUNS
    /\ j \in Opens => c \notin Busy /\ project[c] # "new"
    /\ Step(j, "none", "admitting")
    /\ admission' = j /\ resv' = Reserved
    /\ chat' = [chat EXCEPT ![j] = c]
    /\ UNCHANGED <<op, rev, base, fin, ret, regVars, procVars, dbVars, snap, rtVars>>

\* Mutant: jobs that have no row yet are not counted.
HasCapacityRowsOnly(c) ==
    LET reserved == Reserved \cup {d \in Chats : handles[d] # None}
    IN  c \in reserved \/ Cardinality(reserved) < MAX_LIVE_SANDBOXES

\* require_sandbox_capacity(chat_id), on the set read at AdmitLock.
HasCapacity(c) ==
    LET rows == IF StaleReads THEN resv ELSE Reserved
        reserved == rows \cup {d \in Chats : handles[d] # None} \cup Busy
    IN  /\ row[c].state \notin {"creating", "retiring"}
        /\ c \in reserved \/ Cardinality(reserved) < MAX_LIVE_SANDBOXES

\* Any refusal: capacity, allowance, credits, ownership, a busy project.
AdmitRefused(j) ==
    /\ Step(j, "admitting", "none")
    /\ chat' = [chat EXCEPT ![j] = None]
    /\ admission' = Free /\ resv' = {}
    /\ UNCHANGED <<op, rev, base, fin, ret, regVars, procVars, dbVars, snap, rtVars>>

\* The admission transaction: a chat if the request names none, and the Run.
AdmitCommit(r) ==
    LET c == chat[r] IN
    /\ Step(r, "admitting", "committed")
    /\ HasCapacity(c) /\ project[c] # "deleted" /\ c \notin Busy
    /\ project' = [project EXCEPT ![c] = "exists"]
    /\ runStatus' = [runStatus EXCEPT ![r] = "running"]
    /\ resv' = {}
    /\ UNCHANGED <<ret, locVars, admission, regVars, procVars, saved, pending, nextRev, snap, rtVars>>

\* Back in memory: register the live run, start its task, release the lock.
AdmitRegister(r) ==
    /\ Step(r, "committed", "start")
    /\ active' = active \cup {r}
    /\ admission' = Free
    /\ UNCHANGED <<ret, locVars, resv, opening, cancelling, procVars, dbVars, snap, rtVars>>

OpenRegister(j) ==
    /\ Step(j, "admitting", "start")
    /\ HasCapacity(chat[j])
    /\ opening' = opening \cup {chat[j]}
    /\ admission' = Free /\ resv' = {}
    /\ UNCHANGED <<ret, locVars, active, cancelling, procVars, dbVars, snap, rtVars>>

----------------------------------------------------------------------------
(* get_e2b_sandbox and SandboxRuntimes.acquire.                            *)

\* open_preview reads the saved revision once itself ...
OpenStart(j) ==
    /\ Step(j, "start", "source")
    /\ saved[chat[j]] # 0
    /\ base' = [base EXCEPT ![j] = saved[chat[j]]]
    /\ UNCHANGED <<chat, op, rev, fin, ret, rtVars>> /\ Stay

\* ... and get_e2b_sandbox reads it for everybody.
ReadSource(j) ==
    /\ Step(j, IF j \in Runs THEN "start" ELSE "source", "acquire")
    /\ rev' = [rev EXCEPT ![j] = saved[chat[j]]]
    /\ UNCHANGED <<chat, op, base, fin, ret, rtVars>> /\ Stay

\* current: neither the template nor E2B_RUNTIME_GENERATION changed since.
AcquireRead(j, current) ==
    LET c == chat[j] IN
    /\ Step(j, "acquire", IF ~HasRow(c) THEN "reserve"
                          ELSE IF Compatible(c, rev[j]) /\ current THEN "inspect" ELSE "replace")
    /\ op' = [op EXCEPT ![j] = row[c].op]
    /\ UNCHANGED <<chat, rev, base, fin, ret, rtVars>> /\ Stay

\* Where get_e2b_sandbox returns to.
AfterAcquire(j) == IF j \in Runs THEN "invalidate" ELSE "probe"

AcquireInspect(j) ==
    /\ \/ Step(j, "inspect", "reserve") /\ StateMissing(chat[j], op[j])
       \/ Step(j, "inspect", "resume") /\ StateRunning(chat[j], op[j])
       \/ Step(j, "inspect", "resume") /\ StatePaused(chat[j], op[j])
    /\ Quiet

AcquireResume(j) == Step(j, "resume", "connect") /\ ReserveResume(chat[j], op[j]) /\ Quiet

AcquireConnect(j) ==
    \/ Step(j, "connect", AfterAcquire(j)) /\ ConnectReturns(chat[j], op[j]) /\ Quiet
    \/ Step(j, "connect", "replace") /\ sb[op[j]] = "gone" /\ UNCHANGED rtVars /\ Quiet
    \/ /\ pc[j] = "connect" /\ ConnectLost(op[j]) /\ Fail(j, "failed")
       /\ UNCHANGED <<chat, op, rev, base, ret>> /\ Stay

\* The spend reservation and the ownership intent; refused for a deleted chat.
AcquireReserve(j, o) ==
    /\ Step(j, "reserve", "create")
    /\ project[chat[j]] = "exists"
    /\ InsertRow(chat[j], o)
    /\ op' = [op EXCEPT ![j] = o]
    /\ UNCHANGED <<chat, rev, base, fin, ret>> /\ Stay

AcquireCreate(j) ==
    /\ \/ Step(j, "create", "register") /\ CreateReturns(chat[j], op[j])
       \/ Step(j, "create", "rejected") /\ CreateRejected(op[j])
    /\ Quiet

AcquireRejected(j) ==
    /\ pc[j] = "rejected" /\ Remove(chat[j], op[j]) /\ Fail(j, "failed")
    /\ UNCHANGED <<chat, op, rev, base, ret>> /\ Stay

AcquireRegister(j) == Step(j, "register", "restore") /\ RegisterSandbox(chat[j], op[j]) /\ Quiet

\* The saved source is restored into the new sandbox (nothing when there is none).
RestoreSource(j) ==
    /\ Step(j, "restore", AfterAcquire(j))
    /\ sb[op[j]] = "running"
    /\ content' = [content EXCEPT ![op[j]] = rev[j]]
    /\ UNCHANGED <<row, handles, sb>> /\ Quiet

----------------------------------------------------------------------------
(* execute(): invalidation, the editor, checkpoints, the final save.       *)

Invalidate(r) == Step(r, "invalidate", "edit") /\ InvalidateRow(chat[r]) /\ Quiet

\* A tool call of the editor changes the project's files.
Mutate(r) ==
    /\ pc[r] = "edit" /\ sb[op[r]] = "running"
    /\ content' = [content EXCEPT ![op[r]] = Dirty]
    /\ UNCHANGED <<pc, row, handles, sb>> /\ Quiet

\* save_files: a tree equal to the latest revision is not saved again.
SaveFiles(r) ==
    LET c == chat[r]
        same == saved[c] # 0 /\ content[op[r]] = saved[c]
        new == IF same THEN saved[c] ELSE nextRev + 1
    IN  /\ sb[op[r]] = "running" /\ project[c] = "exists"
        /\ same \/ nextRev < MaxRev
        /\ nextRev' = IF same THEN nextRev ELSE new
        /\ saved' = [saved EXCEPT ![c] = new]
        /\ content' = [content EXCEPT ![op[r]] = new]
        /\ rev' = [rev EXCEPT ![r] = new]
        /\ UNCHANGED <<row, handles, sb, project, pending, runStatus>>

\* checkpoint(dirty=True) after a batch of mutating tool calls.
Checkpoint(r) ==
    /\ pc[r] = "edit" /\ content[op[r]] = Dirty
    /\ SaveFiles(r)
    /\ UNCHANGED <<pc, chat, op, base, fin, ret, memVars, snap>>

\* The checkpoint's object was uploaded, its promotion was not reached.
CheckpointLost(r) ==
    /\ pc[r] = "edit" /\ content[op[r]] = Dirty
    /\ nextRev < MaxRev /\ nextRev' = nextRev + 1
    /\ pending' = [pending EXCEPT ![chat[r]] = @ \cup {<<nextRev + 1, saved[chat[r]]>>}]
    /\ Fail(r, "failed")
    /\ UNCHANGED <<chat, op, rev, base, ret, memVars, project, saved, runStatus, snap, rtVars>>

\* The editor verified its work; save once more and head for success.
Complete(r) ==
    /\ Step(r, "edit", "finish")
    /\ SaveFiles(r)
    /\ fin' = [fin EXCEPT ![r] = "succeeded"]
    /\ UNCHANGED <<chat, op, base, ret, memVars, snap>>

\* open_preview(): the preview answers its health check, after at most one
\* restart of its server ...
Probe(j) == Step(j, "probe", "publish") /\ sb[op[j]] = "running" /\ UNCHANGED rtVars /\ Quiet

\* Mutant: the saved revision is not compared again.
StillExists(j) == project[chat[j]] = "exists"

StillSaved(j) == project[chat[j]] = "exists" /\ saved[chat[j]] = base[j]

\* ... and is published if the saved revision is still the one read first.
Publish(j) ==
    /\ pc[j] = "publish"
    /\ StillSaved(j)
    /\ MarkReusable(chat[j], base[j])
    /\ opening' = opening \ {chat[j]}
    /\ Over(j)
    /\ UNCHANGED <<active, cancelling, lockVars, procVars, dbVars, snap>>

----------------------------------------------------------------------------
(* Exceptions, timeouts and cancellations.                                 *)

\* What a retire() interrupted at its current await leaves behind: kills that
\* had been sent, a DELETE that had been committed.
RetireLeft(p) ==
    \/ UNCHANGED rtVars
    \/ ret[p].pc = "kill" /\ \E ids \in SUBSET ret[p].ids : Kill(ids)
    \/ CutRemove /\ ret[p].pc = "remove" /\ ret[p].op # None /\ RemoveCut(chat[p], ret[p].op)

\* The same for a whole task; acquire() also removes rows, and may be stopped
\* with a half restored tree.
Abandon(p) ==
    /\ ret' = [ret EXCEPT ![p] = IdleRet]
    /\ \/ RetireLeft(p)
       \/ CutRemove /\ pc[p] = "rejected" /\ RemoveCut(chat[p], op[p])
       \/ CutRemove /\ pc[p] = "inspect" /\ sb[op[p]] = "gone" /\ RemoveCut(chat[p], op[p])
       \/ /\ pc[p] = "restore" /\ content' = [content EXCEPT ![op[p]] = Dirty]
          /\ UNCHANGED <<row, handles, sb>>

\* Any exception of the body: a failed call, a budget, the run timeout.
JobFails(j) ==
    /\ pc[j] \in Body
    /\ Abandon(j) /\ Fail(j, "failed")
    /\ UNCHANGED <<chat, op, rev, base>> /\ Stay

\* cancel(run_id): task.cancel().  In the body it becomes status 'cancelled';
\* in the finally block it escapes from execute(), except while diagnostics
\* are being collected.  A task that had not started never runs.
Cancel(r) ==
    /\ r \in active \ cancelling
    /\ cancelling' = cancelling \cup {r}
    /\ Abandon(r)
    /\ \/ pc[r] \in Body \cup {"unwind"} /\ Fail(r, "cancelled")
       \/ pc[r] \in Finally \cup {"start"} /\ Goto(r, "dead") /\ UNCHANGED fin
    /\ Release(r)
    /\ UNCHANGED <<chat, op, rev, base, resv, active, opening, procVars, dbVars, snap>>

\* Mutant: finish() writes whatever the row already says.
NeverRecorded(r) == TRUE

\* The first test of finish().
NotRecorded(r) == runStatus[r] = "running"

\* cancel() once the task is over and the run is still registered ...
CancelFinish(r) ==
    /\ pc[r] = "dead"
    /\ runStatus' = IF NotRecorded(r) THEN [runStatus EXCEPT ![r] = "cancelled"] ELSE runStatus
    /\ active' = active \ {r} /\ cancelling' = cancelling \ {r}
    /\ Over(r)
    /\ UNCHANGED <<opening, lockVars, procVars, project, saved, pending, nextRev, snap, rtVars>>

\* ... whose transaction may fail too: the run then stays registered.
CancelFinishFails(r) == Step(r, "dead", "leaked") /\ UNCHANGED rtVars /\ Quiet

----------------------------------------------------------------------------
(* retire(chat_id), as every caller runs it.                               *)

RetireAt(p, l, o, ids) == ret' = [ret EXCEPT ![p] = [pc |-> l, op |-> o, ids |-> ids]]

Returns(p, answer) == RetireAt(p, answer, None, {})

\* Read the row and the handle, commit 'retiring' (unless the database fails).
RetireBegin(p, c) ==
    LET ids == KnownIds(c)
        o == row[c].op
        first == IF ids # {} THEN "kill" ELSE IF o # None THEN "list" ELSE "remove"
    IN  \/ MarkRetiring(c) /\ RetireAt(p, first, o, ids)
        \/ UNCHANGED rtVars /\ Returns(p, "failed")

\* The create response may have been lost: look the operation up by metadata.
RetireList(p) ==
    /\ ret[p].pc = "list" /\ sb[ret[p].op] \in {"running", "paused"}
    /\ RetireAt(p, "kill", ret[p].op, {ret[p].op})
    /\ UNCHANGED <<pc, locVars, rtVars>> /\ Stay

RetireKill(p) ==
    /\ ret[p].pc = "kill"
    /\ Kill(ret[p].ids)
    /\ RetireAt(p, "remove", ret[p].op, {})
    /\ UNCHANGED <<pc, locVars>> /\ Stay

\* An empty list proves nothing; or a call to the provider or the database
\* failed or timed out, and may have been carried out all the same.
RetireFails(p) ==
    /\ ret[p].pc \in {"list", "kill", "remove"}
    /\ RetireLeft(p)
    /\ Returns(p, "failed")
    /\ UNCHANGED <<pc, locVars>> /\ Stay

RetireEnd(p) ==
    /\ ret[p].pc = "remove"
    /\ RetireRemove(chat[p], ret[p].op)
    /\ Returns(p, "ok")
    /\ UNCHANGED <<pc, locVars>> /\ Stay

Answered(p) == ret[p].pc \in {"ok", "failed"} /\ ret' = [ret EXCEPT ![p] = IdleRet]

\* acquire() replaces an incompatible runtime; the project is already reserved,
\* so it does not take the lock.
Replace(j) ==
    /\ pc[j] = "replace" /\ ret[j].pc = "idle"
    /\ RetireBegin(j, chat[j])
    /\ UNCHANGED <<pc, locVars>> /\ Stay

\* No replacement is started unless the old runtime is confirmed gone.
Replaced(j) ==
    /\ Answered(j)
    /\ \/ ret[j].pc = "ok" /\ Step(j, "replace", "reserve") /\ UNCHANGED fin
       \/ ret[j].pc = "failed" /\ pc[j] = "replace" /\ Fail(j, "failed")
    /\ UNCHANGED <<chat, op, rev, base, rtVars>> /\ Stay

\* retire_sandbox(chat_id): the same under the admission lock.
RetireSandbox(p) ==
    /\ admission = Free /\ admission' = p
    /\ Step(p, "unwind", "retiring") \/ Step(p, "unwind2", "retiring2")
    /\ RetireBegin(p, chat[p])
    /\ UNCHANGED <<locVars, resv, regVars, procVars, dbVars, snap>>

\* Its callers go on: execute() to record the outcome or to unregister ...
RunRetired(r) ==
    /\ Answered(r)
    /\ Step(r, "retiring", "finish") \/ Step(r, "retiring2", "pop")
    /\ Release(r)
    /\ UNCHANGED <<locVars, resv, regVars, procVars, dbVars, snap, rtVars>>

\* ... open_preview() to raise and leave Service.opening ...
OpenRetired(j) ==
    /\ pc[j] = "retiring" /\ ret[j].pc \in {"ok", "failed"}
    /\ Over(j)
    /\ opening' = opening \ {chat[j]}
    /\ Release(j)
    /\ UNCHANGED <<resv, active, cancelling, procVars, dbVars, snap, rtVars>>

\* ... delete_project() to answer.
DeleteRetired(c) ==
    /\ Answered(c)
    /\ Step(c, "retiring", "done")
    /\ Release(c)
    /\ UNCHANGED <<locVars, resv, regVars, procVars, dbVars, snap, rtVars>>

----------------------------------------------------------------------------
(* finish(): the terminal transaction.                                     *)

\* The outcome is recorded once; success also hands the sandbox over for reuse.
Record(r) ==
    /\ IF NotRecorded(r)
       THEN /\ runStatus' = [runStatus EXCEPT ![r] = fin[r]]
            /\ IF fin[r] = "succeeded" THEN MarkReusable(chat[r], rev[r]) ELSE UNCHANGED rtVars
       ELSE UNCHANGED <<runStatus, rtVars>>
    /\ UNCHANGED <<ret, locVars, memVars, project, saved, pending, nextRev, snap>>

Finish(r) == Step(r, "finish", "pop") /\ Record(r)

\* The transaction raised, committed or not: the sandbox is retired.
FinishFails(r) == Step(r, "finish", "unwind2") /\ (Record(r) \/ (UNCHANGED rtVars /\ Quiet))

\* Mutant: the run is never unregistered.
PopNothing(r) == pc[r] = "pop" /\ Over(r) /\ UNCHANGED rtVars /\ Stay

Pop(r) ==
    /\ pc[r] = "pop"
    /\ active' = active \ {r} /\ cancelling' = cancelling \ {r}
    /\ Over(r)
    /\ UNCHANGED <<opening, lockVars, procVars, dbVars, snap, rtVars>>

----------------------------------------------------------------------------
(* The other requests: deletion, preview status, history.                  *)

\* delete_project(): the lock is held for the transaction only; the runtime
\* row deliberately survives the chat.
DeleteProject(c) ==
    /\ phase = "up" /\ admission = Free
    /\ project[c] = "exists" /\ c \notin Busy
    /\ project' = [project EXCEPT ![c] = "deleted"]
    /\ saved' = [saved EXCEPT ![c] = 0]
    /\ pending' = [pending EXCEPT ![c] = {}]
    /\ runStatus' = [r \in Runs |-> IF chat[r] = c /\ runStatus[r] # "none"
                                    THEN "deleted" ELSE runStatus[r]]
    /\ Goto(c, "unwind")
    /\ UNCHANGED <<ret, locVars, memVars, nextRev, snap, rtVars>>

\* attempt_cleanup gives up after ten seconds.
DeleteTimeout(c) ==
    /\ pc[c] \in {"unwind", "retiring"} /\ Goto(c, "done")
    /\ Abandon(c)
    /\ Release(c)
    /\ UNCHANGED <<locVars, resv, regVars, procVars, dbVars, snap>>

ReadState(c) ==
    \/ StateMissing(c, row[c].sid) \/ StateRunning(c, row[c].sid) \/ StatePaused(c, row[c].sid)

\* Mutant: the status query does not take the lock.
PreviewStatusUnlocked(c) ==
    /\ phase = "up" /\ c \notin Busy /\ row[c].reusable /\ ReadState(c)
    /\ UNCHANGED <<jobVars, memVars, dbVars, snap>>

\* preview_status(): looking may correct the row, never extend the lease.  The
\* chat was read before the lock was taken, so the revision it is compared with
\* is any that was saved before.
PreviewStatus(c) ==
    /\ phase = "up" /\ admission = Free /\ c \notin Busy
    /\ row[c].reusable /\ row[c].state # "retiring"
    /\ ReadState(c)
    /\ UNCHANGED <<jobVars, memVars, dbVars, snap>>

\* snapshot(): read the runs of a project ...
SnapshotRead(c) ==
    LET running == {r \in Runs : chat[r] = c /\ runStatus[r] = "running"} IN
    /\ phase = "up" /\ snap = {} /\ running # {}
    /\ snap' = running
    /\ UNCHANGED <<jobVars, memVars, dbVars, rtVars>>

\* ... and write 'interrupted' over those that are not registered as live.
SnapshotJudge(r) ==
    /\ r \in snap /\ snap' = snap \ {r}
    /\ runStatus' = IF r \notin active /\ runStatus[r] # "deleted"
                    THEN [runStatus EXCEPT ![r] = "interrupted"] ELSE runStatus
    /\ UNCHANGED <<jobVars, memVars, project, saved, pending, nextRev, rtVars>>

\* Storage maintenance promotes a pending checkpoint whose parent is current.
\* Its own list of busy projects is old by then; only the Run rows protect.
RecoverCheckpoint(c) ==
    /\ phase = "up"
    /\ \A r \in Runs : chat[r] = c => runStatus[r] # "running"
    /\ \E p \in pending[c] :
         /\ p[2] = saved[c]
         /\ saved' = [saved EXCEPT ![c] = p[1]]
         /\ pending' = [pending EXCEPT ![c] = @ \ {p}]
    /\ UNCHANGED <<jobVars, memVars, project, nextRev, runStatus, snap, rtVars>>

----------------------------------------------------------------------------
(* maintain(): the idle reaper, and the reconciliation at startup.         *)

\* A row to retire: orphaned, not reusable, unfinished or superseded.  (Rows of
\* another generation or past their retention are the sets "old" below.)
Doomed(c) ==
    \/ project[c] # "exists"
    \/ ~row[c].reusable
    \/ row[c].state \in {"creating", "retiring"}
    \/ row[c].rev # saved[c]

\* Mutant: the pass leaves rows alone that are already being retired.
SelectedNotRetiring(old) ==
    {c \in Chats : HasRow(c) /\ row[c].state \notin {"paused", "retiring"}}

\* The rows maintain() selects; healthy paused ones need no polling.
Selected(old) == {c \in Chats : HasRow(c) /\ (row[c].state # "paused" \/ Doomed(c) \/ c \in old)}

\* The fate of each, decided on what the pass reads at its start, chat included.
Judged(S, old) == {v \in S \X BOOLEAN : v[2] = (Doomed(v[1]) \/ v[1] \in old)}

SweepBegin(old) ==
    /\ phase = "up" /\ admission = Free /\ admission' = Reaper
    /\ Selected(old) \ Busy # {}
    /\ sweep' = Judged(Selected(old) \ Busy, old)
    /\ Step(Reaper, "none", "sweep")
    /\ UNCHANGED <<ret, locVars, resv, regVars, phase, crashes, dbVars, snap, rtVars>>

SweepVisit(c, doomed) ==
    /\ <<c, doomed>> \in sweep /\ sweep' = sweep \ {<<c, doomed>>}
    /\ chat' = [chat EXCEPT ![Reaper] = c]
    /\ \/ doomed /\ Step(Reaper, "sweep", "retiring") /\ RetireBegin(Reaper, c)
       \/ /\ ~doomed
          /\ Step(Reaper, "sweep", IF row[c].state = "paused" THEN "sweep" ELSE "sweepstate")
          /\ UNCHANGED <<ret, rtVars>>
    /\ UNCHANGED <<op, rev, base, fin, lockVars, regVars, phase, crashes, dbVars, snap>>

SweepRetired ==
    /\ Answered(Reaper) /\ Step(Reaper, "retiring", "sweep")
    /\ UNCHANGED <<locVars, rtVars>> /\ Stay

\* The provider's word on an apparently healthy row; an error defers it.
SweepState ==
    LET c == chat[Reaper]
        o == row[c].sid
    IN  /\ \/ Step(Reaper, "sweepstate", "sweep") /\ StateMissing(c, o)
           \/ Step(Reaper, "sweepstate", "sweep") /\ StatePaused(c, o)
           \/ Step(Reaper, "sweepstate", "sweeppause") /\ StateRunning(c, o)
           \/ Step(Reaper, "sweepstate", "sweep") /\ UNCHANGED rtVars
        /\ Quiet

\* An idle preview is paused; at startup every one is.
SweepPause ==
    LET c == chat[Reaper]
        o == row[c].sid
    IN  /\ Step(Reaper, "sweeppause", "sweep")
        /\ \/ PauseSandbox(c, o)
           \/ StateMissing(c, o)
           \/ PauseFails(o)
           \/ phase = "up" /\ UNCHANGED rtVars
        /\ Quiet

SweepEnd ==
    /\ sweep = {}
    /\ Step(Reaper, "sweep", "none")
    /\ admission' = Free /\ phase' = "up"
    /\ UNCHANGED <<ret, locVars, resv, regVars, sweep, crashes, dbVars, snap, rtVars>>

----------------------------------------------------------------------------
(* Crash and restart.                                                      *)

\* Everything in memory is lost; requests to the provider are not recalled.
Crash ==
    /\ phase # "down" /\ phase' = "down"
    /\ crashes < MaxCrashes /\ crashes' = crashes + 1
    /\ admission' = Free /\ resv' = {} /\ active' = {} /\ opening' = {} /\ cancelling' = {}
    /\ sweep' = {} /\ snap' = {}
    /\ pc' = [p \in Procs |-> IF p \in Runs \cup Chats /\ pc[p] # "none" THEN "done" ELSE "none"]
    /\ chat' = [p \in Procs |-> IF p \in Runs \cup Chats THEN chat[p] ELSE None]
    /\ op' = [j \in Jobs |-> None]
    /\ rev' = [j \in Jobs |-> 0]
    /\ base' = [j \in Jobs |-> 0]
    /\ fin' = [j \in Jobs |-> "none"]
    /\ ret' = [p \in Procs |-> IdleRet]
    /\ handles' = [c \in Chats |-> None]
    /\ UNCHANGED <<dbVars, row, sb, content>>

\* startup(): unfinished runs are interrupted, then the runtimes reconciled
\* before the first request is served.
Startup(old) ==
    /\ phase = "down" /\ phase' = "starting"
    /\ runStatus' = [r \in Runs |-> IF runStatus[r] = "running" THEN "interrupted" ELSE runStatus[r]]
    /\ sweep' = Judged(Selected(old), old)
    /\ admission' = Reaper
    /\ Step(Reaper, "none", "sweep")
    /\ UNCHANGED <<ret, locVars, resv, regVars, crashes, project, saved, pending, nextRev, snap, rtVars>>

----------------------------------------------------------------------------
RunStep(r) ==
    \/ AdmitCommit(r) \/ AdmitRegister(r)
    \/ Invalidate(r) \/ Mutate(r) \/ Checkpoint(r) \/ CheckpointLost(r) \/ Complete(r)
    \/ Finish(r) \/ FinishFails(r) \/ Pop(r) \/ RunRetired(r)
    \/ Cancel(r) \/ CancelFinish(r) \/ CancelFinishFails(r) \/ SnapshotJudge(r)

OpenStep(j) == OpenRegister(j) \/ OpenStart(j) \/ Probe(j) \/ Publish(j) \/ OpenRetired(j)

JobStep(j) ==
    \/ \E c \in Chats : AdmitLock(j, c)
    \/ AdmitRefused(j) \/ ReadSource(j)
    \/ \E current \in BOOLEAN : AcquireRead(j, current)
    \/ AcquireInspect(j) \/ AcquireResume(j) \/ AcquireConnect(j)
    \/ \E o \in Ops : AcquireReserve(j, o)
    \/ AcquireCreate(j) \/ AcquireRejected(j) \/ AcquireRegister(j) \/ RestoreSource(j)
    \/ Replace(j) \/ Replaced(j) \/ JobFails(j)

RetireStep(p) ==
    RetireList(p) \/ RetireKill(p) \/ RetireFails(p) \/ RetireEnd(p) \/ RetireSandbox(p)

ProjectStep(c) ==
    \/ DeleteProject(c) \/ DeleteRetired(c) \/ DeleteTimeout(c) \/ PreviewStatus(c)
    \/ SnapshotRead(c) \/ RecoverCheckpoint(c)
    \/ \E doomed \in BOOLEAN : SweepVisit(c, doomed)

ReaperStep == SweepRetired \/ SweepState \/ SweepPause \/ SweepEnd

Provider == /\ \E o \in Ops : Provision(o) \/ AutoPause(o) \/ Vanish(o)
            /\ UNCHANGED <<jobVars, memVars, dbVars, snap>>

Next ==
    \/ \E r \in Runs : RunStep(r)
    \/ \E j \in Opens : OpenStep(j)
    \/ \E j \in Jobs : JobStep(j)
    \/ \E p \in Procs : RetireStep(p)
    \/ \E c \in Chats : ProjectStep(c)
    \/ \E old \in SUBSET Chats : SweepBegin(old) \/ Startup(old)
    \/ ReaperStep \/ Provider \/ Crash

Spec == Init /\ [][Next]_vars

----------------------------------------------------------------------------
(* Safety.                                                                 *)

\* Never more running sandboxes than MAX_LIVE_SANDBOXES, although
\* require_sandbox_capacity counts rows, handles and tasks, not sandboxes.
RunningBound == Cardinality({o \in Ops : sb[o] = "running"}) <= MAX_LIVE_SANDBOXES

\* A runtime that acquire() would reuse without a restore holds exactly the
\* revision its row names: invalidate() precedes the first mutation of a run and
\* mark_reusable() follows its last save, across failures and crashes.
ReusableClean ==
    \A c \in Chats : row[c].reusable /\ sb[row[c].op] # "gone" => content[row[c].op] = row[c].rev

\* While a job restores, edits, probes or publishes its sandbox, no sweep,
\* status query, deletion or other job retires, pauses, replaces or forgets it.
OwnedWhileInUse ==
    \A j \in Jobs : pc[j] \in {"restore", "invalidate", "edit", "probe", "publish"} =>
        /\ row[chat[j]].op = op[j]
        /\ row[chat[j]].state = "running"
        /\ handles[chat[j]] = op[j]

\* "Callers serialize each project": admit() and open_preview() never let two
\* jobs work on one project, from the first step to the last cleanup, and
\* delete_project() never removes a project under a live run.
OneJobPerProject ==
    /\ \A i, j \in Jobs :
        /\ pc[i] \in Body \cup Finally
        /\ pc[j] \in Body \cup Finally
        /\ chat[i] = chat[j]
        => i = j
    /\ \A r \in active : project[chat[r]] = "exists"

\* A sandbox becomes reusable only as the copy of the latest saved revision,
\* although recovery may promote another one while a preview opens.
HandsOverSaved ==
    [][\A c \in Chats : ~row[c].reusable /\ row'[c].reusable => row'[c].rev = saved[c]]_vars

\* The rows a maintain() pass has read and not yet visited do not change under
\* it: it acts on what it read, long after, on the strength of the lock alone.
SweepUndisturbed == [][\A visit \in sweep \cap sweep' : row'[visit[1]] = row[visit[1]]]_vars

\* A recorded outcome is only ever replaced by a snapshot's 'interrupted'; no
\* run that ended otherwise is turned into a success later.
OutcomeOnlyInterrupted ==
    [][\A r \in Runs : runStatus[r] \in Terminal =>
          runStatus'[r] \in {runStatus[r], "interrupted", "deleted"}]_vars

\* Every step is a step of the ownership promise, or leaves it alone.
Ownership == INSTANCE RuntimeOwnership WITH
                owned <- {row[c].op : c \in {d \in Chats : row[d].op # None}}
OwnershipSpec == Ownership!Spec

\* What the code does not keep, see the run that expects a violation.
\* A run whose task is at work is 'running' for everybody until its own
\* finish(): an observer does not end it.
LiveRunIsRunning == \A r \in active : pc[r] \in Body => runStatus[r] = "running"

----------------------------------------------------------------------------
(* The inductive invariants.  None of this depends on the admission lock:  *)
(* a row is removed only when its sandbox is gone, which is never undone.  *)

\* Whoever works works for a project, and whoever lists has an operation.
ProjectKnown ==
    /\ \A c \in Chats : chat[c] = c
    /\ \A j \in Jobs : pc[j] # "none" => chat[j] \in Chats
    /\ pc[Reaper] \in {"none", "sweep", "retiring", "sweepstate", "sweeppause"}
    /\ pc[Reaper] \in {"retiring", "sweepstate", "sweeppause"} => chat[Reaper] \in Chats
    /\ \A p \in Procs : ret[p].pc = "list" => ret[p].op # None

TypeInv == TypeOK /\ ProjectKnown

\* retire() removes a row only after the row's own sandbox was terminated.
RetireSafe ==
    \A p \in Procs : ret[p].op # None =>
        /\ ret[p].pc = "kill" => ret[p].op \in ret[p].ids
        /\ ret[p].pc = "remove" => sb[ret[p].op] = "gone"

\* The operation a job remembers is one of its own project ...
OwnOperation(j) ==
    op[j] # None => sb[op[j]] # "unused" /\ \A d \in Chats : row[d].op = op[j] => d = chat[j]

\* ... which it has while it uses a sandbox, and not before it looked for one.
UsesOperation(j) ==
    /\ pc[j] \in {"none", "admitting", "committed", "start", "source", "acquire"} => op[j] = None
    /\ pc[j] \in {"inspect", "resume", "connect", "create", "rejected", "register", "restore",
                  "invalidate", "edit", "probe", "publish"} => op[j] # None
    /\ pc[j] = "rejected" => sb[op[j]] = "gone"

JobOperation == \A j \in Jobs : OwnOperation(j) /\ UsesOperation(j)

OwnershipInv == RowsOwn /\ RetireSafe /\ JobOperation

\* What every reachable state satisfies, in a form each step preserves; the
\* property no unit test states: it must survive every failure at every await.
IndInv == TypeInv /\ OwnershipInv

----------------------------------------------------------------------------
(* What the admission lock and the two registers give.  This part does not *)
(* depend on the sandboxes.                                                *)

Working == Body \cup Finally

\* A task that is admitting, retiring under the lock or sweeping holds the lock.
LockHeld ==
    \A p \in Procs :
        pc[p] \in {"admitting", "committed", "retiring", "retiring2",
                  "sweep", "sweepstate", "sweeppause"} => admission = p

\* No task survives the process.
DownQuiet == phase = "down" => opening = {} /\ \A p \in Procs : pc[p] \in {"none", "done"}

\* Service.active and Service.opening name the jobs that have a task.
Registered ==
    /\ active = {r \in Runs : pc[r] \in Working \cup {"dead", "leaked"}}
    /\ \A j \in Opens : pc[j] \in Working => chat[j] \in opening

\* What an admission has tested stays true until it releases the lock.
Claimed ==
    /\ \A j \in Opens : pc[j] = "admitting" => chat[j] \notin Busy
    /\ \A r \in Runs : pc[r] = "committed" => chat[r] \notin Busy /\ project[chat[r]] = "exists"

\* So does what a maintain() pass has selected; it visits every row once.
SweepHeld ==
    /\ pc[Reaper] = "none" => sweep = {}
    /\ \A v \in sweep : v[1] \notin Busy
    /\ \A u, v \in sweep : u[1] = v[1] => u = v
    /\ pc[Reaper] \in {"retiring", "sweepstate", "sweeppause"} =>
          chat[Reaper] \notin Busy /\ \A v \in sweep : v[1] # chat[Reaper]

AdmissionInv == LockHeld /\ DownQuiet /\ Registered /\ Claimed /\ SweepHeld /\ OneJobPerProject

----------------------------------------------------------------------------
(* What a job may rely on while it uses its sandbox.                       *)

\* retire() is only ever called from these places.
RetirePlaces == \A p \in Procs : ret[p].pc # "idle" => pc[p] \in {"replace", "retiring", "retiring2"}

\* A deleted project has nothing left to save or recover, and a preview that
\* is opened for it does not get past its first test.
DeletedInert ==
    \A c \in Chats :
        /\ pc[c] \in {"none", "unwind", "retiring", "done"}
        /\ pc[c] # "none" => project[c] = "deleted"
        /\ project[c] = "deleted" =>
             /\ saved[c] = 0 /\ pending[c] = {}
             /\ \A j \in Opens : chat[j] = c => pc[j] \notin Body \ {"start"}

\* Row and handle are the job's from the registration of a new sandbox, or the
\* resumption of an old one, on.
RuntimeHeld(j) ==
    /\ pc[j] \in {"connect", "restore", "invalidate", "edit", "probe", "publish"} =>
          row[chat[j]].op = op[j] /\ row[chat[j]].state = "running"
    /\ pc[j] \in {"register", "restore", "invalidate", "edit", "probe", "publish"} =>
          handles[chat[j]] = op[j]

UseInv == RetirePlaces /\ DeletedInert /\ \A j \in Jobs : RuntimeHeld(j)

----------------------------------------------------------------------------
(* What a sandbox contains.                                                *)

\* acquire() reuses a runtime for what its row names; a run edits, and acquire()
\* fills, one that is not offered for reuse; success belongs to the end of a run.
CopyPlanned(j) ==
    /\ pc[j] \in {"inspect", "resume", "connect"} =>
          row[chat[j]].op = op[j] /\ row[chat[j]].reusable /\ row[chat[j]].rev = rev[j]
    /\ pc[j] \in {"create", "register", "restore", "edit"} => ~row[chat[j]].reusable
    /\ fin[j] = "succeeded" =>
          j \in Runs /\ pc[j] \in {"finish", "unwind2", "retiring2", "pop", "dead", "leaked"}
    /\ pc[j] = "finish" /\ fin[j] = "succeeded" => op[j] # None /\ row[chat[j]].op = op[j]

\* The tree a job is about to hand over is the revision the job believes.
CopyReady(j) ==
    pc[j] \in {"probe", "publish"} \/ (pc[j] = "finish" /\ fin[j] = "succeeded") =>
        sb[op[j]] = "gone" \/ content[op[j]] = rev[j]

ReusableOwned == \A c \in Chats : row[c].reusable => HasRow(c)

\* Revisions only grow: a revision that was saved and replaced never comes back.
RevisionsGrow ==
    /\ \A c \in Chats :
         saved[c] <= nextRev /\ \A p \in pending[c] : p[2] < p[1] /\ p[1] <= nextRev
    /\ \A j \in Opens :
         /\ pc[j] \in Body \ {"start"} => base[j] <= saved[chat[j]]
         /\ pc[j] \in Body \ {"start", "source"} => base[j] <= rev[j] /\ rev[j] <= saved[chat[j]]

\* A run about to record its success still holds the latest revision, unless a
\* snapshot has ended it: only then may recovery have promoted another one.
StillLatest ==
    \A r \in Runs : pc[r] = "finish" /\ fin[r] = "succeeded" /\ runStatus[r] = "running" =>
        saved[chat[r]] = rev[r]

CopyInv ==
    /\ \A j \in Jobs : CopyPlanned(j) /\ CopyReady(j)
    /\ ReusableOwned /\ ReusableClean /\ RevisionsGrow /\ StillLatest

----------------------------------------------------------------------------
(* What a run has recorded, and what the provider has created.             *)

\* A run that is not admitted yet has no status, and no snapshot has read it.
Unborn ==
    /\ \A r \in Runs : pc[r] \in {"none", "admitting"} => runStatus[r] = "none"
    /\ \A r \in snap : pc[r] \notin {"none", "admitting"}

Created == {"running", "paused", "gone"}

\* Every sandbox id that anybody knows is the id of a sandbox that was created.
KnownCreated ==
    /\ \A c \in Chats : /\ row[c].sid # None => sb[row[c].sid] \in Created
                        /\ handles[c] # None => sb[handles[c]] \in Created
    /\ \A p \in Procs : \A o \in ret[p].ids : sb[o] \in Created
    /\ \A j \in Jobs : pc[j] = "register" => sb[op[j]] \in Created

----------------------------------------------------------------------------
(* What require_sandbox_capacity() keeps below its limit.                  *)

\* A project has a sandbox at work, or one the provider may still start, or is taken to have one.  A
\* row that is retired from a pause is none of these, though reserved() counts it.
Occupies(c) ==
    \/ handles[c] # None
    \/ row[c].state = "running"
    \/ row[c].state \in {"creating", "retiring"} /\ sb[row[c].op] \in {"requested", "running"}

\* Admitted in the database and not yet registered in memory.
Committed == {chat[r] : r \in {q \in Runs : pc[q] = "committed"}}

\* The projects that have passed the test and may have a running sandbox.
Slots == Busy \cup Committed \cup {c \in Chats : Occupies(c)}

\* A pause is recorded after it happened, and only a job that has changed its row wakes a sandbox.
PausedStays == \A c \in Chats : row[c].state = "paused" => sb[row[c].op] \in {"paused", "gone"}

\* No step adds more than one project to what is counted.
CountsFinite == IsFiniteSet({c \in Chats : HasRow(c)}) /\ IsFiniteSet(Slots)

CapacityInv == PausedStays /\ CountsFinite /\ Cardinality(Slots) <= MAX_LIVE_SANDBOXES

----------------------------------------------------------------------------
(* Liveness.                                                               *)

\* Every task the event loop can run is run, a job's body ends at its timeout
\* (RUN_TIMEOUT_SECONDS, the 180 s of open_preview), asyncio.Lock serves its
\* waiters in order, the maintenance loop comes round every 60 s, and a call to
\* the provider or the database that is retried for ever succeeds some time.
Fairness ==
    /\ \A r \in Runs :
         /\ WF_vars(AdmitCommit(r) \/ AdmitRefused(r)) /\ WF_vars(AdmitRegister(r))
         /\ WF_vars(Finish(r) \/ FinishFails(r)) /\ WF_vars(RunRetired(r)) /\ WF_vars(Pop(r))
         /\ WF_vars(CancelFinish(r) \/ CancelFinishFails(r))
    /\ \A j \in Opens : WF_vars(OpenRegister(j) \/ AdmitRefused(j)) /\ WF_vars(OpenRetired(j))
    /\ \A j \in Jobs : WF_vars(JobFails(j))
    /\ \A c \in Chats : WF_vars(DeleteRetired(c))
    /\ \A p \in Procs : WF_vars(RetireList(p) \/ RetireKill(p) \/ RetireFails(p) \/ RetireEnd(p))
    /\ \A p \in Jobs \cup Chats : SF_vars(RetireSandbox(p))
    /\ WF_vars(ReaperStep \/ \E c \in Chats, doomed \in BOOLEAN : SweepVisit(c, doomed))
    /\ \A c \in Chats : SF_vars(SweepVisit(c, TRUE) /\ ret'[Reaper].pc # "failed")
    /\ SF_vars(RetireKill(Reaper)) /\ SF_vars(RetireEnd(Reaper))
    /\ SF_vars(\E old \in SUBSET Chats : SweepBegin(old))
    /\ WF_vars(\E old \in SUBSET Chats : Startup(old))

FairSpec == Spec /\ Fairness

Leaked(c) == \E r \in active : pc[r] = "leaked" /\ chat[r] = c

\* Every admitted run leaves Service.active, freeing its slot, whatever fails;
\* only a cancel() whose own transaction failed leaves it registered.
RunsEnd == \A r \in Runs : r \in active ~> (r \notin active \/ pc[r] = "leaked")

\* A runtime that is being retired and whose sandbox id is known is removed in
\* the end, whoever started the retirement and however it was interrupted.
KnownCleanupCompletes ==
    \A c \in Chats : (row[c].state = "retiring" /\ row[c].sid # None) ~> (~HasRow(c) \/ Leaked(c))
=============================================================================
