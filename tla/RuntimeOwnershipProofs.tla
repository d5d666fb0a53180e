----------------------- MODULE RuntimeOwnershipProofs -----------------------
(***************************************************************************)
(* RunService implements RuntimeOwnership, for every set of projects,      *)
(* runs, previews and operations, as long as remove() is not cut in two:   *)
(* every step of every task, of the provider and of the crash is a step    *)
(* of the ownership promise or leaves it alone.                            *)
(***************************************************************************)
EXTENDS RunServiceProofs

\* The operations some durable row stands for, as RuntimeOwnership sees them.
Owned == {row[c].op : c \in {d \in Chats : row[d].op # None}}

\* The step is one of the promise, or leaves it alone.
Promised == Ownership!Next \/ UNCHANGED <<Owned, sb>>

----------------------------------------------------------------------------
(* The steps the promise knows.                                            *)

\* A row that keeps its operation, or stays without one, owns what it owned.
LEMMA OwnedKept ==
    ASSUME \A d \in Chats : row'[d].op = row[d].op
    PROVE  Owned' = Owned
BY DEF Owned

\* What is alive is owned: the form NoOrphan takes here.
LEMMA AliveOwned ==
    ASSUME IndInv, NEW o \in Ops, Alive(o)
    PROVE  o \in Owned
BY RuntimesAssumption DEF IndInv, OwnershipInv, RowsOwn, NoOrphan, Owned

\* A step that leaves the operations of the rows and the sandboxes alone.
LEMMA QuietPromised ==
    ASSUME \A d \in Chats : row'[d].op = row[d].op, UNCHANGED sb
    PROVE  Promised
BY OwnedKept DEF Promised

\* The provider creates, puts to sleep, wakes or loses the sandbox of a live
\* operation.
LEMMA LifePromised ==
    ASSUME IndInv, NEW o \in Ops, Alive(o), \A d \in Chats : row'[d].op = row[d].op,
           NEW x \in {"running", "paused", "gone"}, sb' = [sb EXCEPT ![o] = x],
           x = "paused" => sb[o] # "requested"
    PROVE  Promised
<1>1. Owned' = Owned /\ o \in Owned
  BY OwnedKept, AliveOwned
<1>2. sb \in [Ops -> SandboxStates] /\ sb[o] \in {"requested", "running", "paused"}
  BY DEF IndInv, TypeInv, TypeOK, RuntimesTypeOK, Alive
<1>3. CASE x = sb[o]
  <2>1. sb' = sb
    BY <1>2, <1>3
  <2>2. QED
    BY <1>1, <2>1 DEF Promised
<1>4. CASE x # sb[o] /\ x = "gone"
  <2>1. Ownership!End(o)
    BY <1>1, <1>2, <1>4 DEF Ownership!End, Ownership!Move, Owned
  <2>2. QED
    BY <2>1 DEF Promised, Ownership!Next
<1>5. CASE x # sb[o] /\ x # "gone"
  <2>1. Ownership!Live(o)
    BY <1>1, <1>2, <1>5 DEF Ownership!Live, Ownership!Move, Owned
  <2>2. QED
    BY <2>1 DEF Promised, Ownership!Next
<1>6. QED
  BY <1>3, <1>4, <1>5

\* A termination names sandboxes that were created.
LEMMA KillPromised ==
    ASSUME NEW ids \in SUBSET Ops, \A o \in ids : sb[o] \in Created, Kill(ids)
    PROVE  Promised
<1>1. Owned' = Owned
  BY OwnedKept DEF Kill
<1>2. Ownership!Terminate(ids)
  BY <1>1 DEF Ownership!Terminate, Kill, Created, Owned
<1>3. QED
  BY <1>2 DEF Promised, Ownership!Next

\* A row is dropped when its sandbox is known to be gone.
LEMMA RemovePromised ==
    ASSUME IndInv, NEW c, NEW o \in Ops \cup {None}, o # None => sb[o] = "gone",
           DeleteRow(c, o), UNCHANGED sb
    PROVE  Promised
<1>1. RuntimesTypeOK /\ UniqueOp
  BY DEF IndInv, TypeInv, TypeOK, OwnershipInv, RowsOwn
<1>2. CASE c \in Chats /\ o # None /\ row[c].op = o
  <2>1. \A d \in Chats : row'[d] = IF d = c THEN NoRow ELSE row[d]
    BY <1>1, <1>2 DEF RuntimesTypeOK, DeleteRow
  <2>2. \A d \in Chats : row[d].op = o => d = c
    BY <1>1, <1>2 DEF UniqueOp
  <2>3. o \in Owned /\ Owned' = Owned \ {o}
    BY <1>2, <2>1, <2>2 DEF Owned, NoRow
  <2>4. Ownership!Disown(o)
    BY <1>2, <2>3 DEF Ownership!Disown, Owned
  <2>5. QED
    BY <1>2, <2>4 DEF Promised, Ownership!Next
<1>3. CASE ~(c \in Chats /\ o # None /\ row[c].op = o)
  <2>1. \A d \in Chats : row'[d].op = row[d].op
    BY <1>1, <1>3 DEF RuntimesTypeOK, DeleteRow, NoRow
  <2>2. QED
    BY <2>1, QuietPromised
<1>4. QED
  BY <1>2, <1>3

\* The ownership intent comes before the request.
LEMMA InsertPromised ==
    ASSUME IndInv, NEW c \in Chats, NEW o \in Ops, InsertRow(c, o)
    PROVE  Promised
<1>1. RuntimesTypeOK /\ row[c].op = None
  BY DEF IndInv, TypeInv, TypeOK, OwnershipInv, RowsOwn, RowShape, InsertRow, HasRow
<1>2. \A d \in Chats : row'[d].op = IF d = c THEN o ELSE row[d].op
  BY <1>1 DEF RuntimesTypeOK, InsertRow, NoRow
<1>3. Owned' = Owned \cup {o}
  BY <1>1, <1>2, RuntimesAssumption DEF Owned
<1>4. Ownership!Intend(o)
  BY <1>3 DEF Ownership!Intend, Ownership!Move, InsertRow, Owned
<1>5. QED
  BY <1>4 DEF Promised, Ownership!Next

\* The writes that keep a row's operation.
LEMMA UpdateKeeps ==
    ASSUME RuntimesTypeOK, NEW c, NEW o, NEW r,
           \/ RegisterSandbox(c, o) \/ StateRunning(c, o) \/ StatePaused(c, o)
           \/ ReserveResume(c, o) \/ InvalidateRow(c) \/ MarkReusable(c, r) \/ MarkRetiring(c)
    PROVE  \A d \in Chats : row'[d].op = row[d].op /\ sb' = sb
<1> USE DEF RuntimesTypeOK, RowType, Change
<1>1. CASE RegisterSandbox(c, o)
  BY <1>1 DEF RegisterSandbox
<1>2. CASE StateRunning(c, o) \/ StatePaused(c, o) \/ ReserveResume(c, o)
  BY <1>2 DEF StateRunning, StatePaused, ReserveResume
<1>3. CASE InvalidateRow(c)
  BY <1>3 DEF InvalidateRow
<1>4. CASE MarkReusable(c, r)
  BY <1>4 DEF MarkReusable
<1>5. CASE MarkRetiring(c) /\ HasRow(c)
  BY <1>5 DEF MarkRetiring
<1>6. CASE MarkRetiring(c) /\ ~HasRow(c)
  BY <1>6 DEF MarkRetiring
<1>7. QED
  BY <1>1, <1>2, <1>3, <1>4, <1>5, <1>6

----------------------------------------------------------------------------
(* Every id that anybody knows was created.                                *)

\* A sandbox that was created stays created.
LEMMA CreatedStays == TypeInv /\ Next => \A o \in Ops : sb[o] \in Created => sb'[o] \in Created
<1> SUFFICES ASSUME TypeInv, Next PROVE \A o \in Ops : sb[o] \in Created => sb'[o] \in Created
  OBVIOUS
<1>1. CASE RowsMove
  BY <1>1 DEF RowsMove, Created
<1>2. ASSUME NEW j \in Jobs, NEW o \in Ops, AcquireReserve(j, o)
      PROVE  \A q \in Ops : sb[q] \in Created => sb'[q] \in Created
  BY <1>2 DEF AcquireReserve, InsertRow, Created, TypeInv, TypeOK, RuntimesTypeOK
<1>3. QED
  BY <1>1, <1>2, RowsStep

\* The ids a retire() starts with come from its row and its handle.
LEMMA KnownIdsCreated ==
    ASSUME TypeInv, KnownCreated, NEW c \in Chats
    PROVE  KnownIds(c) \subseteq Ops /\ \A o \in KnownIds(c) : sb[o] \in Created
BY DEF TypeInv, TypeOK, RuntimesTypeOK, RowType, KnownCreated, KnownIds

\* A row learns the id of its sandbox when the create call has returned it, and a
\* handle is a sandbox that has answered.
RowsKnown ==
    \A c \in Chats : /\ row[c].sid # None => sb[row[c].sid] \in Created
                     /\ handles[c] # None => sb[handles[c]] \in Created

\* No row learns an id and no handle is made.
Forgets == \A d \in Chats : row'[d].sid \in {row[d].sid, None} /\ handles'[d] \in {handles[d], None}

\* Rows and handles that are kept or dropped stay known.
LEMMA RowsKnownKept ==
    ASSUME TypeInv, RowsKnown, Next,
           Forgets
    PROVE  RowsKnown'
<1>1. \A d \in Chats : row[d].sid \in Ops \cup {None} /\ handles[d] \in Ops \cup {None}
  BY DEF TypeInv, TypeOK, RuntimesTypeOK, RowType
<1>2. QED
  BY <1>1, CreatedStays DEF RowsKnown, Forgets

\* The writes that teach nobody an id.
LEMMA WritesForget ==
    ASSUME RuntimesTypeOK, NEW c, NEW o, NEW r,
           \/ Remove(c, o) \/ RemoveCut(c, o) \/ RetireRemove(c, o) \/ StateMissing(c, o)
           \/ StateRunning(c, o) \/ StatePaused(c, o) \/ PauseSandbox(c, o) \/ PauseFails(o)
           \/ MarkReusable(c, r) \/ MarkRetiring(c) \/ UNCHANGED <<row, handles>>
    PROVE  Forgets
<1> USE DEF RuntimesTypeOK, RowType, Change, ForgetHandle, Forgets
<1>1. ASSUME DeleteRow(c, o) PROVE \A d \in Chats : row'[d].sid \in {row[d].sid, None}
  BY <1>1 DEF DeleteRow, NoRow
<1>2. CASE Remove(c, o) \/ RemoveCut(c, o) \/ StateMissing(c, o)
  BY <1>1, <1>2 DEF Remove, RemoveCut, StateMissing
<1>3. CASE RetireRemove(c, o)
  BY <1>1, <1>3 DEF RetireRemove, Remove
<1>4. CASE StateRunning(c, o)
  BY <1>4 DEF StateRunning
<1>5. CASE StatePaused(c, o)
  BY <1>5 DEF StatePaused
<1>6. CASE PauseSandbox(c, o)
  BY <1>6 DEF PauseSandbox
<1>7. CASE PauseFails(o) \/ UNCHANGED <<row, handles>>
  BY <1>7 DEF PauseFails
<1>8. CASE MarkReusable(c, r)
  BY <1>8 DEF MarkReusable
<1>9. CASE MarkRetiring(c) /\ HasRow(c)
  BY <1>9 DEF MarkRetiring
<1>10. CASE MarkRetiring(c) /\ ~HasRow(c)
  BY <1>10 DEF MarkRetiring
<1>11. QED
  BY <1>2, <1>3, <1>4, <1>5, <1>6, <1>7, <1>8, <1>9, <1>10

\* Neither does a retire() that begins, nor what an interrupted task leaves.
LEMMA TasksForget ==
    ASSUME RuntimesTypeOK, NEW p, NEW c, RetireBegin(p, c) \/ RetireLeft(p) \/ Abandon(p)
    PROVE  Forgets
<1>1. ASSUME RetireLeft(p) PROVE Forgets
  BY <1>1, WritesForget DEF RetireLeft, Kill, rtVars
<1>2. CASE RetireBegin(p, c)
  BY <1>2, WritesForget DEF RetireBegin, rtVars
<1>3. CASE Abandon(p)
  BY <1>1, <1>3, WritesForget DEF Abandon
<1>4. QED
  BY <1>1, <1>2, <1>3

\* Every step that makes a handle or registers an id has seen the sandbox.
LEMMA RowsKnownStep == TypeInv /\ JobOperation /\ KnownCreated /\ Next => RowsKnown'
<1> SUFFICES ASSUME TypeInv, JobOperation, KnownCreated, Next PROVE RowsKnown'
  OBVIOUS
<1>0. RowsKnown
  BY DEF KnownCreated, RowsKnown
<1>a. ASSUME Forgets PROVE RowsKnown'
  BY <1>0, <1>a, RowsKnownKept
<1>b. ASSUME UNCHANGED <<row, handles>> PROVE RowsKnown'
  BY <1>a, <1>b DEF Forgets
<1> USE ServiceAssumption
    DEF TypeInv, TypeOK, JobsTypeOK, RuntimesTypeOK, RowType, ProjectKnown, Jobs, Procs, Step, rtVars
<1>1. ASSUME NEW r \in Runs, RunStep(r) PROVE RowsKnown'
  <2>1. CASE AdmitCommit(r)
    BY <2>1, <1>b DEF AdmitCommit
  <2>2. CASE AdmitRegister(r)
    BY <2>2, <1>b DEF AdmitRegister
  <2>3. CASE Invalidate(r)
    BY <2>3, <1>a DEF Invalidate, InvalidateRow, Forgets
  <2>4. CASE Mutate(r)
    BY <2>4, <1>b DEF Mutate
  <2>5. CASE Checkpoint(r)
    BY <2>5, <1>b DEF Checkpoint, SaveFiles
  <2>6. CASE CheckpointLost(r)
    BY <2>6, <1>b DEF CheckpointLost
  <2>7. CASE Complete(r)
    BY <2>7, <1>b DEF Complete, SaveFiles
  <2>8. CASE Finish(r)
    BY <2>8, <1>a, WritesForget DEF Finish, Record, rtVars
  <2>9. CASE FinishFails(r)
    BY <2>9, <1>a, WritesForget DEF FinishFails, Record, rtVars
  <2>10. CASE Pop(r)
    BY <2>10, <1>b DEF Pop
  <2>11. CASE RunRetired(r)
    BY <2>11, <1>b DEF RunRetired
  <2>12. CASE Cancel(r)
    BY <2>12, <1>a, TasksForget DEF Cancel
  <2>13. CASE CancelFinish(r)
    BY <2>13, <1>b DEF CancelFinish
  <2>14. CASE CancelFinishFails(r)
    BY <2>14, <1>b DEF CancelFinishFails
  <2>15. CASE SnapshotJudge(r)
    BY <2>15, <1>b DEF SnapshotJudge
  <2>16. QED
    BY <1>1, <2>1, <2>2, <2>3, <2>4, <2>5, <2>6, <2>7, <2>8, <2>9, <2>10, <2>11, <2>12, <2>13, <2>14,
        <2>15 DEF RunStep
<1>2. ASSUME NEW j \in Opens, OpenStep(j) PROVE RowsKnown'
  <2>1. CASE OpenRegister(j)
    BY <2>1, <1>b DEF OpenRegister
  <2>2. CASE OpenStart(j)
    BY <2>2, <1>b DEF OpenStart
  <2>3. CASE Probe(j)
    BY <2>3, <1>b DEF Probe
  <2>4. CASE Publish(j)
    BY <2>4, <1>a, WritesForget DEF Publish
  <2>5. CASE OpenRetired(j)
    BY <2>5, <1>b DEF OpenRetired
  <2>6. QED
    BY <1>2, <2>1, <2>2, <2>3, <2>4, <2>5 DEF OpenStep
<1>3. ASSUME NEW j \in Jobs, JobStep(j) PROVE RowsKnown'
  <2>1. ASSUME NEW c \in Chats, AdmitLock(j, c) PROVE RowsKnown'
    BY <2>1, <1>b DEF AdmitLock
  <2>2. CASE AdmitRefused(j)
    BY <2>2, <1>b DEF AdmitRefused
  <2>3. CASE ReadSource(j)
    BY <2>3, <1>b DEF ReadSource
  <2>4. ASSUME NEW current \in BOOLEAN, AcquireRead(j, current) PROVE RowsKnown'
    BY <2>4, <1>b DEF AcquireRead
  <2>5. CASE AcquireInspect(j)
    BY <2>5, <1>a, WritesForget DEF AcquireInspect
  <2>6. CASE AcquireResume(j)
    BY <2>6, <1>a DEF AcquireResume, ReserveResume, Change, Forgets
  <2>7. CASE AcquireConnect(j)
    <3>1. CASE ConnectReturns(chat[j], op[j]) /\ pc[j] = "connect"
      <4>1. op[j] \in Ops
        BY <3>1 DEF JobOperation, UsesOperation
      <4>2. \A d \in Chats : handles'[d] = handles[d] \/ (handles'[d] = op[j] /\ sb'[op[j]] \in Created)
        BY <3>1, <4>1 DEF ConnectReturns, Created
      <4>3. QED
        BY <1>0, <3>1, <4>2, CreatedStays DEF ConnectReturns, RowsKnown
    <3>2. CASE UNCHANGED <<row, handles>>
      BY <3>2, <1>b
    <3>3. QED
      BY <2>7, <3>1, <3>2 DEF AcquireConnect, ConnectLost
  <2>8. ASSUME NEW o \in Ops, AcquireReserve(j, o) PROVE RowsKnown'
    BY <2>8, <1>a DEF AcquireReserve, InsertRow, NoRow, Forgets
  <2>9. CASE AcquireCreate(j)
    <3>1. CASE CreateReturns(chat[j], op[j])
      <4>1. \A d \in Chats : handles'[d] = handles[d] \/ (handles'[d] = op[j] /\ sb'[op[j]] \in Created)
        BY <3>1 DEF CreateReturns, Created
      <4>2. QED
        BY <1>0, <3>1, <4>1, CreatedStays DEF CreateReturns, RowsKnown
    <3>2. CASE UNCHANGED <<row, handles>>
      BY <3>2, <1>b
    <3>3. QED
      BY <2>9, <3>1, <3>2 DEF AcquireCreate, CreateRejected
  <2>10. CASE AcquireRejected(j)
    BY <2>10, <1>a, WritesForget DEF AcquireRejected
  <2>11. CASE AcquireRegister(j)
    <3>1. op[j] \in Ops /\ sb[op[j]] \in Created
      BY <2>11 DEF AcquireRegister, KnownCreated, JobOperation, UsesOperation
    <3>2. UNCHANGED <<handles, sb>> /\ chat[j] \in Chats
      BY <2>11 DEF AcquireRegister, RegisterSandbox
    <3>3. \A d \in Chats : row'[d].sid \in {row[d].sid, op[j]}
      BY <2>11, <3>2 DEF AcquireRegister, RegisterSandbox, Change
    <3>4. QED
      BY <1>0, <3>1, <3>2, <3>3 DEF RowsKnown
  <2>12. CASE RestoreSource(j)
    BY <2>12, <1>b DEF RestoreSource
  <2>13. CASE Replace(j)
    BY <2>13, <1>a, TasksForget DEF Replace
  <2>14. CASE Replaced(j)
    BY <2>14, <1>b DEF Replaced
  <2>15. CASE JobFails(j)
    BY <2>15, <1>a, TasksForget DEF JobFails
  <2>16. QED
    BY <1>3, <2>1, <2>2, <2>3, <2>4, <2>5, <2>6, <2>7, <2>8, <2>9, <2>10, <2>11, <2>12, <2>13, <2>14,
        <2>15 DEF JobStep
<1>4. ASSUME NEW p \in Procs, RetireStep(p) PROVE RowsKnown'
  <2>1. CASE RetireList(p)
    BY <2>1, <1>b DEF RetireList
  <2>2. CASE RetireKill(p)
    BY <2>2, <1>b DEF RetireKill, Kill
  <2>3. CASE RetireFails(p)
    BY <2>3, <1>a, TasksForget DEF RetireFails
  <2>4. CASE RetireEnd(p)
    BY <2>4, <1>a, WritesForget DEF RetireEnd
  <2>5. CASE RetireSandbox(p)
    BY <2>5, <1>a, TasksForget DEF RetireSandbox
  <2>6. QED
    BY <1>4, <2>1, <2>2, <2>3, <2>4, <2>5 DEF RetireStep
<1>5. ASSUME NEW c \in Chats, ProjectStep(c) PROVE RowsKnown'
  <2>1. CASE DeleteProject(c)
    BY <2>1, <1>b DEF DeleteProject
  <2>2. CASE DeleteRetired(c)
    BY <2>2, <1>b DEF DeleteRetired
  <2>3. CASE DeleteTimeout(c)
    BY <2>3, <1>a, TasksForget DEF DeleteTimeout
  <2>4. CASE PreviewStatus(c)
    BY <2>4, <1>a, WritesForget DEF PreviewStatus, ReadState
  <2>5. CASE SnapshotRead(c)
    BY <2>5, <1>b DEF SnapshotRead
  <2>6. CASE RecoverCheckpoint(c)
    BY <2>6, <1>b DEF RecoverCheckpoint
  <2>7. ASSUME NEW doomed \in BOOLEAN, SweepVisit(c, doomed) PROVE RowsKnown'
    BY <2>7, <1>a, TasksForget, WritesForget DEF SweepVisit, rtVars
  <2>8. QED
    BY <1>5, <2>1, <2>2, <2>3, <2>4, <2>5, <2>6, <2>7 DEF ProjectStep
<1>6. ASSUME NEW old \in SUBSET Chats, SweepBegin(old) PROVE RowsKnown'
  BY <1>6, <1>b DEF SweepBegin
<1>7. ASSUME NEW old \in SUBSET Chats, Startup(old) PROVE RowsKnown'
  BY <1>7, <1>b DEF Startup
<1>8. CASE SweepRetired
  BY <1>8, <1>b DEF SweepRetired
<1>9. CASE SweepState
  BY <1>9, <1>a, WritesForget DEF SweepState, rtVars
<1>10. CASE SweepPause
  BY <1>10, <1>a, WritesForget DEF SweepPause, rtVars
<1>11. CASE SweepEnd
  BY <1>11, <1>b DEF SweepEnd
<1>12. CASE Provider
  BY <1>12, <1>b DEF Provider, Provision, AutoPause, Vanish
<1>13. CASE Crash
  BY <1>13, <1>a DEF Crash, Forgets
<1>14. QED
  BY <1>1, <1>2, <1>3, <1>4, <1>5, <1>6, <1>7, <1>8, <1>9, <1>10, <1>11, <1>12, <1>13 DEF Next,
      ReaperStep

\* The ids a retire() call holds are ids of sandboxes that were created, and so is
\* the one a job is about to register.
CallsKnown ==
    /\ \A p \in Procs : \A o \in ret[p].ids : sb[o] \in Created
    /\ \A j \in Jobs : pc[j] = "register" => sb[op[j]] \in Created

\* Calls that go on or are over stay known.
LEMMA CallsKnownKept ==
    ASSUME TypeInv, JobOperation, CallsKnown, Next,
           \A p \in Procs : ret'[p].ids \subseteq ret[p].ids,
           \A k \in Jobs : pc'[k] = "register" => pc[k] = "register" /\ op'[k] = op[k]
    PROVE  CallsKnown'
<1>1. \A p \in Procs : ret[p].ids \subseteq Ops
  BY DEF TypeInv, TypeOK, JobsTypeOK
<1>2. \A k \in Jobs : pc[k] = "register" => op[k] \in Ops
  BY DEF TypeInv, TypeOK, JobsTypeOK, JobOperation, UsesOperation
<1>3. QED
  BY <1>1, <1>2, CreatedStays DEF CallsKnown

\* A retire() that begins knows what its row and its handle know.
LEMMA BeginKnown ==
    ASSUME TypeInv, JobOperation, KnownCreated, Next, NEW p \in Procs, NEW c \in Chats, RetireBegin(p,
    c),
           \A k \in Jobs : pc'[k] = "register" => pc[k] = "register" /\ op'[k] = op[k]
    PROVE  CallsKnown'
<1>1. \A q \in Procs : ret[q].ids \subseteq Ops
  BY DEF TypeInv, TypeOK, JobsTypeOK
<1>2. \A k \in Jobs : pc[k] = "register" => op[k] \in Ops
  BY DEF TypeInv, TypeOK, JobsTypeOK, JobOperation, UsesOperation
<1>3. \A q \in Procs : ret'[q].ids \in {ret[q].ids, KnownIds(c), {}}
  <2>1. ret \in [Procs -> [pc : RetPCs, op : Ops \cup {None}, ids : SUBSET Ops]]
    BY DEF TypeInv, TypeOK, JobsTypeOK
  <2>2. \E l, o, ids : ids \in {KnownIds(c), {}} /\ RetireAt(p, l, o, ids)
    BY DEF RetireBegin, Returns
  <2>3. QED
    BY <2>1, <2>2 DEF RetireAt
<1>4. QED
  BY <1>1, <1>2, <1>3, KnownIdsCreated, CreatedStays DEF KnownCreated, CallsKnown

\* Every other call goes on with the ids it has, or finds its own operation alive.
LEMMA CallsKnownStep == TypeInv /\ JobOperation /\ KnownCreated /\ Next => CallsKnown'
<1> SUFFICES ASSUME TypeInv, JobOperation, KnownCreated, Next PROVE CallsKnown'
  OBVIOUS
<1>0. CallsKnown
  BY DEF KnownCreated, CallsKnown
<1>a. ASSUME \A p \in Procs : ret'[p].ids \subseteq ret[p].ids,
             \A k \in Jobs : pc'[k] = "register" => pc[k] = "register" /\ op'[k] = op[k]
      PROVE  CallsKnown'
  BY <1>0, <1>a, CallsKnownKept
<1> USE ServiceAssumption
    DEF TypeInv, TypeOK, JobsTypeOK, ProjectKnown, Jobs, Procs, Step, Goto, Fail, Over, IdleRet, Quiet,
        Stay,
        jobVars, locVars, AfterAcquire
<1>1. ASSUME NEW r \in Runs, RunStep(r) PROVE CallsKnown'
  <2>1. CASE AdmitCommit(r)
    BY <2>1, <1>a DEF AdmitCommit
  <2>2. CASE AdmitRegister(r)
    BY <2>2, <1>a DEF AdmitRegister
  <2>3. CASE Invalidate(r)
    BY <2>3, <1>a DEF Invalidate
  <2>4. CASE Mutate(r)
    BY <2>4, <1>a DEF Mutate
  <2>5. CASE Checkpoint(r)
    BY <2>5, <1>a DEF Checkpoint
  <2>6. CASE CheckpointLost(r)
    BY <2>6, <1>a DEF CheckpointLost
  <2>7. CASE Complete(r)
    BY <2>7, <1>a DEF Complete
  <2>8. CASE Finish(r)
    BY <2>8, <1>a DEF Finish, Record
  <2>9. CASE FinishFails(r)
    BY <2>9, <1>a DEF FinishFails, Record
  <2>10. CASE Pop(r)
    BY <2>10, <1>a DEF Pop
  <2>11. CASE RunRetired(r)
    BY <2>11, <1>a DEF RunRetired, Answered
  <2>12. CASE Cancel(r)
    BY <2>12, <1>a DEF Cancel, Abandon
  <2>13. CASE CancelFinish(r)
    BY <2>13, <1>a DEF CancelFinish
  <2>14. CASE CancelFinishFails(r)
    BY <2>14, <1>a DEF CancelFinishFails
  <2>15. CASE SnapshotJudge(r)
    BY <2>15, <1>a DEF SnapshotJudge
  <2>16. QED
    BY <1>1, <2>1, <2>2, <2>3, <2>4, <2>5, <2>6, <2>7, <2>8, <2>9, <2>10, <2>11, <2>12, <2>13, <2>14,
        <2>15 DEF RunStep
<1>2. ASSUME NEW j \in Opens, OpenStep(j) PROVE CallsKnown'
  <2>1. CASE OpenRegister(j)
    BY <2>1, <1>a DEF OpenRegister
  <2>2. CASE OpenStart(j)
    BY <2>2, <1>a DEF OpenStart
  <2>3. CASE Probe(j)
    BY <2>3, <1>a DEF Probe
  <2>4. CASE Publish(j)
    BY <2>4, <1>a DEF Publish
  <2>5. CASE OpenRetired(j)
    BY <2>5, <1>a DEF OpenRetired
  <2>6. QED
    BY <1>2, <2>1, <2>2, <2>3, <2>4, <2>5 DEF OpenStep
<1>3. ASSUME NEW j \in Jobs, JobStep(j) PROVE CallsKnown'
  <2>1. ASSUME NEW c \in Chats, AdmitLock(j, c) PROVE CallsKnown'
    BY <2>1, <1>a DEF AdmitLock
  <2>2. CASE AdmitRefused(j)
    BY <2>2, <1>a DEF AdmitRefused
  <2>3. CASE ReadSource(j)
    BY <2>3, <1>a DEF ReadSource
  <2>4. ASSUME NEW current \in BOOLEAN, AcquireRead(j, current) PROVE CallsKnown'
    BY <2>4, <1>a DEF AcquireRead
  <2>5. CASE AcquireInspect(j)
    BY <2>5, <1>a DEF AcquireInspect
  <2>6. CASE AcquireResume(j)
    BY <2>6, <1>a DEF AcquireResume
  <2>7. CASE AcquireConnect(j)
    BY <2>7, <1>a DEF AcquireConnect
  <2>8. ASSUME NEW o \in Ops, AcquireReserve(j, o) PROVE CallsKnown'
    BY <2>8, <1>a DEF AcquireReserve
  <2>9. CASE AcquireCreate(j)
    <3>1. CASE Step(j, "create", "register") /\ CreateReturns(chat[j], op[j]) /\ Quiet
      BY <1>0, <3>1 DEF CreateReturns, CallsKnown, Created
    <3>2. CASE Step(j, "create", "rejected") /\ Quiet
      BY <1>a, <3>2
    <3>3. QED
      BY <2>9, <3>1, <3>2 DEF AcquireCreate
  <2>10. CASE AcquireRejected(j)
    BY <2>10, <1>a DEF AcquireRejected
  <2>11. CASE AcquireRegister(j)
    BY <2>11, <1>a DEF AcquireRegister
  <2>12. CASE RestoreSource(j)
    BY <2>12, <1>a DEF RestoreSource
  <2>13. CASE Replace(j)
    BY <2>13, BeginKnown DEF Replace
  <2>14. CASE Replaced(j)
    BY <2>14, <1>a DEF Replaced, Answered
  <2>15. CASE JobFails(j)
    BY <2>15, <1>a DEF JobFails, Abandon
  <2>16. QED
    BY <1>3, <2>1, <2>2, <2>3, <2>4, <2>5, <2>6, <2>7, <2>8, <2>9, <2>10, <2>11, <2>12, <2>13, <2>14,
        <2>15 DEF JobStep
<1>4. ASSUME NEW p \in Procs, RetireStep(p) PROVE CallsKnown'
  <2>1. CASE RetireList(p)
    <3>1. \A q \in Procs : ret'[q].ids \in {ret[q].ids, {ret[p].op}}
      BY <2>1 DEF RetireList, RetireAt
    <3>2. sb'[ret[p].op] \in Created /\ UNCHANGED <<pc, op, sb>>
      BY <2>1 DEF RetireList, Created, rtVars
    <3>3. QED
      BY SMTT(30), <1>0, <3>1, <3>2 DEF CallsKnown
  <2>2. CASE RetireKill(p)
    BY <2>2, <1>a DEF RetireKill, RetireAt
  <2>3. CASE RetireFails(p)
    BY <2>3, <1>a DEF RetireFails, Returns, RetireAt
  <2>4. CASE RetireEnd(p)
    BY <2>4, <1>a DEF RetireEnd, Returns, RetireAt
  <2>5. CASE RetireSandbox(p)
    BY <2>5, BeginKnown DEF RetireSandbox
  <2>6. QED
    BY <1>4, <2>1, <2>2, <2>3, <2>4, <2>5 DEF RetireStep
<1>5. ASSUME NEW c \in Chats, ProjectStep(c) PROVE CallsKnown'
  <2>1. CASE DeleteProject(c)
    BY <2>1, <1>a DEF DeleteProject
  <2>2. CASE DeleteRetired(c)
    BY <2>2, <1>a DEF DeleteRetired, Answered
  <2>3. CASE DeleteTimeout(c)
    BY <2>3, <1>a DEF DeleteTimeout, Abandon
  <2>4. CASE PreviewStatus(c)
    BY <2>4, <1>a DEF PreviewStatus
  <2>5. CASE SnapshotRead(c)
    BY <2>5, <1>a DEF SnapshotRead
  <2>6. CASE RecoverCheckpoint(c)
    BY <2>6, <1>a DEF RecoverCheckpoint
  <2>7. ASSUME NEW doomed \in BOOLEAN, SweepVisit(c, doomed) PROVE CallsKnown'
    BY <2>7, BeginKnown, <1>a DEF SweepVisit
  <2>8. QED
    BY <1>5, <2>1, <2>2, <2>3, <2>4, <2>5, <2>6, <2>7 DEF ProjectStep
<1>6. ASSUME NEW old \in SUBSET Chats, SweepBegin(old) PROVE CallsKnown'
  BY <1>6, <1>a DEF SweepBegin
<1>7. ASSUME NEW old \in SUBSET Chats, Startup(old) PROVE CallsKnown'
  BY <1>7, <1>a DEF Startup
<1>8. CASE SweepRetired
  BY <1>8, <1>a DEF SweepRetired, Answered
<1>9. CASE SweepState
  BY <1>9, <1>a DEF SweepState
<1>10. CASE SweepPause
  BY <1>10, <1>a DEF SweepPause
<1>11. CASE SweepEnd
  BY <1>11, <1>a DEF SweepEnd
<1>12. CASE Provider
  BY <1>12, <1>a DEF Provider
<1>13. CASE Crash
  BY <1>13, <1>a DEF Crash
<1>14. QED
  BY <1>1, <1>2, <1>3, <1>4, <1>5, <1>6, <1>7, <1>8, <1>9, <1>10, <1>11, <1>12, <1>13 DEF Next,
      ReaperStep

----------------------------------------------------------------------------
(* The refinement.                                                         *)

KnownInv == IndInv /\ KnownCreated

\* A retire() that begins marks its row, or fails before that.
LEMMA BeginPromised ==
    ASSUME KnownInv, NEW p, NEW c, RetireBegin(p, c)
    PROVE  Promised
<1>1. RuntimesTypeOK
  BY DEF KnownInv, IndInv, TypeInv, TypeOK
<1>2. CASE MarkRetiring(c)
  BY <1>1, <1>2, UpdateKeeps, QuietPromised DEF MarkRetiring
<1>3. CASE UNCHANGED rtVars
  BY <1>3, QuietPromised DEF rtVars
<1>4. QED
  BY <1>2, <1>3 DEF RetireBegin

\* What an interrupted task leaves: some of its kills, or a half restored tree.
LEMMA LeftPromised ==
    ASSUME KnownInv, ~CutRemove, NEW p \in Procs, RetireLeft(p) \/ Abandon(p)
    PROVE  Promised
<1>1. ret[p].ids \in SUBSET Ops /\ \A o \in ret[p].ids : sb[o] \in Created
  BY DEF KnownInv, IndInv, TypeInv, TypeOK, JobsTypeOK, KnownCreated
<1>2. ASSUME NEW ids \in SUBSET ret[p].ids, Kill(ids) PROVE Promised
  BY <1>1, <1>2, KillPromised
<1>3. CASE UNCHANGED <<row, sb>>
  BY <1>3, QuietPromised
<1>4. QED
  BY <1>2, <1>3 DEF RetireLeft, Abandon, rtVars

\* Looking at a row's sandbox, for a status query or a sweep.
LEMMA LookPromised ==
    ASSUME KnownInv, NEW c, NEW o \in Ops \cup {None},
           \/ StateMissing(c, o) \/ StateRunning(c, o) \/ StatePaused(c, o)
           \/ PauseSandbox(c, o) \/ PauseFails(o) \/ UNCHANGED rtVars
    PROVE  Promised
<1>1. RuntimesTypeOK /\ IndInv
  BY DEF KnownInv, IndInv, TypeInv, TypeOK
<1>2. CASE StateMissing(c, o)
  BY <1>1, <1>2, RemovePromised DEF StateMissing, Remove
<1>3. CASE StateRunning(c, o)
  BY <1>1, <1>3, UpdateKeeps, QuietPromised DEF StateRunning
<1>4. CASE StatePaused(c, o)
  BY <1>1, <1>4, UpdateKeeps, QuietPromised DEF StatePaused
<1>5. CASE PauseSandbox(c, o)
  <2>1. \A d \in Chats : row'[d].op = row[d].op
    BY <1>1, <1>5 DEF RuntimesTypeOK, RowType, PauseSandbox, Change
  <2>2. CASE o \in Ops
    BY <1>1, <1>5, <2>1, <2>2, LifePromised DEF PauseSandbox, Alive
  <2>3. CASE o = None
    <3>1. sb' = sb
      BY <1>1, <1>5, <2>3, RuntimesAssumption DEF RuntimesTypeOK, PauseSandbox
    <3>2. QED
      BY <2>1, <3>1, QuietPromised
  <2>4. QED
    BY <2>2, <2>3
<1>6. CASE PauseFails(o) /\ sb' # sb
  <2>1. sb[o] = "running" /\ sb' = [sb EXCEPT ![o] = "paused"] /\ UNCHANGED row
    BY <1>6 DEF PauseFails
  <2>2. o \in Ops
    BY <1>1, <1>6, <2>1, RuntimesAssumption DEF RuntimesTypeOK
  <2>3. QED
    BY <1>1, <2>1, <2>2, LifePromised DEF Alive
<1>7. CASE UNCHANGED <<row, sb>>
  BY <1>7, QuietPromised
<1>8. QED
  BY <1>2, <1>3, <1>4, <1>5, <1>6, <1>7 DEF PauseFails, rtVars

\* acquire() reserves, asks, wakes and registers the sandbox of its own row, and
\* drops the row of a request that was rejected.
LEMMA AcquirePromised ==
    ASSUME KnownInv, NEW j \in Jobs,
           \/ AcquireInspect(j) \/ AcquireResume(j) \/ AcquireConnect(j)
           \/ AcquireCreate(j) \/ AcquireRejected(j) \/ AcquireRegister(j)
    PROVE  Promised
<1> DEFINE c == chat[j]
           o == op[j]
<1>1. pc[j] \in {"inspect", "resume", "connect", "create", "rejected", "register"}
  BY DEF AcquireInspect, AcquireResume, AcquireConnect, AcquireCreate, AcquireRejected,
         AcquireRegister, Step
<1>2. RuntimesTypeOK /\ IndInv /\ o \in Ops
  BY <1>1 DEF KnownInv, IndInv, TypeInv, TypeOK, JobsTypeOK, OwnershipInv, JobOperation, UsesOperation
<1>3. CASE AcquireRejected(j)
  <2>1. Remove(c, o) /\ sb[o] = "gone"
    BY <1>3 DEF AcquireRejected, KnownInv, IndInv, OwnershipInv, JobOperation, UsesOperation
  <2>2. QED
    BY <1>2, <2>1, RemovePromised DEF Remove
<1> HIDE DEF c, o
<1>4. CASE StateMissing(c, o) \/ StateRunning(c, o) \/ StatePaused(c, o) \/ UNCHANGED rtVars
  BY <1>2, <1>4, LookPromised
<1>5. CASE ReserveResume(c, o) \/ RegisterSandbox(c, o)
  <2>1. UNCHANGED sb
    BY <1>5 DEF ReserveResume, RegisterSandbox
  <2>2. QED
    BY <1>2, <1>5, <2>1, UpdateKeeps, QuietPromised
<1>6. CASE ConnectReturns(c, o) \/ ConnectLost(o)
  BY <1>2, <1>6, LifePromised DEF ConnectReturns, ConnectLost, Alive
<1>7. CASE CreateReturns(c, o)
  BY <1>7, QuietPromised DEF CreateReturns
<1>8. CASE CreateRejected(o)
  BY <1>2, <1>8, LifePromised DEF CreateRejected, Alive
<1>9. QED
  BY <1>3, <1>4, <1>5, <1>6, <1>7, <1>8
  DEF c, o, AcquireInspect, AcquireResume, AcquireConnect, AcquireCreate, AcquireRegister

\* finish() hands over a row that stays what it is.
LEMMA RecordPromised ==
    ASSUME KnownInv, NEW r, Record(r)
    PROVE  Promised
<1>1. RuntimesTypeOK
  BY DEF KnownInv, IndInv, TypeInv, TypeOK
<1>2. CASE MarkReusable(chat[r], rev[r])
  BY <1>1, <1>2, UpdateKeeps, QuietPromised DEF MarkReusable
<1>3. CASE UNCHANGED rtVars
  BY <1>3, QuietPromised DEF rtVars
<1>4. QED
  BY <1>2, <1>3 DEF Record

\* Every step of the service is a step of the promise, or none.
LEMMA PromisedStep == KnownInv /\ ~CutRemove /\ Next => Promised
<1> SUFFICES ASSUME KnownInv, ~CutRemove, Next PROVE Promised
  OBVIOUS
<1>0. RuntimesTypeOK /\ IndInv
  BY DEF KnownInv, IndInv, TypeInv, TypeOK
<1>a. ASSUME UNCHANGED <<row, sb>> PROVE Promised
  BY <1>a, QuietPromised
<1> USE DEF Jobs, Procs
<1>1. ASSUME NEW r \in Runs, RunStep(r) PROVE Promised
  <2>1. CASE AdmitCommit(r)
    BY <2>1, <1>a DEF AdmitCommit, rtVars
  <2>2. CASE AdmitRegister(r)
    BY <2>2, <1>a DEF AdmitRegister, rtVars
  <2>3. CASE Invalidate(r)
    BY <2>3, <1>0, UpdateKeeps, QuietPromised DEF Invalidate, InvalidateRow
  <2>4. CASE Mutate(r)
    BY <2>4, <1>a DEF Mutate, rtVars
  <2>5. CASE Checkpoint(r)
    BY <2>5, <1>a DEF Checkpoint, SaveFiles
  <2>6. CASE CheckpointLost(r)
    BY <2>6, <1>a DEF CheckpointLost, rtVars
  <2>7. CASE Complete(r)
    BY <2>7, <1>a DEF Complete, SaveFiles
  <2>8. CASE Finish(r)
    BY <2>8, RecordPromised DEF Finish
  <2>9. CASE FinishFails(r)
    BY <2>9, RecordPromised, <1>a DEF FinishFails, rtVars
  <2>10. CASE Pop(r)
    BY <2>10, <1>a DEF Pop, rtVars
  <2>11. CASE RunRetired(r)
    BY <2>11, <1>a DEF RunRetired, rtVars
  <2>12. CASE Cancel(r)
    BY <2>12, LeftPromised DEF Cancel
  <2>13. CASE CancelFinish(r)
    BY <2>13, <1>a DEF CancelFinish, rtVars
  <2>14. CASE CancelFinishFails(r)
    BY <2>14, <1>a DEF CancelFinishFails, rtVars
  <2>15. CASE SnapshotJudge(r)
    BY <2>15, <1>a DEF SnapshotJudge, rtVars
  <2>16. QED
    BY <1>1, <2>1, <2>2, <2>3, <2>4, <2>5, <2>6, <2>7, <2>8, <2>9, <2>10, <2>11, <2>12, <2>13, <2>14,
        <2>15 DEF RunStep
<1>2. ASSUME NEW j \in Opens, OpenStep(j) PROVE Promised
  <2>1. CASE OpenRegister(j)
    BY <2>1, <1>a DEF OpenRegister, rtVars
  <2>2. CASE OpenStart(j)
    BY <2>2, <1>a DEF OpenStart, rtVars
  <2>3. CASE Probe(j)
    BY <2>3, <1>a DEF Probe, rtVars
  <2>4. CASE Publish(j)
    BY <2>4, <1>0, UpdateKeeps, QuietPromised DEF Publish, MarkReusable
  <2>5. CASE OpenRetired(j)
    BY <2>5, <1>a DEF OpenRetired, rtVars
  <2>6. QED
    BY <1>2, <2>1, <2>2, <2>3, <2>4, <2>5 DEF OpenStep
<1>3. ASSUME NEW j \in Jobs, JobStep(j) PROVE Promised
  <2>1. ASSUME NEW c \in Chats, AdmitLock(j, c) PROVE Promised
    BY <2>1, <1>a DEF AdmitLock, rtVars
  <2>2. CASE AdmitRefused(j)
    BY <2>2, <1>a DEF AdmitRefused, rtVars
  <2>3. CASE ReadSource(j)
    BY <2>3, <1>a DEF ReadSource, rtVars
  <2>4. ASSUME NEW current \in BOOLEAN, AcquireRead(j, current) PROVE Promised
    BY <2>4, <1>a DEF AcquireRead, rtVars
  <2>5. CASE AcquireInspect(j)
    BY <2>5, AcquirePromised
  <2>6. CASE AcquireResume(j)
    BY <2>6, AcquirePromised
  <2>7. CASE AcquireConnect(j)
    BY <2>7, AcquirePromised
  <2>8. ASSUME NEW o \in Ops, AcquireReserve(j, o) PROVE Promised
    <3>1. chat[j] \in Chats
      BY <2>8 DEF AcquireReserve, Step, KnownInv, IndInv, TypeInv, TypeOK, JobsTypeOK, RuntimesTypeOK,
          RowType, ProjectKnown
    <3>2. QED
      BY <1>0, <2>8, <3>1, InsertPromised DEF AcquireReserve
  <2>9. CASE AcquireCreate(j)
    BY <2>9, AcquirePromised
  <2>10. CASE AcquireRejected(j)
    BY <2>10, AcquirePromised
  <2>11. CASE AcquireRegister(j)
    BY <2>11, AcquirePromised
  <2>12. CASE RestoreSource(j)
    BY <2>12, <1>a DEF RestoreSource, rtVars
  <2>13. CASE Replace(j)
    BY <2>13, BeginPromised DEF Replace
  <2>14. CASE Replaced(j)
    BY <2>14, <1>a DEF Replaced, rtVars
  <2>15. CASE JobFails(j)
    BY <2>15, LeftPromised DEF JobFails
  <2>16. QED
    BY <1>3, <2>1, <2>2, <2>3, <2>4, <2>5, <2>6, <2>7, <2>8, <2>9, <2>10, <2>11, <2>12, <2>13, <2>14,
        <2>15 DEF JobStep
<1>4. ASSUME NEW p \in Procs, RetireStep(p) PROVE Promised
  <2>1. CASE RetireList(p)
    BY <2>1, <1>a DEF RetireList, rtVars
  <2>2. CASE RetireKill(p)
    <3>1. ret[p].ids \in SUBSET Ops /\ \A o \in ret[p].ids : sb[o] \in Created
      BY DEF KnownInv, IndInv, TypeInv, TypeOK, JobsTypeOK, RuntimesTypeOK, RowType, ProjectKnown,
          KnownCreated
    <3>2. QED
      BY <2>2, <3>1, KillPromised DEF RetireKill
  <2>3. CASE RetireFails(p)
    BY <2>3, LeftPromised DEF RetireFails
  <2>4. CASE RetireEnd(p)
    <3>1. ret[p].op \in Ops \cup {None} /\ (ret[p].op # None => sb[ret[p].op] = "gone")
      BY <2>4 DEF RetireEnd, RetireSafe, OwnershipInv, KnownInv, IndInv, TypeInv, TypeOK, JobsTypeOK,
          RuntimesTypeOK, RowType, ProjectKnown
    <3>2. CASE ret[p].op = None
      BY <2>4, <3>2, <1>a DEF RetireEnd, RetireRemove
    <3>3. CASE ret[p].op # None
      BY <2>4, <1>0, <3>1, <3>3, RemovePromised DEF RetireEnd, RetireRemove, Remove
    <3>4. QED
      BY <3>2, <3>3
  <2>5. CASE RetireSandbox(p)
    BY <2>5, BeginPromised DEF RetireSandbox
  <2>6. QED
    BY <1>4, <2>1, <2>2, <2>3, <2>4, <2>5 DEF RetireStep
<1>5. ASSUME NEW c \in Chats, ProjectStep(c) PROVE Promised
  <2>1. CASE DeleteProject(c)
    BY <2>1, <1>a DEF DeleteProject, rtVars
  <2>2. CASE DeleteRetired(c)
    BY <2>2, <1>a DEF DeleteRetired, rtVars
  <2>3. CASE DeleteTimeout(c)
    BY <2>3, LeftPromised DEF DeleteTimeout
  <2>4. CASE PreviewStatus(c)
    <3>1. row[c].sid \in Ops \cup {None}
      BY DEF KnownInv, IndInv, TypeInv, TypeOK, JobsTypeOK, RuntimesTypeOK, RowType, ProjectKnown
    <3>2. QED
      BY <2>4, <3>1, LookPromised DEF PreviewStatus, ReadState
  <2>5. CASE SnapshotRead(c)
    BY <2>5, <1>a DEF SnapshotRead, rtVars
  <2>6. CASE RecoverCheckpoint(c)
    BY <2>6, <1>a DEF RecoverCheckpoint, rtVars
  <2>7. ASSUME NEW doomed \in BOOLEAN, SweepVisit(c, doomed) PROVE Promised
    BY <2>7, BeginPromised, <1>a DEF SweepVisit, rtVars
  <2>8. QED
    BY <1>5, <2>1, <2>2, <2>3, <2>4, <2>5, <2>6, <2>7 DEF ProjectStep
<1>6. ASSUME NEW old \in SUBSET Chats, SweepBegin(old) PROVE Promised
  BY <1>6, <1>a DEF SweepBegin, rtVars
<1>7. ASSUME NEW old \in SUBSET Chats, Startup(old) PROVE Promised
  BY <1>7, <1>a DEF Startup, rtVars
<1>8. CASE SweepRetired
  BY <1>8, <1>a DEF SweepRetired, rtVars
<1>9. CASE SweepState
  <2>1. row[chat[Reaper]].sid \in Ops \cup {None}
    BY <1>9 DEF SweepState, Step, KnownInv, IndInv, TypeInv, TypeOK, JobsTypeOK, RuntimesTypeOK,
        RowType, ProjectKnown
  <2>2. QED
    BY <1>9, <2>1, LookPromised DEF SweepState
<1>10. CASE SweepPause
  <2>1. row[chat[Reaper]].sid \in Ops \cup {None}
    BY <1>10 DEF SweepPause, Step, KnownInv, IndInv, TypeInv, TypeOK, JobsTypeOK, RuntimesTypeOK,
        RowType, ProjectKnown
  <2>2. QED
    BY <1>10, <2>1, LookPromised DEF SweepPause
<1>11. CASE SweepEnd
  BY <1>11, <1>a DEF SweepEnd, rtVars
<1>12. CASE Provider
  <2>1. PICK o \in Ops : Provision(o) \/ AutoPause(o) \/ Vanish(o)
    BY <1>12 DEF Provider
  <2>2. QED
    BY <1>0, <2>1, LifePromised DEF Provision, AutoPause, Vanish, Alive
<1>13. CASE Crash
  BY <1>13, <1>a DEF Crash, rtVars
<1>14. QED
  BY <1>1, <1>2, <1>3, <1>4, <1>5, <1>6, <1>7, <1>8, <1>9, <1>10, <1>11, <1>12, <1>13 DEF Next,
      ReaperStep

\* The table of runtimes, shared by every task and surviving every crash, keeps
\* the promise RuntimeOwnership states: intent before request, life only while
\* owned, no termination of what was never created, ownership given up only for
\* what is gone; provided that a remove() which deleted its row also reaches its
\* forget_handle.
THEOREM ImplementsOwnership == ~CutRemove => (Spec => OwnershipSpec)
<1> SUFFICES ASSUME ~CutRemove PROVE Spec => OwnershipSpec
  OBVIOUS
<1>1. Init => KnownInv
  BY InitTyped, InitOwned
  DEF KnownInv, IndInv, KnownCreated, Init, RuntimesInit, NoRow, IdleRet, Procs, Jobs
<1>2. KnownInv /\ [Next]_vars => KnownInv'
  <2> SUFFICES ASSUME KnownInv, [Next]_vars PROVE KnownInv'
    OBVIOUS
  <2>1. IndInv'
    BY IndInvStep DEF KnownInv
  <2>2. CASE Next
    BY <2>1, <2>2, RowsKnownStep, CallsKnownStep
    DEF KnownInv, IndInv, OwnershipInv, KnownCreated, RowsKnown, CallsKnown
  <2>3. CASE UNCHANGED vars
    BY <2>1, <2>3 DEF KnownInv, KnownCreated, vars, jobVars, locVars, rtVars
  <2>4. QED
    BY <2>2, <2>3
<1>3. Init => Ownership!Init
  BY DEF Init, RuntimesInit, NoRow, Ownership!Init
<1>4. KnownInv /\ [Next]_vars =>
         [Ownership!Next]_<<{row[c].op : c \in {d \in Chats : row[d].op # None}}, sb>>
  BY PromisedStep DEF Promised, Owned, vars, rtVars
<1>5. QED
  BY <1>1, <1>2, <1>3, <1>4, PTL DEF Spec, OwnershipSpec, Ownership!Spec
=============================================================================
