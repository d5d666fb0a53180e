--------------------------- MODULE SavedCopyProofs ---------------------------
(***************************************************************************)
(* What a sandbox contains, for every set of projects, runs, previews and  *)
(* operations: a runtime that is offered for reuse is a copy of the        *)
(* revision its row names, and it is offered as the latest saved one.      *)
(***************************************************************************)
EXTENDS RunAdmissionProofs

\* The whole invariant: what the copies rest on, and what they are.
Reachable == TypeInv /\ RowsApart /\ JobOperation /\ AdmissionInv /\ UseInv /\ CopyInv

----------------------------------------------------------------------------
(* Revisions.                                                              *)

\* save_files and CheckpointLost hand out fresh revisions, and recovery promotes a
\* pending one above its parent: what a preview has read lies below the saved one.
LEMMA RevisionsGrowStep == Reachable /\ Next => RevisionsGrow'
<1> SUFFICES ASSUME Reachable, Next PROVE RevisionsGrow'
  OBVIOUS
<1> USE ServiceAssumption, RuntimesAssumption
    DEF TypeInv, TypeOK, JobsTypeOK, MemTypeOK, DbTypeOK, RuntimesTypeOK, RowType, Revs, ProjectKnown,
        Jobs, Procs, Body, Acquiring, Finally,
        AdmissionInv, Registered, OneJobPerProject, Claimed, Busy, ActiveChats, Working, LockHeld,
        Reachable, CopyInv, RevisionsGrow,
        Goto, Step, Quiet, Stay, Over, Fail, AfterAcquire, Record, SaveFiles,
        jobVars, locVars, rtVars, memVars, dbVars, regVars
<1>1. ASSUME NEW r \in Runs, RunStep(r) PROVE RevisionsGrow'
  <2>1. CASE AdmitCommit(r)
    BY <2>1 DEF AdmitCommit
  <2>2. CASE AdmitRegister(r)
    BY <2>2 DEF AdmitRegister
  <2>3. CASE Invalidate(r)
    BY <2>3 DEF Invalidate
  <2>4. CASE Mutate(r)
    BY <2>4 DEF Mutate
  <2>5. CASE Checkpoint(r)
    BY <2>5 DEF Checkpoint
  <2>6. CASE CheckpointLost(r)
    BY <2>6 DEF CheckpointLost
  <2>7. CASE Complete(r)
    BY <2>7 DEF Complete
  <2>8. CASE Finish(r)
    BY <2>8 DEF Finish
  <2>9. CASE FinishFails(r)
    BY <2>9 DEF FinishFails
  <2>10. CASE Pop(r)
    BY <2>10 DEF Pop
  <2>11. CASE RunRetired(r)
    BY <2>11 DEF RunRetired
  <2>12. CASE Cancel(r)
    BY <2>12 DEF Cancel
  <2>13. CASE CancelFinish(r)
    BY <2>13 DEF CancelFinish
  <2>14. CASE CancelFinishFails(r)
    BY <2>14 DEF CancelFinishFails
  <2>15. CASE SnapshotJudge(r)
    BY <2>15 DEF SnapshotJudge
  <2>16. QED
    BY <1>1, <2>1, <2>2, <2>3, <2>4, <2>5, <2>6, <2>7, <2>8, <2>9, <2>10, <2>11, <2>12, <2>13, <2>14,
        <2>15 DEF RunStep
<1>2. ASSUME NEW j \in Opens, OpenStep(j) PROVE RevisionsGrow'
  <2>1. CASE OpenRegister(j)
    BY <2>1 DEF OpenRegister
  <2>2. CASE OpenStart(j)
    BY <2>2 DEF OpenStart
  <2>3. CASE Probe(j)
    BY <2>3 DEF Probe
  <2>4. CASE Publish(j)
    BY <2>4 DEF Publish
  <2>5. CASE OpenRetired(j)
    BY <2>5 DEF OpenRetired
  <2>6. QED
    BY <1>2, <2>1, <2>2, <2>3, <2>4, <2>5 DEF OpenStep
<1>3. ASSUME NEW j \in Jobs, JobStep(j) PROVE RevisionsGrow'
  <2>1. ASSUME NEW c \in Chats, AdmitLock(j, c) PROVE RevisionsGrow'
    BY <2>1 DEF AdmitLock
  <2>2. CASE AdmitRefused(j)
    BY <2>2 DEF AdmitRefused
  <2>3. CASE ReadSource(j)
    BY <2>3 DEF ReadSource
  <2>4. ASSUME NEW current \in BOOLEAN, AcquireRead(j, current) PROVE RevisionsGrow'
    BY <2>4 DEF AcquireRead
  <2>5. CASE AcquireInspect(j)
    BY <2>5 DEF AcquireInspect
  <2>6. CASE AcquireResume(j)
    BY <2>6 DEF AcquireResume
  <2>7. CASE AcquireConnect(j)
    BY <2>7 DEF AcquireConnect
  <2>8. ASSUME NEW o \in Ops, AcquireReserve(j, o) PROVE RevisionsGrow'
    BY <2>8 DEF AcquireReserve
  <2>9. CASE AcquireCreate(j)
    BY <2>9 DEF AcquireCreate
  <2>10. CASE AcquireRejected(j)
    BY <2>10 DEF AcquireRejected
  <2>11. CASE AcquireRegister(j)
    BY <2>11 DEF AcquireRegister
  <2>12. CASE RestoreSource(j)
    BY <2>12 DEF RestoreSource
  <2>13. CASE Replace(j)
    BY <2>13 DEF Replace
  <2>14. CASE Replaced(j)
    BY <2>14 DEF Replaced
  <2>15. CASE JobFails(j)
    BY <2>15 DEF JobFails
  <2>16. QED
    BY <1>3, <2>1, <2>2, <2>3, <2>4, <2>5, <2>6, <2>7, <2>8, <2>9, <2>10, <2>11, <2>12, <2>13, <2>14,
        <2>15 DEF JobStep
<1>4. ASSUME NEW p \in Procs, RetireStep(p) PROVE RevisionsGrow'
  <2>1. CASE RetireList(p)
    BY <2>1 DEF RetireList
  <2>2. CASE RetireKill(p)
    BY <2>2 DEF RetireKill
  <2>3. CASE RetireFails(p)
    BY <2>3 DEF RetireFails
  <2>4. CASE RetireEnd(p)
    BY <2>4 DEF RetireEnd
  <2>5. CASE RetireSandbox(p)
    BY <2>5 DEF RetireSandbox
  <2>6. QED
    BY <1>4, <2>1, <2>2, <2>3, <2>4, <2>5 DEF RetireStep
<1>5. ASSUME NEW c \in Chats, ProjectStep(c) PROVE RevisionsGrow'
  <2>1. CASE DeleteProject(c)
    BY <2>1 DEF DeleteProject
  <2>2. CASE DeleteRetired(c)
    BY <2>2 DEF DeleteRetired
  <2>3. CASE DeleteTimeout(c)
    BY <2>3 DEF DeleteTimeout
  <2>4. CASE PreviewStatus(c)
    BY <2>4 DEF PreviewStatus
  <2>5. CASE SnapshotRead(c)
    BY <2>5 DEF SnapshotRead
  <2>6. CASE RecoverCheckpoint(c)
    BY <2>6 DEF RecoverCheckpoint
  <2>7. ASSUME NEW doomed \in BOOLEAN, SweepVisit(c, doomed) PROVE RevisionsGrow'
    BY <2>7 DEF SweepVisit
  <2>8. QED
    BY <1>5, <2>1, <2>2, <2>3, <2>4, <2>5, <2>6, <2>7 DEF ProjectStep
<1>6. ASSUME NEW old \in SUBSET Chats, SweepBegin(old) PROVE RevisionsGrow'
  BY <1>6 DEF SweepBegin
<1>7. ASSUME NEW old \in SUBSET Chats, Startup(old) PROVE RevisionsGrow'
  BY <1>7 DEF Startup
<1>8. CASE SweepRetired
  BY <1>8 DEF SweepRetired
<1>9. CASE SweepState
  BY <1>9 DEF SweepState
<1>10. CASE SweepPause
  BY <1>10 DEF SweepPause
<1>11. CASE SweepEnd
  BY <1>11 DEF SweepEnd
<1>12. CASE Provider
  BY <1>12 DEF Provider
<1>13. CASE Crash
  BY <1>13 DEF Crash
<1>14. QED
  BY <1>1, <1>2, <1>3, <1>4, <1>5, <1>6, <1>7, <1>8, <1>9, <1>10, <1>11, <1>12, <1>13 DEF Next,
      ReaperStep

\* Between the last save of a run and the record of its success nobody saves for
\* its project: recovery waits until no run of it is 'running', deletion until
\* it is not busy.
LEMMA StillLatestStep == Reachable /\ Next => StillLatest'
<1> SUFFICES ASSUME Reachable, Next PROVE StillLatest'
  OBVIOUS
<1> USE ServiceAssumption, RuntimesAssumption
    DEF TypeInv, TypeOK, JobsTypeOK, MemTypeOK, DbTypeOK, RuntimesTypeOK, RowType, Revs, ProjectKnown,
        Jobs, Procs, Body, Acquiring, Finally,
        AdmissionInv, Registered, OneJobPerProject, Claimed, Busy, ActiveChats, Working, LockHeld,
        Reachable, CopyInv, StillLatest, CopyPlanned, NotRecorded, UseInv, DeletedInert,
        Goto, Step, Quiet, Stay, Over, Fail, AfterAcquire, Record, SaveFiles,
        jobVars, locVars, rtVars, memVars, dbVars, regVars
<1>1. ASSUME NEW r \in Runs, RunStep(r) PROVE StillLatest'
  <2>1. CASE AdmitCommit(r)
    BY <2>1 DEF AdmitCommit
  <2>2. CASE AdmitRegister(r)
    BY <2>2 DEF AdmitRegister
  <2>3. CASE Invalidate(r)
    BY <2>3 DEF Invalidate
  <2>4. CASE Mutate(r)
    BY <2>4 DEF Mutate
  <2>5. CASE Checkpoint(r)
    BY <2>5 DEF Checkpoint
  <2>6. CASE CheckpointLost(r)
    BY <2>6 DEF CheckpointLost
  <2>7. CASE Complete(r)
    BY <2>7 DEF Complete
  <2>8. CASE Finish(r)
    BY <2>8 DEF Finish
  <2>9. CASE FinishFails(r)
    BY <2>9 DEF FinishFails
  <2>10. CASE Pop(r)
    BY <2>10 DEF Pop
  <2>11. CASE RunRetired(r)
    <3>1. UNCHANGED <<chat, rev, fin, saved, runStatus>>
      BY <2>11 DEF RunRetired
    <3>2. CASE pc[r] = "retiring"
      <4>1. fin[r] # "succeeded"
        BY <3>2
      <4>2. \A q \in Runs : q # r => pc'[q] = pc[q]
        BY <2>11 DEF RunRetired
      <4>3. QED
        BY <3>1, <4>1, <4>2
    <3>3. CASE pc[r] = "retiring2"
      <4>1. pc'[r] = "pop" /\ \A q \in Runs : q # r => pc'[q] = pc[q]
        BY <3>3, <2>11 DEF RunRetired
      <4>2. QED
        BY <3>1, <4>1
    <3>4. QED
      BY <2>11, <3>2, <3>3 DEF RunRetired
  <2>12. CASE Cancel(r)
    BY SMTT(30), <2>12 DEF Cancel
  <2>13. CASE CancelFinish(r)
    BY <2>13 DEF CancelFinish
  <2>14. CASE CancelFinishFails(r)
    BY <2>14 DEF CancelFinishFails
  <2>15. CASE SnapshotJudge(r)
    BY <2>15 DEF SnapshotJudge
  <2>16. QED
    BY <1>1, <2>1, <2>2, <2>3, <2>4, <2>5, <2>6, <2>7, <2>8, <2>9, <2>10, <2>11, <2>12, <2>13, <2>14,
        <2>15 DEF RunStep
<1>2. ASSUME NEW j \in Opens, OpenStep(j) PROVE StillLatest'
  <2>1. CASE OpenRegister(j)
    BY <2>1 DEF OpenRegister
  <2>2. CASE OpenStart(j)
    BY <2>2 DEF OpenStart
  <2>3. CASE Probe(j)
    BY <2>3 DEF Probe
  <2>4. CASE Publish(j)
    BY <2>4 DEF Publish
  <2>5. CASE OpenRetired(j)
    BY <2>5 DEF OpenRetired
  <2>6. QED
    BY <1>2, <2>1, <2>2, <2>3, <2>4, <2>5 DEF OpenStep
<1>3. ASSUME NEW j \in Jobs, JobStep(j) PROVE StillLatest'
  <2>1. ASSUME NEW c \in Chats, AdmitLock(j, c) PROVE StillLatest'
    BY <2>1 DEF AdmitLock
  <2>2. CASE AdmitRefused(j)
    BY <2>2 DEF AdmitRefused
  <2>3. CASE ReadSource(j)
    BY <2>3 DEF ReadSource
  <2>4. ASSUME NEW current \in BOOLEAN, AcquireRead(j, current) PROVE StillLatest'
    BY <2>4 DEF AcquireRead
  <2>5. CASE AcquireInspect(j)
    BY <2>5 DEF AcquireInspect
  <2>6. CASE AcquireResume(j)
    BY <2>6 DEF AcquireResume
  <2>7. CASE AcquireConnect(j)
    BY <2>7 DEF AcquireConnect
  <2>8. ASSUME NEW o \in Ops, AcquireReserve(j, o) PROVE StillLatest'
    BY <2>8 DEF AcquireReserve
  <2>9. CASE AcquireCreate(j)
    BY <2>9 DEF AcquireCreate
  <2>10. CASE AcquireRejected(j)
    BY <2>10 DEF AcquireRejected
  <2>11. CASE AcquireRegister(j)
    BY <2>11 DEF AcquireRegister
  <2>12. CASE RestoreSource(j)
    BY <2>12 DEF RestoreSource
  <2>13. CASE Replace(j)
    BY <2>13 DEF Replace
  <2>14. CASE Replaced(j)
    BY <2>14 DEF Replaced
  <2>15. CASE JobFails(j)
    BY <2>15 DEF JobFails
  <2>16. QED
    BY <1>3, <2>1, <2>2, <2>3, <2>4, <2>5, <2>6, <2>7, <2>8, <2>9, <2>10, <2>11, <2>12, <2>13, <2>14,
        <2>15 DEF JobStep
<1>4. ASSUME NEW p \in Procs, RetireStep(p) PROVE StillLatest'
  <2>1. CASE RetireList(p)
    BY <2>1 DEF RetireList
  <2>2. CASE RetireKill(p)
    BY <2>2 DEF RetireKill
  <2>3. CASE RetireFails(p)
    BY <2>3 DEF RetireFails
  <2>4. CASE RetireEnd(p)
    BY <2>4 DEF RetireEnd
  <2>5. CASE RetireSandbox(p)
    BY <2>5 DEF RetireSandbox
  <2>6. QED
    BY <1>4, <2>1, <2>2, <2>3, <2>4, <2>5 DEF RetireStep
<1>5. ASSUME NEW c \in Chats, ProjectStep(c) PROVE StillLatest'
  <2>1. CASE DeleteProject(c)
    BY <2>1 DEF DeleteProject
  <2>2. CASE DeleteRetired(c)
    BY <2>2 DEF DeleteRetired
  <2>3. CASE DeleteTimeout(c)
    BY <2>3 DEF DeleteTimeout
  <2>4. CASE PreviewStatus(c)
    BY <2>4 DEF PreviewStatus
  <2>5. CASE SnapshotRead(c)
    BY <2>5 DEF SnapshotRead
  <2>6. CASE RecoverCheckpoint(c)
    BY <2>6 DEF RecoverCheckpoint
  <2>7. ASSUME NEW doomed \in BOOLEAN, SweepVisit(c, doomed) PROVE StillLatest'
    BY <2>7 DEF SweepVisit
  <2>8. QED
    BY <1>5, <2>1, <2>2, <2>3, <2>4, <2>5, <2>6, <2>7 DEF ProjectStep
<1>6. ASSUME NEW old \in SUBSET Chats, SweepBegin(old) PROVE StillLatest'
  BY <1>6 DEF SweepBegin
<1>7. ASSUME NEW old \in SUBSET Chats, Startup(old) PROVE StillLatest'
  BY <1>7 DEF Startup
<1>8. CASE SweepRetired
  BY <1>8 DEF SweepRetired
<1>9. CASE SweepState
  BY <1>9 DEF SweepState
<1>10. CASE SweepPause
  BY <1>10 DEF SweepPause
<1>11. CASE SweepEnd
  BY <1>11 DEF SweepEnd
<1>12. CASE Provider
  BY <1>12 DEF Provider
<1>13. CASE Crash
  BY <1>13 DEF Crash
<1>14. QED
  BY <1>1, <1>2, <1>3, <1>4, <1>5, <1>6, <1>7, <1>8, <1>9, <1>10, <1>11, <1>12, <1>13 DEF Next,
      ReaperStep

----------------------------------------------------------------------------
(* What a job plans with its row.                                          *)

\* Every job finds its row as it planned.
Planned == \A k \in Jobs : CopyPlanned(k)

\* A maintenance pass looks at projects no job works for.
LEMMA SweepsUnrelied ==
    ASSUME TypeInv, AdmissionInv, pc[Reaper] \in {"retiring", "sweepstate", "sweeppause"},
           NEW k \in Jobs, Relies(k)
    PROVE  chat[Reaper] # chat[k]
BY ServiceAssumption
    DEF TypeInv, TypeOK, JobsTypeOK, ProjectKnown, Jobs, Procs, Body, Acquiring, Finally,
        AdmissionInv, Registered, SweepHeld, Busy, ActiveChats, Working, Relies

\* A job that works writes its own project's row, no other job's.
LEMMA WorksUnrelied ==
    ASSUME TypeInv, AdmissionInv, NEW j \in Jobs, pc[j] \in Working, NEW k \in Jobs, k # j, Relies(k)
    PROVE  chat[j] # chat[k]
BY DEF Jobs, AdmissionInv, OneJobPerProject, Working, Body, Acquiring, Finally, Relies

\* A step that writes another project's row leaves a job's plan as it is.
LEMMA PlannedElsewhere ==
    ASSUME TypeInv, Planned, NEW c, Touches(c), NEW k \in Jobs,
           Relies(k) => c # chat[k],
           pc'[k] = pc[k], chat'[k] = chat[k], op'[k] = op[k], rev'[k] = rev[k], fin'[k] = fin[k]
    PROVE  CopyPlanned(k)'
BY DEF TypeInv, TypeOK, JobsTypeOK, ProjectKnown, Touches, Planned, CopyPlanned, Body, Acquiring, Jobs,
    Relies

\* What a job plans with its row, reuse, refill or handover, stays true until it
\* acts on it.
LEMMA CopyPlannedStep == Reachable /\ Next => Planned'
<1> SUFFICES ASSUME Reachable, Next PROVE Planned'
  OBVIOUS
<1>0. Planned
  BY DEF Reachable, CopyInv, Planned
<1> USE ServiceAssumption
    DEF TypeInv, TypeOK, JobsTypeOK, RuntimesTypeOK, RowType, ProjectKnown, Jobs, Procs, Body,
        Acquiring, Finally,
        AdmissionInv, Registered, LockHeld, OneJobPerProject, SweepHeld, Busy, ActiveChats, Working,
        UseInv, RetirePlaces, DeletedInert, RuntimeHeld, Planned, CopyPlanned, Reachable, CopyInv,
        Goto, Step, Quiet, Stay, Over, Fail, AfterAcquire, Record, SaveFiles,
        jobVars, locVars, rtVars
<1>1. ASSUME NEW r \in Runs, RunStep(r) PROVE Planned'
  <2>1. CASE AdmitCommit(r)
    BY <2>1 DEF AdmitCommit
  <2>2. CASE AdmitRegister(r)
    BY <2>2 DEF AdmitRegister
  <2>3. CASE Invalidate(r)
    BY <2>3 DEF Invalidate, InvalidateRow, HasRow
  <2>4. CASE Mutate(r)
    BY <2>4 DEF Mutate
  <2>5. CASE Checkpoint(r)
    BY <2>5 DEF Checkpoint
  <2>6. CASE CheckpointLost(r)
    BY <2>6 DEF CheckpointLost
  <2>7. CASE Complete(r)
    BY <2>7 DEF Complete, JobOperation, UsesOperation
  <2>8. CASE Finish(r)
    BY <2>8 DEF Finish, MarkReusable
  <2>9. CASE FinishFails(r)
    BY <2>9 DEF FinishFails, MarkReusable
  <2>10. CASE Pop(r)
    BY <2>10 DEF Pop
  <2>11. CASE RunRetired(r)
    BY <2>11 DEF RunRetired
  <2>12. CASE Cancel(r)
    <3> SUFFICES ASSUME NEW k \in Jobs PROVE CopyPlanned(k)'
      OBVIOUS
    <3>1. Touches(chat[r]) /\ UNCHANGED <<chat, rev>> /\ pc[r] \in Working
      BY <2>12 DEF Cancel, Touches, Abandon, RetireLeft, Kill, RemoveCut, DeleteRow
    <3>2. CASE k # r
      <4>1. pc'[k] = pc[k] /\ op'[k] = op[k] /\ fin'[k] = fin[k]
        BY <2>12, <3>2 DEF Cancel
      <4>2. Relies(k) => chat[r] # chat[k]
        <5> HIDE DEF TypeInv, AdmissionInv, UseInv, Procs, Working
        <5> QED
          BY <3>1, <3>2, WorksUnrelied
      <4>3. QED
        <5> HIDE DEF TypeInv, Planned, CopyPlanned, Procs, Jobs
        <5> QED
          BY <1>0, <3>1, <4>1, <4>2, PlannedElsewhere
    <3>3. CASE k = r
      <4>1. CASE Fail(r, "cancelled")
        BY <3>1, <3>3, <4>1
      <4>2. CASE Goto(r, "dead") /\ UNCHANGED fin
        BY <3>1, <3>3, <4>2
      <4>3. QED
        BY <2>12, <4>1, <4>2 DEF Cancel
    <3>4. QED
      BY <3>2, <3>3
  <2>13. CASE CancelFinish(r)
    BY <2>13 DEF CancelFinish
  <2>14. CASE CancelFinishFails(r)
    BY <2>14 DEF CancelFinishFails
  <2>15. CASE SnapshotJudge(r)
    BY <2>15 DEF SnapshotJudge
  <2>16. QED
    BY <1>1, <2>1, <2>2, <2>3, <2>4, <2>5, <2>6, <2>7, <2>8, <2>9, <2>10, <2>11, <2>12, <2>13, <2>14,
        <2>15 DEF RunStep
<1>2. ASSUME NEW j \in Opens, OpenStep(j) PROVE Planned'
  <2>1. CASE OpenRegister(j)
    BY <2>1 DEF OpenRegister
  <2>2. CASE OpenStart(j)
    BY <2>2 DEF OpenStart
  <2>3. CASE Probe(j)
    BY <2>3 DEF Probe
  <2>4. CASE Publish(j)
    BY <2>4 DEF Publish, MarkReusable
  <2>5. CASE OpenRetired(j)
    BY <2>5 DEF OpenRetired
  <2>6. QED
    BY <1>2, <2>1, <2>2, <2>3, <2>4, <2>5 DEF OpenStep
<1>3. ASSUME NEW j \in Jobs, JobStep(j) PROVE Planned'
  <2>1. ASSUME NEW c \in Chats, AdmitLock(j, c) PROVE Planned'
    BY <2>1 DEF AdmitLock
  <2>2. CASE AdmitRefused(j)
    BY <2>2 DEF AdmitRefused
  <2>3. CASE ReadSource(j)
    BY <2>3 DEF ReadSource
  <2>4. ASSUME NEW current \in BOOLEAN, AcquireRead(j, current) PROVE Planned'
    BY <2>4 DEF AcquireRead, Compatible, HasRow
  <2>5. CASE AcquireInspect(j)
    <3>1. CASE Step(j, "inspect", "reserve") /\ StateMissing(chat[j], op[j]) /\ Quiet
      BY <3>1 DEF StateMissing, Remove, DeleteRow
    <3>2. CASE Step(j, "inspect", "resume") /\ StateRunning(chat[j], op[j]) /\ Quiet
      BY <3>2 DEF StateRunning, Change
    <3>3. CASE Step(j, "inspect", "resume") /\ StatePaused(chat[j], op[j]) /\ Quiet
      BY <3>3 DEF StatePaused, Change
    <3>4. QED
      BY <2>5, <3>1, <3>2, <3>3 DEF AcquireInspect
  <2>6. CASE AcquireResume(j)
    BY <2>6 DEF AcquireResume, ReserveResume, Change, HasRow
  <2>7. CASE AcquireConnect(j)
    <3>1. CASE Step(j, "connect", AfterAcquire(j)) /\ ConnectReturns(chat[j], op[j]) /\ Quiet
      BY <3>1 DEF ConnectReturns
    <3>2. CASE Step(j, "connect", "replace") /\ UNCHANGED rtVars /\ Quiet
      BY <3>2 DEF rtVars
    <3>3. CASE /\ pc[j] = "connect" /\ ConnectLost(op[j]) /\ Fail(j, "failed")
               /\ UNCHANGED <<chat, op, rev, base, ret>>
      BY <3>3 DEF ConnectLost
    <3>4. QED
      BY <2>7, <3>1, <3>2, <3>3 DEF AcquireConnect
  <2>8. ASSUME NEW o \in Ops, AcquireReserve(j, o) PROVE Planned'
    <3> SUFFICES ASSUME NEW k \in Jobs PROVE CopyPlanned(k)'
      OBVIOUS
    <3>1. Touches(chat[j]) /\ UNCHANGED <<chat, rev>> /\ pc[j] \in Working
      BY <2>8 DEF AcquireReserve, Touches, InsertRow
    <3>2. CASE k # j
      <4>1. pc'[k] = pc[k] /\ op'[k] = op[k] /\ fin'[k] = fin[k]
        BY <2>8, <3>2 DEF AcquireReserve
      <4>2. Relies(k) => chat[j] # chat[k]
        <5> HIDE DEF TypeInv, AdmissionInv, UseInv, Procs, Working
        <5> QED
          BY <3>1, <3>2, WorksUnrelied
      <4>3. QED
        <5> HIDE DEF TypeInv, Planned, CopyPlanned, Procs, Jobs
        <5> QED
          BY <1>0, <3>1, <4>1, <4>2, PlannedElsewhere
    <3>3. CASE k = j
      <4>1. row'[chat[j]] = [NoRow EXCEPT !.state = "creating", !.op = o] /\ chat[j] \in Chats
        BY <2>8 DEF AcquireReserve, InsertRow
      <4>2. pc[j] = "reserve" /\ pc'[j] = "create" /\ fin'[j] = fin[j]
        BY <2>8 DEF AcquireReserve
      <4>3. fin[j] # "succeeded"
        BY <4>2
      <4>4. ~row'[chat[j]].reusable
        BY <4>1 DEF NoRow
      <4>5. QED
        BY <3>1, <3>3, <4>2, <4>3, <4>4
    <3>4. QED
      BY <3>2, <3>3
  <2>9. CASE AcquireCreate(j)
    <3>1. UNCHANGED <<chat, op, rev, fin, row>> /\ pc[j] = "create"
      BY <2>9 DEF AcquireCreate, CreateReturns, CreateRejected
    <3>2. fin[j] # "succeeded"
      BY <3>1
    <3>3. CASE Goto(j, "register")
      BY <3>1, <3>2, <3>3
    <3>4. CASE Goto(j, "rejected")
      BY <3>1, <3>2, <3>4
    <3>5. QED
      BY <2>9, <3>3, <3>4 DEF AcquireCreate
  <2>10. CASE AcquireRejected(j)
    BY <2>10 DEF AcquireRejected, Remove, DeleteRow, ForgetHandle
  <2>11. CASE AcquireRegister(j)
    BY <2>11 DEF AcquireRegister, RegisterSandbox, Change, HasRow
  <2>12. CASE RestoreSource(j)
    BY <2>12 DEF RestoreSource
  <2>13. CASE Replace(j)
    BY <2>13 DEF Replace, RetireBegin, MarkRetiring, HasRow
  <2>14. CASE Replaced(j)
    <3>1. UNCHANGED <<chat, op, rev, row>>
      BY <2>14 DEF Replaced
    <3>2. CASE Goto(j, "reserve") /\ pc[j] = "replace" /\ UNCHANGED fin
      BY <3>1, <3>2
    <3>3. CASE Fail(j, "failed")
      BY <3>1, <3>3
    <3>4. QED
      BY <2>14, <3>2, <3>3 DEF Replaced
  <2>15. CASE JobFails(j)
    BY <2>15 DEF JobFails, Abandon, RetireLeft, Kill, RemoveCut, DeleteRow
  <2>16. QED
    BY ONLY <1>3, <2>1, <2>2, <2>3, <2>4, <2>5, <2>6, <2>7, <2>8, <2>9, <2>10, <2>11,
       <2>12, <2>13, <2>14,
        <2>15 DEF JobStep
<1>4. ASSUME NEW p \in Procs, RetireStep(p) PROVE Planned'
  <2>1. CASE RetireList(p)
    BY <2>1 DEF RetireList
  <2>2. CASE RetireKill(p)
    BY <2>2 DEF RetireKill, Kill
  <2>3. CASE RetireFails(p)
    <3> SUFFICES ASSUME NEW k \in Jobs PROVE CopyPlanned(k)'
      OBVIOUS
    <3>1. Touches(chat[p]) /\ UNCHANGED <<chat, op, rev, fin>>
      BY <2>3 DEF RetireFails, Touches, RetireLeft, Kill, RemoveCut, DeleteRow
    <3>2. pc[p] \in {"replace", "unwind", "unwind2", "retiring", "retiring2"}
      BY <2>3 DEF RetireFails
    <3>3. Relies(k) => chat[p] # chat[k]
      <4> HIDE DEF TypeInv, AdmissionInv, UseInv, Procs, Jobs
      <4> QED
        BY <3>2, RetiresUnrelied DEF Procs
    <3>4. pc'[k] = pc[k]
      BY <2>3 DEF RetireFails
    <3>5. CASE pc'[k] = pc[k]
      <4> HIDE DEF TypeInv, Planned, CopyPlanned, Procs, Jobs
      <4> QED
        BY <1>0, <3>1, <3>3, <3>5, PlannedElsewhere
    <3>6. QED
      BY <3>4, <3>5
  <2>4. CASE RetireEnd(p)
    <3> SUFFICES ASSUME NEW k \in Jobs PROVE CopyPlanned(k)'
      OBVIOUS
    <3>1. Touches(chat[p]) /\ UNCHANGED <<chat, op, rev, fin>>
      BY <2>4 DEF RetireEnd, Touches, RetireRemove, Remove, DeleteRow, ForgetHandle
    <3>2. pc[p] \in {"replace", "unwind", "unwind2", "retiring", "retiring2"}
      BY <2>4 DEF RetireEnd
    <3>3. Relies(k) => chat[p] # chat[k]
      <4> HIDE DEF TypeInv, AdmissionInv, UseInv, Procs, Jobs
      <4> QED
        BY <3>2, RetiresUnrelied DEF Procs
    <3>4. pc'[k] = pc[k]
      BY <2>4 DEF RetireEnd
    <3>5. CASE pc'[k] = pc[k]
      <4> HIDE DEF TypeInv, Planned, CopyPlanned, Procs, Jobs
      <4> QED
        BY <1>0, <3>1, <3>3, <3>5, PlannedElsewhere
    <3>6. QED
      BY <3>4, <3>5
  <2>5. CASE RetireSandbox(p)
    <3> SUFFICES ASSUME NEW k \in Jobs PROVE CopyPlanned(k)'
      OBVIOUS
    <3>1. Touches(chat[p]) /\ UNCHANGED <<chat, op, rev, fin>>
      BY <2>5 DEF RetireSandbox, Touches, RetireBegin, MarkRetiring
    <3>2. pc[p] \in {"replace", "unwind", "unwind2", "retiring", "retiring2"}
      BY <2>5 DEF RetireSandbox
    <3>3. Relies(k) => chat[p] # chat[k]
      <4> HIDE DEF TypeInv, AdmissionInv, UseInv, Procs, Jobs
      <4> QED
        BY <3>2, RetiresUnrelied DEF Procs
    <3>4. pc'[k] = pc[k] \/ (k = p /\ pc[k] \in {"unwind", "unwind2"})
      BY <2>5 DEF RetireSandbox
    <3>5. CASE pc'[k] = pc[k]
      <4> HIDE DEF TypeInv, Planned, CopyPlanned, Procs, Jobs
      <4> QED
        BY <1>0, <3>1, <3>3, <3>5, PlannedElsewhere
    <3>6. CASE k = p /\ pc[k] \in {"unwind", "unwind2"}
      <4>1. (pc[p] = "unwind" /\ pc'[p] = "retiring") \/ (pc[p] = "unwind2" /\ pc'[p] = "retiring2")
        BY <2>5 DEF RetireSandbox
      <4>2. QED
        BY <3>1, <3>6, <4>1
    <3>7. QED
      BY <3>4, <3>5, <3>6
  <2>6. QED
    BY <1>4, <2>1, <2>2, <2>3, <2>4, <2>5 DEF RetireStep
<1>5. ASSUME NEW c \in Chats, ProjectStep(c) PROVE Planned'
  <2>1. CASE DeleteProject(c)
    BY <2>1 DEF DeleteProject
  <2>2. CASE DeleteRetired(c)
    BY <2>2 DEF DeleteRetired
  <2>3. CASE DeleteTimeout(c)
    <3> SUFFICES ASSUME NEW k \in Jobs PROVE CopyPlanned(k)'
      OBVIOUS
    <3>1. Touches(chat[c]) /\ UNCHANGED <<chat, op, rev, fin>>
      BY <2>3 DEF DeleteTimeout, Touches, Abandon, RetireLeft, Kill, RemoveCut, DeleteRow
    <3>2. pc[c] \in {"replace", "unwind", "unwind2", "retiring", "retiring2"}
      BY <2>3 DEF DeleteTimeout
    <3>3. Relies(k) => chat[c] # chat[k]
      <4> HIDE DEF TypeInv, AdmissionInv, UseInv, Procs, Jobs
      <4> QED
        BY <3>2, RetiresUnrelied DEF Procs
    <3>4. pc'[k] = pc[k]
      BY <2>3 DEF DeleteTimeout
    <3>5. CASE pc'[k] = pc[k]
      <4> HIDE DEF TypeInv, Planned, CopyPlanned, Procs, Jobs
      <4> QED
        BY <1>0, <3>1, <3>3, <3>5, PlannedElsewhere
    <3>6. QED
      BY <3>4, <3>5
  <2>4. CASE PreviewStatus(c)
    <3> SUFFICES ASSUME NEW k \in Jobs PROVE CopyPlanned(k)'
      OBVIOUS
    <3>1. Touches(c) /\ UNCHANGED <<pc, chat, op, rev, fin>> /\ c \notin Busy
      BY <2>4 DEF PreviewStatus, Touches, ReadState, StateMissing, StateRunning, StatePaused, Remove,
          DeleteRow,
            ForgetHandle, Change
    <3>2. Relies(k) => c # chat[k]
      BY <3>1 DEF Relies
    <3>3. QED
      <4> HIDE DEF TypeInv, Planned, CopyPlanned, Procs, Jobs
      <4> QED
        BY <1>0, <3>1, <3>2, PlannedElsewhere
  <2>5. CASE SnapshotRead(c)
    BY <2>5 DEF SnapshotRead
  <2>6. CASE RecoverCheckpoint(c)
    BY <2>6 DEF RecoverCheckpoint
  <2>7. ASSUME NEW doomed \in BOOLEAN, SweepVisit(c, doomed) PROVE Planned'
    <3> SUFFICES ASSUME NEW k \in Jobs PROVE CopyPlanned(k)'
      OBVIOUS
    <3>1. Touches(c) /\ UNCHANGED <<op, rev, fin>>
      BY <2>7 DEF SweepVisit, Touches, RetireBegin, MarkRetiring
    <3>2. pc'[k] = pc[k] /\ chat'[k] = chat[k]
      BY <2>7 DEF SweepVisit
    <3>3. Relies(k) => c # chat[k]
      <4>1. c \notin Busy
        BY <2>7 DEF SweepVisit
      <4>2. QED
        BY <4>1 DEF Relies
    <3>4. QED
      <4> HIDE DEF TypeInv, Planned, CopyPlanned, Procs, Jobs
      <4> QED
        BY <1>0, <3>1, <3>2, <3>3, PlannedElsewhere
  <2>8. QED
    BY <1>5, <2>1, <2>2, <2>3, <2>4, <2>5, <2>6, <2>7 DEF ProjectStep
<1>6. ASSUME NEW old \in SUBSET Chats, SweepBegin(old) PROVE Planned'
  BY <1>6 DEF SweepBegin
<1>7. ASSUME NEW old \in SUBSET Chats, Startup(old) PROVE Planned'
  BY <1>7 DEF Startup
<1>8. CASE SweepRetired
  BY <1>8 DEF SweepRetired
<1>9. CASE SweepState
  <3> SUFFICES ASSUME NEW k \in Jobs PROVE CopyPlanned(k)'
    OBVIOUS
  <3>1. Touches(chat[Reaper]) /\ UNCHANGED <<chat, op, rev, fin>>
    BY <1>9 DEF SweepState, Touches, StateMissing, StateRunning, StatePaused, Remove, DeleteRow,
        ForgetHandle, Change
  <3>2. pc[Reaper] \in {"retiring", "sweepstate", "sweeppause"}
    BY <1>9 DEF SweepState
  <3>3. Relies(k) => chat[Reaper] # chat[k]
    <4> HIDE DEF TypeInv, AdmissionInv, UseInv, Procs, Jobs
    <4> QED
      BY <3>2, SweepsUnrelied DEF Procs
  <3>4. pc'[k] = pc[k]
    BY <1>9 DEF SweepState
  <3>5. CASE pc'[k] = pc[k]
    <4> HIDE DEF TypeInv, Planned, CopyPlanned, Procs, Jobs
    <4> QED
      BY <1>0, <3>1, <3>3, <3>5, PlannedElsewhere
  <3>6. QED
    BY <3>4, <3>5
<1>10. CASE SweepPause
  <3> SUFFICES ASSUME NEW k \in Jobs PROVE CopyPlanned(k)'
    OBVIOUS
  <3>1. Touches(chat[Reaper]) /\ UNCHANGED <<chat, op, rev, fin>>
    BY <1>10 DEF SweepPause, Touches, PauseSandbox, StateMissing, Remove, DeleteRow, ForgetHandle,
        Change, PauseFails
  <3>2. pc[Reaper] \in {"retiring", "sweepstate", "sweeppause"}
    BY <1>10 DEF SweepPause
  <3>3. Relies(k) => chat[Reaper] # chat[k]
    <4> HIDE DEF TypeInv, AdmissionInv, UseInv, Procs, Jobs
    <4> QED
      BY <3>2, SweepsUnrelied DEF Procs
  <3>4. pc'[k] = pc[k]
    BY <1>10 DEF SweepPause
  <3>5. CASE pc'[k] = pc[k]
    <4> HIDE DEF TypeInv, Planned, CopyPlanned, Procs, Jobs
    <4> QED
      BY <1>0, <3>1, <3>3, <3>5, PlannedElsewhere
  <3>6. QED
    BY <3>4, <3>5
<1>11. CASE SweepEnd
  BY <1>11 DEF SweepEnd
<1>12. CASE Provider
  BY <1>12 DEF Provider, Provision, AutoPause, Vanish
<1>13. CASE Crash
  BY <1>13 DEF Crash
<1>14. QED
  BY <1>1, <1>2, <1>3, <1>4, <1>5, <1>6, <1>7, <1>8, <1>9, <1>10, <1>11, <1>12, <1>13 DEF Next,
      ReaperStep

----------------------------------------------------------------------------
(* Trees and the rows that offer them.                                     *)

\* The sandbox is gone after the step, or its tree is what it was.
TreeKept(o) == sb'[o] = "gone" \/ (sb[o] # "gone" /\ content'[o] = content[o])

\* A tree changes only under a job that restores or edits it.
LEMMA TreesStep ==
    TypeInv /\ JobOperation /\ Next =>
        \/ \A o \in Ops : TreeKept(o)
        \/ \E j \in Jobs : pc[j] \in {"restore", "edit"} /\ \A o \in Ops \ {op[j]} : TreeKept(o)
<1> DEFINE G == \/ \A o \in Ops : TreeKept(o)
                \/ \E i \in Jobs : pc[i] \in {"restore", "edit"} /\ \A o \in Ops \ {op[i]} : TreeKept(o)
<1> SUFFICES ASSUME TypeInv, JobOperation, Next PROVE G
  OBVIOUS
<1>0. ASSUME UNCHANGED <<sb, content>> PROVE G
  BY <1>0 DEF TypeInv, TypeOK, RuntimesTypeOK, TreeKept
<1> USE ServiceAssumption
    DEF TypeInv, TypeOK, JobsTypeOK, RuntimesTypeOK, JobOperation, UsesOperation, Jobs, TreeKept,
        Step, Quiet, rtVars
<1>1. ASSUME NEW r \in Runs, RunStep(r) PROVE G
  <2>1. CASE AdmitCommit(r)
    BY <2>1, <1>0 DEF AdmitCommit
  <2>2. CASE AdmitRegister(r)
    BY <2>2, <1>0 DEF AdmitRegister
  <2>3. CASE Invalidate(r)
    BY <2>3, <1>0 DEF Invalidate, InvalidateRow
  <2>4. CASE Mutate(r)
    BY <2>4 DEF Mutate
  <2>5. CASE Checkpoint(r)
    BY <2>5 DEF Checkpoint, SaveFiles
  <2>6. CASE CheckpointLost(r)
    BY <2>6, <1>0 DEF CheckpointLost
  <2>7. CASE Complete(r)
    BY <2>7 DEF Complete, SaveFiles
  <2>8. CASE Finish(r)
    BY <2>8, <1>0 DEF Finish, Record, MarkReusable
  <2>9. CASE FinishFails(r)
    BY <2>9, <1>0 DEF FinishFails, Record, MarkReusable
  <2>10. CASE Pop(r)
    BY <2>10, <1>0 DEF Pop
  <2>11. CASE RunRetired(r)
    BY <2>11, <1>0 DEF RunRetired
  <2>12. CASE Cancel(r)
    BY <2>12 DEF Cancel, Abandon, RetireLeft, Kill, RemoveCut, DeleteRow
  <2>13. CASE CancelFinish(r)
    BY <2>13, <1>0 DEF CancelFinish
  <2>14. CASE CancelFinishFails(r)
    BY <2>14, <1>0 DEF CancelFinishFails
  <2>15. CASE SnapshotJudge(r)
    BY <2>15, <1>0 DEF SnapshotJudge
  <2>16. QED
    BY <1>1, <2>1, <2>2, <2>3, <2>4, <2>5, <2>6, <2>7, <2>8, <2>9, <2>10, <2>11, <2>12, <2>13, <2>14,
        <2>15 DEF RunStep
<1>2. ASSUME NEW j \in Opens, OpenStep(j) PROVE G
  <2>1. CASE OpenRegister(j)
    BY <2>1, <1>0 DEF OpenRegister
  <2>2. CASE OpenStart(j)
    BY <2>2, <1>0 DEF OpenStart
  <2>3. CASE Probe(j)
    BY <2>3, <1>0 DEF Probe
  <2>4. CASE Publish(j)
    BY <2>4, <1>0 DEF Publish, MarkReusable
  <2>5. CASE OpenRetired(j)
    BY <2>5, <1>0 DEF OpenRetired
  <2>6. QED
    BY <1>2, <2>1, <2>2, <2>3, <2>4, <2>5 DEF OpenStep
<1>3. ASSUME NEW j \in Jobs, JobStep(j) PROVE G
  <2>1. ASSUME NEW c \in Chats, AdmitLock(j, c) PROVE G
    BY <2>1, <1>0 DEF AdmitLock
  <2>2. CASE AdmitRefused(j)
    BY <2>2, <1>0 DEF AdmitRefused
  <2>3. CASE ReadSource(j)
    BY <2>3, <1>0 DEF ReadSource
  <2>4. ASSUME NEW current \in BOOLEAN, AcquireRead(j, current) PROVE G
    BY <2>4, <1>0 DEF AcquireRead
  <2>5. CASE AcquireInspect(j)
    BY <2>5, <1>0 DEF AcquireInspect, StateMissing, StateRunning, StatePaused, Remove
  <2>6. CASE AcquireResume(j)
    BY <2>6, <1>0 DEF AcquireResume, ReserveResume
  <2>7. CASE AcquireConnect(j)
    BY <2>7 DEF AcquireConnect, ConnectReturns, ConnectLost
  <2>8. ASSUME NEW o \in Ops, AcquireReserve(j, o) PROVE G
    BY <2>8 DEF AcquireReserve, InsertRow, HasRow, NoRow
  <2>9. CASE AcquireCreate(j)
    BY <2>9 DEF AcquireCreate, CreateReturns, CreateRejected
  <2>10. CASE AcquireRejected(j)
    BY <2>10, <1>0 DEF AcquireRejected, Remove
  <2>11. CASE AcquireRegister(j)
    BY <2>11, <1>0 DEF AcquireRegister, RegisterSandbox
  <2>12. CASE RestoreSource(j)
    BY <2>12 DEF RestoreSource
  <2>13. CASE Replace(j)
    BY <2>13, <1>0 DEF Replace, RetireBegin, MarkRetiring
  <2>14. CASE Replaced(j)
    BY <2>14, <1>0 DEF Replaced
  <2>15. CASE JobFails(j)
    BY <2>15 DEF JobFails, Abandon, RetireLeft, Kill, RemoveCut, DeleteRow
  <2>16. QED
    BY <1>3, <2>1, <2>2, <2>3, <2>4, <2>5, <2>6, <2>7, <2>8, <2>9, <2>10, <2>11, <2>12, <2>13, <2>14,
        <2>15 DEF JobStep
<1>4. ASSUME NEW p \in Procs, RetireStep(p) PROVE G
  <2>1. CASE RetireList(p)
    BY <2>1, <1>0 DEF RetireList
  <2>2. CASE RetireKill(p)
    BY <2>2 DEF RetireKill, Kill
  <2>3. CASE RetireFails(p)
    BY <2>3 DEF RetireFails, RetireLeft, Kill, RemoveCut, DeleteRow
  <2>4. CASE RetireEnd(p)
    BY <2>4, <1>0 DEF RetireEnd, RetireRemove, Remove
  <2>5. CASE RetireSandbox(p)
    BY <2>5, <1>0 DEF RetireSandbox, RetireBegin, MarkRetiring
  <2>6. QED
    BY <1>4, <2>1, <2>2, <2>3, <2>4, <2>5 DEF RetireStep
<1>5. ASSUME NEW c \in Chats, ProjectStep(c) PROVE G
  <2>1. CASE DeleteProject(c)
    BY <2>1, <1>0 DEF DeleteProject
  <2>2. CASE DeleteRetired(c)
    BY <2>2, <1>0 DEF DeleteRetired
  <2>3. CASE DeleteTimeout(c)
    BY <2>3 DEF DeleteTimeout, Abandon, RetireLeft, Kill, RemoveCut, DeleteRow
  <2>4. CASE PreviewStatus(c)
    BY <2>4, <1>0 DEF PreviewStatus, ReadState, StateMissing, StateRunning, StatePaused, Remove
  <2>5. CASE SnapshotRead(c)
    BY <2>5, <1>0 DEF SnapshotRead
  <2>6. CASE RecoverCheckpoint(c)
    BY <2>6, <1>0 DEF RecoverCheckpoint
  <2>7. ASSUME NEW doomed \in BOOLEAN, SweepVisit(c, doomed) PROVE G
    BY <2>7, <1>0 DEF SweepVisit, RetireBegin, MarkRetiring
  <2>8. QED
    BY <1>5, <2>1, <2>2, <2>3, <2>4, <2>5, <2>6, <2>7 DEF ProjectStep
<1>6. ASSUME NEW old \in SUBSET Chats, SweepBegin(old) PROVE G
  BY <1>6, <1>0 DEF SweepBegin
<1>7. ASSUME NEW old \in SUBSET Chats, Startup(old) PROVE G
  BY <1>7, <1>0 DEF Startup
<1>8. CASE SweepRetired
  BY <1>8, <1>0 DEF SweepRetired
<1>9. CASE SweepState
  BY <1>9, <1>0 DEF SweepState, StateMissing, StateRunning, StatePaused, Remove
<1>10. CASE SweepPause
  BY <1>10 DEF SweepPause, PauseSandbox, StateMissing, Remove, DeleteRow, ForgetHandle, Change, HasRow,
      PauseFails
<1>11. CASE SweepEnd
  BY <1>11, <1>0 DEF SweepEnd
<1>12. CASE Provider
  BY <1>12 DEF Provider, Provision, AutoPause, Vanish
<1>13. CASE Crash
  BY <1>13, <1>0 DEF Crash
<1>14. QED
  BY <1>1, <1>2, <1>3, <1>4, <1>5, <1>6, <1>7, <1>8, <1>9, <1>10, <1>11, <1>12, <1>13 DEF Next,
      ReaperStep

\* A row that is offered for reuse after the step was so before, as the same copy.
RowsCool ==
    \A d \in Chats : row'[d].reusable =>
        row[d].reusable /\ row'[d].op = row[d].op /\ row'[d].rev = row[d].rev

\* The job has a copy of its revision to hand over.
Ready(k) == pc[k] \in {"probe", "publish"} \/ (pc[k] = "finish" /\ fin[k] = "succeeded")

\* The job hands its sandbox over as the copy of the latest saved revision.
HandsOver(k) ==
    /\ Ready(k) /\ chat[k] \in Chats
    /\ row[chat[k]].op = op[k] /\ saved[chat[k]] = rev[k]
    /\ row' = [row EXCEPT ![chat[k]] = [@ EXCEPT !.reusable = TRUE, !.rev = rev[k]]]
    /\ UNCHANGED <<handles, sb, content>>

\* A row that is dropped offers nothing.
LEMMA DeleteCool == ASSUME TypeInv, NEW c, NEW o, DeleteRow(c, o) PROVE RowsCool
BY DEF TypeInv, TypeOK, RuntimesTypeOK, DeleteRow, NoRow, RowsCool

\* The provider's word changes the state of a row, not the copy it offers.
LEMMA LookCool ==
    ASSUME TypeInv, NEW c \in Chats, NEW o, NEW s, Change(c, o, [row[c] EXCEPT !.state = s])
    PROVE  RowsCool
<1>1. row[c] \in RowType
  BY DEF TypeInv, TypeOK, RuntimesTypeOK
<1>2. QED
  BY <1>1 DEF TypeInv, TypeOK, RuntimesTypeOK, Change, RowType, RowsCool

\* A runtime that is being retired is not offered.
LEMMA RetiringCool == ASSUME TypeInv, NEW c \in Chats, MarkRetiring(c) PROVE RowsCool
<1>1. row[c] \in RowType
  BY DEF TypeInv, TypeOK, RuntimesTypeOK
<1>2. QED
  BY <1>1 DEF TypeInv, TypeOK, RuntimesTypeOK, MarkRetiring, RowType, RowsCool

\* A row becomes reusable, or changes its revision, only when a job hands it over:
\* mark_reusable() in finish() and at the end of open_preview().
LEMMA CoolStep == Reachable /\ Next => RowsCool \/ \E j \in Jobs : HandsOver(j)
<1> DEFINE G == RowsCool \/ \E i \in Jobs : HandsOver(i)
<1> SUFFICES ASSUME Reachable, Next PROVE G
  OBVIOUS
<1>0. ASSUME UNCHANGED row PROVE G
  BY <1>0 DEF RowsCool
<1> USE ServiceAssumption
    DEF Reachable, TypeInv, TypeOK, JobsTypeOK, RuntimesTypeOK, RowType, ProjectKnown, Jobs, Procs,
        Step, Quiet, rtVars, RowsCool
<1>1. ASSUME NEW r \in Runs, RunStep(r) PROVE G
  <2>1. CASE AdmitCommit(r)
    BY <2>1, <1>0 DEF AdmitCommit
  <2>2. CASE AdmitRegister(r)
    BY <2>2, <1>0 DEF AdmitRegister
  <2>3. CASE Invalidate(r)
    BY <2>3 DEF Invalidate, InvalidateRow, HasRow
  <2>4. CASE Mutate(r)
    BY <2>4, <1>0 DEF Mutate
  <2>5. CASE Checkpoint(r)
    BY <2>5, <1>0 DEF Checkpoint, SaveFiles
  <2>6. CASE CheckpointLost(r)
    BY <2>6, <1>0 DEF CheckpointLost
  <2>7. CASE Complete(r)
    BY <2>7, <1>0 DEF Complete, SaveFiles
  <2>8. CASE Finish(r)
    <3>1. ASSUME ~UNCHANGED row PROVE HandsOver(r)
      <4>1. /\ pc[r] = "finish" /\ fin[r] = "succeeded" /\ runStatus[r] = "running"
            /\ MarkReusable(chat[r], rev[r])
        BY <3>1, <2>8 DEF Finish, Record, NotRecorded
      <4>2. row[chat[r]].op = op[r] /\ saved[chat[r]] = rev[r] /\ chat[r] \in Chats
        BY <4>1 DEF CopyInv, CopyPlanned, StillLatest
      <4>3. QED
        BY <4>1, <4>2 DEF HandsOver, Ready, MarkReusable
    <3>2. QED
      BY <1>0, <3>1
  <2>9. CASE FinishFails(r)
    <3>1. ASSUME ~UNCHANGED row PROVE HandsOver(r)
      <4>1. /\ pc[r] = "finish" /\ fin[r] = "succeeded" /\ runStatus[r] = "running"
            /\ MarkReusable(chat[r], rev[r])
        BY <3>1, <2>9 DEF FinishFails, Record, NotRecorded
      <4>2. row[chat[r]].op = op[r] /\ saved[chat[r]] = rev[r] /\ chat[r] \in Chats
        BY <4>1 DEF CopyInv, CopyPlanned, StillLatest
      <4>3. QED
        BY <4>1, <4>2 DEF HandsOver, Ready, MarkReusable
    <3>2. QED
      BY <1>0, <3>1
  <2>10. CASE Pop(r)
    BY <2>10, <1>0 DEF Pop
  <2>11. CASE RunRetired(r)
    BY <2>11, <1>0 DEF RunRetired
  <2>12. CASE Cancel(r)
    BY <2>12, <1>0, DeleteCool DEF Cancel, Abandon, RetireLeft, Kill, RemoveCut
  <2>13. CASE CancelFinish(r)
    BY <2>13, <1>0 DEF CancelFinish
  <2>14. CASE CancelFinishFails(r)
    BY <2>14, <1>0 DEF CancelFinishFails
  <2>15. CASE SnapshotJudge(r)
    BY <2>15, <1>0 DEF SnapshotJudge
  <2>16. QED
    BY <1>1, <2>1, <2>2, <2>3, <2>4, <2>5, <2>6, <2>7, <2>8, <2>9, <2>10, <2>11, <2>12, <2>13, <2>14,
        <2>15 DEF RunStep
<1>2. ASSUME NEW j \in Opens, OpenStep(j) PROVE G
  <2>1. CASE OpenRegister(j)
    BY <2>1, <1>0 DEF OpenRegister
  <2>2. CASE OpenStart(j)
    BY <2>2, <1>0 DEF OpenStart
  <2>3. CASE Probe(j)
    BY <2>3, <1>0 DEF Probe
  <2>4. CASE Publish(j)
    <3>1. pc[j] = "publish" /\ StillSaved(j) /\ MarkReusable(chat[j], base[j]) /\ chat[j] \in Chats
      BY <2>4 DEF Publish
    <3>2. row[chat[j]].op = op[j]
      BY <3>1 DEF UseInv, RuntimeHeld
    <3>3. base[j] <= rev[j] /\ rev[j] <= saved[chat[j]] /\ saved[chat[j]] = base[j]
      BY <3>1 DEF CopyInv, RevisionsGrow, StillSaved, Body, Acquiring
    <3>4. base[j] \in Revs /\ rev[j] \in Revs
      OBVIOUS
    <3>5. base[j] = rev[j] /\ saved[chat[j]] = rev[j]
      <4> HIDE DEF Reachable, Jobs, Procs, TypeInv
      <4> QED
        BY <3>3, <3>4, RuntimesAssumption DEF Revs
    <3>6. QED
      BY <3>1, <3>2, <3>5 DEF HandsOver, Ready, MarkReusable
  <2>5. CASE OpenRetired(j)
    BY <2>5, <1>0 DEF OpenRetired
  <2>6. QED
    BY <1>2, <2>1, <2>2, <2>3, <2>4, <2>5 DEF OpenStep
<1>3. ASSUME NEW j \in Jobs, JobStep(j) PROVE G
  <2>1. ASSUME NEW c \in Chats, AdmitLock(j, c) PROVE G
    BY <2>1, <1>0 DEF AdmitLock
  <2>2. CASE AdmitRefused(j)
    BY <2>2, <1>0 DEF AdmitRefused
  <2>3. CASE ReadSource(j)
    BY <2>3, <1>0 DEF ReadSource
  <2>4. ASSUME NEW current \in BOOLEAN, AcquireRead(j, current) PROVE G
    BY <2>4, <1>0 DEF AcquireRead
  <2>5. CASE AcquireInspect(j)
    BY <2>5, <1>0, DeleteCool, LookCool DEF AcquireInspect, StateMissing, StateRunning, StatePaused,
        Remove
  <2>6. CASE AcquireResume(j)
    BY <2>6 DEF AcquireResume, ReserveResume, Change, HasRow
  <2>7. CASE AcquireConnect(j)
    BY <2>7, <1>0 DEF AcquireConnect, ConnectReturns, ConnectLost
  <2>8. ASSUME NEW o \in Ops, AcquireReserve(j, o) PROVE G
    BY <2>8 DEF AcquireReserve, InsertRow, HasRow, NoRow
  <2>9. CASE AcquireCreate(j)
    BY <2>9, <1>0 DEF AcquireCreate, CreateReturns, CreateRejected
  <2>10. CASE AcquireRejected(j)
    BY <2>10, <1>0, DeleteCool DEF AcquireRejected, Remove
  <2>11. CASE AcquireRegister(j)
    BY <2>11 DEF AcquireRegister, RegisterSandbox, Change, HasRow
  <2>12. CASE RestoreSource(j)
    BY <2>12, <1>0 DEF RestoreSource
  <2>13. CASE Replace(j)
    BY <2>13, <1>0, RetiringCool DEF Replace, RetireBegin
  <2>14. CASE Replaced(j)
    BY <2>14, <1>0 DEF Replaced
  <2>15. CASE JobFails(j)
    BY <2>15, <1>0, DeleteCool DEF JobFails, Abandon, RetireLeft, Kill, RemoveCut
  <2>16. QED
    BY <1>3, <2>1, <2>2, <2>3, <2>4, <2>5, <2>6, <2>7, <2>8, <2>9, <2>10, <2>11, <2>12, <2>13, <2>14,
        <2>15 DEF JobStep
<1>4. ASSUME NEW p \in Procs, RetireStep(p) PROVE G
  <2>1. CASE RetireList(p)
    BY <2>1, <1>0 DEF RetireList
  <2>2. CASE RetireKill(p)
    BY <2>2, <1>0 DEF RetireKill, Kill
  <2>3. CASE RetireFails(p)
    BY <2>3, <1>0, DeleteCool DEF RetireFails, RetireLeft, Kill, RemoveCut
  <2>4. CASE RetireEnd(p)
    BY <2>4, <1>0, DeleteCool DEF RetireEnd, RetireRemove, Remove
  <2>5. CASE RetireSandbox(p)
    BY <2>5, <1>0, RetiringCool DEF RetireSandbox, RetireBegin
  <2>6. QED
    BY <1>4, <2>1, <2>2, <2>3, <2>4, <2>5 DEF RetireStep
<1>5. ASSUME NEW c \in Chats, ProjectStep(c) PROVE G
  <2>1. CASE DeleteProject(c)
    BY <2>1, <1>0 DEF DeleteProject
  <2>2. CASE DeleteRetired(c)
    BY <2>2, <1>0 DEF DeleteRetired
  <2>3. CASE DeleteTimeout(c)
    BY <2>3, <1>0, DeleteCool DEF DeleteTimeout, Abandon, RetireLeft, Kill, RemoveCut
  <2>4. CASE PreviewStatus(c)
    BY <2>4, <1>0, DeleteCool, LookCool DEF PreviewStatus, ReadState, StateMissing, StateRunning,
        StatePaused, Remove
  <2>5. CASE SnapshotRead(c)
    BY <2>5, <1>0 DEF SnapshotRead
  <2>6. CASE RecoverCheckpoint(c)
    BY <2>6, <1>0 DEF RecoverCheckpoint
  <2>7. ASSUME NEW doomed \in BOOLEAN, SweepVisit(c, doomed) PROVE G
    BY <2>7, <1>0, RetiringCool DEF SweepVisit, RetireBegin
  <2>8. QED
    BY <1>5, <2>1, <2>2, <2>3, <2>4, <2>5, <2>6, <2>7 DEF ProjectStep
<1>6. ASSUME NEW old \in SUBSET Chats, SweepBegin(old) PROVE G
  BY <1>6, <1>0 DEF SweepBegin
<1>7. ASSUME NEW old \in SUBSET Chats, Startup(old) PROVE G
  BY <1>7, <1>0 DEF Startup
<1>8. CASE SweepRetired
  BY <1>8, <1>0 DEF SweepRetired
<1>9. CASE SweepState
  BY <1>9, <1>0, DeleteCool, LookCool DEF SweepState, StateMissing, StateRunning, StatePaused, Remove
<1>10. CASE SweepPause
  BY <1>10, <1>0, DeleteCool, LookCool DEF SweepPause, StateMissing, PauseSandbox, PauseFails, Remove
<1>11. CASE SweepEnd
  BY <1>11, <1>0 DEF SweepEnd
<1>12. CASE Provider
  BY <1>12, <1>0 DEF Provider, Provision, AutoPause, Vanish
<1>13. CASE Crash
  BY <1>13, <1>0 DEF Crash
<1>14. QED
  BY <1>1, <1>2, <1>3, <1>4, <1>5, <1>6, <1>7, <1>8, <1>9, <1>10, <1>11, <1>12, <1>13 DEF Next,
      ReaperStep

\* A job that is ready after the step was so before, with the same sandbox and
\* revision, or has just filled, saved or found a copy.
LEMMA ReadyStep == Reachable /\ Next =>
    \A k \in Jobs : Ready(k)' =>
        \/ Ready(k) /\ op'[k] = op[k] /\ rev'[k] = rev[k]
        \/ sb'[op'[k]] = "gone" \/ content'[op'[k]] = rev'[k]
<1> DEFINE R(k) == Ready(k)' => \/ Ready(k) /\ op'[k] = op[k] /\ rev'[k] = rev[k]
                                \/ sb'[op'[k]] = "gone" \/ content'[op'[k]] = rev'[k]
           G == \A k \in Jobs : R(k)
<1> SUFFICES ASSUME Reachable, Next PROVE G
  OBVIOUS
<1> USE ServiceAssumption
    DEF Reachable, TypeInv, TypeOK, JobsTypeOK, ProjectKnown, Jobs, Procs, Ready,
        Step, Goto, Quiet, Stay, Over, Fail, jobVars, locVars, rtVars
<1>1. ASSUME NEW r \in Runs, RunStep(r) PROVE G
  <2>1. CASE AdmitCommit(r)
    BY <2>1 DEF AdmitCommit
  <2>2. CASE AdmitRegister(r)
    BY <2>2 DEF AdmitRegister
  <2>3. CASE Invalidate(r)
    BY <2>3 DEF Invalidate
  <2>4. CASE Mutate(r)
    BY <2>4 DEF Mutate
  <2>5. CASE Checkpoint(r)
    BY <2>5 DEF Checkpoint, SaveFiles
  <2>6. CASE CheckpointLost(r)
    BY <2>6 DEF CheckpointLost
  <2>7. CASE Complete(r)
    BY <2>7 DEF Complete, SaveFiles, RuntimesTypeOK, JobOperation, UsesOperation
  <2>8. CASE Finish(r)
    BY <2>8 DEF Finish, Record
  <2>9. CASE FinishFails(r)
    BY <2>9 DEF FinishFails, Record
  <2>10. CASE Pop(r)
    BY <2>10 DEF Pop
  <2>11. CASE RunRetired(r)
    BY <2>11 DEF RunRetired, CopyInv, CopyPlanned
  <2>12. CASE Cancel(r)
    BY <2>12 DEF Cancel
  <2>13. CASE CancelFinish(r)
    BY <2>13 DEF CancelFinish
  <2>14. CASE CancelFinishFails(r)
    BY <2>14 DEF CancelFinishFails
  <2>15. CASE SnapshotJudge(r)
    BY <2>15 DEF SnapshotJudge
  <2>16. QED
    BY <1>1, <2>1, <2>2, <2>3, <2>4, <2>5, <2>6, <2>7, <2>8, <2>9, <2>10, <2>11, <2>12, <2>13, <2>14,
        <2>15 DEF RunStep
<1>2. ASSUME NEW j \in Opens, OpenStep(j) PROVE G
  <2>1. CASE OpenRegister(j)
    BY <2>1 DEF OpenRegister
  <2>2. CASE OpenStart(j)
    BY <2>2 DEF OpenStart
  <2>3. CASE Probe(j)
    BY <2>3 DEF Probe
  <2>4. CASE Publish(j)
    BY <2>4 DEF Publish
  <2>5. CASE OpenRetired(j)
    BY <2>5 DEF OpenRetired
  <2>6. QED
    BY <1>2, <2>1, <2>2, <2>3, <2>4, <2>5 DEF OpenStep
<1>3. ASSUME NEW j \in Jobs, JobStep(j) PROVE G
  <2>1. ASSUME NEW c \in Chats, AdmitLock(j, c) PROVE G
    BY <2>1 DEF AdmitLock
  <2>2. CASE AdmitRefused(j)
    BY <2>2 DEF AdmitRefused
  <2>3. CASE ReadSource(j)
    BY <2>3 DEF ReadSource
  <2>4. ASSUME NEW current \in BOOLEAN, AcquireRead(j, current) PROVE G
    BY <2>4 DEF AcquireRead
  <2>5. CASE AcquireInspect(j)
    BY <2>5 DEF AcquireInspect
  <2>6. CASE AcquireResume(j)
    BY <2>6 DEF AcquireResume
  <2>7. CASE AcquireConnect(j)
    BY <2>7 DEF AcquireConnect, AfterAcquire, ConnectReturns, CopyInv, CopyPlanned, ReusableClean
  <2>8. ASSUME NEW o \in Ops, AcquireReserve(j, o) PROVE G
    BY <2>8 DEF AcquireReserve
  <2>9. CASE AcquireCreate(j)
    BY <2>9 DEF AcquireCreate
  <2>10. CASE AcquireRejected(j)
    BY <2>10 DEF AcquireRejected
  <2>11. CASE AcquireRegister(j)
    BY <2>11 DEF AcquireRegister
  <2>12. CASE RestoreSource(j)
    BY <2>12 DEF RestoreSource, RuntimesTypeOK, JobOperation, UsesOperation, AfterAcquire
  <2>13. CASE Replace(j)
    BY <2>13 DEF Replace
  <2>14. CASE Replaced(j)
    BY <2>14 DEF Replaced
  <2>15. CASE JobFails(j)
    BY <2>15 DEF JobFails
  <2>16. QED
    BY <1>3, <2>1, <2>2, <2>3, <2>4, <2>5, <2>6, <2>7, <2>8, <2>9, <2>10, <2>11, <2>12, <2>13, <2>14,
        <2>15 DEF JobStep
<1>4. ASSUME NEW p \in Procs, RetireStep(p) PROVE G
  <2>1. CASE RetireList(p)
    BY <2>1 DEF RetireList
  <2>2. CASE RetireKill(p)
    BY <2>2 DEF RetireKill
  <2>3. CASE RetireFails(p)
    BY <2>3 DEF RetireFails
  <2>4. CASE RetireEnd(p)
    BY <2>4 DEF RetireEnd
  <2>5. CASE RetireSandbox(p)
    BY <2>5 DEF RetireSandbox
  <2>6. QED
    BY <1>4, <2>1, <2>2, <2>3, <2>4, <2>5 DEF RetireStep
<1>5. ASSUME NEW c \in Chats, ProjectStep(c) PROVE G
  <2>1. CASE DeleteProject(c)
    BY <2>1 DEF DeleteProject
  <2>2. CASE DeleteRetired(c)
    BY <2>2 DEF DeleteRetired
  <2>3. CASE DeleteTimeout(c)
    BY <2>3 DEF DeleteTimeout
  <2>4. CASE PreviewStatus(c)
    BY <2>4 DEF PreviewStatus
  <2>5. CASE SnapshotRead(c)
    BY <2>5 DEF SnapshotRead
  <2>6. CASE RecoverCheckpoint(c)
    BY <2>6 DEF RecoverCheckpoint
  <2>7. ASSUME NEW doomed \in BOOLEAN, SweepVisit(c, doomed) PROVE G
    BY <2>7 DEF SweepVisit
  <2>8. QED
    BY <1>5, <2>1, <2>2, <2>3, <2>4, <2>5, <2>6, <2>7 DEF ProjectStep
<1>6. ASSUME NEW old \in SUBSET Chats, SweepBegin(old) PROVE G
  BY <1>6 DEF SweepBegin
<1>7. ASSUME NEW old \in SUBSET Chats, Startup(old) PROVE G
  BY <1>7 DEF Startup
<1>8. CASE SweepRetired
  BY <1>8 DEF SweepRetired
<1>9. CASE SweepState
  BY <1>9 DEF SweepState
<1>10. CASE SweepPause
  BY <1>10 DEF SweepPause
<1>11. CASE SweepEnd
  BY <1>11 DEF SweepEnd
<1>12. CASE Provider
  BY <1>12 DEF Provider
<1>13. CASE Crash
  BY <1>13 DEF Crash
<1>14. QED
  BY <1>1, <1>2, <1>3, <1>4, <1>5, <1>6, <1>7, <1>8, <1>9, <1>10, <1>11, <1>12, <1>13 DEF Next,
      ReaperStep

\* Nobody writes into a tree that another job is about to hand over.
LEMMA TreesApart ==
    ASSUME Reachable, NEW j \in Jobs, pc[j] \in {"restore", "edit"}, NEW k \in Jobs, Ready(k)
    PROVE  op[k] # op[j]
<1>1. k # j /\ pc[j] \in Working /\ pc[k] \in Working
  BY DEF Ready, Working, Body, Acquiring, Finally
<1>2. chat[k] # chat[j] /\ chat[k] \in Chats
  BY <1>1 DEF Reachable, AdmissionInv, OneJobPerProject, Working, TypeInv, ProjectKnown, Ready
<1>3. row[chat[k]].op = op[k]
  BY DEF Reachable, UseInv, RuntimeHeld, CopyInv, CopyPlanned, Ready
<1>4. OwnOperation(j) /\ op[j] # None
  BY DEF Reachable, JobOperation, UsesOperation
<1>5. QED
  BY <1>2, <1>3, <1>4 DEF OwnOperation

\* So the tree of a job that is ready stays the revision the job believes.
LEMMA CopyReadyStep == Reachable /\ Next => \A k \in Jobs : CopyReady(k)'
<1> SUFFICES ASSUME Reachable, Next, NEW k \in Jobs, Ready(k)'
             PROVE  sb'[op'[k]] = "gone" \/ content'[op'[k]] = rev'[k]
  BY DEF CopyReady, Ready
<1>1. CASE sb'[op'[k]] = "gone" \/ content'[op'[k]] = rev'[k]
  BY <1>1
<1>2. CASE Ready(k) /\ op'[k] = op[k] /\ rev'[k] = rev[k]
  <2>1. CopyReady(k)
    BY DEF Reachable, CopyInv
  <2>2. sb[op[k]] = "gone" \/ content[op[k]] = rev[k]
    BY <1>2, <2>1 DEF CopyReady, Ready
  <2>3. op[k] \in Ops
    <3>1. row[chat[k]].op = op[k]
      BY <1>2 DEF Reachable, UseInv, RuntimeHeld, CopyInv, CopyPlanned, Ready
    <3>2. op[k] # None
      BY <1>2 DEF Reachable, JobOperation, UsesOperation, Ready, CopyInv, CopyPlanned
    <3>3. QED
      BY <3>2 DEF Reachable, TypeInv, TypeOK, JobsTypeOK
  <2>4. TreeKept(op[k])
    <3>1. ASSUME NEW j \in Jobs, pc[j] \in {"restore", "edit"}, \A o \in Ops \ {op[j]} : TreeKept(o)
          PROVE  TreeKept(op[k])
      BY <1>2, <2>3, <3>1, TreesApart
    <3>2. QED
      BY <2>3, <3>1, TreesStep DEF Reachable
  <2>5. QED
    BY <1>2, <2>2, <2>4 DEF TreeKept
<1>3. QED
  BY <1>1, <1>2, ReadyStep

\* And what a row offers stays a copy of the revision it names.
LEMMA ReusableStep == Reachable /\ RowsApart' /\ Next => ReusableClean' /\ ReusableOwned'
<1> SUFFICES ASSUME Reachable, RowsApart', Next PROVE ReusableClean' /\ ReusableOwned'
  OBVIOUS
<1>0. row \in [Chats -> RowType] /\ row' \in [Chats -> RowType]
  BY TypeInvStep DEF Reachable, TypeInv, TypeOK, RuntimesTypeOK
<1>1. \A d \in Chats : row[d].reusable => row[d].op \in Ops
  BY <1>0 DEF Reachable, CopyInv, ReusableOwned, HasRow, RowsApart, RowShape, RowType
<1>2. CASE RowsCool
  <2> SUFFICES ASSUME NEW d \in Chats, row'[d].reusable
               PROVE  /\ sb'[row'[d].op] # "gone" => content'[row'[d].op] = row'[d].rev
                      /\ HasRow(d)'
    BY DEF ReusableClean, ReusableOwned
  <2>1. row[d].reusable /\ row'[d].op = row[d].op /\ row'[d].rev = row[d].rev /\ row[d].op \in Ops
    BY <1>1, <1>2 DEF RowsCool
  <2>2. TreeKept(row[d].op)
    <3>1. ASSUME NEW j \in Jobs, pc[j] \in {"restore", "edit"}, \A o \in Ops \ {op[j]} : TreeKept(o)
          PROVE  TreeKept(row[d].op)
      <4>1. row[d].op = op[j] => d = chat[j]
        BY <2>1, <3>1 DEF Reachable, JobOperation, OwnOperation, UsesOperation
      <4>2. ~row[chat[j]].reusable
        BY <3>1 DEF Reachable, CopyInv, CopyPlanned
      <4>3. QED
        BY <2>1, <3>1, <4>1, <4>2
    <3>2. QED
      BY <2>1, <3>1, TreesStep DEF Reachable
  <2>3. sb[row[d].op] # "gone" => content[row[d].op] = row[d].rev
    BY <2>1 DEF Reachable, CopyInv, ReusableClean
  <2>4. HasRow(d)'
    BY <1>0, <2>1, RuntimesAssumption DEF RowsApart, RowShape, HasRow
  <2>5. QED
    BY <2>1, <2>2, <2>3, <2>4 DEF TreeKept
<1>3. ASSUME NEW j \in Jobs, HandsOver(j) PROVE ReusableClean' /\ ReusableOwned'
  <2>1. CopyReady(j) /\ (sb[op[j]] = "gone" \/ content[op[j]] = rev[j])
    BY <1>3 DEF Reachable, CopyInv, CopyReady, HandsOver, Ready
  <2>2. op[j] # None
    BY <1>3 DEF Reachable, HandsOver, Ready, JobOperation, UsesOperation, CopyInv, CopyPlanned
  <2>3. \A d \in Chats :
           row'[d] = IF d = chat[j] THEN [row[d] EXCEPT !.reusable = TRUE, !.rev = rev[j]] ELSE row[d]
    BY <1>0, <1>3 DEF HandsOver
  <2>4. ASSUME NEW d \in Chats, row'[d].reusable
        PROVE  /\ sb'[row'[d].op] # "gone" => content'[row'[d].op] = row'[d].rev
               /\ HasRow(d)'
    <3>1. CASE d = chat[j]
      <4>0. row[d] \in RowType
        BY <1>0
      <4>1. row'[d].op = op[j] /\ row'[d].rev = rev[j]
        BY <4>0, <1>0, <1>3, <2>3, <3>1 DEF HandsOver, RowType
      <4>2. HasRow(d)'
        BY <2>2, <4>1 DEF RowsApart, RowShape, HasRow
      <4>3. QED
        BY <1>3, <2>1, <4>1, <4>2 DEF HandsOver
    <3>2. CASE d # chat[j]
      BY ZenonT(60), <1>3, <2>3, <2>4, <3>2
         DEF HandsOver, Reachable, CopyInv, ReusableClean, ReusableOwned, HasRow
    <3>3. QED
      BY <3>1, <3>2
  <2>5. QED
    BY <2>4 DEF ReusableClean, ReusableOwned
<1>4. QED
  BY <1>2, <1>3, CoolStep

----------------------------------------------------------------------------
(* The theorems.                                                           *)

\* At the start no row offers anything and no revision is saved.
LEMMA InitReachable == Init => Reachable
<1> SUFFICES ASSUME Init PROVE Reachable
  OBVIOUS
<1>1. TypeInv /\ AdmissionInv /\ UseInv
  BY InitService DEF ServiceInv
<1>2. RowsApart /\ JobOperation
  BY InitOwned DEF OwnershipInv, RowsOwn, RowsApart
<1>3. \A j \in Jobs : CopyPlanned(j) /\ CopyReady(j)
  BY DEF Init, Jobs, Procs, CopyPlanned, CopyReady
<1>4. ReusableOwned /\ ReusableClean
  BY DEF Init, RuntimesInit, NoRow, ReusableOwned, ReusableClean
<1>5. RevisionsGrow /\ StillLatest
  BY DEF Init, Jobs, Procs, RevisionsGrow, StillLatest, Body, Acquiring
<1>6. QED
  BY <1>1, <1>2, <1>3, <1>4, <1>5 DEF Reachable, CopyInv

\* One step, or none, keeps the whole invariant.
LEMMA ReachableStep == Reachable /\ [Next]_vars => Reachable'
<1> SUFFICES ASSUME Reachable, [Next]_vars PROVE Reachable'
  OBVIOUS
<1>1. TypeInv' /\ AdmissionInv' /\ UseInv'
  BY ServiceInvStep DEF Reachable, ServiceInv
<1>2. CASE Next
  <2>1. RowsApart' /\ JobOperation'
    BY <1>2, RowsApartStep, JobOperationStep DEF Reachable
  <2>2. CopyInv'
    BY <1>2, <2>1, CopyPlannedStep, CopyReadyStep, ReusableStep, RevisionsGrowStep, StillLatestStep
    DEF CopyInv, Planned
  <2>3. QED
    BY <1>1, <2>1, <2>2 DEF Reachable
<1>3. CASE UNCHANGED vars
  <2> USE <1>3 DEF vars, jobVars, locVars, dbVars, rtVars, Reachable
  <2>1. RowsApart' /\ JobOperation'
    BY DEF RowsApart, RowShape, UniqueOp, JobOperation, OwnOperation, UsesOperation
  <2>2. CopyInv'
    BY DEF CopyInv, CopyPlanned, CopyReady, ReusableOwned, HasRow, ReusableClean, RevisionsGrow,
        StillLatest
  <2>3. QED
    BY <1>1, <2>1, <2>2
<1>4. QED
  BY <1>2, <1>3

\* What acquire() reuses without a restore is the revision the row names, after
\* any history of edits, failed saves, crashes, cancelled restores and recovered
\* checkpoints, for any number of projects and jobs.
THEOREM ReusableIsCopy == Spec => []ReusableClean
<1>1. Reachable => ReusableClean
  BY DEF Reachable, CopyInv
<1>2. QED
  BY <1>1, InitReachable, ReachableStep, PTL DEF Spec

\* finish() and open_preview() offer a sandbox only as the copy of the revision
\* that is the latest saved one at that moment, although both read it long before.
THEOREM HandoverIsLatest == Spec => HandsOverSaved
<1>1. ASSUME Reachable, Next, NEW c \in Chats, ~row[c].reusable, row'[c].reusable
      PROVE  row'[c].rev = saved[c]
  <2>1. ~RowsCool
    BY <1>1 DEF RowsCool
  <2>2. PICK j \in Jobs : HandsOver(j)
    BY <1>1, <2>1, CoolStep
  <2>3. row \in [Chats -> RowType]
    BY <1>1 DEF Reachable, TypeInv, TypeOK, RuntimesTypeOK
  <2>4. c = chat[j]
    BY <1>1, <2>2, <2>3 DEF HandsOver
  <2>5. row[c] \in RowType /\ row'[c] = [row[c] EXCEPT !.reusable = TRUE, !.rev = rev[j]]
    BY <2>2, <2>3, <2>4 DEF HandsOver
  <2>6. row'[c].rev = rev[j]
    BY <2>5 DEF RowType
  <2>7. QED
    BY <2>2, <2>4, <2>6 DEF HandsOver
<1>2. Reachable /\ [Next]_vars =>
         [\A c \in Chats : ~row[c].reusable /\ row'[c].reusable => row'[c].rev = saved[c]]_vars
  BY <1>1
<1>3. QED
  BY <1>2, InitReachable, ReachableStep, PTL DEF Spec, HandsOverSaved
=============================================================================
