------------------------- MODULE RunAdmissionProofs --------------------------
(***************************************************************************)
(* What the admission lock of RunService and its two registers give, for   *)
(* every set of projects, runs and previews: one job per project, the      *)
(* runtime of a job left alone while it is used, a maintenance pass whose  *)
(* facts stay true, outcomes that stay recorded, and never more running    *)
(* sandboxes than the capacity test allows.                                *)
(***************************************************************************)
EXTENDS RunServiceProofs, FiniteSetTheorems, FunctionTheorems

----------------------------------------------------------------------------
(* Outcomes.                                                               *)

\* The action OutcomeOnlyInterrupted is about.
OutcomesStay ==
    \A q \in Runs : runStatus[q] \in Terminal => runStatus'[q] \in {runStatus[q], "interrupted", "deleted"}

\* Only finish(), cancel(), startup(), snapshot() and delete_project() write a
\* status: the first two test NotRecorded, the others write what is allowed.
LEMMA UnbornStep == TypeInv /\ Unborn /\ Next => Unborn' /\ OutcomesStay
<1> DEFINE G == Unborn' /\ OutcomesStay
<1> SUFFICES ASSUME TypeInv, Unborn, Next PROVE G
  OBVIOUS
<1> USE ServiceAssumption
    DEF TypeInv, TypeOK, JobsTypeOK, MemTypeOK, DbTypeOK, ProjectKnown, Unborn, OutcomesStay, Terminal, Jobs, Procs,
        Goto, Step, Quiet, Stay, Over, Fail, AfterAcquire, Record, NotRecorded, SaveFiles,
        jobVars, memVars, dbVars, Body, Acquiring, Finally
<1>1. ASSUME NEW r \in Runs, RunStep(r) PROVE G
  <2>1. CASE AdmitCommit(r)
    BY <2>1 DEF AdmitCommit
  <2>2. CASE AdmitRegister(r)
    BY <2>2 DEF AdmitRegister
  <2>3. CASE Invalidate(r)
    BY <2>3 DEF Invalidate
  <2>4. CASE Mutate(r)
    BY <2>4 DEF Mutate
  <2>5. CASE Checkpoint(r)
    BY <2>5 DEF Checkpoint
  <2>6. CASE CheckpointLost(r)
    BY <2>6 DEF CheckpointLost
  <2>7. CASE Complete(r)
    BY <2>7 DEF Complete
  <2>8. CASE Finish(r)
    <3>1. UNCHANGED snap /\ pc[r] = "finish" /\ \A q \in Runs : q # r => pc'[q] = pc[q]
      BY <2>8 DEF Finish
    <3>2. pc'[r] \in {"pop", "unwind2"}
      BY <2>8 DEF Finish
    <3>3. \A q \in Runs : \/ runStatus'[q] = runStatus[q]
                          \/ q = r /\ runStatus[q] = "running" /\ runStatus'[q] = fin[q]
      BY <2>8 DEF Finish
    <3>4. QED
      BY <3>1, <3>2, <3>3
  <2>9. CASE FinishFails(r)
    <3>1. UNCHANGED snap /\ pc[r] = "finish" /\ \A q \in Runs : q # r => pc'[q] = pc[q]
      BY <2>9 DEF FinishFails
    <3>2. pc'[r] \in {"pop", "unwind2"}
      BY <2>9 DEF FinishFails
    <3>3. \A q \in Runs : \/ runStatus'[q] = runStatus[q]
                          \/ q = r /\ runStatus[q] = "running" /\ runStatus'[q] = fin[q]
      BY <2>9 DEF FinishFails
    <3>4. QED
      BY <3>1, <3>2, <3>3
  <2>10. CASE Pop(r)
    BY <2>10 DEF Pop
  <2>11. CASE RunRetired(r)
    BY <2>11 DEF RunRetired
  <2>12. CASE Cancel(r)
    BY <2>12 DEF Cancel
  <2>13. CASE CancelFinish(r)
    BY <2>13 DEF CancelFinish
  <2>14. CASE CancelFinishFails(r)
    BY <2>14 DEF CancelFinishFails
  <2>15. CASE SnapshotJudge(r)
    BY <2>15 DEF SnapshotJudge
  <2>16. QED
    BY <1>1, <2>1, <2>2, <2>3, <2>4, <2>5, <2>6, <2>7, <2>8, <2>9, <2>10, <2>11, <2>12, <2>13, <2>14,
        <2>15 DEF RunStep
<1>2. ASSUME NEW j \in Opens, OpenStep(j) PROVE G
  <2>1. CASE OpenRegister(j)
    BY <2>1 DEF OpenRegister
  <2>2. CASE OpenStart(j)
    BY <2>2 DEF OpenStart
  <2>3. CASE Probe(j)
    BY <2>3 DEF Probe
  <2>4. CASE Publish(j)
    BY <2>4 DEF Publish
  <2>5. CASE OpenRetired(j)
    BY <2>5 DEF OpenRetired
  <2>6. QED
    BY <1>2, <2>1, <2>2, <2>3, <2>4, <2>5 DEF OpenStep
<1>3. ASSUME NEW j \in Jobs, JobStep(j) PROVE G
  <2>1. ASSUME NEW c \in Chats, AdmitLock(j, c) PROVE G
    BY <2>1 DEF AdmitLock
  <2>2. CASE AdmitRefused(j)
    BY <2>2 DEF AdmitRefused
  <2>3. CASE ReadSource(j)
    BY <2>3 DEF ReadSource
  <2>4. ASSUME NEW current \in BOOLEAN, AcquireRead(j, current) PROVE G
    BY <2>4 DEF AcquireRead
  <2>5. CASE AcquireInspect(j)
    BY <2>5 DEF AcquireInspect
  <2>6. CASE AcquireResume(j)
    BY <2>6 DEF AcquireResume
  <2>7. CASE AcquireConnect(j)
    BY <2>7 DEF AcquireConnect
  <2>8. ASSUME NEW o \in Ops, AcquireReserve(j, o) PROVE G
    BY <2>8 DEF AcquireReserve
  <2>9. CASE AcquireCreate(j)
    BY <2>9 DEF AcquireCreate
  <2>10. CASE AcquireRejected(j)
    BY <2>10 DEF AcquireRejected
  <2>11. CASE AcquireRegister(j)
    BY <2>11 DEF AcquireRegister
  <2>12. CASE RestoreSource(j)
    BY <2>12 DEF RestoreSource
  <2>13. CASE Replace(j)
    BY <2>13 DEF Replace
  <2>14. CASE Replaced(j)
    BY <2>14 DEF Replaced
  <2>15. CASE JobFails(j)
    BY <2>15 DEF JobFails
  <2>16. QED
    BY <1>3, <2>1, <2>2, <2>3, <2>4, <2>5, <2>6, <2>7, <2>8, <2>9, <2>10, <2>11, <2>12, <2>13, <2>14,
        <2>15 DEF JobStep
<1>4. ASSUME NEW p \in Procs, RetireStep(p) PROVE G
  <2>1. CASE RetireList(p)
    BY <2>1 DEF RetireList
  <2>2. CASE RetireKill(p)
    BY <2>2 DEF RetireKill
  <2>3. CASE RetireFails(p)
    BY <2>3 DEF RetireFails
  <2>4. CASE RetireEnd(p)
    BY <2>4 DEF RetireEnd
  <2>5. CASE RetireSandbox(p)
    BY <2>5 DEF RetireSandbox
  <2>6. QED
    BY <1>4, <2>1, <2>2, <2>3, <2>4, <2>5 DEF RetireStep
<1>5. ASSUME NEW c \in Chats, ProjectStep(c) PROVE G
  <2>1. CASE DeleteProject(c)
    BY <2>1 DEF DeleteProject
  <2>2. CASE DeleteRetired(c)
    BY <2>2 DEF DeleteRetired
  <2>3. CASE DeleteTimeout(c)
    BY <2>3 DEF DeleteTimeout
  <2>4. CASE PreviewStatus(c)
    BY <2>4 DEF PreviewStatus
  <2>5. CASE SnapshotRead(c)
    BY <2>5 DEF SnapshotRead
  <2>6. CASE RecoverCheckpoint(c)
    BY <2>6 DEF RecoverCheckpoint
  <2>7. ASSUME NEW doomed \in BOOLEAN, SweepVisit(c, doomed) PROVE G
    BY <2>7 DEF SweepVisit
  <2>8. QED
    BY <1>5, <2>1, <2>2, <2>3, <2>4, <2>5, <2>6, <2>7 DEF ProjectStep
<1>6. ASSUME NEW old \in SUBSET Chats, SweepBegin(old) PROVE G
  BY <1>6 DEF SweepBegin
<1>7. ASSUME NEW old \in SUBSET Chats, Startup(old) PROVE G
  BY <1>7 DEF Startup
<1>8. CASE SweepRetired
  BY <1>8 DEF SweepRetired
<1>9. CASE SweepState
  BY <1>9 DEF SweepState
<1>10. CASE SweepPause
  BY <1>10 DEF SweepPause
<1>11. CASE SweepEnd
  BY <1>11 DEF SweepEnd
<1>12. CASE Provider
  BY <1>12 DEF Provider
<1>13. CASE Crash
  BY <1>13 DEF Crash
<1>14. QED
  BY <1>1, <1>2, <1>3, <1>4, <1>5, <1>6, <1>7, <1>8, <1>9, <1>10, <1>11, <1>12, <1>13 DEF Next,
      ReaperStep

----------------------------------------------------------------------------
(* The lock and the registers.                                             *)

\* A job that goes on, perhaps releasing the lock, leaves the registers and what
\* the others rely on as they are.
LEMMA JobMoves ==
    ASSUME TypeInv, AdmissionInv, NEW j \in Jobs, NEW l \in Working \ {"retiring", "retiring2"},
           pc[j] \in Working, Goto(j, l),
           UNCHANGED <<chat, active, opening, sweep, phase, project>>,
           UNCHANGED admission \/ Release(j)
    PROVE  AdmissionInv'
<1> USE ServiceAssumption
    DEF TypeInv, TypeOK, JobsTypeOK, MemTypeOK, ProjectKnown, Jobs, Procs, AdmissionInv, Working,
        Body, Acquiring, Finally, Goto, Release, Busy, ActiveChats
<1>1. LockHeld' /\ DownQuiet' /\ Registered'
  BY DEF LockHeld, DownQuiet, Registered
<1>2. Claimed' /\ SweepHeld' /\ OneJobPerProject'
  BY DEF Claimed, SweepHeld, OneJobPerProject
<1>3. QED
  BY <1>1, <1>2

\* maintain() decides the fate of a row once.
LEMMA JudgedOnce ==
    ASSUME NEW S, NEW old
    PROVE  /\ Judged(S, old) \subseteq S \X BOOLEAN
           /\ \A u, v \in Judged(S, old) : u[1] = v[1] => u = v
<1>1. ASSUME NEW u \in Judged(S, old), NEW v \in Judged(S, old), u[1] = v[1] PROVE u = v
  <2>1. u \in S \X BOOLEAN /\ v \in S \X BOOLEAN
    BY DEF Judged
  <2>2. u = <<u[1], u[2]>> /\ v = <<v[1], v[2]>>
    BY <2>1
  <2>3. u[2] = v[2]
    BY <1>1 DEF Judged
  <2>4. QED
    BY <1>1, <2>2, <2>3
<1>2. QED
  BY <1>1 DEF Judged

\* Every step keeps what the lock and the registers promise: whoever takes the
\* lock finds it free, and a project enters Busy only under it.
LEMMA AdmissionStep == TypeInv /\ AdmissionInv /\ Next => AdmissionInv'
<1> SUFFICES ASSUME TypeInv, AdmissionInv, Next PROVE AdmissionInv'
  OBVIOUS
<1> USE ServiceAssumption
    DEF TypeInv, TypeOK, JobsTypeOK, MemTypeOK, DbTypeOK, ProjectKnown, Jobs, Procs,
        AdmissionInv, LockHeld, DownQuiet, Registered, Claimed, SweepHeld, OneJobPerProject,
        Busy, ActiveChats, Working, Body, Acquiring, Finally,
        Goto, Step, Quiet, Stay, Over, Fail, AfterAcquire, Record, SaveFiles, Release,
        jobVars, locVars, memVars, lockVars, regVars, procVars, dbVars
<1>1. ASSUME NEW r \in Runs, RunStep(r) PROVE AdmissionInv'
  <2>1. CASE AdmitCommit(r)
    BY <2>1 DEF AdmitCommit
  <2>2. CASE AdmitRegister(r)
    BY <2>2 DEF AdmitRegister
  <2>3. CASE Invalidate(r)
    BY <2>3 DEF Invalidate
  <2>4. CASE Mutate(r)
    BY <2>4 DEF Mutate
  <2>5. CASE Checkpoint(r)
    BY <2>5 DEF Checkpoint
  <2>6. CASE CheckpointLost(r)
    BY <2>6 DEF CheckpointLost
  <2>7. CASE Complete(r)
    BY <2>7 DEF Complete
  <2>8. CASE Finish(r)
    BY <2>8 DEF Finish
  <2>9. CASE FinishFails(r)
    BY <2>9 DEF FinishFails
  <2>10. CASE Pop(r)
    BY <2>10 DEF Pop
  <2>11. CASE RunRetired(r)
    <3> HIDE DEF TypeInv, AdmissionInv, Goto, Release
    <3>1. UNCHANGED <<chat, active, opening, sweep, phase, project>> /\ Release(r)
      BY <2>11 DEF RunRetired
    <3>2. pc[r] \in Working /\ \E l \in Working \ {"retiring", "retiring2"} : Goto(r, l)
      BY <2>11 DEF RunRetired
    <3>3. QED
      BY <3>1, <3>2, JobMoves
  <2>12. CASE Cancel(r)
    <3>1. UNCHANGED <<chat, active, opening, sweep, phase, project>> /\ Release(r)
      BY <2>12 DEF Cancel
    <3>2. CASE pc[r] \in Working /\ Goto(r, "unwind")
      <4> HIDE DEF TypeInv, AdmissionInv, Goto, Release
      <4> QED
        BY <3>1, <3>2, JobMoves
    <3>3. CASE pc[r] \in Working /\ Goto(r, "dead")
      <4>1. LockHeld' /\ DownQuiet' /\ Registered'
        BY <3>1, <3>3
      <4>2. Claimed' /\ SweepHeld' /\ OneJobPerProject'
        BY <3>1, <3>3
      <4>3. QED
        BY <4>1, <4>2
    <3>4. QED
      BY <2>12, <3>2, <3>3 DEF Cancel
  <2>13. CASE CancelFinish(r)
    BY <2>13 DEF CancelFinish
  <2>14. CASE CancelFinishFails(r)
    BY <2>14 DEF CancelFinishFails
  <2>15. CASE SnapshotJudge(r)
    BY <2>15 DEF SnapshotJudge
  <2>16. QED
    BY <1>1, <2>1, <2>2, <2>3, <2>4, <2>5, <2>6, <2>7, <2>8, <2>9, <2>10, <2>11, <2>12, <2>13, <2>14,
        <2>15 DEF RunStep
<1>2. ASSUME NEW j \in Opens, OpenStep(j) PROVE AdmissionInv'
  <2>1. CASE OpenRegister(j)
    BY <2>1 DEF OpenRegister
  <2>2. CASE OpenStart(j)
    BY <2>2 DEF OpenStart
  <2>3. CASE Probe(j)
    BY <2>3 DEF Probe
  <2>4. CASE Publish(j)
    BY <2>4 DEF Publish
  <2>5. CASE OpenRetired(j)
    BY <2>5 DEF OpenRetired
  <2>6. QED
    BY <1>2, <2>1, <2>2, <2>3, <2>4, <2>5 DEF OpenStep
<1>3. ASSUME NEW j \in Jobs, JobStep(j) PROVE AdmissionInv'
  <2>1. ASSUME NEW c \in Chats, AdmitLock(j, c) PROVE AdmissionInv'
    BY <2>1 DEF AdmitLock
  <2>2. CASE AdmitRefused(j)
    BY <2>2 DEF AdmitRefused
  <2>3. CASE ReadSource(j)
    BY <2>3 DEF ReadSource
  <2>4. ASSUME NEW current \in BOOLEAN, AcquireRead(j, current) PROVE AdmissionInv'
    BY <2>4 DEF AcquireRead
  <2>5. CASE AcquireInspect(j)
    <3> HIDE DEF TypeInv, AdmissionInv, Goto, Release
    <3>1. UNCHANGED <<chat, admission, active, opening, sweep, phase, project>>
      BY <2>5 DEF AcquireInspect
    <3>2. \E l \in Working \ {"retiring", "retiring2"} : Goto(j, l)
      BY <2>5 DEF AcquireInspect
    <3>3. pc[j] \in Working
      BY <2>5 DEF AcquireInspect
    <3>4. QED
      BY <3>1, <3>2, <3>3, JobMoves
  <2>6. CASE AcquireResume(j)
    BY <2>6 DEF AcquireResume
  <2>7. CASE AcquireConnect(j)
    <3> HIDE DEF TypeInv, AdmissionInv, Goto, Release
    <3>1. UNCHANGED <<chat, admission, active, opening, sweep, phase, project>>
      BY <2>7 DEF AcquireConnect
    <3>2. \E l \in Working \ {"retiring", "retiring2"} : Goto(j, l)
      BY <2>7 DEF AcquireConnect
    <3>3. pc[j] \in Working
      BY <2>7 DEF AcquireConnect
    <3>4. QED
      BY <3>1, <3>2, <3>3, JobMoves
  <2>8. ASSUME NEW o \in Ops, AcquireReserve(j, o) PROVE AdmissionInv'
    BY <2>8 DEF AcquireReserve
  <2>9. CASE AcquireCreate(j)
    <3> HIDE DEF TypeInv, AdmissionInv, Goto, Release
    <3>1. UNCHANGED <<chat, admission, active, opening, sweep, phase, project>>
      BY <2>9 DEF AcquireCreate
    <3>2. \E l \in Working \ {"retiring", "retiring2"} : Goto(j, l)
      BY <2>9 DEF AcquireCreate
    <3>3. pc[j] \in Working
      BY <2>9 DEF AcquireCreate
    <3>4. QED
      BY <3>1, <3>2, <3>3, JobMoves
  <2>10. CASE AcquireRejected(j)
    BY <2>10 DEF AcquireRejected
  <2>11. CASE AcquireRegister(j)
    BY <2>11 DEF AcquireRegister
  <2>12. CASE RestoreSource(j)
    BY <2>12 DEF RestoreSource
  <2>13. CASE Replace(j)
    BY <2>13 DEF Replace
  <2>14. CASE Replaced(j)
    <3> HIDE DEF TypeInv, AdmissionInv, Goto, Release
    <3>1. UNCHANGED <<chat, admission, active, opening, sweep, phase, project>>
      BY <2>14 DEF Replaced
    <3>2. \E l \in Working \ {"retiring", "retiring2"} : Goto(j, l)
      BY <2>14 DEF Replaced
    <3>3. pc[j] \in Working
      BY <2>14 DEF Replaced
    <3>4. QED
      BY <3>1, <3>2, <3>3, JobMoves
  <2>15. CASE JobFails(j)
    BY <2>15 DEF JobFails
  <2>16. QED
    BY ONLY <1>3, <2>1, <2>2, <2>3, <2>4, <2>5, <2>6, <2>7, <2>8, <2>9, <2>10, <2>11,
       <2>12, <2>13, <2>14,
        <2>15 DEF JobStep
<1>4. ASSUME NEW p \in Procs, RetireStep(p) PROVE AdmissionInv'
  <2>1. CASE RetireList(p)
    BY <2>1 DEF RetireList
  <2>2. CASE RetireKill(p)
    BY <2>2 DEF RetireKill
  <2>3. CASE RetireFails(p)
    BY <2>3 DEF RetireFails
  <2>4. CASE RetireEnd(p)
    BY <2>4 DEF RetireEnd
  <2>5. CASE RetireSandbox(p)
    <3>1. /\ admission = Free /\ admission' = p
          /\ UNCHANGED <<chat, active, opening, sweep, phase, project>>
      BY <2>5 DEF RetireSandbox
    <3>2. pc[p] \in {"unwind", "unwind2"} /\ \E l \in {"retiring", "retiring2"} : Goto(p, l)
      BY <2>5 DEF RetireSandbox
    <3>3. p # Reaper
      BY <3>2
    <3>4. LockHeld' /\ DownQuiet' /\ Registered'
      BY SMTT(30), <3>1, <3>2, <3>3
    <3>5. Claimed' /\ SweepHeld' /\ OneJobPerProject'
      BY <3>1, <3>2, <3>3
    <3>6. QED
      BY <3>4, <3>5
  <2>6. QED
    BY <1>4, <2>1, <2>2, <2>3, <2>4, <2>5 DEF RetireStep
<1>5. ASSUME NEW c \in Chats, ProjectStep(c) PROVE AdmissionInv'
  <2>1. CASE DeleteProject(c)
    BY <2>1 DEF DeleteProject
  <2>2. CASE DeleteRetired(c)
    BY <2>2 DEF DeleteRetired
  <2>3. CASE DeleteTimeout(c)
    BY <2>3 DEF DeleteTimeout
  <2>4. CASE PreviewStatus(c)
    BY <2>4 DEF PreviewStatus
  <2>5. CASE SnapshotRead(c)
    BY <2>5 DEF SnapshotRead
  <2>6. CASE RecoverCheckpoint(c)
    BY <2>6 DEF RecoverCheckpoint
  <2>7. ASSUME NEW doomed \in BOOLEAN, SweepVisit(c, doomed) PROVE AdmissionInv'
    BY <2>7 DEF SweepVisit
  <2>8. QED
    BY <1>5, <2>1, <2>2, <2>3, <2>4, <2>5, <2>6, <2>7 DEF ProjectStep
<1>6. ASSUME NEW old \in SUBSET Chats, SweepBegin(old) PROVE AdmissionInv'
  <2>1. LockHeld' /\ DownQuiet' /\ Registered' /\ Claimed' /\ OneJobPerProject'
    BY <1>6 DEF SweepBegin
  <2>2. SweepHeld'
    <3>1. sweep' \subseteq (Chats \ Busy) \X BOOLEAN /\ \A u, v \in sweep' : u[1] = v[1] => u = v
      <4> HIDE DEF Busy, TypeInv, AdmissionInv
      <4>1. sweep' = Judged(Selected(old) \ Busy, old) /\ Selected(old) \subseteq Chats
        BY <1>6 DEF SweepBegin, Selected
      <4>2. /\ sweep' \subseteq (Selected(old) \ Busy) \X BOOLEAN
            /\ \A u, v \in sweep' : u[1] = v[1] => u = v
        BY <4>1, JudgedOnce
      <4>3. QED
        BY <4>1, <4>2
    <3>2. Busy' = Busy /\ pc'[Reaper] = "sweep"
      BY <1>6 DEF SweepBegin
    <3>3. QED
      BY <3>1, <3>2
  <2>3. QED
    BY <2>1, <2>2
<1>7. ASSUME NEW old \in SUBSET Chats, Startup(old) PROVE AdmissionInv'
  <2>1. LockHeld' /\ DownQuiet' /\ Registered' /\ Claimed' /\ OneJobPerProject'
    BY <1>7 DEF Startup
  <2>2. SweepHeld'
    <3>1. sweep' \subseteq Chats \X BOOLEAN /\ \A u, v \in sweep' : u[1] = v[1] => u = v
      <4>1. sweep' = Judged(Selected(old), old) /\ Selected(old) \subseteq Chats
        BY <1>7 DEF Startup, Selected
      <4>2. QED
        BY <4>1, JudgedOnce
    <3>2. Busy' = {} /\ pc'[Reaper] = "sweep"
      BY <1>7 DEF Startup
    <3>3. QED
      BY <3>1, <3>2
  <2>3. QED
    BY <2>1, <2>2
<1>8. CASE SweepRetired
  BY SMTT(30), <1>8 DEF SweepRetired
<1>9. CASE SweepState
  <2>1. UNCHANGED <<chat, admission, active, opening, sweep, phase, project>>
    BY <1>9 DEF SweepState
  <2>2. pc[Reaper] = "sweepstate" /\ \E l \in {"sweep", "sweeppause"} : Goto(Reaper, l)
    BY <1>9 DEF SweepState
  <2>3. QED
    BY <2>1, <2>2
<1>10. CASE SweepPause
  BY <1>10 DEF SweepPause
<1>11. CASE SweepEnd
  BY <1>11 DEF SweepEnd
<1>12. CASE Provider
  BY <1>12 DEF Provider
<1>13. CASE Crash
  BY <1>13 DEF Crash
<1>14. QED
  BY <1>1, <1>2, <1>3, <1>4, <1>5, <1>6, <1>7, <1>8, <1>9, <1>10, <1>11, <1>12, <1>13 DEF Next,
      ReaperStep

----------------------------------------------------------------------------
(* What a job may rely on.                                                 *)

\* A retire() is begun at the three places that wait for it, and a task that
\* leaves one of them has taken its answer or abandoned the call.
LEMMA RetirePlacesStep == TypeInv /\ AdmissionInv /\ UseInv /\ Next => RetirePlaces'
<1> SUFFICES ASSUME TypeInv, AdmissionInv, UseInv, Next PROVE RetirePlaces'
  OBVIOUS
<1> USE ServiceAssumption
    DEF TypeInv, TypeOK, JobsTypeOK, ProjectKnown, Jobs, Procs, UseInv, RetirePlaces, Body, Acquiring,
        Finally,
        Goto, Step, Quiet, Stay, Over, Fail, AfterAcquire, Record, Abandon, Answered, RetireBegin,
        RetireAt, Returns, IdleRet,
        jobVars, locVars
<1>1. ASSUME NEW r \in Runs, RunStep(r) PROVE RetirePlaces'
  <2>1. CASE AdmitCommit(r)
    BY <2>1 DEF AdmitCommit
  <2>2. CASE AdmitRegister(r)
    BY <2>2 DEF AdmitRegister
  <2>3. CASE Invalidate(r)
    BY <2>3 DEF Invalidate
  <2>4. CASE Mutate(r)
    BY <2>4 DEF Mutate
  <2>5. CASE Checkpoint(r)
    BY <2>5 DEF Checkpoint
  <2>6. CASE CheckpointLost(r)
    BY <2>6 DEF CheckpointLost
  <2>7. CASE Complete(r)
    BY <2>7 DEF Complete
  <2>8. CASE Finish(r)
    BY <2>8 DEF Finish
  <2>9. CASE FinishFails(r)
    BY <2>9 DEF FinishFails
  <2>10. CASE Pop(r)
    BY <2>10 DEF Pop
  <2>11. CASE RunRetired(r)
    BY <2>11 DEF RunRetired
  <2>12. CASE Cancel(r)
    BY <2>12 DEF Cancel
  <2>13. CASE CancelFinish(r)
    BY <2>13 DEF CancelFinish
  <2>14. CASE CancelFinishFails(r)
    BY <2>14 DEF CancelFinishFails
  <2>15. CASE SnapshotJudge(r)
    BY <2>15 DEF SnapshotJudge
  <2>16. QED
    BY <1>1, <2>1, <2>2, <2>3, <2>4, <2>5, <2>6, <2>7, <2>8, <2>9, <2>10, <2>11, <2>12, <2>13, <2>14,
        <2>15 DEF RunStep
<1>2. ASSUME NEW j \in Opens, OpenStep(j) PROVE RetirePlaces'
  <2>1. CASE OpenRegister(j)
    BY <2>1 DEF OpenRegister
  <2>2. CASE OpenStart(j)
    BY <2>2 DEF OpenStart
  <2>3. CASE Probe(j)
    BY <2>3 DEF Probe
  <2>4. CASE Publish(j)
    BY <2>4 DEF Publish
  <2>5. CASE OpenRetired(j)
    BY <2>5 DEF OpenRetired
  <2>6. QED
    BY <1>2, <2>1, <2>2, <2>3, <2>4, <2>5 DEF OpenStep
<1>3. ASSUME NEW j \in Jobs, JobStep(j) PROVE RetirePlaces'
  <2>1. ASSUME NEW c \in Chats, AdmitLock(j, c) PROVE RetirePlaces'
    BY <2>1 DEF AdmitLock
  <2>2. CASE AdmitRefused(j)
    BY <2>2 DEF AdmitRefused
  <2>3. CASE ReadSource(j)
    BY <2>3 DEF ReadSource
  <2>4. ASSUME NEW current \in BOOLEAN, AcquireRead(j, current) PROVE RetirePlaces'
    BY <2>4 DEF AcquireRead
  <2>5. CASE AcquireInspect(j)
    BY <2>5 DEF AcquireInspect
  <2>6. CASE AcquireResume(j)
    BY <2>6 DEF AcquireResume
  <2>7. CASE AcquireConnect(j)
    BY <2>7 DEF AcquireConnect
  <2>8. ASSUME NEW o \in Ops, AcquireReserve(j, o) PROVE RetirePlaces'
    BY <2>8 DEF AcquireReserve
  <2>9. CASE AcquireCreate(j)
    BY <2>9 DEF AcquireCreate
  <2>10. CASE AcquireRejected(j)
    BY <2>10 DEF AcquireRejected
  <2>11. CASE AcquireRegister(j)
    BY <2>11 DEF AcquireRegister
  <2>12. CASE RestoreSource(j)
    BY <2>12 DEF RestoreSource
  <2>13. CASE Replace(j)
    BY <2>13 DEF Replace
  <2>14. CASE Replaced(j)
    BY <2>14 DEF Replaced
  <2>15. CASE JobFails(j)
    BY <2>15 DEF JobFails
  <2>16. QED
    BY <1>3, <2>1, <2>2, <2>3, <2>4, <2>5, <2>6, <2>7, <2>8, <2>9, <2>10, <2>11, <2>12, <2>13, <2>14,
        <2>15 DEF JobStep
<1>4. ASSUME NEW p \in Procs, RetireStep(p) PROVE RetirePlaces'
  <2>1. CASE RetireList(p)
    BY <2>1 DEF RetireList
  <2>2. CASE RetireKill(p)
    BY <2>2 DEF RetireKill
  <2>3. CASE RetireFails(p)
    BY <2>3 DEF RetireFails
  <2>4. CASE RetireEnd(p)
    BY <2>4 DEF RetireEnd
  <2>5. CASE RetireSandbox(p)
    BY <2>5 DEF RetireSandbox
  <2>6. QED
    BY <1>4, <2>1, <2>2, <2>3, <2>4, <2>5 DEF RetireStep
<1>5. ASSUME NEW c \in Chats, ProjectStep(c) PROVE RetirePlaces'
  <2>1. CASE DeleteProject(c)
    BY <2>1 DEF DeleteProject, AdmissionInv, LockHeld, DeletedInert
  <2>2. CASE DeleteRetired(c)
    BY <2>2 DEF DeleteRetired
  <2>3. CASE DeleteTimeout(c)
    BY <2>3 DEF DeleteTimeout
  <2>4. CASE PreviewStatus(c)
    BY <2>4 DEF PreviewStatus
  <2>5. CASE SnapshotRead(c)
    BY <2>5 DEF SnapshotRead
  <2>6. CASE RecoverCheckpoint(c)
    BY <2>6 DEF RecoverCheckpoint
  <2>7. ASSUME NEW doomed \in BOOLEAN, SweepVisit(c, doomed) PROVE RetirePlaces'
    BY <2>7 DEF SweepVisit
  <2>8. QED
    BY <1>5, <2>1, <2>2, <2>3, <2>4, <2>5, <2>6, <2>7 DEF ProjectStep
<1>6. ASSUME NEW old \in SUBSET Chats, SweepBegin(old) PROVE RetirePlaces'
  BY <1>6 DEF SweepBegin
<1>7. ASSUME NEW old \in SUBSET Chats, Startup(old) PROVE RetirePlaces'
  BY <1>7 DEF Startup
<1>8. CASE SweepRetired
  BY <1>8 DEF SweepRetired
<1>9. CASE SweepState
  BY <1>9 DEF SweepState
<1>10. CASE SweepPause
  BY <1>10 DEF SweepPause
<1>11. CASE SweepEnd
  BY <1>11 DEF SweepEnd
<1>12. CASE Provider
  BY <1>12 DEF Provider
<1>13. CASE Crash
  BY <1>13 DEF Crash
<1>14. QED
  BY <1>1, <1>2, <1>3, <1>4, <1>5, <1>6, <1>7, <1>8, <1>9, <1>10, <1>11, <1>12, <1>13 DEF Next,
      ReaperStep

\* A task that goes on leaves the deleted projects alone.
LEMMA DeletedKept ==
    ASSUME TypeInv, UseInv, NEW p \in Procs, NEW l \in PCs, Goto(p, l),
           p \in Chats => pc[p] # "none" /\ l \in {"unwind", "retiring", "done"},
           p \in Opens => pc[p] \in Body \ {"start"} \/ l \notin Body,
           UNCHANGED <<chat, project, saved, pending>>
    PROVE  DeletedInert'
BY ServiceAssumption
DEF TypeInv, TypeOK, JobsTypeOK, ProjectKnown, Jobs, Procs, UseInv, DeletedInert, Goto

\* delete_project() finds no job at work under the lock, and open_preview() stops
\* at its first test of a project that has no saved revision.
LEMMA DeletedInertStep == TypeInv /\ AdmissionInv /\ UseInv /\ Next => DeletedInert'
<1> SUFFICES ASSUME TypeInv, AdmissionInv, UseInv, Next PROVE DeletedInert'
  OBVIOUS
<1> USE ServiceAssumption
    DEF TypeInv, TypeOK, JobsTypeOK, DbTypeOK, MemTypeOK, ProjectKnown, Jobs, Procs, UseInv,
        DeletedInert, Body, Acquiring, Finally,
        AdmissionInv, Registered, LockHeld, OneJobPerProject, Claimed, Busy, ActiveChats, Working,
        Goto, Step, Quiet, Stay, Over, Fail, AfterAcquire, Record, SaveFiles,
        jobVars, locVars, dbVars, memVars, regVars, procVars, lockVars
<1>1. ASSUME NEW r \in Runs, RunStep(r) PROVE DeletedInert'
  <2>1. CASE AdmitCommit(r)
    BY <2>1 DEF AdmitCommit
  <2>2. CASE AdmitRegister(r)
    BY <2>2 DEF AdmitRegister
  <2>3. CASE Invalidate(r)
    BY <2>3 DEF Invalidate
  <2>4. CASE Mutate(r)
    BY <2>4 DEF Mutate
  <2>5. CASE Checkpoint(r)
    BY <2>5 DEF Checkpoint
  <2>6. CASE CheckpointLost(r)
    BY <2>6 DEF CheckpointLost
  <2>7. CASE Complete(r)
    BY <2>7 DEF Complete
  <2>8. CASE Finish(r)
    BY <2>8 DEF Finish
  <2>9. CASE FinishFails(r)
    BY <2>9 DEF FinishFails
  <2>10. CASE Pop(r)
    BY <2>10 DEF Pop
  <2>11. CASE RunRetired(r)
    <3> HIDE DEF TypeInv, UseInv, Goto
    <3>1. UNCHANGED <<chat, project, saved, pending>>
      BY <2>11 DEF RunRetired
    <3>2. \E l \in PCs :
                /\ Goto(r, l)
                /\ r \in Opens => pc[r] \in Body \ {"start"} \/ l \notin Body
      BY <2>11 DEF RunRetired, PCs
    <3>3. r \in Procs /\ r \notin Chats
      OBVIOUS
    <3> HIDE DEF Procs, Jobs, Body, AdmissionInv, DeletedInert
    <3>4. QED
      BY <3>1, <3>2, <3>3, DeletedKept
  <2>12. CASE Cancel(r)
    <3> HIDE DEF TypeInv, UseInv, Goto
    <3>1. UNCHANGED <<chat, project, saved, pending>>
      BY <2>12 DEF Cancel
    <3>2. \E l \in PCs :
                /\ Goto(r, l)
                /\ r \in Opens => pc[r] \in Body \ {"start"} \/ l \notin Body
      BY <2>12 DEF Cancel, PCs
    <3>3. r \in Procs /\ r \notin Chats
      OBVIOUS
    <3> HIDE DEF Procs, Jobs, Body, AdmissionInv, DeletedInert
    <3>4. QED
      BY <3>1, <3>2, <3>3, DeletedKept
  <2>13. CASE CancelFinish(r)
    BY <2>13 DEF CancelFinish
  <2>14. CASE CancelFinishFails(r)
    BY <2>14 DEF CancelFinishFails
  <2>15. CASE SnapshotJudge(r)
    BY <2>15 DEF SnapshotJudge
  <2>16. QED
    BY <1>1, <2>1, <2>2, <2>3, <2>4, <2>5, <2>6, <2>7, <2>8, <2>9, <2>10, <2>11, <2>12, <2>13, <2>14,
        <2>15 DEF RunStep
<1>2. ASSUME NEW j \in Opens, OpenStep(j) PROVE DeletedInert'
  <2>1. CASE OpenRegister(j)
    BY <2>1 DEF OpenRegister
  <2>2. CASE OpenStart(j)
    BY <2>2 DEF OpenStart
  <2>3. CASE Probe(j)
    BY <2>3 DEF Probe
  <2>4. CASE Publish(j)
    BY <2>4 DEF Publish
  <2>5. CASE OpenRetired(j)
    BY <2>5 DEF OpenRetired
  <2>6. QED
    BY <1>2, <2>1, <2>2, <2>3, <2>4, <2>5 DEF OpenStep
<1>3. ASSUME NEW j \in Jobs, JobStep(j) PROVE DeletedInert'
  <2>1. ASSUME NEW c \in Chats, AdmitLock(j, c) PROVE DeletedInert'
    BY <2>1 DEF AdmitLock
  <2>2. CASE AdmitRefused(j)
    BY <2>2 DEF AdmitRefused
  <2>3. CASE ReadSource(j)
    BY <2>3 DEF ReadSource
  <2>4. ASSUME NEW current \in BOOLEAN, AcquireRead(j, current) PROVE DeletedInert'
    BY <2>4 DEF AcquireRead
  <2>5. CASE AcquireInspect(j)
    BY <2>5 DEF AcquireInspect
  <2>6. CASE AcquireResume(j)
    BY <2>6 DEF AcquireResume
  <2>7. CASE AcquireConnect(j)
    <3> HIDE DEF TypeInv, UseInv, Goto
    <3>1. UNCHANGED <<chat, project, saved, pending>>
      BY <2>7 DEF AcquireConnect
    <3>2. \E l \in PCs :
                /\ Goto(j, l)
                /\ j \in Opens => pc[j] \in Body \ {"start"} \/ l \notin Body
      BY <2>7 DEF AcquireConnect, PCs
    <3>3. j \in Procs /\ j \notin Chats
      OBVIOUS
    <3> HIDE DEF Procs, Jobs, Body, AdmissionInv, DeletedInert
    <3>4. QED
      BY <3>1, <3>2, <3>3, DeletedKept
  <2>8. ASSUME NEW o \in Ops, AcquireReserve(j, o) PROVE DeletedInert'
    BY <2>8 DEF AcquireReserve
  <2>9. CASE AcquireCreate(j)
    <3> HIDE DEF TypeInv, UseInv, Goto
    <3>1. UNCHANGED <<chat, project, saved, pending>>
      BY <2>9 DEF AcquireCreate
    <3>2. \E l \in PCs :
                /\ Goto(j, l)
                /\ j \in Opens => pc[j] \in Body \ {"start"} \/ l \notin Body
      BY <2>9 DEF AcquireCreate, PCs
    <3>3. j \in Procs /\ j \notin Chats
      OBVIOUS
    <3> HIDE DEF Procs, Jobs, Body, AdmissionInv, DeletedInert
    <3>4. QED
      BY <3>1, <3>2, <3>3, DeletedKept
  <2>10. CASE AcquireRejected(j)
    BY <2>10 DEF AcquireRejected
  <2>11. CASE AcquireRegister(j)
    BY <2>11 DEF AcquireRegister
  <2>12. CASE RestoreSource(j)
    BY <2>12 DEF RestoreSource
  <2>13. CASE Replace(j)
    BY <2>13 DEF Replace
  <2>14. CASE Replaced(j)
    <3> HIDE DEF TypeInv, UseInv, Goto
    <3>1. UNCHANGED <<chat, project, saved, pending>>
      BY <2>14 DEF Replaced
    <3>2. \E l \in PCs :
                /\ Goto(j, l)
                /\ j \in Opens => pc[j] \in Body \ {"start"} \/ l \notin Body
      BY <2>14 DEF Replaced, PCs
    <3>3. j \in Procs /\ j \notin Chats
      OBVIOUS
    <3> HIDE DEF Procs, Jobs, Body, AdmissionInv, DeletedInert
    <3>4. QED
      BY <3>1, <3>2, <3>3, DeletedKept
  <2>15. CASE JobFails(j)
    BY <2>15 DEF JobFails
  <2>16. QED
    BY <1>3, <2>1, <2>2, <2>3, <2>4, <2>5, <2>6, <2>7, <2>8, <2>9, <2>10, <2>11, <2>12, <2>13, <2>14,
        <2>15 DEF JobStep
<1>4. ASSUME NEW p \in Procs, RetireStep(p) PROVE DeletedInert'
  <2>1. CASE RetireList(p)
    BY <2>1 DEF RetireList
  <2>2. CASE RetireKill(p)
    BY <2>2 DEF RetireKill
  <2>3. CASE RetireFails(p)
    BY <2>3 DEF RetireFails
  <2>4. CASE RetireEnd(p)
    BY <2>4 DEF RetireEnd
  <2>5. CASE RetireSandbox(p)
    <3> HIDE DEF TypeInv, UseInv, Goto
    <3>1. UNCHANGED <<chat, project, saved, pending>>
      BY <2>5 DEF RetireSandbox
    <3>2. \E l \in {"retiring", "retiring2"} :
             /\ Goto(p, l) /\ pc[p] # "none"
             /\ p \in Chats => l = "retiring"
      BY <2>5 DEF RetireSandbox, UseInv, DeletedInert
    <3>3. {"retiring", "retiring2"} \cap Body = {} /\ {"retiring", "retiring2"} \subseteq PCs
      BY DEF PCs
    <3> HIDE DEF Procs, Jobs, Body, AdmissionInv, DeletedInert
    <3>4. QED
      BY <3>1, <3>2, <3>3, DeletedKept
  <2>6. QED
    BY <1>4, <2>1, <2>2, <2>3, <2>4, <2>5 DEF RetireStep
<1>5. ASSUME NEW c \in Chats, ProjectStep(c) PROVE DeletedInert'
  <2>1. CASE DeleteProject(c)
    BY <2>1 DEF DeleteProject
  <2>2. CASE DeleteRetired(c)
    BY <2>2 DEF DeleteRetired
  <2>3. CASE DeleteTimeout(c)
    BY <2>3 DEF DeleteTimeout
  <2>4. CASE PreviewStatus(c)
    BY <2>4 DEF PreviewStatus
  <2>5. CASE SnapshotRead(c)
    BY <2>5 DEF SnapshotRead
  <2>6. CASE RecoverCheckpoint(c)
    BY <2>6 DEF RecoverCheckpoint
  <2>7. ASSUME NEW doomed \in BOOLEAN, SweepVisit(c, doomed) PROVE DeletedInert'
    BY <2>7 DEF SweepVisit
  <2>8. QED
    BY <1>5, <2>1, <2>2, <2>3, <2>4, <2>5, <2>6, <2>7 DEF ProjectStep
<1>6. ASSUME NEW old \in SUBSET Chats, SweepBegin(old) PROVE DeletedInert'
  BY <1>6 DEF SweepBegin
<1>7. ASSUME NEW old \in SUBSET Chats, Startup(old) PROVE DeletedInert'
  BY <1>7 DEF Startup
<1>8. CASE SweepRetired
  BY <1>8 DEF SweepRetired
<1>9. CASE SweepState
  <2> HIDE DEF TypeInv, UseInv, Goto
  <2>1. UNCHANGED <<chat, project, saved, pending>>
    BY <1>9 DEF SweepState
  <2>2. \E l \in PCs :
              /\ Goto(Reaper, l)
              /\ Reaper \in Opens => pc[Reaper] \in Body \ {"start"} \/ l \notin Body
    BY <1>9 DEF SweepState, PCs
  <2>3. Reaper \in Procs /\ Reaper \notin Chats
    OBVIOUS
  <2> HIDE DEF Procs, Jobs, Body, AdmissionInv, DeletedInert
  <2>4. QED
    BY <2>1, <2>2, <2>3, DeletedKept
<1>10. CASE SweepPause
  BY <1>10 DEF SweepPause
<1>11. CASE SweepEnd
  BY <1>11 DEF SweepEnd
<1>12. CASE Provider
  BY <1>12 DEF Provider
<1>13. CASE Crash
  BY <1>13 DEF Crash
<1>14. QED
  BY <1>1, <1>2, <1>3, <1>4, <1>5, <1>6, <1>7, <1>8, <1>9, <1>10, <1>11, <1>12, <1>13 DEF Next,
      ReaperStep

\* Every job holds the runtime it uses.
Held == \A k \in Jobs : RuntimeHeld(k)

\* No row or handle but that of project c is written.
Touches(c) == \A d \in Chats \ {c} : row'[d] = row[d] /\ handles'[d] = handles[d]

\* A job that relies on its row: it looks its sandbox up, uses it or hands it over.
Relies(k) == pc[k] \in Body \ {"start", "replace"} \/ (k \in Runs /\ pc[k] = "finish")

\* Whoever retires the runtime of a project does not retire one that a job relies
\* on: the project is the caller's own, deleted, or no job's.
LEMMA RetiresUnrelied ==
    ASSUME TypeInv, AdmissionInv, UseInv, NEW p \in Procs, NEW k \in Jobs,
           pc[p] \in {"replace", "unwind", "unwind2", "retiring", "retiring2"},
           Relies(k)
    PROVE  chat[p] # chat[k]
<1> USE ServiceAssumption
    DEF TypeInv, TypeOK, JobsTypeOK, ProjectKnown, Jobs, Procs, Body, Acquiring, Finally,
        AdmissionInv, Registered, OneJobPerProject, SweepHeld, Busy, ActiveChats, Working,
        UseInv, DeletedInert, Relies
<1>1. CASE p \in Jobs
  BY <1>1
<1>2. CASE p \in Chats
  BY <1>2
<1>3. CASE p = Reaper
  BY <1>3
<1>4. QED
  BY <1>1, <1>2, <1>3

\* A step that writes another project's row leaves a job its runtime.
LEMMA HeldElsewhere ==
    ASSUME TypeInv, UseInv, NEW c, Touches(c), NEW k \in Jobs,
           Relies(k) => c # chat[k],
           pc'[k] = pc[k], chat'[k] = chat[k], op'[k] = op[k]
    PROVE  RuntimeHeld(k)'
BY DEF TypeInv, TypeOK, JobsTypeOK, ProjectKnown, Touches, UseInv, RuntimeHeld, Body, Acquiring, Relies

\* A job's row and handle stay its own through every step of everybody else.
LEMMA RuntimeHeldStep == TypeInv /\ AdmissionInv /\ UseInv /\ Next => Held'
<1> SUFFICES ASSUME TypeInv, AdmissionInv, UseInv, Next PROVE Held'
  OBVIOUS
<1> USE ServiceAssumption
    DEF TypeInv, TypeOK, JobsTypeOK, RuntimesTypeOK, RowType, ProjectKnown, Jobs, Procs, Body,
        Acquiring, Finally,
        AdmissionInv, Registered, LockHeld, OneJobPerProject, SweepHeld, Busy, ActiveChats, Working,
        UseInv, RetirePlaces, DeletedInert, Held, RuntimeHeld,
        Goto, Step, Quiet, Stay, Over, Fail, AfterAcquire, Record, SaveFiles,
        jobVars, locVars, rtVars
<1>1. ASSUME NEW r \in Runs, RunStep(r) PROVE Held'
  <2>1. CASE AdmitCommit(r)
    BY <2>1 DEF AdmitCommit
  <2>2. CASE AdmitRegister(r)
    BY <2>2 DEF AdmitRegister
  <2>3. CASE Invalidate(r)
    BY <2>3 DEF Invalidate, InvalidateRow, HasRow
  <2>4. CASE Mutate(r)
    BY <2>4 DEF Mutate
  <2>5. CASE Checkpoint(r)
    BY <2>5 DEF Checkpoint
  <2>6. CASE CheckpointLost(r)
    BY <2>6 DEF CheckpointLost
  <2>7. CASE Complete(r)
    BY <2>7 DEF Complete
  <2>8. CASE Finish(r)
    BY <2>8 DEF Finish, MarkReusable
  <2>9. CASE FinishFails(r)
    BY <2>9 DEF FinishFails, MarkReusable
  <2>10. CASE Pop(r)
    BY <2>10 DEF Pop
  <2>11. CASE RunRetired(r)
    BY <2>11 DEF RunRetired
  <2>12. CASE Cancel(r)
    BY <2>12 DEF Cancel, Abandon, RetireLeft, Kill, RemoveCut, DeleteRow
  <2>13. CASE CancelFinish(r)
    BY <2>13 DEF CancelFinish
  <2>14. CASE CancelFinishFails(r)
    BY <2>14 DEF CancelFinishFails
  <2>15. CASE SnapshotJudge(r)
    BY <2>15 DEF SnapshotJudge
  <2>16. QED
    BY <1>1, <2>1, <2>2, <2>3, <2>4, <2>5, <2>6, <2>7, <2>8, <2>9, <2>10, <2>11, <2>12, <2>13, <2>14,
        <2>15 DEF RunStep
<1>2. ASSUME NEW j \in Opens, OpenStep(j) PROVE Held'
  <2>1. CASE OpenRegister(j)
    BY <2>1 DEF OpenRegister
  <2>2. CASE OpenStart(j)
    BY <2>2 DEF OpenStart
  <2>3. CASE Probe(j)
    BY <2>3 DEF Probe
  <2>4. CASE Publish(j)
    BY <2>4 DEF Publish, MarkReusable
  <2>5. CASE OpenRetired(j)
    BY <2>5 DEF OpenRetired
  <2>6. QED
    BY <1>2, <2>1, <2>2, <2>3, <2>4, <2>5 DEF OpenStep
<1>3. ASSUME NEW j \in Jobs, JobStep(j) PROVE Held'
  <2>1. ASSUME NEW c \in Chats, AdmitLock(j, c) PROVE Held'
    BY <2>1 DEF AdmitLock
  <2>2. CASE AdmitRefused(j)
    BY <2>2 DEF AdmitRefused
  <2>3. CASE ReadSource(j)
    BY <2>3 DEF ReadSource
  <2>4. ASSUME NEW current \in BOOLEAN, AcquireRead(j, current) PROVE Held'
    BY <2>4 DEF AcquireRead
  <2>5. CASE AcquireInspect(j)
    BY <2>5 DEF AcquireInspect, StateMissing, StateRunning, StatePaused, Remove, DeleteRow,
        ForgetHandle, Change, HasRow
  <2>6. CASE AcquireResume(j)
    BY <2>6 DEF AcquireResume, ReserveResume, Change, HasRow
  <2>7. CASE AcquireConnect(j)
    BY <2>7 DEF AcquireConnect, ConnectReturns, ConnectLost
  <2>8. ASSUME NEW o \in Ops, AcquireReserve(j, o) PROVE Held'
    BY <2>8 DEF AcquireReserve, InsertRow, HasRow, NoRow
  <2>9. CASE AcquireCreate(j)
    <3>1. CASE Step(j, "create", "register") /\ CreateReturns(chat[j], op[j]) /\ UNCHANGED <<chat, op>>
      BY <3>1 DEF CreateReturns
    <3>2. CASE Step(j, "create", "rejected") /\ CreateRejected(op[j]) /\ UNCHANGED <<chat, op>>
      BY <3>2 DEF CreateRejected
    <3>3. QED
      BY <2>9, <3>1, <3>2 DEF AcquireCreate
  <2>10. CASE AcquireRejected(j)
    BY <2>10 DEF AcquireRejected, Remove, DeleteRow, ForgetHandle
  <2>11. CASE AcquireRegister(j)
    BY <2>11 DEF AcquireRegister, RegisterSandbox, Change, HasRow
  <2>12. CASE RestoreSource(j)
    BY <2>12 DEF RestoreSource
  <2>13. CASE Replace(j)
    BY <2>13 DEF Replace, RetireBegin, MarkRetiring, HasRow
  <2>14. CASE Replaced(j)
    <3>1. UNCHANGED <<chat, op, row, handles>>
      BY <2>14 DEF Replaced
    <3>2. \E l \in {"reserve", "unwind"} : pc' = [pc EXCEPT ![j] = l]
      BY <2>14 DEF Replaced
    <3>3. QED
      BY <3>1, <3>2
  <2>15. CASE JobFails(j)
    BY <2>15 DEF JobFails, Abandon, RetireLeft, Kill, RemoveCut, DeleteRow
  <2>16. QED
    BY <1>3, <2>1, <2>2, <2>3, <2>4, <2>5, <2>6, <2>7, <2>8, <2>9, <2>10, <2>11, <2>12, <2>13, <2>14,
        <2>15 DEF JobStep
<1>4. ASSUME NEW p \in Procs, RetireStep(p) PROVE Held'
  <2>1. CASE RetireList(p)
    BY <2>1 DEF RetireList
  <2>2. CASE RetireKill(p)
    BY <2>2 DEF RetireKill, Kill
  <2>3. CASE RetireFails(p)
    <3> SUFFICES ASSUME NEW k \in Jobs PROVE RuntimeHeld(k)'
      OBVIOUS
    <3>1. Touches(chat[p]) /\ UNCHANGED <<chat, op>>
      BY <2>3 DEF RetireFails, RetireLeft, Kill, RemoveCut, DeleteRow, Touches
    <3>2. pc[p] \in {"replace", "unwind", "unwind2", "retiring", "retiring2"}
      BY <2>3 DEF RetireFails
    <3>3. Relies(k) => chat[p] # chat[k]
      <4> HIDE DEF TypeInv, AdmissionInv, UseInv, Procs, Jobs, Body
      <4> QED
        BY <3>2, RetiresUnrelied
    <3>4. pc'[k] = pc[k] \/ (k = p /\ pc'[k] \in {"retiring", "retiring2"})
      BY <2>3 DEF RetireFails
    <3>5. CASE pc'[k] = pc[k]
      <4> HIDE DEF TypeInv, AdmissionInv, UseInv, Procs, Jobs, Body, RuntimeHeld
      <4> QED
        BY <3>1, <3>3, <3>5, HeldElsewhere
    <3>6. QED
      BY <3>4, <3>5
  <2>4. CASE RetireEnd(p)
    <3> SUFFICES ASSUME NEW k \in Jobs PROVE RuntimeHeld(k)'
      OBVIOUS
    <3>1. Touches(chat[p]) /\ UNCHANGED <<chat, op>>
      BY <2>4 DEF RetireEnd, RetireRemove, Remove, DeleteRow, ForgetHandle, Touches
    <3>2. pc[p] \in {"replace", "unwind", "unwind2", "retiring", "retiring2"}
      BY <2>4 DEF RetireEnd
    <3>3. Relies(k) => chat[p] # chat[k]
      <4> HIDE DEF TypeInv, AdmissionInv, UseInv, Procs, Jobs, Body
      <4> QED
        BY <3>2, RetiresUnrelied
    <3>4. pc'[k] = pc[k] \/ (k = p /\ pc'[k] \in {"retiring", "retiring2"})
      BY <2>4 DEF RetireEnd
    <3>5. CASE pc'[k] = pc[k]
      <4> HIDE DEF TypeInv, AdmissionInv, UseInv, Procs, Jobs, Body, RuntimeHeld
      <4> QED
        BY <3>1, <3>3, <3>5, HeldElsewhere
    <3>6. QED
      BY <3>4, <3>5
  <2>5. CASE RetireSandbox(p)
    <3> SUFFICES ASSUME NEW k \in Jobs PROVE RuntimeHeld(k)'
      OBVIOUS
    <3>1. Touches(chat[p]) /\ UNCHANGED <<chat, op>>
      BY <2>5 DEF RetireSandbox, RetireBegin, MarkRetiring, Touches
    <3>2. pc[p] \in {"replace", "unwind", "unwind2", "retiring", "retiring2"}
      BY <2>5 DEF RetireSandbox
    <3>3. Relies(k) => chat[p] # chat[k]
      <4> HIDE DEF TypeInv, AdmissionInv, UseInv, Procs, Jobs, Body
      <4> QED
        BY <3>2, RetiresUnrelied
    <3>4. pc'[k] = pc[k] \/ (k = p /\ pc'[k] \in {"retiring", "retiring2"})
      BY <2>5 DEF RetireSandbox
    <3>5. CASE pc'[k] = pc[k]
      <4> HIDE DEF TypeInv, AdmissionInv, UseInv, Procs, Jobs, Body, RuntimeHeld
      <4> QED
        BY <3>1, <3>3, <3>5, HeldElsewhere
    <3>6. QED
      BY <3>4, <3>5
  <2>6. QED
    BY <1>4, <2>1, <2>2, <2>3, <2>4, <2>5 DEF RetireStep
<1>5. ASSUME NEW c \in Chats, ProjectStep(c) PROVE Held'
  <2>1. CASE DeleteProject(c)
    BY <2>1 DEF DeleteProject
  <2>2. CASE DeleteRetired(c)
    BY <2>2 DEF DeleteRetired
  <2>3. CASE DeleteTimeout(c)
    BY <2>3 DEF DeleteTimeout, Abandon, RetireLeft, Kill, RemoveCut, DeleteRow
  <2>4. CASE PreviewStatus(c)
    BY <2>4 DEF PreviewStatus, ReadState, StateMissing, StateRunning, StatePaused, Remove, DeleteRow,
        ForgetHandle, Change, HasRow
  <2>5. CASE SnapshotRead(c)
    BY <2>5 DEF SnapshotRead
  <2>6. CASE RecoverCheckpoint(c)
    BY <2>6 DEF RecoverCheckpoint
  <2>7. ASSUME NEW doomed \in BOOLEAN, SweepVisit(c, doomed) PROVE Held'
    BY <2>7 DEF SweepVisit, RetireBegin, MarkRetiring, HasRow
  <2>8. QED
    BY <1>5, <2>1, <2>2, <2>3, <2>4, <2>5, <2>6, <2>7 DEF ProjectStep
<1>6. ASSUME NEW old \in SUBSET Chats, SweepBegin(old) PROVE Held'
  BY <1>6 DEF SweepBegin
<1>7. ASSUME NEW old \in SUBSET Chats, Startup(old) PROVE Held'
  BY <1>7 DEF Startup
<1>8. CASE SweepRetired
  BY <1>8 DEF SweepRetired
<1>9. CASE SweepState
  BY <1>9 DEF SweepState, StateMissing, StateRunning, StatePaused, Remove, DeleteRow, ForgetHandle,
      Change, HasRow
<1>10. CASE SweepPause
  BY <1>10 DEF SweepPause, PauseSandbox, StateMissing, Remove, DeleteRow, ForgetHandle, Change, HasRow,
      PauseFails
<1>11. CASE SweepEnd
  BY <1>11 DEF SweepEnd
<1>12. CASE Provider
  BY <1>12 DEF Provider, Provision, AutoPause, Vanish
<1>13. CASE Crash
  BY <1>13 DEF Crash
<1>14. QED
  BY <1>1, <1>2, <1>3, <1>4, <1>5, <1>6, <1>7, <1>8, <1>9, <1>10, <1>11, <1>12, <1>13 DEF Next,
      ReaperStep

----------------------------------------------------------------------------
(* The maintenance pass.                                                   *)

\* The action SweepUndisturbed is about.
Undisturbed == \A visit \in sweep \cap sweep' : row'[visit[1]] = row[visit[1]]

\* Between the read and the visit of a row, only the pass itself could write it:
\* every other writer needs the lock or works for a project that is busy.
LEMMA UndisturbedStep == TypeInv /\ AdmissionInv /\ UseInv /\ Next => Undisturbed
<1> SUFFICES ASSUME TypeInv, AdmissionInv, UseInv, Next PROVE Undisturbed
  OBVIOUS
<1> USE ServiceAssumption
    DEF TypeInv, TypeOK, JobsTypeOK, MemTypeOK, RuntimesTypeOK, RowType, ProjectKnown, Jobs, Procs,
        Body, Acquiring, Finally,
        AdmissionInv, Registered, LockHeld, OneJobPerProject, SweepHeld, Busy, ActiveChats, Working,
        UseInv, RetirePlaces, DeletedInert, Undisturbed,
        Goto, Step, Quiet, Stay, Over, Fail, AfterAcquire, Record, SaveFiles,
        jobVars, locVars, rtVars, memVars, procVars
<1>1. ASSUME NEW r \in Runs, RunStep(r) PROVE Undisturbed
  <2>1. CASE AdmitCommit(r)
    BY <2>1 DEF AdmitCommit
  <2>2. CASE AdmitRegister(r)
    BY <2>2 DEF AdmitRegister
  <2>3. CASE Invalidate(r)
    BY <2>3 DEF Invalidate, InvalidateRow, HasRow
  <2>4. CASE Mutate(r)
    BY <2>4 DEF Mutate
  <2>5. CASE Checkpoint(r)
    BY <2>5 DEF Checkpoint
  <2>6. CASE CheckpointLost(r)
    BY <2>6 DEF CheckpointLost
  <2>7. CASE Complete(r)
    BY <2>7 DEF Complete
  <2>8. CASE Finish(r)
    BY <2>8 DEF Finish, MarkReusable
  <2>9. CASE FinishFails(r)
    BY <2>9 DEF FinishFails, MarkReusable
  <2>10. CASE Pop(r)
    BY <2>10 DEF Pop
  <2>11. CASE RunRetired(r)
    BY <2>11 DEF RunRetired
  <2>12. CASE Cancel(r)
    BY <2>12 DEF Cancel, Abandon, RetireLeft, Kill, RemoveCut, DeleteRow
  <2>13. CASE CancelFinish(r)
    BY <2>13 DEF CancelFinish
  <2>14. CASE CancelFinishFails(r)
    BY <2>14 DEF CancelFinishFails
  <2>15. CASE SnapshotJudge(r)
    BY <2>15 DEF SnapshotJudge
  <2>16. QED
    BY <1>1, <2>1, <2>2, <2>3, <2>4, <2>5, <2>6, <2>7, <2>8, <2>9, <2>10, <2>11, <2>12, <2>13, <2>14,
        <2>15 DEF RunStep
<1>2. ASSUME NEW j \in Opens, OpenStep(j) PROVE Undisturbed
  <2>1. CASE OpenRegister(j)
    BY <2>1 DEF OpenRegister
  <2>2. CASE OpenStart(j)
    BY <2>2 DEF OpenStart
  <2>3. CASE Probe(j)
    BY <2>3 DEF Probe
  <2>4. CASE Publish(j)
    BY <2>4 DEF Publish, MarkReusable
  <2>5. CASE OpenRetired(j)
    BY <2>5 DEF OpenRetired
  <2>6. QED
    BY <1>2, <2>1, <2>2, <2>3, <2>4, <2>5 DEF OpenStep
<1>3. ASSUME NEW j \in Jobs, JobStep(j) PROVE Undisturbed
  <2>1. ASSUME NEW c \in Chats, AdmitLock(j, c) PROVE Undisturbed
    BY <2>1 DEF AdmitLock
  <2>2. CASE AdmitRefused(j)
    BY <2>2 DEF AdmitRefused
  <2>3. CASE ReadSource(j)
    BY <2>3 DEF ReadSource
  <2>4. ASSUME NEW current \in BOOLEAN, AcquireRead(j, current) PROVE Undisturbed
    BY <2>4 DEF AcquireRead
  <2>5. CASE AcquireInspect(j)
    BY <2>5 DEF AcquireInspect, StateMissing, StateRunning, StatePaused, Remove, DeleteRow,
        ForgetHandle, Change, HasRow
  <2>6. CASE AcquireResume(j)
    BY <2>6 DEF AcquireResume, ReserveResume, Change, HasRow
  <2>7. CASE AcquireConnect(j)
    BY <2>7 DEF AcquireConnect, ConnectReturns, ConnectLost
  <2>8. ASSUME NEW o \in Ops, AcquireReserve(j, o) PROVE Undisturbed
    BY <2>8 DEF AcquireReserve, InsertRow, HasRow, NoRow
  <2>9. CASE AcquireCreate(j)
    BY <2>9 DEF AcquireCreate, CreateReturns, CreateRejected
  <2>10. CASE AcquireRejected(j)
    BY <2>10 DEF AcquireRejected, Remove, DeleteRow, ForgetHandle
  <2>11. CASE AcquireRegister(j)
    BY <2>11 DEF AcquireRegister, RegisterSandbox, Change, HasRow
  <2>12. CASE RestoreSource(j)
    BY <2>12 DEF RestoreSource
  <2>13. CASE Replace(j)
    BY <2>13 DEF Replace, RetireBegin, MarkRetiring, HasRow
  <2>14. CASE Replaced(j)
    BY <2>14 DEF Replaced
  <2>15. CASE JobFails(j)
    BY <2>15 DEF JobFails, Abandon, RetireLeft, Kill, RemoveCut, DeleteRow
  <2>16. QED
    BY <1>3, <2>1, <2>2, <2>3, <2>4, <2>5, <2>6, <2>7, <2>8, <2>9, <2>10, <2>11, <2>12, <2>13, <2>14,
        <2>15 DEF JobStep
<1>4. ASSUME NEW p \in Procs, RetireStep(p) PROVE Undisturbed
  <2>1. CASE RetireList(p)
    BY <2>1 DEF RetireList
  <2>2. CASE RetireKill(p)
    BY <2>2 DEF RetireKill, Kill
  <2>3. CASE RetireFails(p)
    BY SMTT(30), <2>3 DEF RetireFails, RetireLeft, Kill, RemoveCut, DeleteRow
  <2>4. CASE RetireEnd(p)
    <3>1. \A d \in Chats \ {chat[p]} : row'[d] = row[d]
      BY <2>4 DEF RetireEnd, RetireRemove, Remove, DeleteRow
    <3>2. pc[p] \in {"replace", "retiring", "retiring2"} /\ UNCHANGED sweep
      BY <2>4 DEF RetireEnd
    <3>3. \A visit \in sweep : visit[1] # chat[p]
      BY SMTT(30), <3>2
    <3>4. QED
      BY <3>1, <3>2, <3>3
  <2>5. CASE RetireSandbox(p)
    BY <2>5 DEF RetireSandbox, RetireBegin, MarkRetiring, HasRow
  <2>6. QED
    BY <1>4, <2>1, <2>2, <2>3, <2>4, <2>5 DEF RetireStep
<1>5. ASSUME NEW c \in Chats, ProjectStep(c) PROVE Undisturbed
  <2>1. CASE DeleteProject(c)
    BY <2>1 DEF DeleteProject
  <2>2. CASE DeleteRetired(c)
    BY <2>2 DEF DeleteRetired
  <2>3. CASE DeleteTimeout(c)
    BY <2>3 DEF DeleteTimeout, Abandon, RetireLeft, Kill, RemoveCut, DeleteRow
  <2>4. CASE PreviewStatus(c)
    BY <2>4 DEF PreviewStatus, ReadState, StateMissing, StateRunning, StatePaused, Remove, DeleteRow,
        ForgetHandle, Change, HasRow
  <2>5. CASE SnapshotRead(c)
    BY <2>5 DEF SnapshotRead
  <2>6. CASE RecoverCheckpoint(c)
    BY <2>6 DEF RecoverCheckpoint
  <2>7. ASSUME NEW doomed \in BOOLEAN, SweepVisit(c, doomed) PROVE Undisturbed
    BY <2>7 DEF SweepVisit, RetireBegin, MarkRetiring, HasRow
  <2>8. QED
    BY <1>5, <2>1, <2>2, <2>3, <2>4, <2>5, <2>6, <2>7 DEF ProjectStep
<1>6. ASSUME NEW old \in SUBSET Chats, SweepBegin(old) PROVE Undisturbed
  BY <1>6 DEF SweepBegin
<1>7. ASSUME NEW old \in SUBSET Chats, Startup(old) PROVE Undisturbed
  BY <1>7 DEF Startup
<1>8. CASE SweepRetired
  BY <1>8 DEF SweepRetired
<1>9. CASE SweepState
  BY <1>9 DEF SweepState, StateMissing, StateRunning, StatePaused, Remove, DeleteRow, ForgetHandle,
      Change, HasRow
<1>10. CASE SweepPause
  BY <1>10 DEF SweepPause, PauseSandbox, StateMissing, Remove, DeleteRow, ForgetHandle, Change, HasRow,
      PauseFails
<1>11. CASE SweepEnd
  BY <1>11 DEF SweepEnd
<1>12. CASE Provider
  BY <1>12 DEF Provider, Provision, AutoPause, Vanish
<1>13. CASE Crash
  BY <1>13 DEF Crash
<1>14. QED
  BY <1>1, <1>2, <1>3, <1>4, <1>5, <1>6, <1>7, <1>8, <1>9, <1>10, <1>11, <1>12, <1>13 DEF Next,
      ReaperStep

----------------------------------------------------------------------------
(* The capacity.                                                           *)

\* A step of one task writes the runtimes and adds no project to what is occupied.
Narrows == PausedStays' /\ \A d \in Chats : Occupies(d)' => Occupies(d)

\* The same but for one project.
NarrowsBut(c) == PausedStays' /\ \A d \in Chats \ {c} : Occupies(d)' => Occupies(d)

\* What is known of the runtimes between two steps.
RuntimesInv == TypeInv /\ RowsOwn /\ PausedStays

\* A row that is dropped, with its handle or without ...
LEMMA DropNarrows ==
    ASSUME RuntimesInv, NEW c, NEW o, DeleteRow(c, o), UNCHANGED sb,
           ForgetHandle(c) \/ UNCHANGED handles
    PROVE  Narrows
<1> USE DEF RuntimesInv, TypeInv, TypeOK, RuntimesTypeOK, RowType
<1>1. \A d \in Chats : row'[d] = row[d] \/ row'[d].state = "absent"
  BY DEF DeleteRow, NoRow
<1>2. \A d \in Chats : handles'[d] \in {handles[d], None}
  BY DEF ForgetHandle
<1>3. PausedStays'
  BY <1>1 DEF PausedStays
<1>4. QED
  BY <1>1, <1>2, <1>3 DEF Narrows, Occupies

\* ... that is marked as retiring, which a paused one may be ...
LEMMA RetiringNarrows ==
    ASSUME RuntimesInv, NEW c \in Chats, MarkRetiring(c)
    PROVE  Narrows
<1> USE DEF RuntimesInv, TypeInv, TypeOK, RuntimesTypeOK, RowType, RowStates, PausedStays, Occupies
<1>1. \A d \in Chats : row'[d] = IF d = c /\ HasRow(c)
                               THEN [row[c] EXCEPT !.state = "retiring", !.reusable = FALSE]
                               ELSE row[d]
  BY DEF MarkRetiring
<1>2. HasRow(c) /\ sb[row[c].op] \in {"requested", "running"} => Occupies(c)
  BY DEF HasRow
<1>3. UNCHANGED <<handles, sb>>
  BY DEF MarkRetiring
<1>4. QED
  BY <1>1, <1>2, <1>3 DEF Narrows

\* ... or corrected by the provider's word: a row that says 'paused' is never found running.
LEMMA LookNarrows ==
    ASSUME RuntimesInv, NEW c \in Chats, NEW o,
           StateMissing(c, o) \/ StateRunning(c, o) \/ StatePaused(c, o)
    PROVE  Narrows
<1> USE DEF RuntimesInv, TypeInv, TypeOK, RuntimesTypeOK, RowType, PausedStays, Narrows, Occupies,
            Change, HasRow
<1>1. CASE StateMissing(c, o)
  BY <1>1, DropNarrows DEF StateMissing, Remove
<1>2. CASE StateRunning(c, o)
  <2>1. row[c].state \in {"creating", "running", "retiring"} /\ sb[row[c].op] = "running"
    BY <1>2 DEF StateRunning, RowStates
  <2>2. Occupies(c)
    BY <2>1
  <2>3. \A d \in Chats : row'[d] = IF d = c THEN [row[c] EXCEPT !.state = "running"] ELSE row[d]
    BY <1>2 DEF StateRunning
  <2>4. UNCHANGED <<handles, sb>>
    BY <1>2 DEF StateRunning
  <2>5. QED
    BY <2>2, <2>3, <2>4
<1>3. CASE StatePaused(c, o)
  BY <1>3 DEF StatePaused, ForgetHandle
<1>4. QED
  BY <1>1, <1>2, <1>3

\* Kills, pauses and what the provider does by itself wake nobody.
LEMMA SandboxesNarrow ==
    ASSUME RuntimesInv
    PROVE  /\ \A ids \in SUBSET Ops : Kill(ids) => Narrows
           /\ \A o \in Ops : Provision(o) \/ AutoPause(o) \/ Vanish(o) => Narrows
           /\ \A o \in Ops \cup {None} : PauseFails(o) => Narrows
           /\ \A c \in Chats : \A o \in Ops \cup {None} : PauseSandbox(c, o) => Narrows
<1> USE DEF RuntimesInv, TypeInv, TypeOK, RuntimesTypeOK, RowType, RowsOwn, RowShape, UniqueOp,
            PausedStays, Narrows, Occupies
<1>1. ASSUME NEW ids \in SUBSET Ops, Kill(ids) PROVE Narrows
  BY <1>1 DEF Kill
<1>2. ASSUME NEW o \in Ops, Provision(o) \/ AutoPause(o) \/ Vanish(o) PROVE Narrows
  BY <1>2 DEF Provision, AutoPause, Vanish
<1>3. ASSUME NEW o \in Ops \cup {None}, PauseFails(o) PROVE Narrows
  BY <1>3 DEF PauseFails
<1>4. ASSUME NEW c \in Chats, NEW o \in Ops \cup {None}, PauseSandbox(c, o) PROVE Narrows
  BY <1>4 DEF PauseSandbox, Change, HasRow, ForgetHandle
<1>5. QED
  BY <1>1, <1>2, <1>3, <1>4

\* Nor do the writes that leave the states of the rows alone.
LEMMA WritesNarrow ==
    ASSUME RuntimesInv
    PROVE  /\ \A c \in Chats : InvalidateRow(c) => Narrows
           /\ \A c \in Chats : \A r \in Revs : MarkReusable(c, r) => Narrows
           /\ UNCHANGED <<row, handles, sb>> => Narrows
<1> USE DEF RuntimesInv, TypeInv, TypeOK, RuntimesTypeOK, RowType, PausedStays, Narrows, Occupies
<1>1. ASSUME UNCHANGED <<handles, sb>>,
             \A d \in Chats : row'[d].state = row[d].state /\ row'[d].op = row[d].op
      PROVE  Narrows
  BY <1>1
<1>2. ASSUME NEW c \in Chats, InvalidateRow(c) PROVE Narrows
  BY <1>1, <1>2 DEF InvalidateRow
<1>3. ASSUME NEW c \in Chats, NEW r \in Revs, MarkReusable(c, r) PROVE Narrows
  BY <1>1, <1>3 DEF MarkReusable
<1>4. QED
  BY <1>1, <1>2, <1>3

\* acquire() creates, connects and registers for its own project only.
LEMMA AcquireNarrows ==
    ASSUME RuntimesInv, NEW c \in Chats, NEW o \in Ops
    PROVE  /\ InsertRow(c, o) => NarrowsBut(c)
           /\ CreateReturns(c, o) \/ RegisterSandbox(c, o) \/ ReserveResume(c, o) => NarrowsBut(c)
           /\ CreateRejected(o) => NarrowsBut(c)
           /\ row[c].op = o /\ row[c].state = "running" /\ (ConnectReturns(c, o) \/ ConnectLost(o))
                => NarrowsBut(c)
<1> USE DEF RuntimesInv, TypeInv, TypeOK, RuntimesTypeOK, RowType, RowsOwn, RowShape, UniqueOp,
            PausedStays, NarrowsBut, Occupies, Change, HasRow
<1>1. InsertRow(c, o) => NarrowsBut(c)
  BY RuntimesAssumption DEF InsertRow, NoRow
<1>2. CreateReturns(c, o) \/ RegisterSandbox(c, o) \/ ReserveResume(c, o) => NarrowsBut(c)
  BY ZenonT(60) DEF CreateReturns, RegisterSandbox, ReserveResume
<1>3. CreateRejected(o) => NarrowsBut(c)
  BY DEF CreateRejected
<1>4. ASSUME row[c].op = o, row[c].state = "running", ConnectReturns(c, o) \/ ConnectLost(o)
      PROVE  NarrowsBut(c)
  BY RuntimesAssumption, <1>4 DEF ConnectReturns, ConnectLost
<1>5. QED
  BY <1>1, <1>2, <1>3, <1>4

\* Whether a step keeps what is occupied among the slots.
Kept == PausedStays' /\ \A d \in Chats : Occupies(d)' => d \in Slots

\* What the service knows when a step begins.
CapacityCtx == IndInv /\ AdmissionInv /\ UseInv /\ PausedStays

\* A job at work has a project that is registered, and the operation it works with.
LEMMA JobKnown ==
    ASSUME CapacityCtx, NEW j \in Jobs, pc[j] \in Working
    PROVE  /\ chat[j] \in Chats /\ chat[j] \in Busy
           /\ rev[j] \in Revs /\ base[j] \in Revs
           /\ pc[j] \in {"resume", "connect", "create", "register"} => op[j] \in Ops
           /\ pc[j] = "connect" => row[chat[j]].op = op[j] /\ row[chat[j]].state = "running"
BY ServiceAssumption
   DEF CapacityCtx, IndInv, TypeInv, TypeOK, JobsTypeOK, ProjectKnown, OwnershipInv, JobOperation,
       UsesOperation, AdmissionInv, Registered, UseInv, RuntimeHeld, Busy, ActiveChats, Working, Body,
       Acquiring, Finally, Jobs

\* What narrows keeps, and so does what a job adds for its own project.
LEMMA NarrowKept ==
    ASSUME CapacityCtx
    PROVE  /\ Narrows => Kept
           /\ \A c \in Busy : NarrowsBut(c) => Kept
BY DEF Narrows, NarrowsBut, Kept, Slots

\* retire() begins ...
LEMMA BeginNarrows ==
    ASSUME RuntimesInv, NEW p, NEW c \in Chats, RetireBegin(p, c)
    PROVE  Narrows
BY RetiringNarrows, WritesNarrow DEF RetireBegin, rtVars

\* ... and is interrupted,
LEMMA LeftNarrows ==
    ASSUME RuntimesInv, NEW p \in Procs, RetireLeft(p)
    PROVE  Narrows
<1>1. ret[p].ids \in SUBSET Ops
  BY DEF RuntimesInv, TypeInv, TypeOK, JobsTypeOK
<1>2. CASE UNCHANGED rtVars
  BY <1>2, WritesNarrow DEF rtVars
<1>3. CASE \E ids \in SUBSET ret[p].ids : Kill(ids)
  BY <1>1, <1>3, SandboxesNarrow
<1>4. CASE RemoveCut(chat[p], ret[p].op)
  BY <1>4, DropNarrows DEF RemoveCut
<1>5. QED
  BY <1>2, <1>3, <1>4 DEF RetireLeft

\* as any task may be.
LEMMA AbandonNarrows ==
    ASSUME RuntimesInv, NEW p \in Procs, Abandon(p)
    PROVE  Narrows
<1>1. CASE RetireLeft(p)
  BY <1>1, LeftNarrows
<1>2. CASE RemoveCut(chat[p], op[p])
  BY <1>2, DropNarrows DEF RemoveCut
<1>3. CASE UNCHANGED <<row, handles, sb>>
  BY <1>3, WritesNarrow
<1>4. QED
  BY <1>1, <1>2, <1>3 DEF Abandon

\* A handle is forgotten with its row, or without; a crash forgets them all.
LEMMA ForgetNarrows ==
    ASSUME RuntimesInv, UNCHANGED <<row, sb>>, \A d \in Chats : handles'[d] \in {handles[d], None}
    PROVE  Narrows
BY DEF RuntimesInv, PausedStays, Narrows, Occupies

\* Whoever retires or sweeps has a project.
LEMMA CallersKnown ==
    ASSUME TypeInv
    PROVE  /\ \A p \in Procs : pc[p] \in {"unwind", "unwind2"} => chat[p] \in Chats
           /\ pc[Reaper] \in {"sweepstate", "sweeppause"} =>
                chat[Reaper] \in Chats /\ row[chat[Reaper]].sid \in Ops \cup {None}
BY DEF TypeInv, TypeOK, RuntimesTypeOK, RowType, ProjectKnown, Procs

\* Every step keeps the running sandboxes among the slots: the only steps that take a project up
\* are those of its own job, which is registered.
LEMMA KeptStep == CapacityCtx /\ Next => Kept
<1> SUFFICES ASSUME CapacityCtx, Next PROVE Kept
  OBVIOUS
<1>a. RuntimesInv
  BY DEF CapacityCtx, IndInv, OwnershipInv, RuntimesInv
<1>b. \A j \in Jobs : j \in Procs
  BY DEF Procs
<1>c. Narrows => Kept
  BY NarrowKept
<1>d. TypeInv
  BY DEF CapacityCtx, IndInv
<1> USE <1>a, <1>b, <1>c, <1>d DEF Working, Body, Acquiring, Finally, Step, Goto, Quiet, Stay, rtVars
<1>1. ASSUME NEW r \in Runs, RunStep(r) PROVE Kept
  <2>1. CASE AdmitCommit(r)
    BY <2>1, WritesNarrow DEF AdmitCommit
  <2>2. CASE AdmitRegister(r)
    BY <2>2, WritesNarrow DEF AdmitRegister
  <2>3. CASE Invalidate(r)
    BY <2>3, JobKnown, WritesNarrow DEF Invalidate, Jobs
  <2>4. CASE Mutate(r)
    BY <2>4, WritesNarrow DEF Mutate
  <2>5. CASE Checkpoint(r)
    BY <2>5, WritesNarrow DEF Checkpoint, SaveFiles
  <2>6. CASE CheckpointLost(r)
    BY <2>6, WritesNarrow DEF CheckpointLost
  <2>7. CASE Complete(r)
    BY <2>7, WritesNarrow DEF Complete, SaveFiles
  <2>8. CASE Finish(r)
    BY <2>8, JobKnown, WritesNarrow DEF Finish, Record, Jobs
  <2>9. CASE FinishFails(r)
    BY <2>9, JobKnown, WritesNarrow DEF FinishFails, Record, Jobs
  <2>10. CASE Pop(r)
    BY <2>10, WritesNarrow DEF Pop
  <2>11. CASE RunRetired(r)
    BY <2>11, WritesNarrow DEF RunRetired
  <2>12. CASE Cancel(r)
    BY <2>12, AbandonNarrows DEF Cancel, Procs, Jobs
  <2>13. CASE CancelFinish(r)
    BY <2>13, WritesNarrow DEF CancelFinish
  <2>14. CASE CancelFinishFails(r)
    BY <2>14, WritesNarrow DEF CancelFinishFails
  <2>15. CASE SnapshotJudge(r)
    BY <2>15, WritesNarrow DEF SnapshotJudge
  <2>16. QED
    BY <1>1, <2>1, <2>2, <2>3, <2>4, <2>5, <2>6, <2>7, <2>8, <2>9, <2>10, <2>11, <2>12, <2>13, <2>14, <2>15 DEF RunStep
<1>2. ASSUME NEW j \in Opens, OpenStep(j) PROVE Kept
  <2>1. CASE OpenRegister(j)
    BY <2>1, WritesNarrow DEF OpenRegister
  <2>2. CASE OpenStart(j)
    BY <2>2, WritesNarrow DEF OpenStart
  <2>3. CASE Probe(j)
    BY <2>3, WritesNarrow DEF Probe
  <2>4. CASE Publish(j)
    BY <2>4, JobKnown, WritesNarrow DEF Publish, Jobs
  <2>5. CASE OpenRetired(j)
    BY <2>5, WritesNarrow DEF OpenRetired
  <2>6. QED
    BY <1>2, <2>1, <2>2, <2>3, <2>4, <2>5 DEF OpenStep
<1>3. ASSUME NEW j \in Jobs, JobStep(j) PROVE Kept
  <2>1. ASSUME NEW c \in Chats, AdmitLock(j, c) PROVE Kept
    BY <2>1, WritesNarrow DEF AdmitLock
  <2>2. CASE AdmitRefused(j)
    BY <2>2, WritesNarrow DEF AdmitRefused
  <2>3. CASE ReadSource(j)
    BY <2>3, WritesNarrow DEF ReadSource
  <2>4. ASSUME NEW current \in BOOLEAN, AcquireRead(j, current) PROVE Kept
    BY <2>4, WritesNarrow DEF AcquireRead
  <2>5. CASE AcquireInspect(j)
    BY <2>5, JobKnown, LookNarrows DEF AcquireInspect
  <2>6. CASE AcquireResume(j)
    BY <2>6, JobKnown, NarrowKept, AcquireNarrows DEF AcquireResume
  <2>7. CASE AcquireConnect(j)
    BY <2>7, JobKnown, NarrowKept, AcquireNarrows, WritesNarrow DEF AcquireConnect
  <2>8. ASSUME NEW o \in Ops, AcquireReserve(j, o) PROVE Kept
    BY <2>8, JobKnown, NarrowKept, AcquireNarrows DEF AcquireReserve
  <2>9. CASE AcquireCreate(j)
    BY <2>9, JobKnown, NarrowKept, AcquireNarrows DEF AcquireCreate
  <2>10. CASE AcquireRejected(j)
    BY <2>10, DropNarrows DEF AcquireRejected, Remove
  <2>11. CASE AcquireRegister(j)
    BY <2>11, JobKnown, NarrowKept, AcquireNarrows DEF AcquireRegister
  <2>12. CASE RestoreSource(j)
    BY <2>12, WritesNarrow DEF RestoreSource
  <2>13. CASE Replace(j)
    BY <2>13, JobKnown, BeginNarrows DEF Replace
  <2>14. CASE Replaced(j)
    BY <2>14, WritesNarrow DEF Replaced
  <2>15. CASE JobFails(j)
    BY <2>15, AbandonNarrows DEF JobFails
  <2>16. QED
    BY <1>3, <2>1, <2>2, <2>3, <2>4, <2>5, <2>6, <2>7, <2>8, <2>9, <2>10, <2>11, <2>12, <2>13, <2>14, <2>15 DEF JobStep
<1>4. ASSUME NEW p \in Procs, RetireStep(p) PROVE Kept
  <2>1. CASE RetireList(p)
    BY <2>1, WritesNarrow DEF RetireList
  <2>2. CASE RetireKill(p)
    BY <2>2, SandboxesNarrow DEF RetireKill, RuntimesInv, TypeInv, TypeOK, JobsTypeOK
  <2>3. CASE RetireFails(p)
    BY <2>3, LeftNarrows DEF RetireFails
  <2>4. CASE RetireEnd(p)
    BY <2>4, DropNarrows, ForgetNarrows
    DEF RetireEnd, RetireRemove, Remove, ForgetHandle, RuntimesInv, TypeInv, TypeOK, RuntimesTypeOK
  <2>5. CASE RetireSandbox(p)
    BY <2>5, BeginNarrows, CallersKnown DEF RetireSandbox
  <2>6. QED
    BY <1>4, <2>1, <2>2, <2>3, <2>4, <2>5 DEF RetireStep
<1>5. ASSUME NEW c \in Chats, ProjectStep(c) PROVE Kept
  <2>1. CASE DeleteProject(c)
    BY <2>1, WritesNarrow DEF DeleteProject
  <2>2. CASE DeleteRetired(c)
    BY <2>2, WritesNarrow DEF DeleteRetired
  <2>3. CASE DeleteTimeout(c)
    BY <2>3, AbandonNarrows DEF DeleteTimeout, Procs
  <2>4. CASE PreviewStatus(c)
    BY <2>4, LookNarrows DEF PreviewStatus, ReadState
  <2>5. CASE SnapshotRead(c)
    BY <2>5, WritesNarrow DEF SnapshotRead
  <2>6. CASE RecoverCheckpoint(c)
    BY <2>6, WritesNarrow DEF RecoverCheckpoint
  <2>7. ASSUME NEW doomed \in BOOLEAN, SweepVisit(c, doomed) PROVE Kept
    BY <2>7, BeginNarrows, WritesNarrow DEF SweepVisit
  <2>8. QED
    BY <1>5, <2>1, <2>2, <2>3, <2>4, <2>5, <2>6, <2>7 DEF ProjectStep
<1>6. ASSUME NEW old \in SUBSET Chats, SweepBegin(old) PROVE Kept
  BY <1>6, WritesNarrow DEF SweepBegin
<1>7. ASSUME NEW old \in SUBSET Chats, Startup(old) PROVE Kept
  BY <1>7, WritesNarrow DEF Startup
<1>8. CASE SweepRetired
  BY <1>8, WritesNarrow DEF SweepRetired
<1>9. CASE SweepState
  BY <1>9, CallersKnown, LookNarrows, WritesNarrow DEF SweepState
<1>10. CASE SweepPause
  BY <1>10, CallersKnown, LookNarrows, SandboxesNarrow, WritesNarrow DEF SweepPause
<1>11. CASE SweepEnd
  BY <1>11, WritesNarrow DEF SweepEnd
<1>12. CASE Provider
  BY <1>12, SandboxesNarrow DEF Provider
<1>13. CASE Crash
  BY <1>13, ForgetNarrows DEF Crash
<1>14. QED
  BY <1>1, <1>2, <1>3, <1>4, <1>5, <1>6, <1>7, <1>8, <1>9, <1>10, <1>11, <1>12, <1>13 DEF Next,
      ReaperStep

\* A step in which no job takes up a project.
NoClaims ==
    /\ opening' \subseteq opening
    /\ \A r \in Runs : /\ r \in active' => r \in active \/ pc[r] = "committed"
                       /\ pc'[r] = "committed" => pc[r] = "committed"
                       /\ r \in active \/ pc[r] = "committed" => chat'[r] = chat[r]

\* An admission takes up its project, after the test and under the lock.
Claiming(j) == AdmitCommit(j) \/ OpenRegister(j)

\* Only the two admissions take up a project.
LEMMA ClaimStep == TypeInv /\ AdmissionInv /\ Next => NoClaims \/ \E j \in Jobs : Claiming(j)
<1> SUFFICES ASSUME TypeInv, AdmissionInv, Next, \A j \in Jobs : ~Claiming(j) PROVE NoClaims
  OBVIOUS
<1> USE ServiceAssumption
    DEF TypeInv, TypeOK, JobsTypeOK, MemTypeOK, ProjectKnown, Procs, Jobs, AdmissionInv, Registered, Working,
        NoClaims, Claiming, Step, Goto, Over, Fail, Quiet, Stay, Body, Acquiring, Finally,
        locVars, memVars, regVars, jobVars
<1>1. ASSUME NEW r \in Runs, RunStep(r) PROVE NoClaims
  <2>1. CASE AdmitCommit(r)
    BY <2>1 DEF AdmitCommit
  <2>2. CASE AdmitRegister(r)
    BY <2>2 DEF AdmitRegister
  <2>3. CASE Invalidate(r)
    BY <2>3 DEF Invalidate
  <2>4. CASE Mutate(r)
    BY <2>4 DEF Mutate
  <2>5. CASE Checkpoint(r)
    BY <2>5 DEF Checkpoint
  <2>6. CASE CheckpointLost(r)
    BY <2>6 DEF CheckpointLost
  <2>7. CASE Complete(r)
    BY <2>7 DEF Complete
  <2>8. CASE Finish(r)
    BY <2>8 DEF Finish, Record
  <2>9. CASE FinishFails(r)
    BY <2>9 DEF FinishFails, Record
  <2>10. CASE Pop(r)
    BY <2>10 DEF Pop
  <2>11. CASE RunRetired(r)
    BY <2>11 DEF RunRetired
  <2>12. CASE Cancel(r)
    BY <2>12 DEF Cancel
  <2>13. CASE CancelFinish(r)
    BY <2>13 DEF CancelFinish
  <2>14. CASE CancelFinishFails(r)
    BY <2>14 DEF CancelFinishFails
  <2>15. CASE SnapshotJudge(r)
    BY <2>15 DEF SnapshotJudge
  <2>16. QED
    BY <1>1, <2>1, <2>2, <2>3, <2>4, <2>5, <2>6, <2>7, <2>8, <2>9, <2>10, <2>11, <2>12, <2>13, <2>14, <2>15 DEF RunStep
<1>2. ASSUME NEW j \in Opens, OpenStep(j) PROVE NoClaims
  <2>1. CASE OpenRegister(j)
    BY <2>1 DEF OpenRegister
  <2>2. CASE OpenStart(j)
    BY <2>2 DEF OpenStart
  <2>3. CASE Probe(j)
    BY <2>3 DEF Probe
  <2>4. CASE Publish(j)
    BY <2>4 DEF Publish
  <2>5. CASE OpenRetired(j)
    BY <2>5 DEF OpenRetired
  <2>6. QED
    BY <1>2, <2>1, <2>2, <2>3, <2>4, <2>5 DEF OpenStep
<1>3. ASSUME NEW j \in Jobs, JobStep(j) PROVE NoClaims
  <2>1. ASSUME NEW c \in Chats, AdmitLock(j, c) PROVE NoClaims
    BY <2>1 DEF AdmitLock
  <2>2. CASE AdmitRefused(j)
    BY <2>2 DEF AdmitRefused
  <2>3. CASE ReadSource(j)
    BY <2>3 DEF ReadSource
  <2>4. ASSUME NEW current \in BOOLEAN, AcquireRead(j, current) PROVE NoClaims
    BY <2>4 DEF AcquireRead
  <2>5. CASE AcquireInspect(j)
    BY <2>5 DEF AcquireInspect
  <2>6. CASE AcquireResume(j)
    BY <2>6 DEF AcquireResume
  <2>7. CASE AcquireConnect(j)
    BY <2>7 DEF AcquireConnect, AfterAcquire
  <2>8. ASSUME NEW o \in Ops, AcquireReserve(j, o) PROVE NoClaims
    BY <2>8 DEF AcquireReserve
  <2>9. CASE AcquireCreate(j)
    BY <2>9 DEF AcquireCreate
  <2>10. CASE AcquireRejected(j)
    BY <2>10 DEF AcquireRejected
  <2>11. CASE AcquireRegister(j)
    BY <2>11 DEF AcquireRegister
  <2>12. CASE RestoreSource(j)
    BY <2>12 DEF RestoreSource, AfterAcquire
  <2>13. CASE Replace(j)
    BY <2>13 DEF Replace
  <2>14. CASE Replaced(j)
    BY <2>14 DEF Replaced
  <2>15. CASE JobFails(j)
    BY <2>15 DEF JobFails
  <2>16. QED
    BY <1>3, <2>1, <2>2, <2>3, <2>4, <2>5, <2>6, <2>7, <2>8, <2>9, <2>10, <2>11, <2>12, <2>13, <2>14, <2>15 DEF JobStep
<1>4. ASSUME NEW p \in Procs, RetireStep(p) PROVE NoClaims
  <2>1. CASE RetireList(p)
    BY <2>1 DEF RetireList
  <2>2. CASE RetireKill(p)
    BY <2>2 DEF RetireKill
  <2>3. CASE RetireFails(p)
    BY <2>3 DEF RetireFails
  <2>4. CASE RetireEnd(p)
    BY <2>4 DEF RetireEnd
  <2>5. CASE RetireSandbox(p)
    BY <2>5 DEF RetireSandbox
  <2>6. QED
    BY <1>4, <2>1, <2>2, <2>3, <2>4, <2>5 DEF RetireStep
<1>5. ASSUME NEW c \in Chats, ProjectStep(c) PROVE NoClaims
  <2>1. CASE DeleteProject(c)
    BY <2>1 DEF DeleteProject
  <2>2. CASE DeleteRetired(c)
    BY <2>2 DEF DeleteRetired
  <2>3. CASE DeleteTimeout(c)
    BY <2>3 DEF DeleteTimeout
  <2>4. CASE PreviewStatus(c)
    BY <2>4 DEF PreviewStatus
  <2>5. CASE SnapshotRead(c)
    BY <2>5 DEF SnapshotRead
  <2>6. CASE RecoverCheckpoint(c)
    BY <2>6 DEF RecoverCheckpoint
  <2>7. ASSUME NEW doomed \in BOOLEAN, SweepVisit(c, doomed) PROVE NoClaims
    BY <2>7 DEF SweepVisit
  <2>8. QED
    BY <1>5, <2>1, <2>2, <2>3, <2>4, <2>5, <2>6, <2>7 DEF ProjectStep
<1>6. ASSUME NEW old \in SUBSET Chats, SweepBegin(old) PROVE NoClaims
  BY <1>6 DEF SweepBegin
<1>7. ASSUME NEW old \in SUBSET Chats, Startup(old) PROVE NoClaims
  BY <1>7 DEF Startup
<1>8. CASE SweepRetired
  BY <1>8 DEF SweepRetired
<1>9. CASE SweepState
  BY <1>9 DEF SweepState
<1>10. CASE SweepPause
  BY <1>10 DEF SweepPause
<1>11. CASE SweepEnd
  BY <1>11 DEF SweepEnd
<1>12. CASE Provider
  BY <1>12 DEF Provider
<1>13. CASE Crash
  BY <1>13 DEF Crash
<1>14. QED
  BY <1>1, <1>2, <1>3, <1>4, <1>5, <1>6, <1>7, <1>8, <1>9, <1>10, <1>11, <1>12, <1>13 DEF Next,
      ReaperStep

\* The projects the test counts, when no other task overtakes the read of the rows.
Counted == Reserved \cup {d \in Chats : handles[d] # None} \cup Busy

\* The slots grow by the project of an admission, if they grow.
LEMMA SlotsStep ==
    ASSUME CapacityCtx, Next
    PROVE  \/ Slots' \subseteq Slots
           \/ \E j \in Jobs : Claiming(j) /\ Slots' \subseteq Slots \cup {chat[j]}
<1>1. {c \in Chats : Occupies(c)}' \subseteq Slots
  BY KeptStep DEF Kept
<1>2. CASE NoClaims
  <2>1. Busy' \subseteq Slots
    <3>1. ASSUME NEW r \in active' PROVE chat'[r] \in Slots
      <4>1. r \in Runs
        BY <3>1, TypeInvStep DEF CapacityCtx, IndInv, TypeInv, TypeOK, MemTypeOK
      <4>2. chat'[r] = chat[r] /\ (r \in active \/ pc[r] = "committed")
        BY <1>2, <3>1, <4>1 DEF NoClaims
      <4>3. QED
        BY <4>1, <4>2 DEF ActiveChats, Slots, Busy, Committed
    <3>2. QED
      BY <1>2, <3>1 DEF NoClaims, Slots, Busy, ActiveChats
  <2>2. Committed' \subseteq Slots
    BY <1>2 DEF NoClaims, Committed, Slots
  <2>3. QED
    BY <1>1, <2>1, <2>2 DEF Slots
<1>3. ASSUME NEW j \in Jobs, Claiming(j) PROVE Slots' \subseteq Slots \cup {chat[j]}
  <2>1. Busy' \subseteq Busy \cup {chat[j]}
    BY <1>3 DEF Claiming, AdmitCommit, OpenRegister, Busy, ActiveChats, locVars, regVars
  <2>2. Committed' \subseteq Committed \cup {chat[j]}
    <3>1. chat' = chat
      BY <1>3 DEF Claiming, AdmitCommit, OpenRegister, locVars
    <3>2. \A r \in Runs : pc'[r] = "committed" => pc[r] = "committed" \/ r = j
      BY <1>3 DEF Claiming, AdmitCommit, OpenRegister, Step, Goto, CapacityCtx, IndInv, TypeInv,
                  TypeOK, JobsTypeOK, Procs, Jobs
    <3>3. QED
      BY <3>1, <3>2 DEF Committed
  <2>3. QED
    BY <1>1, <2>1, <2>2 DEF Slots
<1>4. QED
  BY <1>2, <1>3, ClaimStep DEF CapacityCtx, IndInv

\* Under the lock the test counts every slot, and its own project only if it has a slot.
LEMMA CountedCovers ==
    ASSUME CapacityCtx, ~StaleReads, NEW j \in Jobs, Claiming(j)
    PROVE  /\ Slots \subseteq Counted
           /\ chat[j] \in Slots \/ Cardinality(Counted) < MAX_LIVE_SANDBOXES
<1>1. pc[j] = "admitting" /\ HasCapacity(chat[j])
  BY DEF Claiming, AdmitCommit, OpenRegister, Step
<1>2. Committed = {}
  BY <1>1 DEF Committed, CapacityCtx, AdmissionInv, LockHeld, Procs, Jobs
<1>3. \A c \in Chats : Occupies(c) => c \in Counted
  BY DEF Occupies, Counted, Reserved, HasRow
<1>4. \A c \in Counted : c \in Slots \/ row[c].state \in {"creating", "retiring"}
  BY DEF Counted, Reserved, HasRow, Slots, Occupies, CapacityCtx, IndInv, TypeInv, TypeOK,
         RuntimesTypeOK, RowType, RowStates
<1>5. Slots \subseteq Counted
  BY <1>2, <1>3 DEF Slots, Counted
<1>6. /\ row[chat[j]].state \notin {"creating", "retiring"}
      /\ chat[j] \in Counted \/ Cardinality(Counted) < MAX_LIVE_SANDBOXES
  BY <1>1 DEF HasCapacity, Counted
<1>7. QED
  BY <1>4, <1>5, <1>6

\* What the test counts is finite.
LEMMA CountedFinite ==
    ASSUME CapacityCtx, CountsFinite
    PROVE  IsFiniteSet(Counted)
<1> DEFINE Rows == {c \in Chats : HasRow(c)}
<1>1. Counted \subseteq Rows \cup Slots
  BY DEF Counted, Reserved, HasRow, Slots, Occupies
<1>2. IsFiniteSet(Rows \cup Slots)
  BY FS_Union DEF CountsFinite
<1>3. QED
  BY <1>1, <1>2, FS_Subset

\* At most one project gets a row in a step.
LEMMA RowsFiniteStep ==
    ASSUME TypeInv, Next, IsFiniteSet({c \in Chats : HasRow(c)})
    PROVE  IsFiniteSet({c \in Chats : HasRow(c)}')
<1> DEFINE Rows == {c \in Chats : HasRow(c)}
<1>1. CASE RowsMove
  <2>1. Rows' \subseteq Rows
    BY <1>1 DEF RowsMove, HasRow, NoRow
  <2>2. QED
    BY <2>1, FS_Subset
<1>2. ASSUME NEW j \in Jobs, NEW o \in Ops, AcquireReserve(j, o) PROVE IsFiniteSet(Rows')
  <2>1. Rows' \subseteq Rows \cup {chat[j]}
    BY <1>2 DEF AcquireReserve, InsertRow, HasRow, TypeInv, TypeOK, RuntimesTypeOK
  <2>2. IsFiniteSet(Rows \cup {chat[j]})
    BY FS_AddElement
  <2>3. QED
    BY <2>1, <2>2, FS_Subset
<1>3. QED
  BY <1>1, <1>2, RowsStep

\* The test keeps the slots below the limit.
LEMMA CapacityStep ==
    ASSUME CapacityCtx, CapacityInv, ~StaleReads, Next
    PROVE  CapacityInv'
<1> USE ServiceAssumption DEF CapacityInv
<1>1. PausedStays'
  BY KeptStep DEF Kept
<1>2. IsFiniteSet({c \in Chats : HasRow(c)}')
  BY RowsFiniteStep DEF CountsFinite, CapacityCtx, IndInv
<1>3. IsFiniteSet(Slots) /\ Cardinality(Slots) \in Nat /\ Cardinality(Slots) <= MAX_LIVE_SANDBOXES
  BY FS_CardinalityType DEF CountsFinite
<1>4. ASSUME NEW T, IsFiniteSet(T), Cardinality(T) <= MAX_LIVE_SANDBOXES, Slots' \subseteq T
      PROVE  IsFiniteSet(Slots') /\ Cardinality(Slots') <= MAX_LIVE_SANDBOXES
  <2>1. IsFiniteSet(Slots') /\ Cardinality(Slots') <= Cardinality(T)
    BY <1>4, FS_Subset
  <2>2. Cardinality(Slots') \in Nat /\ Cardinality(T) \in Nat
    BY <1>4, <2>1, FS_CardinalityType
  <2>3. QED
    BY <1>4, <2>1, <2>2
<1>5. CASE Slots' \subseteq Slots
  BY <1>1, <1>2, <1>3, <1>4, <1>5 DEF CountsFinite
<1>6. ASSUME NEW j \in Jobs, Claiming(j), Slots' \subseteq Slots \cup {chat[j]} PROVE CapacityInv'
  <2>1. IsFiniteSet(Counted) /\ Cardinality(Counted) \in Nat
    BY CountedFinite, FS_CardinalityType
  <2>2. Cardinality(Slots) <= Cardinality(Counted)
    BY <1>6, <2>1, CountedCovers, FS_Subset
  <2>3. /\ IsFiniteSet(Slots \cup {chat[j]})
        /\ Cardinality(Slots \cup {chat[j]}) =
             IF chat[j] \in Slots THEN Cardinality(Slots) ELSE Cardinality(Slots) + 1
    BY <1>3, FS_AddElement
  <2>4. Cardinality(Slots \cup {chat[j]}) <= MAX_LIVE_SANDBOXES
    BY <1>3, <1>6, <2>1, <2>2, <2>3, CountedCovers
  <2>5. IsFiniteSet(Slots') /\ Cardinality(Slots') <= MAX_LIVE_SANDBOXES
    BY <1>4, <1>6, <2>3, <2>4
  <2>6. QED
    BY <1>1, <1>2, <2>5 DEF CountsFinite
<1>7. QED
  BY <1>5, <1>6, SlotsStep

\* Every running sandbox is the sandbox of a slot, and of no other.
LEMMA RunningInSlots ==
    ASSUME IndInv, CapacityInv
    PROVE  RunningBound
<1> DEFINE Running == {o \in Ops : sb[o] = "running"}
           owner == [o \in Running |-> CHOOSE c \in Chats : row[c].op = o]
<1>1. \A o \in Running : owner[o] \in Chats /\ row[owner[o]].op = o
  BY DEF IndInv, OwnershipInv, RowsOwn, NoOrphan, Alive
<1>2. \A o \in Running : owner[o] \in Slots
  <2> SUFFICES ASSUME NEW o \in Running PROVE owner[o] \in Slots
    OBVIOUS
  <2> DEFINE c == owner[o]
  <2>1. c \in Chats /\ row[c].op = o /\ sb[row[c].op] = "running"
    BY <1>1
  <2>2. row[c].state \in {"running", "creating", "retiring"}
    BY <2>1, RuntimesAssumption DEF IndInv, OwnershipInv, RowsOwn, RowShape, CapacityInv, PausedStays,
       TypeInv, TypeOK, RuntimesTypeOK, RowType, RowStates
  <2> HIDE DEF c
  <2>3. Occupies(c)
    BY <2>1, <2>2 DEF Occupies
  <2>4. c \in Slots
    BY <2>1, <2>3 DEF Slots
  <2>5. QED
    BY <2>4 DEF c
<1>3. owner \in [Running -> Slots]
  BY <1>2
<1>4. \A o, q \in Running : owner[o] = owner[q] => o = q
  <2> HIDE DEF owner
  <2>1. QED
    BY <1>1
<1> HIDE DEF Running, owner
<1>5. owner \in Injection(Running, Slots)
  BY <1>3, <1>4, Fun_IsInj
<1>6. /\ IsFiniteSet(Running) /\ Cardinality(Running) <= Cardinality(Slots)
      /\ IsFiniteSet(Slots) /\ Cardinality(Slots) <= MAX_LIVE_SANDBOXES
  BY <1>5, FS_Injection DEF CapacityInv, CountsFinite
<1>7. Cardinality(Running) \in Nat /\ Cardinality(Slots) \in Nat
  BY <1>6, FS_CardinalityType
<1>8. Cardinality(Running) <= MAX_LIVE_SANDBOXES
  BY <1>6, <1>7, ServiceAssumption
<1>9. QED
  BY <1>8 DEF RunningBound, Running

----------------------------------------------------------------------------
(* The theorems.                                                           *)

ServiceInv == TypeInv /\ AdmissionInv /\ UseInv

\* At the start nobody works and nothing is registered.
LEMMA InitService == Init => ServiceInv /\ Unborn
<1> SUFFICES ASSUME Init PROVE AdmissionInv /\ UseInv /\ Unborn
  BY InitTyped DEF ServiceInv
<1> USE ServiceAssumption DEF Init, Procs, Jobs
<1>1. LockHeld /\ DownQuiet /\ Registered /\ Claimed /\ SweepHeld /\ OneJobPerProject
  BY DEF LockHeld, DownQuiet, Registered, Claimed, SweepHeld, OneJobPerProject, Working, Body,
         Acquiring, Finally
<1>2. RetirePlaces /\ DeletedInert /\ \A j \in Jobs : RuntimeHeld(j)
  BY DEF RetirePlaces, IdleRet, DeletedInert, RuntimeHeld
<1>3. Unborn
  BY DEF Unborn
<1>4. QED
  BY <1>1, <1>2, <1>3 DEF AdmissionInv, UseInv

\* One step, or none, keeps what the service relies on.
LEMMA ServiceInvStep == ServiceInv /\ [Next]_vars => ServiceInv'
<1> SUFFICES ASSUME ServiceInv, [Next]_vars PROVE ServiceInv'
  OBVIOUS
<1>1. TypeInv'
  BY TypeInvStep DEF ServiceInv
<1>2. CASE Next
  BY <1>1, <1>2, AdmissionStep, RetirePlacesStep, DeletedInertStep, RuntimeHeldStep
  DEF ServiceInv, UseInv, Held
<1>3. CASE UNCHANGED vars
  <2> USE <1>3 DEF vars, jobVars, locVars, memVars, lockVars, regVars, procVars, dbVars, rtVars,
                   ServiceInv
  <2>1. AdmissionInv'
    BY DEF AdmissionInv, LockHeld, DownQuiet, Registered, Claimed, SweepHeld, OneJobPerProject,
           Busy, ActiveChats
  <2>2. UseInv'
    BY DEF UseInv, RetirePlaces, DeletedInert, RuntimeHeld
  <2>3. QED
    BY <1>1, <2>1, <2>2
<1>4. QED
  BY <1>2, <1>3

\* admit() and open_preview() serialise the jobs of each project and
\* delete_project() spares a project with a live run, for any number of
\* projects, runs and previews and whatever fails, is cancelled or crashes: the
\* busy test and the registration happen under one lock, although the admission
\* transaction and its rollback lie between them.
THEOREM ProjectsSerialized == Spec => []OneJobPerProject
<1>1. ServiceInv => OneJobPerProject
  BY DEF ServiceInv, AdmissionInv
<1>2. QED
  BY <1>1, InitService, ServiceInvStep, PTL DEF Spec

\* From the registration of its sandbox to the end of its use a job finds its own
\* operation in its project's row, marked running, and its own handle: no sweep,
\* preview_status(), deletion or other job retires, pauses, replaces or forgets
\* it, even when a remove() is cut in two.
THEOREM RuntimeKeptInUse == Spec => []OwnedWhileInUse
<1>1. ServiceInv => OwnedWhileInUse
  BY DEF ServiceInv, UseInv, RuntimeHeld, OwnedWhileInUse
<1>2. QED
  BY <1>1, InitService, ServiceInvStep, PTL DEF Spec

\* maintain() may act on each row as it read it at its start, however many
\* provider calls it has awaited since.
THEOREM SweepActsOnFacts == Spec => SweepUndisturbed
<1>1. ServiceInv /\ [Next]_vars =>
         [\A visit \in sweep \cap sweep' : row'[visit[1]] = row[visit[1]]]_vars
  BY UndisturbedStep DEF ServiceInv, Undisturbed
<1>2. QED
  BY <1>1, InitService, ServiceInvStep, PTL DEF Spec, SweepUndisturbed

\* A run that has recorded an outcome keeps it, unless a snapshot that read the
\* run as running before writes 'interrupted' over it or its project is deleted.
THEOREM OutcomesKept == Spec => OutcomeOnlyInterrupted
<1>1. TypeInv /\ Unborn /\ [Next]_vars => Unborn'
  BY UnbornStep DEF Unborn, vars, jobVars, dbVars
<1>2. TypeInv /\ Unborn /\ [Next]_vars =>
         [\A r \in Runs : runStatus[r] \in Terminal =>
             runStatus'[r] \in {runStatus[r], "interrupted", "deleted"}]_vars
  BY UnbornStep DEF OutcomesStay
<1>3. QED
  BY <1>1, <1>2, InitService, TypeInvStep, PTL DEF Spec, ServiceInv, OutcomeOnlyInterrupted

\* At the start nothing is counted.
LEMMA InitCapacity == Init => CapacityInv
<1> SUFFICES ASSUME Init PROVE CapacityInv
  OBVIOUS
<1>1. {c \in Chats : HasRow(c)} = {}
  BY DEF Init, RuntimesInit, HasRow, NoRow
<1>2. PausedStays
  BY DEF Init, RuntimesInit, NoRow, PausedStays
<1>3. Busy = {} /\ Committed = {}
  BY DEF Init, Busy, ActiveChats, Committed, Procs, Jobs
<1>4. \A c \in Chats : ~Occupies(c)
  BY DEF Init, RuntimesInit, NoRow, Occupies
<1>5. Slots = {}
  BY <1>3, <1>4 DEF Slots
<1>6. QED
  BY <1>1, <1>2, <1>5, FS_EmptySet, ServiceAssumption DEF CapacityInv, CountsFinite

\* Never more than MAX_LIVE_SANDBOXES sandboxes run at once, for any number of
\* projects, runs and previews, across lost answers, late creations, failed
\* pauses and crashes: require_sandbox_capacity() counts rows, handles and jobs
\* under the admission lock, and a sandbox is woken or created only for a job
\* that was counted.  The two hypotheses are the ones the code gives no guarantee
\* for: a cancellation inside remove(), and a read of the rows that another task
\* overtakes.
THEOREM CapacityKept == ~CutRemove /\ ~StaleReads => (Spec => []RunningBound)
<1> SUFFICES ASSUME ~CutRemove, ~StaleReads PROVE Spec => []RunningBound
  OBVIOUS
<1> DEFINE Kernel == IndInv /\ ServiceInv /\ CapacityInv
<1>1. Init => Kernel
  BY InitTyped, InitOwned, InitService, InitCapacity DEF IndInv
<1>2. Kernel /\ [Next]_vars => Kernel'
  <2> SUFFICES ASSUME Kernel, [Next]_vars PROVE Kernel'
    OBVIOUS
  <2>1. IndInv' /\ ServiceInv'
    BY IndInvStep, ServiceInvStep
  <2>2. CASE Next
    BY <2>1, <2>2, CapacityStep DEF CapacityCtx, CapacityInv, ServiceInv
  <2>3. CASE UNCHANGED vars
    <3>1. /\ Slots' = Slots /\ PausedStays'
          /\ {c \in Chats : HasRow(c)}' = {c \in Chats : HasRow(c)}
      BY <2>3 DEF vars, jobVars, locVars, memVars, regVars, rtVars, Slots, Busy, ActiveChats, Committed,
                  Occupies, PausedStays, CapacityInv, HasRow
    <3>2. QED
      BY <2>1, <3>1 DEF CapacityInv, CountsFinite
  <2>4. QED
    BY <2>2, <2>3
<1>3. Kernel => RunningBound
  BY RunningInSlots
<1> HIDE DEF Kernel
<1>4. QED
  BY <1>1, <1>2, <1>3, PTL DEF Spec
=============================================================================
