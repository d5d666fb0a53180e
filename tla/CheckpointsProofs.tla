------------------------- MODULE CheckpointsProofs -------------------------
(***************************************************************************)
(* Proofs about Checkpoints: the last acknowledged checkpoint is readable, *)
(* no object is left behind, promotion is sound and the quota holds, for   *)
(* any number of runs, requests, revisions, crashes and aborted passes.    *)
(***************************************************************************)
EXTENDS Checkpoints, FiniteSetTheorems, TLAPS

USE DEF chatVars, revVars, runVars, objVars

----------------------------------------------------------------------------
(* Moves of a task.                                                        *)

AllPCs == {"idle"} \cup JobPCs \cup CleanPCs \cup PassPCs

\* What a task keeps: its place and its locals.
LocType == [pc : AllPCs, key : Keys \cup {None}, seen : RevStates, todo : SUBSET Keys]

LocOK == loc \in [Procs -> LocType]

\* Task p is at l after the step, with these locals; the others stay where they are.
Now(p, l, k, s, d) ==
    /\ loc'[p].pc = l /\ loc'[p].key = k /\ loc'[p].seen = s /\ loc'[p].todo = d
    /\ \A q \in Procs : q # p => loc'[q] = loc[q]

\* If it moves to a place of the program with a key and a list of keys, all tasks have
\* their types.
Typed(l, k, d) == l \in AllPCs /\ k \in Keys \cup {None} /\ d \in SUBSET Keys => LocOK'

\* The tasks are told apart.
LEMMA Tasks ==
    /\ Maint \in Procs /\ Del \in Procs /\ Maint # Del /\ Maint \notin Jobs /\ Del \notin Jobs
    /\ Runs \subseteq Jobs /\ Views \subseteq Jobs /\ Jobs \subseteq Procs /\ Cleaners = {Maint, Del}
    /\ Procs = Jobs \cup {Maint, Del} /\ Runs \cap Views = {} /\ Opens \subseteq Views
    /\ \A p \in Jobs : p \in Runs \/ p \in Views
  BY CheckpointsAssumption DEF Procs, Jobs, Cleaners

\* The objects are told apart.
LEMMA Objects ==
    /\ MaxRev \in Nat /\ Revs = 1..MaxRev /\ Revs \subseteq Keys /\ Runs \subseteq Keys /\ Legacy \in Keys
    /\ None \notin Keys /\ Legacy \notin Runs /\ Legacy \notin Revs
    /\ \A k \in Revs : k \notin Runs
    /\ \A k \in Keys : k \in Revs \/ k \in Runs \/ k = Legacy
  BY CheckpointsAssumption DEF Keys, Revs

LEMMA MoveNow ==
    ASSUME LocOK, NEW p \in Procs, NEW m, loc' = [loc EXCEPT ![p] = m]
    PROVE  Now(p, m.pc, m.key, m.seen, m.todo) /\ (m \in LocType => LocOK')
  BY DEF LocOK, Now

\* The forms in which the actions move tasks, one lemma for each.
LEMMA GotoNow ==
    ASSUME LocOK, NEW p \in Procs, NEW l, Goto(p, l)
    PROVE  Now(p, l, loc[p].key, loc[p].seen, loc[p].todo) /\ Typed(l, loc[p].key, loc[p].todo)
<1> DEFINE m == [loc[p] EXCEPT !.pc = l]
<1>1. loc' = [loc EXCEPT ![p] = m]
  BY DEF Goto
<1>2. /\ m.pc = l /\ m.key = loc[p].key /\ m.seen = loc[p].seen /\ m.todo = loc[p].todo
      /\ l \in AllPCs /\ loc[p].key \in Keys \cup {None} /\ loc[p].todo \in SUBSET Keys => m \in LocType
  BY DEF LocOK, LocType, RevStates, Idle
<1> HIDE DEF m
<1>3. Now(p, m.pc, m.key, m.seen, m.todo) /\ (m \in LocType => LocOK')
  BY <1>1, MoveNow
<1> QED
  BY <1>1, <1>2, <1>3 DEF Typed, Now

LEMMA GotoKeyNow ==
    ASSUME LocOK, NEW p \in Procs, NEW l, NEW k, GotoKey(p, l, k)
    PROVE  Now(p, l, k, loc[p].seen, loc[p].todo) /\ Typed(l, k, loc[p].todo)
<1> DEFINE m == [loc[p] EXCEPT !.pc = l, !.key = k]
<1>1. loc' = [loc EXCEPT ![p] = m]
  BY DEF GotoKey
<1>2. /\ m.pc = l /\ m.key = k /\ m.seen = loc[p].seen /\ m.todo = loc[p].todo
      /\ l \in AllPCs /\ k \in Keys \cup {None} /\ loc[p].todo \in SUBSET Keys => m \in LocType
  BY DEF LocOK, LocType, RevStates, Idle
<1> HIDE DEF m
<1>3. Now(p, m.pc, m.key, m.seen, m.todo) /\ (m \in LocType => LocOK')
  BY <1>1, MoveNow
<1> QED
  BY <1>1, <1>2, <1>3 DEF Typed, Now

LEMMA LoopNow ==
    ASSUME LocOK, NEW p \in Procs, NEW l, Loop(p, l)
    PROVE  Now(p, l, None, loc[p].seen, loc[p].todo) /\ Typed(l, None, loc[p].todo)
<1> DEFINE m == [loc[p] EXCEPT !.pc = l, !.key = None]
<1>1. loc' = [loc EXCEPT ![p] = m]
  BY DEF Loop
<1>2. /\ m.pc = l /\ m.key = None /\ m.seen = loc[p].seen /\ m.todo = loc[p].todo
      /\ l \in AllPCs /\ None \in Keys \cup {None} /\ loc[p].todo \in SUBSET Keys => m \in LocType
  BY DEF LocOK, LocType, RevStates, Idle
<1> HIDE DEF m
<1>3. Now(p, m.pc, m.key, m.seen, m.todo) /\ (m \in LocType => LocOK')
  BY <1>1, MoveNow
<1> QED
  BY <1>1, <1>2, <1>3 DEF Typed, Now

LEMMA TakeNow ==
    ASSUME LocOK, NEW p \in Procs, NEW from, NEW k, NEW l, Take(p, from, k, l)
    PROVE  Now(p, l, k, loc[p].seen, loc[p].todo \ {k}) /\ Typed(l, k, loc[p].todo \ {k}) /\ loc[p].pc = from /\ k \in loc[p].todo
<1> DEFINE m == [loc[p] EXCEPT !.pc = l, !.key = k, !.todo = loc[p].todo \ {k}]
<1>1. loc' = [loc EXCEPT ![p] = m] /\ loc[p].pc = from /\ k \in loc[p].todo
  BY DEF Take, At
<1>2. /\ m.pc = l /\ m.key = k /\ m.seen = loc[p].seen /\ m.todo = loc[p].todo \ {k}
      /\ l \in AllPCs /\ k \in Keys \cup {None} /\ loc[p].todo \ {k} \in SUBSET Keys => m \in LocType
  BY DEF LocOK, LocType, RevStates, Idle
<1> HIDE DEF m
<1>3. Now(p, m.pc, m.key, m.seen, m.todo) /\ (m \in LocType => LocOK')
  BY <1>1, MoveNow
<1> QED
  BY <1>1, <1>2, <1>3 DEF Typed, Now

LEMMA ThroughNow ==
    ASSUME LocOK, NEW p \in Procs, NEW from, NEW l, NEW d, Through(p, from, l, d)
    PROVE  Now(p, l, None, loc[p].seen, d) /\ Typed(l, None, d) /\ loc[p].pc = from /\ loc[p].todo = {}
<1> DEFINE m == [loc[p] EXCEPT !.pc = l, !.key = None, !.todo = d]
<1>1. loc' = [loc EXCEPT ![p] = m] /\ loc[p].pc = from /\ loc[p].todo = {}
  BY DEF Through, At
<1>2. /\ m.pc = l /\ m.key = None /\ m.seen = loc[p].seen /\ m.todo = d
      /\ l \in AllPCs /\ None \in Keys \cup {None} /\ d \in SUBSET Keys => m \in LocType
  BY DEF LocOK, LocType, RevStates, Idle
<1> HIDE DEF m
<1>3. Now(p, m.pc, m.key, m.seen, m.todo) /\ (m \in LocType => LocOK')
  BY <1>1, MoveNow
<1> QED
  BY <1>1, <1>2, <1>3 DEF Typed, Now

LEMMA FreshNow ==
    ASSUME LocOK, NEW p \in Procs, NEW l, loc' = [loc EXCEPT ![p] = [Idle EXCEPT !.pc = l]]
    PROVE  Now(p, l, None, "none", {}) /\ Typed(l, None, {})
<1> DEFINE m == [Idle EXCEPT !.pc = l]
<1>1. loc' = [loc EXCEPT ![p] = m]
  OBVIOUS
<1>2. /\ m.pc = l /\ m.key = None /\ m.seen = "none" /\ m.todo = {}
      /\ l \in AllPCs /\ None \in Keys \cup {None} /\ {} \in SUBSET Keys => m \in LocType
  BY DEF LocOK, LocType, RevStates, Idle
<1> HIDE DEF m
<1>3. Now(p, m.pc, m.key, m.seen, m.todo) /\ (m \in LocType => LocOK')
  BY <1>1, MoveNow
<1> QED
  BY <1>1, <1>2, <1>3 DEF Typed, Now

LEMMA FreshListNow ==
    ASSUME LocOK, NEW p \in Procs, NEW l, NEW d, loc' = [loc EXCEPT ![p] = [Idle EXCEPT !.pc = l, !.todo = d]]
    PROVE  Now(p, l, None, "none", d) /\ Typed(l, None, d)
<1> DEFINE m == [Idle EXCEPT !.pc = l, !.todo = d]
<1>1. loc' = [loc EXCEPT ![p] = m]
  OBVIOUS
<1>2. /\ m.pc = l /\ m.key = None /\ m.seen = "none" /\ m.todo = d
      /\ l \in AllPCs /\ None \in Keys \cup {None} /\ d \in SUBSET Keys => m \in LocType
  BY DEF LocOK, LocType, RevStates, Idle
<1> HIDE DEF m
<1>3. Now(p, m.pc, m.key, m.seen, m.todo) /\ (m \in LocType => LocOK')
  BY <1>1, MoveNow
<1> QED
  BY <1>1, <1>2, <1>3 DEF Typed, Now

LEMMA FreshKeyNow ==
    ASSUME LocOK, NEW p \in Procs, NEW l, NEW k, loc' = [loc EXCEPT ![p] = [Idle EXCEPT !.pc = l, !.key = k]]
    PROVE  Now(p, l, k, "none", {}) /\ Typed(l, k, {})
<1> DEFINE m == [Idle EXCEPT !.pc = l, !.key = k]
<1>1. loc' = [loc EXCEPT ![p] = m]
  OBVIOUS
<1>2. /\ m.pc = l /\ m.key = k /\ m.seen = "none" /\ m.todo = {}
      /\ l \in AllPCs /\ k \in Keys \cup {None} /\ {} \in SUBSET Keys => m \in LocType
  BY DEF LocOK, LocType, RevStates, Idle
<1> HIDE DEF m
<1>3. Now(p, m.pc, m.key, m.seen, m.todo) /\ (m \in LocType => LocOK')
  BY <1>1, MoveNow
<1> QED
  BY <1>1, <1>2, <1>3 DEF Typed, Now

LEMMA IdleNow ==
    ASSUME LocOK, NEW p \in Procs, loc' = [loc EXCEPT ![p] = Idle]
    PROVE  LocOK' /\ Now(p, "idle", None, "none", {})
<1>1. Idle \in LocType
  BY DEF LocType, RevStates, Idle, AllPCs
<1>2. Idle.pc = "idle" /\ Idle.key = None /\ Idle.seen = "none" /\ Idle.todo = {}
  BY DEF Idle
<1>3. Now(p, Idle.pc, Idle.key, Idle.seen, Idle.todo) /\ (Idle \in LocType => LocOK')
  BY MoveNow
<1> QED
  BY <1>1, <1>2, <1>3 DEF Now

\* promote() reads the status, and decides on it.
LEMMA SeenNow ==
    ASSUME LocOK, NEW p \in Procs, NEW l \in AllPCs, NEW s \in RevStates,
           loc' = [loc EXCEPT ![p].pc = l, ![p].seen = s]
    PROVE  LocOK' /\ Now(p, l, loc[p].key, s, loc[p].todo)
<1> DEFINE m == [loc[p] EXCEPT !.pc = l, !.seen = s]
<1>1. loc' = [loc EXCEPT ![p] = m]
  OBVIOUS
<1>2. /\ m \in LocType /\ m.pc = l /\ m.key = loc[p].key /\ m.seen = s /\ m.todo = loc[p].todo
  BY DEF LocOK, LocType
<1> HIDE DEF m
<1>3. Now(p, m.pc, m.key, m.seen, m.todo) /\ (m \in LocType => LocOK')
  BY <1>1, MoveNow
<1> QED
  BY <1>2, <1>3 DEF Now

LEMMA DecidedNow ==
    ASSUME LocOK, NEW p \in Procs, NEW l \in AllPCs, NEW k \in Keys \cup {None},
           loc' = [loc EXCEPT ![p].pc = l, ![p].seen = "none", ![p].key = k]
    PROVE  LocOK' /\ Now(p, l, k, "none", loc[p].todo)
<1> DEFINE m == [loc[p] EXCEPT !.pc = l, !.seen = "none", !.key = k]
<1>1. loc' = [loc EXCEPT ![p] = m]
  OBVIOUS
<1>2. /\ m \in LocType /\ m.pc = l /\ m.key = k /\ m.seen = "none" /\ m.todo = loc[p].todo
  BY DEF LocOK, LocType, RevStates
<1> HIDE DEF m
<1>3. Now(p, m.pc, m.key, m.seen, m.todo) /\ (m \in LocType => LocOK')
  BY <1>1, MoveNow
<1> QED
  BY <1>2, <1>3 DEF Now

\* End(), and Raise(): a job's task is gone, the storage pass goes on with the next item.
LEMMA EndNow ==
    ASSUME LocOK, NEW p \in Procs, End(p)
    PROVE  LocOK' /\ Now(p, "idle", None, "none", {})
  BY IdleNow DEF End

LEMMA RaiseNow ==
    ASSUME LocOK, NEW p \in Procs, Raise(p)
    PROVE  /\ LocOK'
           /\ p \in Jobs => End(p) /\ Now(p, "idle", None, "none", {})
           /\ p \notin Jobs =>
                /\ UNCHANGED <<live, run>>
                /\ \/ Key(p) \in Runs /\ Now(p, "archive", None, "none", loc[p].todo)
                   \/ Key(p) \notin Runs /\ Now(p, "discard", Key(p), "none", loc[p].todo)
<1>1. CASE p \in Jobs
  BY <1>1, EndNow DEF Raise
<1>2. CASE p \notin Jobs
  <2> DEFINE l == IF Key(p) \in Runs THEN "archive" ELSE "discard"
             k == IF Key(p) \in Runs THEN None ELSE Key(p)
             m == [loc[p] EXCEPT !.seen = "none", !.pc = l, !.key = k]
  <2>1. UNCHANGED <<live, run>> /\ loc' = [loc EXCEPT ![p] = m]
    BY <1>2 DEF Raise, Key
  <2>2. m \in LocType /\ m.pc = l /\ m.key = k /\ m.seen = "none" /\ m.todo = loc[p].todo
    BY DEF LocOK, LocType, RevStates, AllPCs, PassPCs, Key
  <2> HIDE DEF m
  <2>3. Now(p, m.pc, m.key, m.seen, m.todo) /\ LocOK'
    BY <2>1, <2>2, MoveNow
  <2> QED
    BY <1>2, <2>1, <2>2, <2>3 DEF Now
<1> QED
  BY <1>1, <1>2

LEMMA TakeTyped ==
    ASSUME LocOK, NEW p \in Procs, NEW from, NEW k \in Keys, NEW l \in AllPCs, Take(p, from, k, l)
    PROVE  LocOK'
<1>1. loc[p].todo \ {k} \in SUBSET Keys
  BY DEF LocOK, LocType
<1> QED
  BY <1>1, TakeNow DEF Typed

LEMMA ThroughTyped ==
    ASSUME LocOK, NEW p \in Procs, NEW from, NEW l \in AllPCs, NEW d \in SUBSET Keys, Through(p, from, l, d)
    PROVE  LocOK'
  BY ThroughNow DEF Typed

\* The types of the tasks' records, as part of TypeOK.
LEMMA LocTyped == TypeOK => LocOK
  BY DEF TypeOK, LocOK, LocType, AllPCs

LEMMA LocStep == CheckpointsInv /\ [Next]_vars => LocOK'
<1> SUFFICES ASSUME CheckpointsInv, [Next]_vars PROVE LocOK'
  OBVIOUS
<1>0. TypeOK /\ Places /\ LocOK
  BY LocTyped DEF CheckpointsInv
<1>a. \A p \in Procs : loc[p].todo \in SUBSET Keys /\ loc[p].key \in Keys \cup {None}
  BY <1>0 DEF LocOK, LocType
<1> USE <1>0, <1>a, Tasks, Objects DEF AllPCs, JobPCs, CleanPCs, PassPCs, SavePCs
<1>1. ASSUME NEW r \in Runs, NEW i \in BOOLEAN, RunStart(r, i) PROVE LocOK'
  BY <1>1, GotoNow DEF RunStart, Typed
<1>2. ASSUME NEW r \in Runs, RunSucceeds(r) PROVE LocOK'
  BY <1>2, EndNow DEF RunSucceeds, Typed
<1>3. ASSUME NEW v \in Views, ViewStart(v) PROVE LocOK'
  BY <1>3, GotoNow DEF ViewStart, Typed
<1>4. ASSUME NEW p \in Jobs, JobStep(p) PROVE LocOK'
  <2>1. CASE ReadLatest(p)
    <3>1. CASE saved # 0 /\ loc' = [loc EXCEPT ![p] = [Idle EXCEPT !.pc = "read", !.key = saved]]
      <4>1. saved \in Keys
        BY <3>1 DEF TypeOK
      <4> QED
        BY <3>1, <4>1, FreshKeyNow DEF Typed
    <3>2. CASE loc' = [loc EXCEPT ![p] = [Idle EXCEPT !.pc = "save", !.todo = {Legacy}]]
      <4>1. {Legacy} \in SUBSET Keys
        OBVIOUS
      <4> QED
        BY ZenonT(60), <3>2, <4>1, FreshListNow DEF Typed
    <3>3. CASE loc' = [loc EXCEPT ![p] = [Idle EXCEPT !.pc = "work"]]
      BY <3>3, FreshNow DEF Typed
    <3>4. CASE Goto(p, "again")
      BY <3>4, GotoNow DEF Typed
    <3>5. CASE End(p)
      BY <3>5, EndNow
    <3> QED
      BY <2>1, <3>1, <3>2, <3>3, <3>4, <3>5 DEF ReadLatest
  <2>2. CASE ReadBytes(p)
    BY <2>2, GotoKeyNow, EndNow DEF ReadBytes, Typed
  <2>3. CASE JobFails(p)
    BY <2>3, EndNow DEF JobFails, Typed
  <2>4. CASE SaveSame(p)
    BY <2>4, GotoKeyNow DEF SaveSame, Typed, Return, TypeOK
  <2>5. CASE SaveBegin(p)
    BY <2>5, GotoKeyNow DEF SaveBegin, Typed, TypeOK
  <2> QED
    BY <1>4, <2>1, <2>2, <2>3, <2>4, <2>5 DEF JobStep
<1>5. ASSUME NEW p \in Jobs \cup {Maint}, SaveStep(p) PROVE LocOK'
  <2>1. CASE PutObject(p)
    BY <2>1, GotoNow DEF PutObject, Typed
  <2>2. CASE PromoteRead(p)
    <3>1. status[Key(p)] \in RevStates
      BY <2>2, Tasks DEF PromoteRead, At, Places, SaverPCs, RecoveryPCs, TypeOK
    <3> QED
      BY <2>2, <3>1, SeenNow DEF PromoteRead
  <2>3. CASE PromoteCommit(p)
    <3>1. Return(p) \in AllPCs
      BY DEF Return
    <3>2. loc' = [loc EXCEPT ![p].pc = Return(p), ![p].seen = "none",
                            ![p].key = IF p \in Runs THEN Key(p) ELSE None]
      BY <2>3 DEF PromoteCommit, Key
    <3>3. (IF p \in Runs THEN Key(p) ELSE None) \in Keys \cup {None}
      BY DEF LocOK, LocType, Key
    <3> QED
      BY ZenonT(60), <3>1, <3>2, <3>3, DecidedNow
  <2>4. CASE PromoteFails(p)
    BY <2>4, RaiseNow DEF PromoteFails, Typed
  <2> QED
    BY <1>5, <2>1, <2>2, <2>3, <2>4 DEF SaveStep
<1>6. ASSUME NEW k \in Keys, UploadStep(k) PROVE LocOK'
  <2>1. CASE UploadCheck(k)
    BY <2>1 DEF UploadCheck, LocOK
  <2>2. CASE UploadDone(k)
    <3>1. \A p \in Procs : loc[p] \in LocType /\ [loc[p] EXCEPT !.pc = IF k \in Runs THEN "confirm" ELSE "promote"] \in LocType
      BY DEF LocOK, LocType
    <3> QED
      BY <2>2, <3>1 DEF UploadDone, LocOK
  <2>3. CASE UploadFails(k)
    BY <2>3, RaiseNow DEF UploadFails, LocOK
  <2> QED
    BY <1>6, <2>1, <2>2, <2>3 DEF UploadStep
<1>7. ASSUME NEW p \in Cleaners, CleanStep(p) PROVE LocOK'
  <2>1. CASE CleanNext(p)
    <3>1. PICK k \in Keys : Take(p, "clean", k, IF NoUpload(k) THEN "delete" ELSE "wait")
      BY <2>1 DEF CleanNext
    <3> QED
      BY <3>1, TakeTyped
  <2>2. CASE CleanWait(p)
    BY <2>2, GotoNow DEF CleanWait, Typed
  <2>3. CASE CleanDelete(p)
    BY <2>3, GotoNow DEF CleanDelete, Typed
  <2>4. CASE CleanFails(p)
    BY <2>4, LoopNow DEF CleanFails, Typed
  <2>5. CASE CleanDrop(p)
    BY <2>5, LoopNow DEF CleanDrop, Typed
  <2>6. CASE CleanTimeout(p)
    <3>1. CASE p = Del
      BY <2>6, <3>1, IdleNow DEF CleanTimeout
    <3>2. CASE p # Del
      <4>1. Loop(p, "clean")
        BY <2>6, <3>2 DEF CleanTimeout, Loop
      <4> QED
        BY <4>1, LoopNow DEF Typed
    <3> QED
      BY <3>1, <3>2
  <2> QED
    BY <1>7, <2>1, <2>2, <2>3, <2>4, <2>5, <2>6 DEF CleanStep
<1>8. ASSUME PassStep PROVE LocOK'
  <2>1. CASE MaintBusy
    BY <2>1, ThroughNow DEF MaintBusy, Typed
  <2>2. CASE MaintList
    BY <2>2, ThroughNow DEF MaintList, Typed
  <2>3. CASE RecoverNext
    <3>1. PICK r \in Revs : Take(Maint, "recover", r, "bytes")
      BY <2>3 DEF RecoverNext
    <3>2. r \in Keys
      OBVIOUS
    <3> QED
      BY <3>1, <3>2, TakeTyped
  <2>4. CASE RecoverBytes
    BY <2>4, GotoNow DEF RecoverBytes, Typed
  <2>5. CASE RecoverFails
    BY <2>5, GotoNow DEF RecoverFails, Typed
  <2>6. CASE Discard
    BY <2>6, LoopNow DEF Discard, Typed
  <2>7. CASE RecoverEnd
    <3> DEFINE d == {r \in Runs : run[r] = "ended" /\ log[r] = "none"}
    <3>1. d \in SUBSET Keys
      OBVIOUS
    <3>2. Through(Maint, "recover", "archive", d)
      BY <2>7 DEF RecoverEnd
    <3> HIDE DEF d
    <3> QED
      BY <3>1, <3>2, ThroughTyped
  <2>8. CASE ArchiveNext
    <3>1. PICK r \in Runs : Take(Maint, "archive", r, IF run[r] = "ended" THEN "put" ELSE "archive")
      BY <2>8 DEF ArchiveNext
    <3>2. r \in Keys
      OBVIOUS
    <3> QED
      BY <3>1, <3>2, TakeTyped
  <2>9. CASE ArchiveConfirm
    BY <2>9, LoopNow DEF ArchiveConfirm, Typed
  <2>10. CASE ArchiveEnd
    BY <2>10, ThroughNow DEF ArchiveEnd, Typed
  <2>11. CASE Retain
    <3> DEFINE d == IF ~busy /\ exists /\ ~Running THEN Expendable ELSE {}
    <3>1. d \in SUBSET Keys
      BY DEF Expendable, Rows
    <3>2. Through(Maint, "retain", "purge", d)
      BY <2>11 DEF Retain
    <3> HIDE DEF d
    <3> QED
      BY <3>1, <3>2, ThroughTyped
  <2>12. CASE Purge
    <3>1. PICK r \in Revs : Take(Maint, "purge", r, "purgerow")
      BY <2>12 DEF Purge
    <3>2. r \in Keys
      OBVIOUS
    <3> QED
      BY <3>1, <3>2, TakeTyped
  <2>13. CASE PurgeRow
    BY <2>13, LoopNow DEF PurgeRow, Typed
  <2>14. ASSUME NEW old \in SUBSET Runs, PurgeEnd(old) PROVE LocOK'
    <3> DEFINE d == {r \in old : log[r] = "archived"}
    <3>1. d \in SUBSET Keys
      OBVIOUS
    <3>2. Through(Maint, "purge", "expire", d)
      BY <2>14 DEF PurgeEnd
    <3> HIDE DEF d
    <3> QED
      BY <3>1, <3>2, ThroughTyped
  <2>15. CASE Expire
    <3>1. PICK r \in Runs : Take(Maint, "expire", r, IF run[r] # "none" THEN "unlog" ELSE "expire")
      BY <2>15 DEF Expire
    <3>2. r \in Keys
      OBVIOUS
    <3> QED
      BY <3>1, <3>2, TakeTyped
  <2>16. CASE Unlog
    BY <2>16, LoopNow DEF Unlog, Typed
  <2>17. CASE PassEnd
    BY <2>17, ThroughNow DEF PassEnd, Typed
  <2> QED
    BY <1>8, <2>1, <2>2, <2>3, <2>4, <2>5, <2>6, <2>7, <2>8, <2>9, <2>10, <2>11, <2>12, <2>13,
      <2>14, <2>15, <2>16, <2>17 DEF PassStep
<1>9. CASE DeleteProject
  <2>1. OwnedKeys \in SUBSET Keys
    BY DEF OwnedKeys, Rows
  <2>2. loc' = [loc EXCEPT ![Del] = [Idle EXCEPT !.pc = "clean", !.todo = OwnedKeys]]
    BY <1>9 DEF DeleteProject
  <2> QED
    BY <2>1, <2>2, FreshListNow DEF Typed
<1>10. CASE DeleteEnd
  BY <1>10, ThroughNow DEF DeleteEnd, Typed
<1>11. CASE MaintBegin
  <2>1. PICK S \in SUBSET intents :
           loc' = [loc EXCEPT ![Maint] = [Idle EXCEPT !.pc = "clean", !.todo = S]]
    BY <1>11 DEF MaintBegin
  <2>2. S \in SUBSET Keys
    BY DEF TypeOK
  <2> QED
    BY ZenonT(60), <2>1, <2>2, FreshListNow DEF Typed
<1>12. CASE PassFails
  BY <1>12, IdleNow DEF PassFails, Typed
<1>13. ASSUME NEW r \in Revs, Age(r) PROVE LocOK'
  BY <1>13 DEF Age, LocOK
<1>14. CASE Crash
  BY <1>14 DEF Crash, LocOK, LocType, Idle, RevStates
<1>15. CASE UNCHANGED vars
  BY <1>15 DEF vars, LocOK
<1> QED
  BY <1>1, <1>2, <1>3, <1>4, <1>5, <1>6, <1>7, <1>8, <1>9, <1>10, <1>11, <1>12, <1>13, <1>14, <1>15
    DEF Next

\* A crash or an aborted pass is counted.
LEMMA OneMore ==
    ASSUME faults \in 0..MaxFaults, faults < MaxFaults, faults' = faults + 1
    PROVE  faults' \in 0..MaxFaults
  BY CheckpointsAssumption

\* TypeOK without the tasks.
TablesOK ==
    /\ exists \in BOOLEAN /\ saved \in 0..MaxRev /\ verified \in 0..MaxRev
    /\ status \in [Revs -> RevStates]
    /\ parent \in [Revs -> 0..MaxRev]
    /\ age \in [Revs -> {"new", "hour", "day"}]
    /\ nextRev \in 0..MaxRev
    /\ run \in [Runs -> {"none", "running", "ended"}]
    /\ log \in [Runs -> {"none", "archived", "expired"}]
    /\ intents \in SUBSET Keys /\ stored \in SUBSET Keys
    /\ up \in [Keys -> {"none", "check", "put"}]
    /\ live \in SUBSET Runs /\ busy \in BOOLEAN /\ faults \in 0..MaxFaults

LEMMA TypeParts == TypeOK <=> TablesOK /\ LocOK
  BY DEF TypeOK, TablesOK, LocOK, LocType, AllPCs

LEMMA TablesStep == CheckpointsInv /\ [Next]_vars => TablesOK'
<1> SUFFICES ASSUME CheckpointsInv, [Next]_vars PROVE TablesOK'
  OBVIOUS
<1>0. TablesOK /\ Places
  BY TypeParts DEF CheckpointsInv
<1> USE <1>0, Tasks, Objects, CheckpointsAssumption DEF TablesOK, RevStates
<1>1. ASSUME NEW r \in Runs, NEW i \in BOOLEAN, RunStart(r, i) PROVE TablesOK'
  BY <1>1 DEF RunStart
<1>2. ASSUME NEW r \in Runs, RunSucceeds(r) PROVE TablesOK'
  <2>1. Key(r) \in Revs
    BY <1>2 DEF RunSucceeds, Places
  <2> QED
    BY SMTT(30), <1>2, <2>1 DEF RunSucceeds, End
<1>3. ASSUME NEW v \in Views, ViewStart(v) PROVE TablesOK'
  BY <1>3 DEF ViewStart
<1>4. ASSUME NEW p \in Jobs, JobStep(p) PROVE TablesOK'
  <2>1. CASE ReadLatest(p)
    BY <2>1 DEF ReadLatest, End
  <2>2. CASE ReadBytes(p)
    BY ZenonT(60), <2>2 DEF ReadBytes, End
  <2>3. CASE JobFails(p)
    BY <2>3 DEF JobFails, End
  <2>4. CASE SaveSame(p)
    BY <2>4 DEF SaveSame
  <2>5. CASE SaveBegin(p)
    BY <2>5 DEF SaveBegin
  <2> QED
    BY <1>4, <2>1, <2>2, <2>3, <2>4, <2>5 DEF JobStep
<1>5. ASSUME NEW p \in Jobs \cup {Maint}, SaveStep(p) PROVE TablesOK'
  <2>1. CASE PutObject(p)
    BY <2>1 DEF PutObject
  <2>2. CASE PromoteRead(p)
    BY <2>2 DEF PromoteRead
  <2>3. CASE PromoteCommit(p)
    <3>1. Key(p) \in Revs
      BY <2>3 DEF PromoteCommit, Places, SaverPCs, RecoveryPCs, At
    <3>2. saved' \in 0..MaxRev /\ status' \in [Revs -> RevStates]
      BY <2>3, <3>1 DEF PromoteCommit
    <3>3. UNCHANGED <<exists, verified, parent, age, nextRev, run, log, intents, stored, up, live, busy, faults>>
      BY <2>3 DEF PromoteCommit
    <3> QED
      BY <3>2, <3>3
  <2>4. CASE PromoteFails(p)
    BY <2>4 DEF PromoteFails, Raise, End
  <2> QED
    BY <1>5, <2>1, <2>2, <2>3, <2>4 DEF SaveStep
<1>6. ASSUME NEW k \in Keys, UploadStep(k) PROVE TablesOK'
  <2>1. CASE UploadCheck(k)
    BY <2>1 DEF UploadCheck
  <2>2. CASE UploadDone(k)
    BY <2>2 DEF UploadDone
  <2>3. CASE UploadFails(k)
    <3>1. stored' \in SUBSET Keys /\ up' \in [Keys -> {"none", "check", "put"}]
      BY <2>3 DEF UploadFails
    <3>2. live' \in SUBSET Runs /\ run' \in [Runs -> {"none", "running", "ended"}]
      <4>1. CASE UNCHANGED <<live, run>>
        BY <4>1
      <4>2. ASSUME NEW q, End(q)
            PROVE  live' \in SUBSET Runs /\ run' \in [Runs -> {"none", "running", "ended"}]
        BY <4>2 DEF End
      <4> QED
        BY <2>3, <4>1, <4>2 DEF UploadFails, Raise
    <3> QED
      BY <2>3, <3>1, <3>2 DEF UploadFails
  <2> QED
    BY <1>6, <2>1, <2>2, <2>3 DEF UploadStep
<1>7. ASSUME NEW p \in Cleaners, CleanStep(p) PROVE TablesOK'
  <2>1. CASE CleanNext(p)
    BY <2>1 DEF CleanNext
  <2>2. CASE CleanWait(p)
    BY <2>2 DEF CleanWait
  <2>3. CASE CleanDelete(p)
    BY <2>3 DEF CleanDelete
  <2>4. CASE CleanFails(p)
    BY <2>4 DEF CleanFails
  <2>5. CASE CleanDrop(p)
    BY <2>5 DEF CleanDrop
  <2>6. CASE CleanTimeout(p)
    BY <2>6 DEF CleanTimeout
  <2> QED
    BY <1>7, <2>1, <2>2, <2>3, <2>4, <2>5, <2>6 DEF CleanStep
<1>8. ASSUME PassStep PROVE TablesOK'
  <2>1. CASE MaintBusy
    BY <2>1 DEF MaintBusy
  <2>2. CASE MaintList
    BY <2>2 DEF MaintList
  <2>3. CASE RecoverNext
    BY <2>3 DEF RecoverNext
  <2>4. CASE RecoverBytes
    BY <2>4 DEF RecoverBytes
  <2>5. CASE RecoverFails
    BY <2>5 DEF RecoverFails
  <2>6. CASE Discard
    BY <2>6 DEF Discard
  <2>7. CASE RecoverEnd
    BY <2>7 DEF RecoverEnd
  <2>8. CASE ArchiveNext
    BY <2>8 DEF ArchiveNext
  <2>9. CASE ArchiveConfirm
    BY <2>9 DEF ArchiveConfirm
  <2>10. CASE ArchiveEnd
    BY <2>10 DEF ArchiveEnd
  <2>11. CASE Retain
    BY <2>11 DEF Retain
  <2>12. CASE Purge
    BY <2>12 DEF Purge
  <2>13. CASE PurgeRow
    BY <2>13 DEF PurgeRow, RemoveRows
  <2>14. ASSUME NEW old \in SUBSET Runs, PurgeEnd(old) PROVE TablesOK'
    BY <2>14 DEF PurgeEnd
  <2>15. CASE Expire
    BY <2>15 DEF Expire
  <2>16. CASE Unlog
    BY <2>16 DEF Unlog
  <2>17. CASE PassEnd
    BY <2>17 DEF PassEnd
  <2> QED
    BY <1>8, <2>1, <2>2, <2>3, <2>4, <2>5, <2>6, <2>7, <2>8, <2>9, <2>10, <2>11, <2>12, <2>13,
      <2>14, <2>15, <2>16, <2>17 DEF PassStep
<1>9. CASE DeleteProject
  <2>1. intents' \in SUBSET Keys
    BY <1>9 DEF DeleteProject, OwnedKeys, Rows
  <2>2. /\ status' \in [Revs -> RevStates] /\ parent' \in [Revs -> 0..MaxRev]
        /\ age' \in [Revs -> {"new", "hour", "day"}]
    BY <1>9 DEF DeleteProject, RemoveRows
  <2>3. run' \in [Runs -> {"none", "running", "ended"}] /\ log' \in [Runs -> {"none", "archived", "expired"}]
    BY <1>9 DEF DeleteProject
  <2>4. exists' \in BOOLEAN
    <3>1. exists' = FALSE
      BY <1>9 DEF DeleteProject
    <3> QED  BY <3>1
  <2>5. saved' \in 0..MaxRev /\ verified' \in 0..MaxRev
    BY <1>9 DEF DeleteProject
  <2>6. UNCHANGED <<nextRev, stored, up, live, busy, faults>>
    BY <1>9 DEF DeleteProject
  <2> QED
    BY <2>1, <2>2, <2>3, <2>4, <2>5, <2>6
<1>10. CASE DeleteEnd
  BY <1>10 DEF DeleteEnd
<1>11. CASE MaintBegin
  BY <1>11 DEF MaintBegin
<1>12. CASE PassFails
  <2>1. stored' \in SUBSET Keys
    BY <1>12 DEF PassFails
  <2>2. faults' \in 0..MaxFaults /\ busy' \in BOOLEAN
    BY <1>12, OneMore DEF PassFails
  <2>3. UNCHANGED <<exists, saved, verified, status, parent, age, nextRev, run, log, intents, up, live>>
    BY <1>12 DEF PassFails
  <2> QED
    BY <2>1, <2>2, <2>3
<1>13. ASSUME NEW r \in Revs, Age(r) PROVE TablesOK'
  BY <1>13 DEF Age
<1>14. CASE Crash
  <2>1. stored' \in SUBSET Keys /\ up' \in [Keys -> {"none", "check", "put"}]
    BY <1>14 DEF Crash
  <2>2. run' \in [Runs -> {"none", "running", "ended"}]
    BY <1>14 DEF Crash
  <2>3. faults' \in 0..MaxFaults /\ busy' \in BOOLEAN /\ live' \in SUBSET Runs
    BY <1>14, OneMore DEF Crash
  <2>4. UNCHANGED <<exists, saved, verified, status, parent, age, nextRev, log, intents>>
    BY <1>14 DEF Crash
  <2> QED
    BY <2>1, <2>2, <2>3, <2>4
<1>15. CASE UNCHANGED vars
  BY <1>15 DEF vars
<1> HIDE DEF TablesOK
<1> QED
  BY <1>1, <1>2, <1>3, <1>4, <1>5, <1>6, <1>7, <1>8, <1>9, <1>10, <1>11, <1>12, <1>13, <1>14, <1>15
    DEF Next

----------------------------------------------------------------------------
(* What the actions with several outcomes do to the tasks.                 *)

LEMMA ReadLatestMoves ==
    ASSUME LocOK, NEW p \in Jobs, ReadLatest(p)
    PROVE  \/ /\ saved # 0 /\ status[saved] = "ready" /\ Now(p, "read", saved, "none", {})
              /\ UNCHANGED <<live, run>>
           \/ Now(p, "save", None, "none", {Legacy}) /\ UNCHANGED <<live, run>>
           \/ Now(p, "again", loc[p].key, loc[p].seen, loc[p].todo) /\ UNCHANGED <<live, run>>
           \/ p \in Runs /\ Now(p, "work", None, "none", {}) /\ UNCHANGED <<live, run>>
           \/ End(p) /\ Now(p, "idle", None, "none", {})
<1> USE Tasks
<1>1. CASE /\ saved # 0 /\ status[saved] = "ready" /\ UNCHANGED <<live, run>>
           /\ loc' = [loc EXCEPT ![p] = [Idle EXCEPT !.pc = "read", !.key = saved]]
  BY <1>1, FreshKeyNow
<1>2. CASE /\ loc' = [loc EXCEPT ![p] = [Idle EXCEPT !.pc = "save", !.todo = {Legacy}]]
           /\ UNCHANGED <<live, run>>
  BY <1>2, FreshListNow
<1>3. CASE Goto(p, "again") /\ UNCHANGED <<live, run>>
  BY <1>3, GotoNow
<1>4. CASE /\ p \in Runs /\ loc' = [loc EXCEPT ![p] = [Idle EXCEPT !.pc = "work"]]
           /\ UNCHANGED <<live, run>>
  BY <1>4, FreshNow
<1>5. CASE End(p)
  BY <1>5, EndNow
<1> QED
  BY <1>1, <1>2, <1>3, <1>4, <1>5 DEF ReadLatest

LEMMA CleanTimeoutMoves ==
    ASSUME LocOK, NEW p \in Cleaners, CleanTimeout(p)
    PROVE  /\ loc[p].pc \in {"wait", "delete", "drop"}
           /\ \/ p = Del /\ Now(p, "idle", None, "none", {})
              \/ p = Maint /\ Now(p, "clean", None, loc[p].seen, loc[p].todo)
<1> USE Tasks
<1>1. CASE p = Del
  BY <1>1, IdleNow DEF CleanTimeout, At
<1>2. CASE p # Del
  <2>1. Loop(p, "clean")
    BY <1>2 DEF CleanTimeout, Loop
  <2> QED
    BY <1>2, <2>1, LoopNow DEF CleanTimeout, At
<1> QED
  BY <1>1, <1>2

LEMMA UploadDoneMoves ==
    ASSUME LocOK, NEW k \in Keys, UploadDone(k)
    PROVE  \A p \in Procs :
             \/ ~Waits(p, k) /\ loc'[p] = loc[p]
             \/ /\ Waits(p, k)
                /\ loc'[p].pc = IF k \in Runs THEN "confirm" ELSE "promote"
                /\ loc'[p].key = loc[p].key /\ loc'[p].seen = loc[p].seen /\ loc'[p].todo = loc[p].todo
<1> SUFFICES ASSUME NEW p \in Procs, Waits(p, k)
             PROVE  /\ loc'[p].pc = IF k \in Runs THEN "confirm" ELSE "promote"
                    /\ loc'[p].key = loc[p].key /\ loc'[p].seen = loc[p].seen /\ loc'[p].todo = loc[p].todo
  BY DEF UploadDone
<1>1. loc'[p] = [loc[p] EXCEPT !.pc = IF k \in Runs THEN "confirm" ELSE "promote"]
  BY DEF UploadDone
<1>2. loc[p] \in LocType
  BY DEF LocOK
<1> QED
  BY <1>1, <1>2 DEF LocType

LEMMA UploadFailsMoves ==
    ASSUME LocOK, NEW k \in Keys, UploadFails(k)
    PROVE  \/ UNCHANGED <<loc, live, run>>
           \/ \E p \in Jobs : Waits(p, k) /\ End(p) /\ Now(p, "idle", None, "none", {})
           \/ \E p \in {Maint, Del} :
                /\ Waits(p, k) /\ UNCHANGED <<live, run>>
                /\ \/ k \in Runs /\ Now(p, "archive", None, "none", loc[p].todo)
                   \/ k \notin Runs /\ Now(p, "discard", k, "none", loc[p].todo)
<1>1. CASE UNCHANGED <<loc, live, run>>
  BY <1>1
<1>2. ASSUME NEW p \in Procs, Waits(p, k), Raise(p)
      PROVE  \/ \E q \in Jobs : Waits(q, k) /\ End(q) /\ Now(q, "idle", None, "none", {})
             \/ \E q \in {Maint, Del} :
                  /\ Waits(q, k) /\ UNCHANGED <<live, run>>
                  /\ \/ k \in Runs /\ Now(q, "archive", None, "none", loc[q].todo)
                     \/ k \notin Runs /\ Now(q, "discard", k, "none", loc[q].todo)
  <2>1. Key(p) = k
    BY <1>2 DEF Waits
  <2>2. p \in Jobs \/ p \in {Maint, Del}
    BY Tasks
  <2> QED
    BY <1>2, <2>1, <2>2, RaiseNow, Tasks
<1> QED
  BY <1>1, <1>2 DEF UploadFails

LEMMA MaintBeginMoves ==
    ASSUME LocOK, MaintBegin
    PROVE  \E S \in SUBSET intents : Now(Maint, "clean", None, "none", S)
<1>1. PICK S \in SUBSET intents :
        loc' = [loc EXCEPT ![Maint] = [Idle EXCEPT !.pc = "clean", !.todo = S]]
  BY DEF MaintBegin
<1>2. Now(Maint, "clean", None, "none", S)
  BY <1>1, FreshListNow, Tasks
<1> QED
  BY <1>2

LEMMA PromoteCommitMoves ==
    ASSUME LocOK, NEW p \in Jobs \cup {Maint}, PromoteCommit(p)
    PROVE  Now(p, Return(p), IF p \in Runs THEN Key(p) ELSE None, "none", loc[p].todo)
<1>1. loc' = [loc EXCEPT ![p].pc = Return(p), ![p].seen = "none",
                         ![p].key = IF p \in Runs THEN Key(p) ELSE None]
  BY DEF PromoteCommit, Key
<1>2. Return(p) \in AllPCs
  BY DEF Return, AllPCs, JobPCs, PassPCs
<1>3. (IF p \in Runs THEN Key(p) ELSE None) \in Keys \cup {None}
  BY Tasks DEF LocOK, LocType, Key
<1> QED
  BY <1>1, <1>2, <1>3, DecidedNow, Tasks

LEMMA PromoteReadMoves ==
    ASSUME CheckpointsInv, NEW p \in Jobs \cup {Maint}, PromoteRead(p)
    PROVE  Now(p, "locked", Key(p), status[Key(p)], loc[p].todo) /\ Key(p) \in 1..nextRev
<1> USE Tasks
<1>0. TypeOK /\ LocOK /\ Places
  BY LocTyped DEF CheckpointsInv
<1>1. Key(p) \in 1..nextRev
  BY <1>0 DEF PromoteRead, At, Places, SaverPCs, RecoveryPCs
<1>2. status[Key(p)] \in RevStates
  BY <1>0, <1>1, Objects DEF TypeOK
<1> QED
  BY <1>0, <1>1, <1>2, SeenNow DEF PromoteRead, Key, AllPCs, JobPCs, SavePCs

LEMMA CrashMoves ==
    ASSUME Crash
    PROVE  \A p \in Procs : /\ loc'[p].pc = "idle" /\ loc'[p].key = None
                            /\ loc'[p].seen = "none" /\ loc'[p].todo = {}
  BY DEF Crash, Idle

----------------------------------------------------------------------------
(* The parts of the invariant.                                             *)

\* promote() decides on a status it read before it had the lock; that the saved
\* revision is still the parent tells that nobody promoted, gave up or removed the
\* row since: it is pending, and its object is stored.
LEMMA PromotionIsPending ==
    ASSUME CheckpointsInv, NEW p \in Jobs \cup {Maint}, At(p, "locked"), Promotable(p)
    PROVE  /\ exists /\ Key(p) \in 1..nextRev /\ Key(p) \in Revs /\ Key(p) \in stored
           /\ status[Key(p)] = "pending" /\ parent[Key(p)] = saved /\ saved < Key(p)
<1> USE Tasks, Objects
<1>0. /\ TablesOK /\ Places /\ Ordered /\ SaversCurrent /\ RecoverySound /\ PromotesStored
      /\ exists /\ saved = parent[Key(p)]
  BY TypeParts DEF CheckpointsInv, Promotable
<1>1. Key(p) \in 1..nextRev /\ Key(p) \in Revs
  BY <1>0 DEF At, Places, SaverPCs, RecoveryPCs, TablesOK
<1>2. saved < Key(p)
  BY <1>0, <1>1 DEF Ordered
<1>3. status[Key(p)] = "pending"
  <2>1. CASE p \in Jobs
    BY <1>0, <1>1, <1>2, <2>1 DEF SaversCurrent, At, SaverPCs, TablesOK
  <2>2. CASE p = Maint
    BY <1>0, <1>1, <1>2, <2>2 DEF RecoverySound, At, RecoveryPCs, Ordered, TablesOK
  <2> QED
    BY <2>1, <2>2
<1>4. Key(p) \in stored
  BY <1>0, <1>3 DEF PromotesStored, At
<1> QED
  BY <1>0, <1>1, <1>2, <1>3, <1>4

----------------------------------------------------------------------------
(* What a step does to each of the tasks: the actions, seen from one task. *)

Alone(p) == \A q \in Procs : q # p => loc'[q] = loc[q]

Stays(p) == loc'[p].key = loc[p].key /\ loc'[p].todo = loc[p].todo

Insert ==
    /\ exists /\ exists' /\ nextRev + 1 \in Revs /\ nextRev' = nextRev + 1
    /\ status'[nextRev + 1] = "pending"
    /\ UNCHANGED <<age, up, stored>>

JobMove(p) ==
    \/ loc'[p] = loc[p]
    \/ loc'[p].pc \in {"idle", "source", "again", "read", "save"}
    \/ /\ p \in Runs /\ loc'[p].pc = "work"
       /\ \/ loc'[p].key = None
          \/ loc'[p].key \in Revs /\ status'[loc'[p].key] = "ready"
          \/ At(p, "locked") /\ loc[p].seen = "ready" /\ loc'[p].key = loc[p].key /\ UNCHANGED status
    \/ loc'[p].pc = "put" /\ loc'[p].key = nextRev + 1 /\ Insert /\ Alone(p)
    \/ At(p, "put") /\ loc'[p].pc = "upload" /\ loc'[p].key = loc[p].key
    \/ At(p, "upload") /\ loc'[p].pc = "promote" /\ loc'[p].key = loc[p].key /\ loc[p].key \in stored'
    \/ /\ At(p, "promote") /\ loc'[p].pc = "locked" /\ loc'[p].key = loc[p].key
       /\ loc'[p].seen = status[loc[p].key] /\ UNCHANGED <<status, stored>>

CleanMove(p) ==
    \/ /\ At(p, "clean") /\ loc'[p].pc \in {"wait", "delete"} /\ loc'[p].key \in loc[p].todo
       /\ loc'[p].pc = "delete" => up[loc'[p].key] = "none"
       /\ UNCHANGED up
    \/ At(p, "wait") /\ loc'[p].pc = "delete" /\ Stays(p) /\ up[loc[p].key] = "none" /\ UNCHANGED up
    \/ At(p, "delete") /\ loc'[p].pc = "drop" /\ Stays(p) /\ loc[p].key \notin stored' /\ UNCHANGED up
    \/ loc[p].pc \in CleanPCs \ {"clean"} /\ loc'[p].pc = "clean"

RecoveryMove ==
    \/ /\ At(Maint, "list") /\ loc'[Maint].pc = "recover" /\ UNCHANGED status
       /\ loc'[Maint].todo \subseteq {r \in Revs : status[r] = "pending"}
    \/ /\ At(Maint, "recover") /\ loc'[Maint].pc = "bytes" /\ loc'[Maint].key \in loc[Maint].todo
       /\ loc'[Maint].todo = loc[Maint].todo \ {loc'[Maint].key} /\ UNCHANGED status
    \/ /\ At(Maint, "bytes") /\ loc'[Maint].pc = "promote" /\ Stays(Maint)
       /\ loc[Maint].key \in stored /\ UNCHANGED <<status, stored>>
    \/ /\ At(Maint, "promote") /\ loc'[Maint].pc = "locked" /\ Stays(Maint) /\ UNCHANGED <<status, stored>>
    \/ /\ loc[Maint].pc \in RecoveryPCs /\ loc'[Maint].pc = "discard" /\ Stays(Maint) /\ UNCHANGED status
    \/ /\ loc[Maint].pc \in RecoveryPCs /\ loc'[Maint].pc = "recover" /\ loc'[Maint].todo = loc[Maint].todo

ArchiveMove ==
    \/ At(Maint, "recover") /\ loc'[Maint].pc = "archive" /\ loc'[Maint].todo \subseteq Runs
    \/ /\ loc[Maint].pc \in ArchivePCs \cup {"archive"} /\ loc'[Maint].pc = "archive"
       /\ loc'[Maint].todo \subseteq loc[Maint].todo
    \/ /\ At(Maint, "archive") /\ loc'[Maint].pc = "put" /\ loc'[Maint].key \in loc[Maint].todo
       /\ loc'[Maint].todo \subseteq loc[Maint].todo
       /\ run[loc'[Maint].key] = "ended" /\ UNCHANGED run
    \/ At(Maint, "put") /\ loc'[Maint].pc = "upload" /\ Stays(Maint)
    \/ At(Maint, "upload") /\ loc'[Maint].pc = "confirm" /\ Stays(Maint)

PurgeMove ==
    \/ /\ At(Maint, "retain") /\ loc'[Maint].pc = "purge"
       /\ loc'[Maint].todo \subseteq {r \in Revs : status'[r] = "deleting"}
    \/ /\ At(Maint, "purge") /\ loc'[Maint].pc = "purgerow" /\ loc'[Maint].key \in loc[Maint].todo
       /\ loc'[Maint].todo \subseteq loc[Maint].todo
       /\ loc'[Maint].key \notin stored' /\ UNCHANGED status
    \/ At(Maint, "purgerow") /\ loc'[Maint].pc = "purge" /\ loc'[Maint].todo = loc[Maint].todo
    \/ At(Maint, "purge") /\ loc'[Maint].pc = "expire" /\ loc'[Maint].todo \subseteq Runs
    \/ /\ loc[Maint].pc \in {"expire", "unlog"} /\ loc'[Maint].pc = "expire"
       /\ loc'[Maint].todo \subseteq loc[Maint].todo
    \/ /\ At(Maint, "expire") /\ loc'[Maint].pc = "unlog" /\ loc'[Maint].key \in loc[Maint].todo
       /\ loc'[Maint].todo \subseteq loc[Maint].todo

MaintMove ==
    \/ loc'[Maint] = loc[Maint]
    \/ loc'[Maint].pc \in {"idle", "list", "retain"}
    \/ loc'[Maint].pc = "clean" /\ loc'[Maint].todo \subseteq intents /\ UNCHANGED intents
    \/ CleanMove(Maint) \/ RecoveryMove \/ ArchiveMove \/ PurgeMove

DelMove ==
    \/ loc'[Del] = loc[Del]
    \/ loc'[Del].pc = "idle"
    \/ loc'[Del].pc = "clean" /\ ~exists'
    \/ CleanMove(Del)

TasksMove == (\A p \in Jobs : JobMove(p)) /\ MaintMove /\ DelMove

\* One task moves.
LEMMA OneMoves ==
    ASSUME NEW p \in Procs, Alone(p),
           p \in Jobs => JobMove(p), p = Maint => MaintMove, p = Del => DelMove
    PROVE  TasksMove
<1>1. ASSUME NEW q \in Jobs PROVE JobMove(q)
  BY Tasks DEF JobMove, Alone
<1>2. MaintMove
  BY Tasks DEF MaintMove, Alone
<1>3. DelMove
  BY Tasks DEF DelMove, Alone
<1> QED
  BY <1>1, <1>2, <1>3 DEF TasksMove

LEMMA NoneMoves == UNCHANGED loc => TasksMove
  BY DEF TasksMove, JobMove, MaintMove, DelMove

\* Every step moves the tasks so.
LEMMA StepTasks == CheckpointsInv /\ [Next]_vars => TasksMove
<1> SUFFICES ASSUME CheckpointsInv, [Next]_vars PROVE TasksMove
  OBVIOUS
<1>0. TablesOK /\ LocOK /\ Places
  BY TypeParts DEF CheckpointsInv
<1>l. LocOK
  BY <1>0
<1> USE <1>l, Tasks, Objects
<1>1. ASSUME NEW r \in Runs, NEW i \in BOOLEAN, RunStart(r, i) PROVE TasksMove
  <2>1. Now(r, "source", loc[r].key, loc[r].seen, loc[r].todo)
    BY <1>1, GotoNow DEF RunStart
  <2>2. Alone(r) /\ JobMove(r)
    BY <1>1, <2>1 DEF Now, Alone, JobMove
  <2> QED
    BY <2>2, OneMoves
<1>2. ASSUME NEW r \in Runs, RunSucceeds(r) PROVE TasksMove
  <2>1. Now(r, "idle", None, "none", {})
    BY <1>2, EndNow DEF RunSucceeds
  <2>2. Alone(r) /\ JobMove(r)
    BY <1>2, <2>1 DEF Now, Alone, JobMove
  <2> QED
    BY <2>2, OneMoves
<1>3. ASSUME NEW v \in Views, ViewStart(v) PROVE TasksMove
  <2>1. Now(v, "source", loc[v].key, loc[v].seen, loc[v].todo)
    BY <1>3, GotoNow DEF ViewStart
  <2>2. Alone(v) /\ JobMove(v)
    BY <1>3, <2>1 DEF Now, Alone, JobMove
  <2> QED
    BY <2>2, OneMoves
<1>4. ASSUME NEW p \in Jobs, JobStep(p) PROVE TasksMove
  <2>1. CASE ReadLatest(p)
    <3>1. Alone(p) /\ JobMove(p)
      BY <2>1, ReadLatestMoves DEF Now, Alone, JobMove
    <3> QED
      BY <3>1, OneMoves
  <2>2. CASE ReadBytes(p)
    <3>1. (p \in Runs /\ Now(p, "work", None, loc[p].seen, loc[p].todo)) \/ Now(p, "idle", None, "none", {})
      BY <2>2, GotoKeyNow, EndNow DEF ReadBytes
    <3>2. Alone(p) /\ JobMove(p)
      BY <3>1 DEF Now, Alone, JobMove
    <3> QED
      BY <3>2, OneMoves
  <2>3. CASE JobFails(p)
    <3>1. Now(p, "idle", None, "none", {})
      BY <2>3, EndNow DEF JobFails
    <3>2. Alone(p) /\ JobMove(p)
      BY <2>3, <3>1 DEF Now, Alone, JobMove
    <3> QED
      BY <3>2, OneMoves
  <2>4. CASE SaveSame(p)
    <3>1. /\ Now(p, Return(p), saved, loc[p].seen, loc[p].todo) /\ saved \in Revs
          /\ status[saved] = "ready" /\ UNCHANGED status
      BY <2>4, GotoKeyNow, <1>0 DEF SaveSame, TablesOK
    <3>2. Return(p) = "again" \/ (p \in Runs /\ Return(p) = "work")
      BY DEF Return
    <3>3. Alone(p) /\ JobMove(p)
      BY <3>1, <3>2 DEF Now, Alone, JobMove
    <3> QED
      BY <3>3, OneMoves
  <2>5. CASE SaveBegin(p)
    <3>1. Now(p, "put", nextRev + 1, loc[p].seen, loc[p].todo)
      BY <2>5, GotoKeyNow DEF SaveBegin
    <3>2. Insert
      BY <2>5, <1>0 DEF SaveBegin, Insert, TablesOK
    <3>3. Alone(p) /\ JobMove(p)
      BY <3>1, <3>2 DEF Now, Alone, JobMove
    <3> QED
      BY <3>3, OneMoves
  <2> QED
    BY <1>4, <2>1, <2>2, <2>3, <2>4, <2>5 DEF JobStep
<1>5. ASSUME NEW p \in Jobs \cup {Maint}, SaveStep(p) PROVE TasksMove
  <2>1. CASE PutObject(p)
    <3>1. At(p, "put") /\ Now(p, "upload", loc[p].key, loc[p].seen, loc[p].todo)
      BY <2>1, GotoNow DEF PutObject
    <3>2. Alone(p)
      BY <3>1 DEF Now, Alone
    <3>3. CASE p \in Jobs
      <4>1. JobMove(p)
        BY <2>1, <3>1, <3>3 DEF Now, JobMove, At, Key
      <4> QED
        BY <3>2, <3>3, <4>1, OneMoves
    <3>4. CASE p = Maint
      <4>1. MaintMove
        BY <2>1, <3>1, <3>4 DEF Now, MaintMove, Stays, At, ArchiveMove
      <4> QED
        BY <3>2, <3>4, <4>1, OneMoves
    <3> QED
      BY <3>3, <3>4
  <2>2. CASE PromoteRead(p)
    <3>1. At(p, "promote") /\ Now(p, "locked", Key(p), status[Key(p)], loc[p].todo) /\ UNCHANGED <<status, stored>>
      BY <2>2, PromoteReadMoves DEF PromoteRead
    <3>2. Alone(p)
      BY <3>1 DEF Now, Alone
    <3>3. CASE p \in Jobs
      <4>1. JobMove(p)
        BY <2>2, <3>1, <3>3 DEF Now, JobMove, At, Key
      <4> QED
        BY <3>2, <3>3, <4>1, OneMoves
    <3>4. CASE p = Maint
      <4>1. MaintMove
        BY <2>2, <3>1, <3>4 DEF Now, MaintMove, Stays, At, RecoveryMove, Key
      <4> QED
        BY <3>2, <3>4, <4>1, OneMoves
    <3> QED
      BY <3>3, <3>4
  <2>3. CASE PromoteCommit(p)
    <3>1. At(p, "locked") /\ Now(p, Return(p), IF p \in Runs THEN Key(p) ELSE None, "none", loc[p].todo)
      BY <2>3, PromoteCommitMoves DEF PromoteCommit
    <3>2. Alone(p)
      BY <3>1 DEF Now, Alone
    <3>3. CASE p \in Jobs
      <4>1. \/ loc[p].seen = "ready" /\ UNCHANGED status
            \/ Key(p) \in Revs /\ status'[Key(p)] = "ready"
        <5>1. CASE loc[p].seen = "ready"
          BY <2>3, <5>1 DEF PromoteCommit
        <5>2. CASE loc[p].seen # "ready"
          <6>1. Promotable(p) /\ status' = [status EXCEPT ![Key(p)] = "ready"]
            BY <2>3, <5>2 DEF PromoteCommit
          <6>2. Key(p) \in Revs
            BY <3>1, <6>1, PromotionIsPending
          <6> QED
            BY <6>1, <6>2, <1>0 DEF TablesOK
        <5> QED
          BY <5>1, <5>2
      <4>2. Return(p) = "again" \/ (p \in Runs /\ Return(p) = "work")
        BY <3>3 DEF Return
      <4>3. JobMove(p)
        BY <3>1, <4>1, <4>2 DEF Now, JobMove, Key
      <4> QED
        BY <3>2, <3>3, <4>3, OneMoves
    <3>4. CASE p = Maint
      <4>1. MaintMove
        BY <3>1, <3>4 DEF Now, MaintMove, RecoveryMove, RecoveryPCs, At, Return
      <4> QED
        BY <3>2, <3>4, <4>1, OneMoves
    <3> QED
      BY <3>3, <3>4
  <2>4. CASE PromoteFails(p)
    <3>1. CASE p \in Jobs
      <4>1. Now(p, "idle", None, "none", {})
        BY <2>4, <3>1, RaiseNow DEF PromoteFails
      <4>2. Alone(p) /\ JobMove(p)
        BY <4>1 DEF Now, Alone, JobMove
      <4> QED
        BY <3>1, <4>2, OneMoves
    <3>2. CASE p = Maint
      <4>1. loc[Maint].pc \in {"promote", "locked"} /\ Key(Maint) \notin Runs
        BY <2>4, <3>2, <1>0 DEF PromoteFails, Places, RecoveryPCs, At, TablesOK
      <4>2. Now(Maint, "discard", Key(Maint), "none", loc[Maint].todo) /\ UNCHANGED status
        BY <2>4, <3>2, <4>1, RaiseNow DEF PromoteFails
      <4>3. Alone(Maint) /\ MaintMove
        BY <4>1, <4>2 DEF Now, Alone, MaintMove, RecoveryMove, RecoveryPCs, Stays, Key
      <4> QED
        BY <4>3, OneMoves
    <3> QED
      BY <3>1, <3>2
  <2> QED
    BY <1>5, <2>1, <2>2, <2>3, <2>4 DEF SaveStep
<1>6. ASSUME NEW k \in Keys, UploadStep(k) PROVE TasksMove
  <2>1. CASE UploadCheck(k)
    BY <2>1, NoneMoves DEF UploadCheck
  <2>2. CASE UploadDone(k)
    <3>1. ASSUME NEW p \in Jobs PROVE JobMove(p)
      <4>1. CASE Waits(p, k)
        <5>1. At(p, "upload") /\ loc[p].key = k /\ k \notin Runs /\ k \in stored'
          BY <2>2, <4>1, <1>0 DEF Waits, Key, At, Places, SaverPCs, UploadDone, TablesOK
        <5> QED
          BY <2>2, <4>1, <5>1, UploadDoneMoves DEF JobMove
      <4> QED
        BY <2>2, <4>1, UploadDoneMoves DEF JobMove
    <3>2. MaintMove
      <4>1. CASE Waits(Maint, k)
        <5>1. At(Maint, "upload") /\ loc[Maint].key = k /\ k \in Runs
          BY <4>1, <1>0 DEF Waits, Key, At, Places, ArchivePCs
        <5> QED
          BY <2>2, <4>1, <5>1, UploadDoneMoves DEF MaintMove, ArchiveMove, Stays
      <4> QED
        BY <2>2, <4>1, UploadDoneMoves DEF MaintMove
    <3>3. DelMove
      <4>1. ~Waits(Del, k)
        BY <1>0 DEF Waits, At, Places, CleanPCs
      <4> QED
        BY <2>2, <4>1, UploadDoneMoves DEF DelMove
    <3> QED
      BY <3>1, <3>2, <3>3 DEF TasksMove
  <2>3. CASE UploadFails(k)
    <3>1. CASE UNCHANGED loc
      BY <3>1, NoneMoves
    <3>2. ASSUME NEW p \in Jobs, Now(p, "idle", None, "none", {}) PROVE TasksMove
      <4>1. Alone(p) /\ JobMove(p)
        BY <3>2 DEF Now, Alone, JobMove
      <4> QED
        BY <4>1, OneMoves
    <3>3. ~Waits(Del, k) /\ (Waits(Maint, k) => At(Maint, "upload") /\ k \in Runs)
      BY <1>0 DEF Waits, At, Key, Places, CleanPCs, ArchivePCs
    <3>4. CASE At(Maint, "upload") /\ Now(Maint, "archive", None, "none", loc[Maint].todo)
      <4>1. Alone(Maint) /\ MaintMove
        BY <3>4 DEF Now, Alone, MaintMove, ArchiveMove, ArchivePCs, At
      <4> QED
        BY <4>1, OneMoves
    <3> QED
      BY <2>3, <3>1, <3>2, <3>3, <3>4, UploadFailsMoves
  <2> QED
    BY <1>6, <2>1, <2>2, <2>3 DEF UploadStep
<1>7. ASSUME NEW p \in Cleaners, CleanStep(p) PROVE TasksMove
  <2>1. CASE CleanNext(p)
    <3>1. PICK j \in Keys : Take(p, "clean", j, IF NoUpload(j) THEN "delete" ELSE "wait")
      BY <2>1 DEF CleanNext
    <3>2. /\ Now(p, IF NoUpload(j) THEN "delete" ELSE "wait", j, loc[p].seen, loc[p].todo \ {j})
          /\ At(p, "clean") /\ j \in loc[p].todo /\ UNCHANGED up
      BY <2>1, <3>1, TakeNow DEF CleanNext, At
    <3>3. Alone(p) /\ CleanMove(p)
      BY <3>2 DEF Now, Alone, CleanMove, NoUpload
    <3> QED
      BY <3>3, OneMoves DEF MaintMove, DelMove
  <2>2. CASE CleanWait(p)
    <3>1. /\ Now(p, "delete", loc[p].key, loc[p].seen, loc[p].todo)
          /\ At(p, "wait") /\ up[Key(p)] = "none" /\ UNCHANGED up
      BY <2>2, GotoNow DEF CleanWait, NoUpload
    <3>2. Alone(p) /\ CleanMove(p)
      BY <3>1 DEF Now, Alone, CleanMove, CleanPCs, Stays, At, Key
    <3> QED
      BY <3>2, OneMoves DEF MaintMove, DelMove
  <2>3. CASE CleanDelete(p)
    <3>1. /\ Now(p, "drop", loc[p].key, loc[p].seen, loc[p].todo)
          /\ At(p, "delete") /\ Key(p) \notin stored' /\ UNCHANGED up
      BY <2>3, GotoNow DEF CleanDelete
    <3>2. Alone(p) /\ CleanMove(p)
      BY <3>1 DEF Now, Alone, CleanMove, CleanPCs, Stays, At, Key
    <3> QED
      BY <3>2, OneMoves DEF MaintMove, DelMove
  <2>4. CASE CleanFails(p)
    <3>1. Now(p, "clean", None, loc[p].seen, loc[p].todo) /\ At(p, "delete")
      BY <2>4, LoopNow DEF CleanFails
    <3>2. Alone(p) /\ CleanMove(p)
      BY <3>1 DEF Now, Alone, CleanMove, CleanPCs, Stays, At, Key
    <3> QED
      BY <3>2, OneMoves DEF MaintMove, DelMove
  <2>5. CASE CleanDrop(p)
    <3>1. Now(p, "clean", None, loc[p].seen, loc[p].todo) /\ At(p, "drop")
      BY <2>5, LoopNow DEF CleanDrop
    <3>2. Alone(p) /\ CleanMove(p)
      BY <3>1 DEF Now, Alone, CleanMove, CleanPCs, Stays, At, Key
    <3> QED
      BY <3>2, OneMoves DEF MaintMove, DelMove
  <2>6. CASE CleanTimeout(p)
    <3>1. CASE p = Del
      <4>1. Now(Del, "idle", None, "none", {})
        BY <2>6, <3>1, CleanTimeoutMoves
      <4>2. Alone(Del) /\ DelMove
        BY <4>1 DEF Now, Alone, DelMove
      <4> QED
        BY <4>2, OneMoves
    <3>2. CASE p = Maint
      <4>1. Now(Maint, "clean", None, loc[Maint].seen, loc[Maint].todo) /\ loc[Maint].pc \in {"wait", "delete", "drop"}
        BY <2>6, <3>2, CleanTimeoutMoves
      <4>2. Alone(Maint) /\ MaintMove
        BY <4>1 DEF Now, Alone, MaintMove, CleanMove, CleanPCs
      <4> QED
        BY <4>2, OneMoves
    <3> QED
      BY <3>1, <3>2
  <2> QED
    BY <1>7, <2>1, <2>2, <2>3, <2>4, <2>5, <2>6 DEF CleanStep
<1>8. ASSUME PassStep PROVE TasksMove
  <2>1. CASE MaintBusy
    <3>1. Now(Maint, "list", None, loc[Maint].seen, {})
      BY <2>1, ThroughNow DEF MaintBusy
    <3>2. Alone(Maint) /\ MaintMove
      BY <3>1 DEF Now, Alone, MaintMove, At
    <3> QED
      BY <3>2, OneMoves
  <2>2. CASE MaintList
    <3> DEFINE S == IF busy THEN {} ELSE {r \in Revs : status[r] = "pending"}
    <3>1. /\ Now(Maint, "recover", None, loc[Maint].seen, S)
          /\ At(Maint, "list") /\ UNCHANGED status
      BY <2>2, ThroughNow DEF MaintList, At
    <3>2. S \subseteq {r \in Revs : status[r] = "pending"}
      OBVIOUS
    <3> HIDE DEF S
    <3>3. Alone(Maint) /\ MaintMove
      BY <3>1, <3>2 DEF Now, Alone, MaintMove, RecoveryMove
    <3> QED
      BY <3>3, OneMoves
  <2>3. CASE RecoverNext
    <3>1. PICK r \in Revs : Take(Maint, "recover", r, "bytes")
      BY <2>3 DEF RecoverNext
    <3>2. /\ Now(Maint, "bytes", r, loc[Maint].seen, loc[Maint].todo \ {r})
          /\ At(Maint, "recover") /\ r \in loc[Maint].todo /\ UNCHANGED status
      BY <2>3, <3>1, TakeNow DEF RecoverNext, At
    <3>3. Alone(Maint) /\ MaintMove
      BY <3>1, <3>2 DEF Now, Alone, MaintMove, RecoveryMove
    <3> QED
      BY <3>3, OneMoves
  <2>4. CASE RecoverBytes
    <3>1. Now(Maint, "promote", loc[Maint].key, loc[Maint].seen, loc[Maint].todo) /\ At(Maint, "bytes")
          /\ Key(Maint) \in stored /\ UNCHANGED <<status, stored>>
      BY <2>4, GotoNow DEF RecoverBytes
    <3>2. Alone(Maint) /\ MaintMove
      BY <3>1 DEF Now, Alone, MaintMove, At, RecoveryMove, Stays, Key
    <3> QED
      BY <3>2, OneMoves
  <2>5. CASE RecoverFails
    <3>1. Now(Maint, "discard", loc[Maint].key, loc[Maint].seen, loc[Maint].todo) /\ At(Maint, "bytes") /\ UNCHANGED status
      BY <2>5, GotoNow DEF RecoverFails
    <3>2. Alone(Maint) /\ MaintMove
      BY <3>1 DEF Now, Alone, MaintMove, At, RecoveryMove, RecoveryPCs, Stays
    <3> QED
      BY <3>2, OneMoves
  <2>6. CASE Discard
    <3>1. Now(Maint, "recover", None, loc[Maint].seen, loc[Maint].todo) /\ At(Maint, "discard")
      BY <2>6, LoopNow DEF Discard
    <3>2. Alone(Maint) /\ MaintMove
      BY <3>1 DEF Now, Alone, MaintMove, At, RecoveryMove, RecoveryPCs
    <3> QED
      BY <3>2, OneMoves
  <2>7. CASE RecoverEnd
    <3> DEFINE S == {r \in Runs : run[r] = "ended" /\ log[r] = "none"}
    <3>1. Now(Maint, "archive", None, loc[Maint].seen, S) /\ At(Maint, "recover")
      BY <2>7, ThroughNow DEF RecoverEnd, At
    <3>2. S \subseteq Runs
      OBVIOUS
    <3> HIDE DEF S
    <3>3. Alone(Maint) /\ MaintMove
      BY <3>1, <3>2 DEF Now, Alone, MaintMove, ArchiveMove
    <3> QED
      BY <3>3, OneMoves
  <2>8. CASE ArchiveNext
    <3>1. PICK r \in Runs : Take(Maint, "archive", r, IF run[r] = "ended" THEN "put" ELSE "archive")
      BY <2>8 DEF ArchiveNext
    <3>2. /\ Now(Maint, IF run[r] = "ended" THEN "put" ELSE "archive", r, loc[Maint].seen, loc[Maint].todo \ {r})
          /\ At(Maint, "archive") /\ r \in loc[Maint].todo /\ UNCHANGED run
      BY <2>8, <3>1, TakeNow DEF ArchiveNext, At
    <3>3. CASE run[r] = "ended"
      <4>1. Now(Maint, "put", r, loc[Maint].seen, loc[Maint].todo \ {r})
        BY <3>2, <3>3
      <4>2. Alone(Maint) /\ ArchiveMove
        BY <3>2, <3>3, <4>1 DEF Now, Alone, ArchiveMove, At
      <4> QED
        BY <4>2, OneMoves DEF MaintMove
    <3>4. CASE ~(run[r] = "ended")
      <4>1. Now(Maint, "archive", r, loc[Maint].seen, loc[Maint].todo \ {r})
        BY <3>2, <3>4
      <4>2. Alone(Maint) /\ ArchiveMove
        BY <3>2, <3>4, <4>1 DEF Now, Alone, ArchiveMove, At
      <4> QED
        BY <4>2, OneMoves DEF MaintMove
    <3> QED
      BY <3>3, <3>4
  <2>9. CASE ArchiveConfirm
    <3>1. Now(Maint, "archive", None, loc[Maint].seen, loc[Maint].todo) /\ At(Maint, "confirm")
      BY <2>9, LoopNow DEF ArchiveConfirm
    <3>2. Alone(Maint) /\ MaintMove
      BY <3>1 DEF Now, Alone, MaintMove, At, ArchiveMove, ArchivePCs
    <3> QED
      BY <3>2, OneMoves
  <2>10. CASE ArchiveEnd
    <3>1. Now(Maint, "retain", None, loc[Maint].seen, {})
      BY <2>10, ThroughNow DEF ArchiveEnd
    <3>2. Alone(Maint) /\ MaintMove
      BY <3>1 DEF Now, Alone, MaintMove, At
    <3> QED
      BY <3>2, OneMoves
  <2>11. CASE Retain
    <3> DEFINE S == IF ~busy /\ exists /\ ~Running THEN Expendable ELSE {}
    <3>1. Now(Maint, "purge", None, loc[Maint].seen, S) /\ At(Maint, "retain")
      BY <2>11, ThroughNow DEF Retain, At
    <3>2. S \subseteq {r \in Revs : status'[r] = "deleting"}
      BY <2>11 DEF Retain, Expendable, Rows
    <3> HIDE DEF S
    <3>3. Alone(Maint) /\ MaintMove
      BY <3>1, <3>2 DEF Now, Alone, MaintMove, PurgeMove
    <3> QED
      BY <3>3, OneMoves
  <2>12. CASE Purge
    <3>1. PICK r \in Revs : Take(Maint, "purge", r, "purgerow") /\ stored' = stored \ {r}
      BY <2>12 DEF Purge
    <3>2. /\ Now(Maint, "purgerow", r, loc[Maint].seen, loc[Maint].todo \ {r})
          /\ At(Maint, "purge") /\ r \in loc[Maint].todo /\ UNCHANGED status
      BY <2>12, <3>1, TakeNow DEF Purge, At
    <3>3. Alone(Maint) /\ MaintMove
      BY <3>1, <3>2 DEF Now, Alone, MaintMove, PurgeMove
    <3> QED
      BY <3>3, OneMoves
  <2>13. CASE PurgeRow
    <3>1. Now(Maint, "purge", None, loc[Maint].seen, loc[Maint].todo) /\ At(Maint, "purgerow")
      BY <2>13, LoopNow DEF PurgeRow
    <3>2. Alone(Maint) /\ MaintMove
      BY <3>1 DEF Now, Alone, MaintMove, At, PurgeMove
    <3> QED
      BY <3>2, OneMoves
  <2>14. ASSUME NEW old \in SUBSET Runs, PurgeEnd(old) PROVE TasksMove
    <3> DEFINE S == {r \in old : log[r] = "archived"}
    <3>1. Now(Maint, "expire", None, loc[Maint].seen, S) /\ At(Maint, "purge")
      BY <2>14, ThroughNow DEF PurgeEnd, At
    <3>2. S \subseteq Runs
      OBVIOUS
    <3> HIDE DEF S
    <3>3. Alone(Maint) /\ MaintMove
      BY <3>1, <3>2 DEF Now, Alone, MaintMove, PurgeMove
    <3> QED
      BY <3>3, OneMoves
  <2>15. CASE Expire
    <3>1. PICK r \in Runs : Take(Maint, "expire", r, IF run[r] # "none" THEN "unlog" ELSE "expire")
      BY <2>15 DEF Expire
    <3>2. /\ Now(Maint, IF run[r] # "none" THEN "unlog" ELSE "expire", r, loc[Maint].seen, loc[Maint].todo \ {r})
          /\ At(Maint, "expire") /\ r \in loc[Maint].todo
      BY <2>15, <3>1, TakeNow DEF Expire, At
    <3>3. CASE run[r] # "none"
      <4>1. Now(Maint, "unlog", r, loc[Maint].seen, loc[Maint].todo \ {r})
        BY <3>2, <3>3
      <4>2. Alone(Maint) /\ PurgeMove
        BY <3>2, <3>3, <4>1 DEF Now, Alone, PurgeMove, At
      <4> QED
        BY <4>2, OneMoves DEF MaintMove
    <3>4. CASE ~(run[r] # "none")
      <4>1. Now(Maint, "expire", r, loc[Maint].seen, loc[Maint].todo \ {r})
        BY <3>2, <3>4
      <4>2. Alone(Maint) /\ PurgeMove
        BY <3>2, <3>4, <4>1 DEF Now, Alone, PurgeMove, At
      <4> QED
        BY <4>2, OneMoves DEF MaintMove
    <3> QED
      BY <3>3, <3>4
  <2>16. CASE Unlog
    <3>1. Now(Maint, "expire", None, loc[Maint].seen, loc[Maint].todo) /\ At(Maint, "unlog")
      BY <2>16, LoopNow DEF Unlog
    <3>2. Alone(Maint) /\ MaintMove
      BY <3>1 DEF Now, Alone, MaintMove, At, PurgeMove
    <3> QED
      BY <3>2, OneMoves
  <2>17. CASE PassEnd
    <3>1. Now(Maint, "idle", None, loc[Maint].seen, {})
      BY <2>17, ThroughNow DEF PassEnd
    <3>2. Alone(Maint) /\ MaintMove
      BY <3>1 DEF Now, Alone, MaintMove, At
    <3> QED
      BY <3>2, OneMoves
  <2> QED
    BY <1>8, <2>1, <2>2, <2>3, <2>4, <2>5, <2>6, <2>7, <2>8, <2>9, <2>10, <2>11, <2>12, <2>13,
      <2>14, <2>15, <2>16, <2>17 DEF PassStep
<1>9. CASE DeleteProject
  <2>1. Now(Del, "clean", None, "none", OwnedKeys) /\ ~exists'
    BY <1>9, FreshListNow DEF DeleteProject
  <2>2. Alone(Del) /\ DelMove
    BY <2>1 DEF Now, Alone, DelMove
  <2> QED
    BY <2>2, OneMoves
<1>10. CASE DeleteEnd
  <2>1. Now(Del, "idle", None, loc[Del].seen, {})
    BY <1>10, ThroughNow DEF DeleteEnd
  <2>2. Alone(Del) /\ DelMove
    BY <2>1 DEF Now, Alone, DelMove
  <2> QED
    BY <2>2, OneMoves
<1>11. CASE MaintBegin
  <2>1. PICK S \in SUBSET intents : Now(Maint, "clean", None, "none", S)
    BY <1>11, MaintBeginMoves
  <2>2. UNCHANGED intents
    BY <1>11 DEF MaintBegin
  <2>3. Alone(Maint) /\ MaintMove
    BY <2>1, <2>2 DEF Now, Alone, MaintMove
  <2> QED
    BY <2>3, OneMoves
<1>12. CASE PassFails
  <2>1. Now(Maint, "idle", None, "none", {})
    BY <1>12, IdleNow DEF PassFails
  <2>2. Alone(Maint) /\ MaintMove
    BY <2>1 DEF Now, Alone, MaintMove, At
  <2> QED
    BY <2>2, OneMoves
<1>13. ASSUME NEW r \in Revs, Age(r) PROVE TasksMove
  BY <1>13, NoneMoves DEF Age
<1>14. CASE Crash
  BY <1>14, CrashMoves DEF TasksMove, JobMove, MaintMove, DelMove
<1>15. CASE UNCHANGED vars
  BY <1>15, NoneMoves DEF vars
<1> QED
  BY <1>1, <1>2, <1>3, <1>4, <1>5, <1>6, <1>7, <1>8, <1>9, <1>10, <1>11, <1>12, <1>13, <1>14, <1>15
    DEF Next

----------------------------------------------------------------------------
(* What a step does to the tables and to the store.                        *)

Gone ==
    /\ saved = 0 /\ verified = 0
    /\ \A r \in Revs : status[r] = "none"
    /\ \A r \in Runs : run[r] = "none"

ChatMove ==
    /\ \/ saved' = saved
       \/ /\ saved' \in Revs /\ parent[saved'] = saved /\ saved < saved'
          /\ status[saved'] = "pending" /\ status'[saved'] = "ready"
          /\ saved' \in stored /\ UNCHANGED <<stored, parent>>
    /\ \/ verified' = verified
       \/ verified' \in Revs /\ status[verified'] = "ready" /\ UNCHANGED <<status, stored>>

RevMove(r) ==
    \/ status'[r] = status[r] /\ parent'[r] = parent[r]
    \/ /\ WithinQuota /\ r = nextRev + 1 /\ nextRev' = r /\ status'[r] = "pending" /\ parent'[r] = saved
       /\ UNCHANGED <<saved, age, up, stored>>
    \/ /\ status[r] = "pending" /\ status'[r] = "ready" /\ saved' = r /\ saved < r /\ r \in stored
       /\ UNCHANGED <<age, parent, stored>>
    \/ /\ status[r] = "pending" /\ status'[r] = "failed" /\ age[r] = "day"
       /\ At(Maint, "discard") /\ loc[Maint].key = r /\ loc'[Maint].pc = "recover"
       /\ UNCHANGED <<saved, age, parent>>
    \/ /\ status[r] \in {"ready", "failed"} /\ status'[r] = "deleting" /\ r # saved /\ r # verified
       /\ At(Maint, "retain") /\ loc'[Maint].pc = "purge" /\ ~Running
       /\ UNCHANGED <<saved, verified, age, parent, run>>
    \/ /\ status[r] = "deleting" /\ status'[r] = "none" /\ parent'[r] = 0
       /\ At(Maint, "purgerow") /\ loc[Maint].key = r
       /\ UNCHANGED <<saved, verified, stored, up>>

AgeMove(r) ==
    \/ age'[r] = age[r]
    \/ age'[r] = "new" /\ status'[r] = "none"
    \/ age[r] = "new" /\ age'[r] = "hour" /\ status[r] # "none" /\ UNCHANGED <<status, loc>>
    \/ /\ age'[r] = "day" /\ up[r] = "none" /\ (\A p \in Jobs : loc[p].key # r)
       /\ status[r] # "none" /\ UNCHANGED <<status, loc, up>>

UpMove(k) ==
    \/ up'[k] = up[k] \/ up'[k] = "none"
    \/ up[k] = "check" /\ up'[k] = "put" /\ exists /\ UNCHANGED <<exists, stored, status, age, run, intents>>
    \/ /\ up'[k] = "check" /\ UNCHANGED <<exists, stored, status, age, run, intents>>
       /\ \E p \in Jobs \cup {Maint} : At(p, "put") /\ loc[p].key = k /\ loc'[p].pc = "upload"

StoreMove(k) ==
    \/ k \in stored' <=> k \in stored
    \/ k \in stored' /\ up[k] = "put" /\ up'[k] = "none" /\ UNCHANGED <<exists, status, intents>>
    \/ /\ k \notin stored'
       /\ \/ \E p \in Cleaners : At(p, "delete") /\ loc[p].key = k
          \/ At(Maint, "purge") /\ k \in loc[Maint].todo
          \/ k \in Runs
       /\ UNCHANGED <<exists, status, intents, up>>

ObjectMove(k) == UpMove(k) /\ StoreMove(k)

IntentMove ==
    \/ UNCHANGED <<exists, intents>>
    \/ exists /\ ~exists' /\ intents' = intents \cup OwnedKeys /\ UNCHANGED <<stored, up>>
    \/ \E p \in Cleaners : /\ At(p, "drop") /\ intents \ {loc[p].key} \subseteq intents'
                           /\ intents' \subseteq intents
                           /\ UNCHANGED <<exists, stored, up, status, run>>

RunMove(r) ==
    /\ exists' /\ run[r] # "none" => run'[r] # "none"
    /\ run'[r] = "running" =>
         \/ run[r] = "running" /\ (r \in live => r \in live')
         \/ r \in live' /\ loc'[r].pc = "source"

\* Only delete_project ends a project, and it leaves no row.
LEMMA StepExists == CheckpointsInv /\ [Next]_vars => (exists' => exists) /\ (~exists' => Gone')
<1> SUFFICES ASSUME CheckpointsInv, [Next]_vars PROVE (exists' => exists) /\ (~exists' => Gone')
  OBVIOUS
<1>0. TablesOK /\ Places /\ (~exists => Gone)
  BY TypeParts DEF CheckpointsInv, DeletionWhole, Gone
<1> USE <1>0, Tasks, Objects
<1>1. ASSUME NEW r \in Runs, NEW i \in BOOLEAN, RunStart(r, i) PROVE (exists' => exists) /\ (~exists' => Gone')
  BY <1>1 DEF Gone, RunStart
<1>2. ASSUME NEW r \in Runs, RunSucceeds(r) PROVE (exists' => exists) /\ (~exists' => Gone')
  BY <1>2 DEF Gone, RunSucceeds, End, TablesOK
<1>3. ASSUME NEW v \in Views, ViewStart(v) PROVE (exists' => exists) /\ (~exists' => Gone')
  BY <1>3 DEF Gone, ViewStart
<1>4. ASSUME NEW p \in Jobs, JobStep(p) PROVE (exists' => exists) /\ (~exists' => Gone')
  <2>1. CASE ReadLatest(p)
    BY <2>1 DEF Gone, ReadLatest, End, TablesOK
  <2>2. CASE ReadBytes(p)
    BY <2>2 DEF Gone, ReadBytes, End, TablesOK
  <2>3. CASE JobFails(p)
    BY <2>3 DEF Gone, JobFails, End, TablesOK
  <2>4. CASE SaveSame(p)
    BY <2>4 DEF Gone, SaveSame
  <2>5. CASE SaveBegin(p)
    BY <2>5 DEF Gone, SaveBegin, TablesOK
  <2> QED
    BY <1>4, <2>1, <2>2, <2>3, <2>4, <2>5 DEF JobStep
<1>5. ASSUME NEW p \in Jobs \cup {Maint}, SaveStep(p) PROVE (exists' => exists) /\ (~exists' => Gone')
  <2>1. CASE PutObject(p)
    BY <2>1 DEF Gone, PutObject
  <2>2. CASE PromoteRead(p)
    BY <2>2 DEF Gone, PromoteRead
  <2>3. CASE PromoteCommit(p)
    BY <2>3 DEF Gone, PromoteCommit, Promotable
  <2>4. CASE PromoteFails(p)
    BY <2>4 DEF Gone, PromoteFails, Raise, End, TablesOK
  <2> QED
    BY <1>5, <2>1, <2>2, <2>3, <2>4 DEF SaveStep
<1>6. ASSUME NEW k \in Keys, UploadStep(k) PROVE (exists' => exists) /\ (~exists' => Gone')
  <2>1. CASE UploadCheck(k)
    BY <2>1 DEF Gone, UploadCheck
  <2>2. CASE UploadDone(k)
    BY <2>2 DEF Gone, UploadDone
  <2>3. CASE UploadFails(k)
    <3>1. UNCHANGED <<exists, saved, verified, status>>
      BY <2>3 DEF UploadFails
    <3>2. UNCHANGED run \/ \E q \in Procs : run' = IF q \in Runs /\ run[q] = "running" THEN [run EXCEPT ![q] = "ended"] ELSE run
      BY <2>3 DEF UploadFails, Raise, End
    <3> QED
      BY <3>1, <3>2 DEF Gone, TablesOK
  <2> QED
    BY <1>6, <2>1, <2>2, <2>3 DEF UploadStep
<1>7. ASSUME NEW p \in Cleaners, CleanStep(p) PROVE (exists' => exists) /\ (~exists' => Gone')
  <2>1. CASE CleanNext(p)
    BY <2>1 DEF Gone, CleanNext
  <2>2. CASE CleanWait(p)
    BY <2>2 DEF Gone, CleanWait
  <2>3. CASE CleanDelete(p)
    BY <2>3 DEF Gone, CleanDelete
  <2>4. CASE CleanFails(p)
    BY <2>4 DEF Gone, CleanFails
  <2>5. CASE CleanDrop(p)
    BY <2>5 DEF Gone, CleanDrop
  <2>6. CASE CleanTimeout(p)
    BY <2>6 DEF Gone, CleanTimeout
  <2> QED
    BY <1>7, <2>1, <2>2, <2>3, <2>4, <2>5, <2>6 DEF CleanStep
<1>8. ASSUME PassStep PROVE (exists' => exists) /\ (~exists' => Gone')
  <2>1. CASE MaintBusy
    BY <2>1 DEF Gone, MaintBusy
  <2>2. CASE MaintList
    BY <2>2 DEF Gone, MaintList
  <2>3. CASE RecoverNext
    BY <2>3 DEF Gone, RecoverNext
  <2>4. CASE RecoverBytes
    BY <2>4 DEF Gone, RecoverBytes
  <2>5. CASE RecoverFails
    BY <2>5 DEF Gone, RecoverFails
  <2>6. CASE Discard
    <3>1. Key(Maint) \in Revs
      BY <2>6 DEF Discard, Places, RecoveryPCs, At, TablesOK
    <3> QED
      BY <2>6, <3>1 DEF Gone, Discard, TablesOK
  <2>7. CASE RecoverEnd
    BY <2>7 DEF Gone, RecoverEnd
  <2>8. CASE ArchiveNext
    BY <2>8 DEF Gone, ArchiveNext
  <2>9. CASE ArchiveConfirm
    BY <2>9 DEF Gone, ArchiveConfirm
  <2>10. CASE ArchiveEnd
    BY <2>10 DEF Gone, ArchiveEnd
  <2>11. CASE Retain
    BY <2>11 DEF Gone, Retain
  <2>12. CASE Purge
    BY <2>12 DEF Gone, Purge
  <2>13. CASE PurgeRow
    BY <2>13 DEF Gone, PurgeRow, RemoveRows
  <2>14. ASSUME NEW old \in SUBSET Runs, PurgeEnd(old) PROVE (exists' => exists) /\ (~exists' => Gone')
    BY <2>14 DEF Gone, PurgeEnd
  <2>15. CASE Expire
    BY <2>15 DEF Gone, Expire
  <2>16. CASE Unlog
    BY <2>16 DEF Gone, Unlog
  <2>17. CASE PassEnd
    BY <2>17 DEF Gone, PassEnd
  <2> QED
    BY <1>8, <2>1, <2>2, <2>3, <2>4, <2>5, <2>6, <2>7, <2>8, <2>9, <2>10, <2>11, <2>12, <2>13,
      <2>14, <2>15, <2>16, <2>17 DEF PassStep
<1>9. CASE DeleteProject
  BY <1>9 DEF Gone, DeleteProject, RemoveRows
<1>10. CASE DeleteEnd
  BY <1>10 DEF Gone, DeleteEnd
<1>11. CASE MaintBegin
  BY <1>11 DEF Gone, MaintBegin
<1>12. CASE PassFails
  BY <1>12 DEF Gone, PassFails
<1>13. ASSUME NEW r \in Revs, Age(r) PROVE (exists' => exists) /\ (~exists' => Gone')
  BY <1>13 DEF Gone, Age
<1>14. CASE Crash
  BY <1>14 DEF Gone, Crash
<1>15. CASE UNCHANGED vars
  BY <1>15 DEF Gone, vars
<1> QED
  BY <1>1, <1>2, <1>3, <1>4, <1>5, <1>6, <1>7, <1>8, <1>9, <1>10, <1>11, <1>12, <1>13, <1>14, <1>15
    DEF Next

LEMMA StillChat == UNCHANGED <<saved, verified>> => ChatMove
  BY DEF ChatMove

\* The saved revision moves to a stored child of it; the verified one to a ready one.
LEMMA StepChat == CheckpointsInv /\ [Next]_vars => (exists' => ChatMove)
<1> SUFFICES ASSUME CheckpointsInv, [Next]_vars PROVE (exists' => ChatMove)
  OBVIOUS
<1>0. TablesOK /\ Places /\ RunsSound
  BY TypeParts DEF CheckpointsInv
<1> USE <1>0, Tasks, Objects
<1>1. ASSUME NEW r \in Runs, NEW i \in BOOLEAN, RunStart(r, i) PROVE (exists' => ChatMove)
  BY <1>1, StillChat DEF RunStart
<1>2. ASSUME NEW r \in Runs, RunSucceeds(r) PROVE (exists' => ChatMove)
  <2>1. CASE run[r] = "running"
    <3>1. Key(r) \in Revs /\ status[Key(r)] = "ready" /\ verified' = Key(r)
      BY <1>2, <2>1 DEF RunSucceeds, Places, RunsSound
    <3>2. UNCHANGED <<saved, status, stored>>
      BY <1>2 DEF RunSucceeds
    <3> QED
      BY <3>1, <3>2, <1>2 DEF ChatMove, RunSucceeds
  <2>2. CASE run[r] # "running"
    BY <1>2, <2>2, StillChat DEF RunSucceeds
  <2> QED
    BY <2>1, <2>2
<1>3. ASSUME NEW v \in Views, ViewStart(v) PROVE (exists' => ChatMove)
  BY <1>3, StillChat DEF ViewStart
<1>4. ASSUME NEW p \in Jobs, JobStep(p) PROVE (exists' => ChatMove)
  <2>1. CASE ReadLatest(p)
    BY <2>1, StillChat DEF ReadLatest
  <2>2. CASE ReadBytes(p)
    BY <2>2, StillChat DEF ReadBytes
  <2>3. CASE JobFails(p)
    BY <2>3, StillChat DEF JobFails
  <2>4. CASE SaveSame(p)
    BY <2>4, StillChat DEF SaveSame
  <2>5. CASE SaveBegin(p)
    BY <2>5, StillChat DEF SaveBegin
  <2> QED
    BY <1>4, <2>1, <2>2, <2>3, <2>4, <2>5 DEF JobStep
<1>5. ASSUME NEW p \in Jobs \cup {Maint}, SaveStep(p) PROVE (exists' => ChatMove)
  <2>1. CASE PutObject(p)
    BY <2>1, StillChat DEF PutObject
  <2>2. CASE PromoteRead(p)
    BY <2>2, StillChat DEF PromoteRead
  <2>3. CASE PromoteCommit(p)
    <3>1. CASE loc[p].seen = "ready"
      BY <2>3, <3>1, StillChat DEF PromoteCommit
    <3>2. CASE loc[p].seen # "ready"
      <4>1. /\ At(p, "locked") /\ Promotable(p) /\ status' = [status EXCEPT ![Key(p)] = "ready"]
            /\ saved' = Key(p) /\ UNCHANGED <<verified, stored, parent, nextRev>>
        BY <2>3, <3>2 DEF PromoteCommit
      <4>2. /\ Key(p) \in Revs /\ Key(p) \in stored
            /\ status[Key(p)] = "pending" /\ parent[Key(p)] = saved /\ saved < Key(p)
        BY <4>1, PromotionIsPending
      <4>3. status'[Key(p)] = "ready"
        BY <4>1, <4>2, <1>0 DEF TablesOK
      <4> QED
        BY <4>1, <4>2, <4>3 DEF ChatMove
    <3> QED
      BY <3>1, <3>2
  <2>4. CASE PromoteFails(p)
    BY <2>4, StillChat DEF PromoteFails
  <2> QED
    BY <1>5, <2>1, <2>2, <2>3, <2>4 DEF SaveStep
<1>6. ASSUME NEW k \in Keys, UploadStep(k) PROVE (exists' => ChatMove)
  <2>1. CASE UploadCheck(k)
    BY <2>1, StillChat DEF UploadCheck
  <2>2. CASE UploadDone(k)
    BY <2>2, StillChat DEF UploadDone
  <2>3. CASE UploadFails(k)
    BY <2>3, StillChat DEF UploadFails
  <2> QED
    BY <1>6, <2>1, <2>2, <2>3 DEF UploadStep
<1>7. ASSUME NEW p \in Cleaners, CleanStep(p) PROVE (exists' => ChatMove)
  <2>1. CASE CleanNext(p)
    BY <2>1, StillChat DEF CleanNext
  <2>2. CASE CleanWait(p)
    BY <2>2, StillChat DEF CleanWait
  <2>3. CASE CleanDelete(p)
    BY <2>3, StillChat DEF CleanDelete
  <2>4. CASE CleanFails(p)
    BY <2>4, StillChat DEF CleanFails
  <2>5. CASE CleanDrop(p)
    BY <2>5, StillChat DEF CleanDrop
  <2>6. CASE CleanTimeout(p)
    BY <2>6, StillChat DEF CleanTimeout
  <2> QED
    BY <1>7, <2>1, <2>2, <2>3, <2>4, <2>5, <2>6 DEF CleanStep
<1>8. ASSUME PassStep PROVE (exists' => ChatMove)
  <2>1. CASE MaintBusy
    BY <2>1, StillChat DEF MaintBusy
  <2>2. CASE MaintList
    BY <2>2, StillChat DEF MaintList
  <2>3. CASE RecoverNext
    BY <2>3, StillChat DEF RecoverNext
  <2>4. CASE RecoverBytes
    BY <2>4, StillChat DEF RecoverBytes
  <2>5. CASE RecoverFails
    BY <2>5, StillChat DEF RecoverFails
  <2>6. CASE Discard
    BY <2>6, StillChat DEF Discard
  <2>7. CASE RecoverEnd
    BY <2>7, StillChat DEF RecoverEnd
  <2>8. CASE ArchiveNext
    BY <2>8, StillChat DEF ArchiveNext
  <2>9. CASE ArchiveConfirm
    BY <2>9, StillChat DEF ArchiveConfirm
  <2>10. CASE ArchiveEnd
    BY <2>10, StillChat DEF ArchiveEnd
  <2>11. CASE Retain
    BY <2>11, StillChat DEF Retain
  <2>12. CASE Purge
    BY <2>12, StillChat DEF Purge
  <2>13. CASE PurgeRow
    BY <2>13, StillChat DEF PurgeRow
  <2>14. ASSUME NEW old \in SUBSET Runs, PurgeEnd(old) PROVE (exists' => ChatMove)
    BY <2>14, StillChat DEF PurgeEnd
  <2>15. CASE Expire
    BY <2>15, StillChat DEF Expire
  <2>16. CASE Unlog
    BY <2>16, StillChat DEF Unlog
  <2>17. CASE PassEnd
    BY <2>17, StillChat DEF PassEnd
  <2> QED
    BY <1>8, <2>1, <2>2, <2>3, <2>4, <2>5, <2>6, <2>7, <2>8, <2>9, <2>10, <2>11, <2>12, <2>13,
      <2>14, <2>15, <2>16, <2>17 DEF PassStep
<1>9. CASE DeleteProject
  BY <1>9 DEF DeleteProject
<1>10. CASE DeleteEnd
  BY <1>10, StillChat DEF DeleteEnd
<1>11. CASE MaintBegin
  BY <1>11, StillChat DEF MaintBegin
<1>12. CASE PassFails
  BY <1>12, StillChat DEF PassFails
<1>13. ASSUME NEW r \in Revs, Age(r) PROVE (exists' => ChatMove)
  BY <1>13, StillChat DEF Age
<1>14. CASE Crash
  BY <1>14, StillChat DEF Crash
<1>15. CASE UNCHANGED vars
  BY <1>15, StillChat DEF vars
<1> QED
  BY <1>1, <1>2, <1>3, <1>4, <1>5, <1>6, <1>7, <1>8, <1>9, <1>10, <1>11, <1>12, <1>13, <1>14, <1>15
    DEF Next

\* Revisions are numbered upwards.
LEMMA StepNext == CheckpointsInv /\ [Next]_vars => nextRev <= nextRev'
<1> SUFFICES ASSUME CheckpointsInv, [Next]_vars PROVE nextRev <= nextRev'
  OBVIOUS
<1>0. TablesOK
  BY TypeParts DEF CheckpointsInv
<1>n. nextRev \in Nat
  BY <1>0, Objects DEF TablesOK
<1> USE Tasks, Objects
<1>1. ASSUME NEW r \in Runs, NEW i \in BOOLEAN, RunStart(r, i) PROVE nextRev <= nextRev'
  BY <1>1, <1>n DEF RunStart
<1>2. ASSUME NEW r \in Runs, RunSucceeds(r) PROVE nextRev <= nextRev'
  BY <1>2, <1>n DEF RunSucceeds
<1>3. ASSUME NEW v \in Views, ViewStart(v) PROVE nextRev <= nextRev'
  BY <1>3, <1>n DEF ViewStart
<1>4. ASSUME NEW p \in Jobs, JobStep(p) PROVE nextRev <= nextRev'
  <2>1. CASE ReadLatest(p)
    BY <2>1, <1>n DEF ReadLatest
  <2>2. CASE ReadBytes(p)
    BY <2>2, <1>n DEF ReadBytes
  <2>3. CASE JobFails(p)
    BY <2>3, <1>n DEF JobFails
  <2>4. CASE SaveSame(p)
    BY <2>4, <1>n DEF SaveSame
  <2>5. CASE SaveBegin(p)
    BY <2>5, <1>n DEF SaveBegin
  <2> QED
    BY <1>4, <2>1, <2>2, <2>3, <2>4, <2>5 DEF JobStep
<1>5. ASSUME NEW p \in Jobs \cup {Maint}, SaveStep(p) PROVE nextRev <= nextRev'
  <2>1. CASE PutObject(p)
    BY <2>1, <1>n DEF PutObject
  <2>2. CASE PromoteRead(p)
    BY <2>2, <1>n DEF PromoteRead
  <2>3. CASE PromoteCommit(p)
    BY <2>3, <1>n DEF PromoteCommit
  <2>4. CASE PromoteFails(p)
    BY <2>4, <1>n DEF PromoteFails
  <2> QED
    BY <1>5, <2>1, <2>2, <2>3, <2>4 DEF SaveStep
<1>6. ASSUME NEW k \in Keys, UploadStep(k) PROVE nextRev <= nextRev'
  <2>1. CASE UploadCheck(k)
    BY <2>1, <1>n DEF UploadCheck
  <2>2. CASE UploadDone(k)
    BY <2>2, <1>n DEF UploadDone
  <2>3. CASE UploadFails(k)
    BY <2>3, <1>n DEF UploadFails
  <2> QED
    BY <1>6, <2>1, <2>2, <2>3 DEF UploadStep
<1>7. ASSUME NEW p \in Cleaners, CleanStep(p) PROVE nextRev <= nextRev'
  <2>1. CASE CleanNext(p)
    BY <2>1, <1>n DEF CleanNext
  <2>2. CASE CleanWait(p)
    BY <2>2, <1>n DEF CleanWait
  <2>3. CASE CleanDelete(p)
    BY <2>3, <1>n DEF CleanDelete
  <2>4. CASE CleanFails(p)
    BY <2>4, <1>n DEF CleanFails
  <2>5. CASE CleanDrop(p)
    BY <2>5, <1>n DEF CleanDrop
  <2>6. CASE CleanTimeout(p)
    BY <2>6, <1>n DEF CleanTimeout
  <2> QED
    BY <1>7, <2>1, <2>2, <2>3, <2>4, <2>5, <2>6 DEF CleanStep
<1>8. ASSUME PassStep PROVE nextRev <= nextRev'
  <2>1. CASE MaintBusy
    BY <2>1, <1>n DEF MaintBusy
  <2>2. CASE MaintList
    BY <2>2, <1>n DEF MaintList
  <2>3. CASE RecoverNext
    BY <2>3, <1>n DEF RecoverNext
  <2>4. CASE RecoverBytes
    BY <2>4, <1>n DEF RecoverBytes
  <2>5. CASE RecoverFails
    BY <2>5, <1>n DEF RecoverFails
  <2>6. CASE Discard
    BY <2>6, <1>n DEF Discard
  <2>7. CASE RecoverEnd
    BY <2>7, <1>n DEF RecoverEnd
  <2>8. CASE ArchiveNext
    BY <2>8, <1>n DEF ArchiveNext
  <2>9. CASE ArchiveConfirm
    BY <2>9, <1>n DEF ArchiveConfirm
  <2>10. CASE ArchiveEnd
    BY <2>10, <1>n DEF ArchiveEnd
  <2>11. CASE Retain
    BY <2>11, <1>n DEF Retain
  <2>12. CASE Purge
    BY <2>12, <1>n DEF Purge
  <2>13. CASE PurgeRow
    BY <2>13, <1>n DEF PurgeRow
  <2>14. ASSUME NEW old \in SUBSET Runs, PurgeEnd(old) PROVE nextRev <= nextRev'
    BY <2>14, <1>n DEF PurgeEnd
  <2>15. CASE Expire
    BY <2>15, <1>n DEF Expire
  <2>16. CASE Unlog
    BY <2>16, <1>n DEF Unlog
  <2>17. CASE PassEnd
    BY <2>17, <1>n DEF PassEnd
  <2> QED
    BY <1>8, <2>1, <2>2, <2>3, <2>4, <2>5, <2>6, <2>7, <2>8, <2>9, <2>10, <2>11, <2>12, <2>13,
      <2>14, <2>15, <2>16, <2>17 DEF PassStep
<1>9. CASE DeleteProject
  BY <1>9, <1>n DEF DeleteProject
<1>10. CASE DeleteEnd
  BY <1>10, <1>n DEF DeleteEnd
<1>11. CASE MaintBegin
  BY <1>11, <1>n DEF MaintBegin
<1>12. CASE PassFails
  BY <1>12, <1>n DEF PassFails
<1>13. ASSUME NEW r \in Revs, Age(r) PROVE nextRev <= nextRev'
  BY <1>13, <1>n DEF Age
<1>14. CASE Crash
  BY <1>14, <1>n DEF Crash
<1>15. CASE UNCHANGED vars
  BY <1>15, <1>n DEF vars
<1> QED
  BY <1>1, <1>2, <1>3, <1>4, <1>5, <1>6, <1>7, <1>8, <1>9, <1>10, <1>11, <1>12, <1>13, <1>14, <1>15
    DEF Next

LEMMA StillRevs == UNCHANGED <<status, parent, age>> => \A r \in Revs : RevMove(r) /\ AgeMove(r)
  BY DEF RevMove, AgeMove

\* A row is inserted pending, promoted, given up, marked and removed, in that order.
LEMMA StepRevs == CheckpointsInv /\ [Next]_vars => (exists' => \A x \in Revs : RevMove(x) /\ AgeMove(x))
<1> SUFFICES ASSUME CheckpointsInv, [Next]_vars PROVE (exists' => \A x \in Revs : RevMove(x) /\ AgeMove(x))
  OBVIOUS
<1>0. TablesOK /\ LocOK /\ Places
  BY TypeParts DEF CheckpointsInv
<1>l. LocOK
  BY <1>0
<1> USE <1>l, Tasks, Objects
<1>1. ASSUME NEW r \in Runs, NEW i \in BOOLEAN, RunStart(r, i) PROVE (exists' => \A x \in Revs : RevMove(x) /\ AgeMove(x))
  BY <1>1, StillRevs DEF RunStart
<1>2. ASSUME NEW r \in Runs, RunSucceeds(r) PROVE (exists' => \A x \in Revs : RevMove(x) /\ AgeMove(x))
  BY <1>2, StillRevs DEF RunSucceeds
<1>3. ASSUME NEW v \in Views, ViewStart(v) PROVE (exists' => \A x \in Revs : RevMove(x) /\ AgeMove(x))
  BY <1>3, StillRevs DEF ViewStart
<1>4. ASSUME NEW p \in Jobs, JobStep(p) PROVE (exists' => \A x \in Revs : RevMove(x) /\ AgeMove(x))
  <2>1. CASE ReadLatest(p)
    BY <2>1, StillRevs DEF ReadLatest
  <2>2. CASE ReadBytes(p)
    BY <2>2, StillRevs DEF ReadBytes
  <2>3. CASE JobFails(p)
    BY <2>3, StillRevs DEF JobFails
  <2>4. CASE SaveSame(p)
    BY <2>4, StillRevs DEF SaveSame
  <2>5. CASE SaveBegin(p)
    <3>1. /\ status' = [status EXCEPT ![nextRev + 1] = "pending"]
          /\ parent' = [parent EXCEPT ![nextRev + 1] = saved]
          /\ WithinQuota /\ nextRev' = nextRev + 1 /\ UNCHANGED <<saved, age, up, stored>>
      BY <2>5 DEF SaveBegin
    <3> QED
      BY <3>1, <1>0 DEF RevMove, AgeMove, TablesOK
  <2> QED
    BY <1>4, <2>1, <2>2, <2>3, <2>4, <2>5 DEF JobStep
<1>5. ASSUME NEW p \in Jobs \cup {Maint}, SaveStep(p) PROVE (exists' => \A x \in Revs : RevMove(x) /\ AgeMove(x))
  <2>1. CASE PutObject(p)
    BY <2>1, StillRevs DEF PutObject
  <2>2. CASE PromoteRead(p)
    BY <2>2, StillRevs DEF PromoteRead
  <2>3. CASE PromoteCommit(p)
    <3>1. CASE loc[p].seen = "ready"
      BY <2>3, <3>1, StillRevs DEF PromoteCommit
    <3>2. CASE loc[p].seen # "ready"
      <4>1. /\ At(p, "locked") /\ Promotable(p) /\ status' = [status EXCEPT ![Key(p)] = "ready"]
            /\ saved' = Key(p) /\ UNCHANGED <<age, stored, parent>>
        BY <2>3, <3>2 DEF PromoteCommit
      <4>2. /\ Key(p) \in Revs /\ Key(p) \in stored /\ status[Key(p)] = "pending" /\ saved < Key(p)
        BY <4>1, PromotionIsPending
      <4> QED
        BY <4>1, <4>2, <1>0 DEF RevMove, AgeMove, TablesOK
    <3> QED
      BY <3>1, <3>2
  <2>4. CASE PromoteFails(p)
    BY <2>4, StillRevs DEF PromoteFails
  <2> QED
    BY <1>5, <2>1, <2>2, <2>3, <2>4 DEF SaveStep
<1>6. ASSUME NEW k \in Keys, UploadStep(k) PROVE (exists' => \A x \in Revs : RevMove(x) /\ AgeMove(x))
  <2>1. CASE UploadCheck(k)
    BY <2>1, StillRevs DEF UploadCheck
  <2>2. CASE UploadDone(k)
    BY <2>2, StillRevs DEF UploadDone
  <2>3. CASE UploadFails(k)
    BY <2>3, StillRevs DEF UploadFails
  <2> QED
    BY <1>6, <2>1, <2>2, <2>3 DEF UploadStep
<1>7. ASSUME NEW p \in Cleaners, CleanStep(p) PROVE (exists' => \A x \in Revs : RevMove(x) /\ AgeMove(x))
  <2>1. CASE CleanNext(p)
    BY <2>1, StillRevs DEF CleanNext
  <2>2. CASE CleanWait(p)
    BY <2>2, StillRevs DEF CleanWait
  <2>3. CASE CleanDelete(p)
    BY <2>3, StillRevs DEF CleanDelete
  <2>4. CASE CleanFails(p)
    BY <2>4, StillRevs DEF CleanFails
  <2>5. CASE CleanDrop(p)
    BY <2>5, StillRevs DEF CleanDrop
  <2>6. CASE CleanTimeout(p)
    BY <2>6, StillRevs DEF CleanTimeout
  <2> QED
    BY <1>7, <2>1, <2>2, <2>3, <2>4, <2>5, <2>6 DEF CleanStep
<1>8. ASSUME PassStep PROVE (exists' => \A x \in Revs : RevMove(x) /\ AgeMove(x))
  <2>1. CASE MaintBusy
    BY <2>1, StillRevs DEF MaintBusy
  <2>2. CASE MaintList
    BY <2>2, StillRevs DEF MaintList
  <2>3. CASE RecoverNext
    BY <2>3, StillRevs DEF RecoverNext
  <2>4. CASE RecoverBytes
    BY <2>4, StillRevs DEF RecoverBytes
  <2>5. CASE RecoverFails
    BY <2>5, StillRevs DEF RecoverFails
  <2>6. CASE Discard
    <3>1. CASE age[Key(Maint)] = "day" /\ status[Key(Maint)] = "pending"
      <4>1. /\ At(Maint, "discard") /\ status' = [status EXCEPT ![Key(Maint)] = "failed"]
            /\ loc'[Maint].pc = "recover" /\ UNCHANGED <<saved, age, parent>>
        BY <2>6, <3>1, LoopNow DEF Discard, Now
      <4> QED
        BY <3>1, <4>1, <1>0 DEF RevMove, AgeMove, TablesOK, Key
    <3>2. CASE ~(age[Key(Maint)] = "day" /\ status[Key(Maint)] = "pending")
      BY <2>6, <3>2, StillRevs DEF Discard
    <3> QED
      BY <3>1, <3>2
  <2>7. CASE RecoverEnd
    BY <2>7, StillRevs DEF RecoverEnd
  <2>8. CASE ArchiveNext
    BY <2>8, StillRevs DEF ArchiveNext
  <2>9. CASE ArchiveConfirm
    BY <2>9, StillRevs DEF ArchiveConfirm
  <2>10. CASE ArchiveEnd
    BY <2>10, StillRevs DEF ArchiveEnd
  <2>11. CASE Retain
    <3> DEFINE S == IF ~busy /\ exists /\ ~Running THEN Expendable ELSE {}
    <3>1. /\ status' = [r \in Revs |-> IF r \in S THEN "deleting" ELSE status[r]]
          /\ UNCHANGED <<saved, verified, age, parent, run>>
      BY <2>11 DEF Retain
    <3>2. At(Maint, "retain") /\ loc'[Maint].pc = "purge"
      BY <2>11, ThroughNow DEF Retain, Now, At
    <3>3. ASSUME NEW x \in S
          PROVE  /\ status[x] \in {"ready", "failed", "deleting"} /\ x # saved /\ x # verified /\ ~Running
      BY <3>3, <1>0 DEF Expendable, Rows, Kept, TablesOK, RevStates
    <3> HIDE DEF S
    <3>4. ASSUME NEW x \in Revs PROVE RevMove(x) /\ AgeMove(x)
      BY <3>1, <3>2, <3>3, <1>0 DEF RevMove, AgeMove, TablesOK
    <3> QED
      BY <3>4
  <2>12. CASE Purge
    BY <2>12, StillRevs DEF Purge
  <2>13. CASE PurgeRow
    <3> DEFINE S == {Key(Maint)} \cap {q \in Revs : status[q] = "deleting"}
    <3>1. At(Maint, "purgerow") /\ RemoveRows(S) /\ UNCHANGED <<saved, verified, stored, up>>
      BY <2>13 DEF PurgeRow
    <3>2. \A x \in S : x = loc[Maint].key /\ status[x] = "deleting"
      BY DEF Key
    <3> HIDE DEF S
    <3>3. ASSUME NEW x \in Revs PROVE RevMove(x) /\ AgeMove(x)
      <4>1. CASE x \in S
        BY <3>1, <3>2, <4>1 DEF RevMove, AgeMove, RemoveRows
      <4>2. CASE x \notin S
        BY <3>1, <4>2 DEF RevMove, AgeMove, RemoveRows
      <4> QED
        BY <4>1, <4>2
    <3> QED
      BY <3>3
  <2>14. ASSUME NEW old \in SUBSET Runs, PurgeEnd(old) PROVE (exists' => \A x \in Revs : RevMove(x) /\ AgeMove(x))
    BY <2>14, StillRevs DEF PurgeEnd
  <2>15. CASE Expire
    BY <2>15, StillRevs DEF Expire
  <2>16. CASE Unlog
    BY <2>16, StillRevs DEF Unlog
  <2>17. CASE PassEnd
    BY <2>17, StillRevs DEF PassEnd
  <2> QED
    BY <1>8, <2>1, <2>2, <2>3, <2>4, <2>5, <2>6, <2>7, <2>8, <2>9, <2>10, <2>11, <2>12, <2>13,
      <2>14, <2>15, <2>16, <2>17 DEF PassStep
<1>9. CASE DeleteProject
  BY <1>9 DEF DeleteProject
<1>10. CASE DeleteEnd
  BY <1>10, StillRevs DEF DeleteEnd
<1>11. CASE MaintBegin
  BY <1>11, StillRevs DEF MaintBegin
<1>12. CASE PassFails
  BY <1>12, StillRevs DEF PassFails
<1>13. ASSUME NEW r \in Revs, Age(r) PROVE (exists' => \A x \in Revs : RevMove(x) /\ AgeMove(x))
  <2>1. UNCHANGED <<status, parent, loc, up>> /\ status[r] # "none"
    BY <1>13 DEF Age, Rows
  <2>2. \/ age[r] = "new" /\ age' = [age EXCEPT ![r] = "hour"]
        \/ age' = [age EXCEPT ![r] = "day"] /\ up[r] = "none" /\ \A p \in Jobs : Key(p) # r
    BY <1>13 DEF Age
  <2>3. ASSUME NEW x \in Revs PROVE RevMove(x) /\ AgeMove(x)
    BY <2>1, <2>2, <1>0 DEF RevMove, AgeMove, TablesOK, Key
  <2> QED
    BY <2>3
<1>14. CASE Crash
  BY <1>14, StillRevs DEF Crash
<1>15. CASE UNCHANGED vars
  BY <1>15, StillRevs DEF vars
<1> QED
  BY <1>1, <1>2, <1>3, <1>4, <1>5, <1>6, <1>7, <1>8, <1>9, <1>10, <1>11, <1>12, <1>13, <1>14, <1>15
    DEF Next

LEMMA StillObjects == UNCHANGED <<stored, up>> => \A k \in Keys : ObjectMove(k)
  BY DEF ObjectMove, UpMove, StoreMove

\* An object is stored by the upload that was sent, and removed by the cleanup, by retention
\* or, a log, by its expiry.
LEMMA StepObjects == CheckpointsInv /\ [Next]_vars => \A x \in Keys : ObjectMove(x)
<1> SUFFICES ASSUME CheckpointsInv, [Next]_vars PROVE \A x \in Keys : ObjectMove(x)
  OBVIOUS
<1>0. TablesOK /\ LocOK /\ Places
  BY TypeParts DEF CheckpointsInv
<1>l. LocOK
  BY <1>0
<1> USE <1>l, Tasks, Objects
<1>1. ASSUME NEW r \in Runs, NEW i \in BOOLEAN, RunStart(r, i) PROVE \A x \in Keys : ObjectMove(x)
  BY <1>1, StillObjects DEF RunStart
<1>2. ASSUME NEW r \in Runs, RunSucceeds(r) PROVE \A x \in Keys : ObjectMove(x)
  BY <1>2, StillObjects DEF RunSucceeds
<1>3. ASSUME NEW v \in Views, ViewStart(v) PROVE \A x \in Keys : ObjectMove(x)
  BY <1>3, StillObjects DEF ViewStart
<1>4. ASSUME NEW p \in Jobs, JobStep(p) PROVE \A x \in Keys : ObjectMove(x)
  <2>1. CASE ReadLatest(p)
    BY <2>1, StillObjects DEF ReadLatest
  <2>2. CASE ReadBytes(p)
    BY <2>2, StillObjects DEF ReadBytes
  <2>3. CASE JobFails(p)
    BY <2>3, StillObjects DEF JobFails
  <2>4. CASE SaveSame(p)
    BY <2>4, StillObjects DEF SaveSame
  <2>5. CASE SaveBegin(p)
    BY <2>5, StillObjects DEF SaveBegin
  <2> QED
    BY <1>4, <2>1, <2>2, <2>3, <2>4, <2>5 DEF JobStep
<1>5. ASSUME NEW p \in Jobs \cup {Maint}, SaveStep(p) PROVE \A x \in Keys : ObjectMove(x)
  <2>1. CASE PutObject(p)
    <3>1. /\ At(p, "put") /\ up' = [up EXCEPT ![loc[p].key] = "check"] /\ loc'[p].pc = "upload"
          /\ UNCHANGED <<exists, stored, status, age, run, intents>>
      BY <2>1, GotoNow DEF PutObject, Key, Now
    <3> QED
      BY <3>1, <1>0 DEF ObjectMove, UpMove, StoreMove, TablesOK
  <2>2. CASE PromoteRead(p)
    BY <2>2, StillObjects DEF PromoteRead
  <2>3. CASE PromoteCommit(p)
    BY <2>3, StillObjects DEF PromoteCommit
  <2>4. CASE PromoteFails(p)
    BY <2>4, StillObjects DEF PromoteFails
  <2> QED
    BY <1>5, <2>1, <2>2, <2>3, <2>4 DEF SaveStep
<1>6. ASSUME NEW k \in Keys, UploadStep(k) PROVE \A x \in Keys : ObjectMove(x)
  <2>1. CASE UploadCheck(k)
    BY <2>1, <1>0 DEF UploadCheck, ObjectMove, UpMove, StoreMove, TablesOK
  <2>2. CASE UploadDone(k)
    BY <2>2, <1>0 DEF UploadDone, ObjectMove, UpMove, StoreMove, TablesOK
  <2>3. CASE UploadFails(k)
    <3>1. /\ up' = [up EXCEPT ![k] = "none"] /\ UNCHANGED <<exists, status, intents>>
          /\ stored' = stored \/ (up[k] = "put" /\ stored' = stored \cup {k})
      BY <2>3 DEF UploadFails
    <3> QED
      BY <3>1, <1>0 DEF ObjectMove, UpMove, StoreMove, TablesOK
  <2> QED
    BY <1>6, <2>1, <2>2, <2>3 DEF UploadStep
<1>7. ASSUME NEW p \in Cleaners, CleanStep(p) PROVE \A x \in Keys : ObjectMove(x)
  <2>1. CASE CleanNext(p)
    BY <2>1, StillObjects DEF CleanNext
  <2>2. CASE CleanWait(p)
    BY <2>2, StillObjects DEF CleanWait
  <2>3. CASE CleanDelete(p)
    <3>1. /\ At(p, "delete") /\ stored' \in {stored, stored \ {loc[p].key}}
          /\ UNCHANGED <<exists, status, intents, up>>
      BY <2>3 DEF CleanDelete, Key
    <3> QED
      BY <3>1 DEF ObjectMove, UpMove, StoreMove
  <2>4. CASE CleanFails(p)
    <3>1. /\ At(p, "delete") /\ stored' \in {stored, stored \ {loc[p].key}}
          /\ UNCHANGED <<exists, status, intents, up>>
      BY <2>4 DEF CleanFails, Key
    <3> QED
      BY <3>1 DEF ObjectMove, UpMove, StoreMove
  <2>5. CASE CleanDrop(p)
    BY <2>5, StillObjects DEF CleanDrop
  <2>6. CASE CleanTimeout(p)
    <3>1. UNCHANGED <<exists, status, up>>
      BY <2>6 DEF CleanTimeout
    <3>2. \/ UNCHANGED stored
          \/ At(p, "delete") /\ stored' \in {stored, stored \ {loc[p].key}} /\ UNCHANGED intents
      BY <2>6 DEF CleanTimeout, Key
    <3> QED
      BY <3>1, <3>2 DEF ObjectMove, UpMove, StoreMove
  <2> QED
    BY <1>7, <2>1, <2>2, <2>3, <2>4, <2>5, <2>6 DEF CleanStep
<1>8. ASSUME PassStep PROVE \A x \in Keys : ObjectMove(x)
  <2>1. CASE MaintBusy
    BY <2>1, StillObjects DEF MaintBusy
  <2>2. CASE MaintList
    BY <2>2, StillObjects DEF MaintList
  <2>3. CASE RecoverNext
    BY <2>3, StillObjects DEF RecoverNext
  <2>4. CASE RecoverBytes
    BY <2>4, StillObjects DEF RecoverBytes
  <2>5. CASE RecoverFails
    BY <2>5, StillObjects DEF RecoverFails
  <2>6. CASE Discard
    BY <2>6, StillObjects DEF Discard
  <2>7. CASE RecoverEnd
    BY <2>7, StillObjects DEF RecoverEnd
  <2>8. CASE ArchiveNext
    BY <2>8, StillObjects DEF ArchiveNext
  <2>9. CASE ArchiveConfirm
    BY <2>9, StillObjects DEF ArchiveConfirm
  <2>10. CASE ArchiveEnd
    BY <2>10, StillObjects DEF ArchiveEnd
  <2>11. CASE Retain
    BY <2>11, StillObjects DEF Retain
  <2>12. CASE Purge
    <3>1. PICK r \in Revs : At(Maint, "purge") /\ r \in loc[Maint].todo /\ stored' = stored \ {r}
      BY <2>12 DEF Purge, Take
    <3>2. UNCHANGED <<exists, status, intents, up>>
      BY <2>12 DEF Purge
    <3> QED
      BY <3>1, <3>2 DEF ObjectMove, UpMove, StoreMove
  <2>13. CASE PurgeRow
    BY <2>13, StillObjects DEF PurgeRow
  <2>14. ASSUME NEW old \in SUBSET Runs, PurgeEnd(old) PROVE \A x \in Keys : ObjectMove(x)
    BY <2>14, StillObjects DEF PurgeEnd
  <2>15. CASE Expire
    <3>1. PICK r \in Runs : stored' = stored \/ stored' = stored \ {r}
      BY <2>15 DEF Expire
    <3>2. UNCHANGED <<exists, status, intents, up>>
      BY <2>15 DEF Expire
    <3> QED
      BY <3>1, <3>2 DEF ObjectMove, UpMove, StoreMove
  <2>16. CASE Unlog
    BY <2>16, StillObjects DEF Unlog
  <2>17. CASE PassEnd
    BY <2>17, StillObjects DEF PassEnd
  <2> QED
    BY <1>8, <2>1, <2>2, <2>3, <2>4, <2>5, <2>6, <2>7, <2>8, <2>9, <2>10, <2>11, <2>12, <2>13,
      <2>14, <2>15, <2>16, <2>17 DEF PassStep
<1>9. CASE DeleteProject
  BY <1>9, StillObjects DEF DeleteProject
<1>10. CASE DeleteEnd
  BY <1>10, StillObjects DEF DeleteEnd
<1>11. CASE MaintBegin
  BY <1>11, StillObjects DEF MaintBegin
<1>12. CASE PassFails
  <2>1. UNCHANGED <<exists, status, intents, up>>
    BY <1>12 DEF PassFails
  <2>2. CASE UNCHANGED stored
    BY <2>1, <2>2, StillObjects
  <2>3. ASSUME NEW k \in loc[Maint].todo, loc[Maint].pc \in {"purge", "expire"}, stored' = stored \ {k}
        PROVE  \A x \in Keys : ObjectMove(x)
    <3>1. At(Maint, "purge") \/ k \in Runs
      BY <1>0, <2>3 DEF At, Places
    <3> QED
      BY <2>1, <2>3, <3>1 DEF ObjectMove, UpMove, StoreMove
  <2> QED
    BY <1>12, <2>2, <2>3 DEF PassFails
<1>13. ASSUME NEW r \in Revs, Age(r) PROVE \A x \in Keys : ObjectMove(x)
  BY <1>13, StillObjects DEF Age
<1>14. CASE Crash
  <2>1. PICK put \in SUBSET {k \in Keys : up[k] = "put"} : stored' = stored \cup put
    BY <1>14 DEF Crash
  <2>2. up' = [k \in Keys |-> "none"] /\ UNCHANGED <<exists, status, intents>>
    BY <1>14 DEF Crash
  <2> QED
    BY <2>1, <2>2 DEF ObjectMove, UpMove, StoreMove
<1>15. CASE UNCHANGED vars
  BY <1>15, StillObjects DEF vars
<1> QED
  BY <1>1, <1>2, <1>3, <1>4, <1>5, <1>6, <1>7, <1>8, <1>9, <1>10, <1>11, <1>12, <1>13, <1>14, <1>15
    DEF Next

LEMMA StillIntents == UNCHANGED <<exists, intents>> => IntentMove
  BY DEF IntentMove

\* An intent is recorded by delete_project, and dropped after the deletion.
LEMMA StepIntents == CheckpointsInv /\ [Next]_vars => IntentMove
<1> SUFFICES ASSUME CheckpointsInv, [Next]_vars PROVE IntentMove
  OBVIOUS
<1>0. TablesOK
  BY TypeParts DEF CheckpointsInv
<1> USE Tasks, Objects
<1>1. ASSUME NEW r \in Runs, NEW i \in BOOLEAN, RunStart(r, i) PROVE IntentMove
  BY <1>1, StillIntents DEF RunStart
<1>2. ASSUME NEW r \in Runs, RunSucceeds(r) PROVE IntentMove
  BY <1>2, StillIntents DEF RunSucceeds
<1>3. ASSUME NEW v \in Views, ViewStart(v) PROVE IntentMove
  BY <1>3, StillIntents DEF ViewStart
<1>4. ASSUME NEW p \in Jobs, JobStep(p) PROVE IntentMove
  <2>1. CASE ReadLatest(p)
    BY <2>1, StillIntents DEF ReadLatest
  <2>2. CASE ReadBytes(p)
    BY <2>2, StillIntents DEF ReadBytes
  <2>3. CASE JobFails(p)
    BY <2>3, StillIntents DEF JobFails
  <2>4. CASE SaveSame(p)
    BY <2>4, StillIntents DEF SaveSame
  <2>5. CASE SaveBegin(p)
    BY <2>5, StillIntents DEF SaveBegin
  <2> QED
    BY <1>4, <2>1, <2>2, <2>3, <2>4, <2>5 DEF JobStep
<1>5. ASSUME NEW p \in Jobs \cup {Maint}, SaveStep(p) PROVE IntentMove
  <2>1. CASE PutObject(p)
    BY <2>1, StillIntents DEF PutObject
  <2>2. CASE PromoteRead(p)
    BY <2>2, StillIntents DEF PromoteRead
  <2>3. CASE PromoteCommit(p)
    BY <2>3, StillIntents DEF PromoteCommit
  <2>4. CASE PromoteFails(p)
    BY <2>4, StillIntents DEF PromoteFails
  <2> QED
    BY <1>5, <2>1, <2>2, <2>3, <2>4 DEF SaveStep
<1>6. ASSUME NEW k \in Keys, UploadStep(k) PROVE IntentMove
  <2>1. CASE UploadCheck(k)
    BY <2>1, StillIntents DEF UploadCheck
  <2>2. CASE UploadDone(k)
    BY <2>2, StillIntents DEF UploadDone
  <2>3. CASE UploadFails(k)
    BY <2>3, StillIntents DEF UploadFails
  <2> QED
    BY <1>6, <2>1, <2>2, <2>3 DEF UploadStep
<1>7. ASSUME NEW p \in Cleaners, CleanStep(p) PROVE IntentMove
  <2>1. CASE CleanNext(p)
    BY <2>1, StillIntents DEF CleanNext
  <2>2. CASE CleanWait(p)
    BY <2>2, StillIntents DEF CleanWait
  <2>3. CASE CleanDelete(p)
    BY <2>3, StillIntents DEF CleanDelete
  <2>4. CASE CleanFails(p)
    BY <2>4, StillIntents DEF CleanFails
  <2>5. CASE CleanDrop(p)
    <3>1. At(p, "drop") /\ intents' = intents \ {loc[p].key} /\ UNCHANGED <<exists, stored, up, status, run>>
      BY <2>5 DEF CleanDrop, Key
    <3> QED
      BY <3>1 DEF IntentMove
  <2>6. CASE CleanTimeout(p)
    <3>1. CASE UNCHANGED intents
      BY <2>6, <3>1, StillIntents DEF CleanTimeout
    <3>2. CASE ~UNCHANGED intents
      <4>1. At(p, "drop") /\ intents' = intents \ {loc[p].key} /\ UNCHANGED <<exists, stored, up, status, run>>
        BY <2>6, <3>2 DEF CleanTimeout, Key
      <4> QED
        BY <4>1 DEF IntentMove
    <3> QED
      BY <3>1, <3>2
  <2> QED
    BY <1>7, <2>1, <2>2, <2>3, <2>4, <2>5, <2>6 DEF CleanStep
<1>8. ASSUME PassStep PROVE IntentMove
  <2>1. CASE MaintBusy
    BY <2>1, StillIntents DEF MaintBusy
  <2>2. CASE MaintList
    BY <2>2, StillIntents DEF MaintList
  <2>3. CASE RecoverNext
    BY <2>3, StillIntents DEF RecoverNext
  <2>4. CASE RecoverBytes
    BY <2>4, StillIntents DEF RecoverBytes
  <2>5. CASE RecoverFails
    BY <2>5, StillIntents DEF RecoverFails
  <2>6. CASE Discard
    BY <2>6, StillIntents DEF Discard
  <2>7. CASE RecoverEnd
    BY <2>7, StillIntents DEF RecoverEnd
  <2>8. CASE ArchiveNext
    BY <2>8, StillIntents DEF ArchiveNext
  <2>9. CASE ArchiveConfirm
    BY <2>9, StillIntents DEF ArchiveConfirm
  <2>10. CASE ArchiveEnd
    BY <2>10, StillIntents DEF ArchiveEnd
  <2>11. CASE Retain
    BY <2>11, StillIntents DEF Retain
  <2>12. CASE Purge
    BY <2>12, StillIntents DEF Purge
  <2>13. CASE PurgeRow
    BY <2>13, StillIntents DEF PurgeRow
  <2>14. ASSUME NEW old \in SUBSET Runs, PurgeEnd(old) PROVE IntentMove
    BY <2>14, StillIntents DEF PurgeEnd
  <2>15. CASE Expire
    BY <2>15, StillIntents DEF Expire
  <2>16. CASE Unlog
    BY <2>16, StillIntents DEF Unlog
  <2>17. CASE PassEnd
    BY <2>17, StillIntents DEF PassEnd
  <2> QED
    BY <1>8, <2>1, <2>2, <2>3, <2>4, <2>5, <2>6, <2>7, <2>8, <2>9, <2>10, <2>11, <2>12, <2>13,
      <2>14, <2>15, <2>16, <2>17 DEF PassStep
<1>9. CASE DeleteProject
  <2>1. exists /\ ~exists' /\ intents' = intents \cup OwnedKeys /\ UNCHANGED <<stored, up>>
    BY <1>9 DEF DeleteProject
  <2> QED
    BY <2>1 DEF IntentMove
<1>10. CASE DeleteEnd
  BY <1>10, StillIntents DEF DeleteEnd
<1>11. CASE MaintBegin
  BY <1>11, StillIntents DEF MaintBegin
<1>12. CASE PassFails
  BY <1>12, StillIntents DEF PassFails
<1>13. ASSUME NEW r \in Revs, Age(r) PROVE IntentMove
  BY <1>13, StillIntents DEF Age
<1>14. CASE Crash
  BY <1>14, StillIntents DEF Crash
<1>15. CASE UNCHANGED vars
  BY <1>15, StillIntents DEF vars
<1> QED
  BY <1>1, <1>2, <1>3, <1>4, <1>5, <1>6, <1>7, <1>8, <1>9, <1>10, <1>11, <1>12, <1>13, <1>14, <1>15
    DEF Next

LEMMA StillRuns == UNCHANGED <<run, live>> => \A r \in Runs : RunMove(r)
  BY DEF RunMove

\* finish() ends one run and leaves the others alone.
LEMMA EndRuns ==
    ASSUME TablesOK, NEW p \in Procs, End(p)
    PROVE  \A r \in Runs : RunMove(r)
<1> SUFFICES ASSUME NEW r \in Runs PROVE RunMove(r)
  OBVIOUS
<1>1. live' = live \ {p} /\ run' = IF p \in Runs /\ run[p] = "running" THEN [run EXCEPT ![p] = "ended"] ELSE run
  BY DEF End
<1>2. CASE r = p
  BY <1>1, <1>2 DEF RunMove, TablesOK
<1>3. CASE r # p
  BY <1>1, <1>3 DEF RunMove, TablesOK
<1> QED
  BY <1>2, <1>3

\* A run is running from its registration to finish().
LEMMA StepRuns == CheckpointsInv /\ [Next]_vars => \A x \in Runs : RunMove(x)
<1> SUFFICES ASSUME CheckpointsInv, [Next]_vars PROVE \A x \in Runs : RunMove(x)
  OBVIOUS
<1>0. TablesOK /\ LocOK
  BY TypeParts DEF CheckpointsInv
<1>l. LocOK
  BY <1>0
<1> USE <1>l, Tasks, Objects
<1>1. ASSUME NEW r \in Runs, NEW i \in BOOLEAN, RunStart(r, i) PROVE \A x \in Runs : RunMove(x)
  <2>1. /\ run[r] = "none" /\ live = {} /\ live' = {r} /\ loc'[r].pc = "source"
        /\ run' = [run EXCEPT ![r] = IF i THEN "ended" ELSE "running"]
    BY <1>1, GotoNow DEF RunStart, Now
  <2>2. ASSUME NEW x \in Runs PROVE RunMove(x)
    <3>1. CASE x = r
      BY <2>1, <3>1, <1>0 DEF RunMove, TablesOK
    <3>2. CASE x # r
      BY <2>1, <3>2, <1>0 DEF RunMove, TablesOK
    <3> QED
      BY <3>1, <3>2
  <2> QED
    BY <2>2
<1>2. ASSUME NEW r \in Runs, RunSucceeds(r) PROVE \A x \in Runs : RunMove(x)
  BY <1>2, EndRuns, <1>0 DEF RunSucceeds
<1>3. ASSUME NEW v \in Views, ViewStart(v) PROVE \A x \in Runs : RunMove(x)
  BY <1>3, StillRuns DEF ViewStart
<1>4. ASSUME NEW p \in Jobs, JobStep(p) PROVE \A x \in Runs : RunMove(x)
  <2>1. CASE ReadLatest(p)
    BY <2>1, EndRuns, StillRuns, <1>0 DEF ReadLatest
  <2>2. CASE ReadBytes(p)
    BY <2>2, EndRuns, StillRuns, <1>0 DEF ReadBytes
  <2>3. CASE JobFails(p)
    BY <2>3, EndRuns, <1>0 DEF JobFails
  <2>4. CASE SaveSame(p)
    BY <2>4, StillRuns DEF SaveSame
  <2>5. CASE SaveBegin(p)
    BY <2>5, StillRuns DEF SaveBegin
  <2> QED
    BY <1>4, <2>1, <2>2, <2>3, <2>4, <2>5 DEF JobStep
<1>5. ASSUME NEW p \in Jobs \cup {Maint}, SaveStep(p) PROVE \A x \in Runs : RunMove(x)
  <2>1. CASE PutObject(p)
    BY <2>1, StillRuns DEF PutObject
  <2>2. CASE PromoteRead(p)
    BY <2>2, StillRuns DEF PromoteRead
  <2>3. CASE PromoteCommit(p)
    BY <2>3, StillRuns DEF PromoteCommit
  <2>4. CASE PromoteFails(p)
    BY <2>4, EndRuns, StillRuns, <1>0 DEF PromoteFails, Raise
  <2> QED
    BY <1>5, <2>1, <2>2, <2>3, <2>4 DEF SaveStep
<1>6. ASSUME NEW k \in Keys, UploadStep(k) PROVE \A x \in Runs : RunMove(x)
  <2>1. CASE UploadCheck(k)
    BY <2>1, StillRuns DEF UploadCheck
  <2>2. CASE UploadDone(k)
    BY <2>2, StillRuns DEF UploadDone
  <2>3. CASE UploadFails(k)
    BY <2>3, EndRuns, StillRuns, <1>0 DEF UploadFails, Raise
  <2> QED
    BY <1>6, <2>1, <2>2, <2>3 DEF UploadStep
<1>7. ASSUME NEW p \in Cleaners, CleanStep(p) PROVE \A x \in Runs : RunMove(x)
  <2>1. CASE CleanNext(p)
    BY <2>1, StillRuns DEF CleanNext
  <2>2. CASE CleanWait(p)
    BY <2>2, StillRuns DEF CleanWait
  <2>3. CASE CleanDelete(p)
    BY <2>3, StillRuns DEF CleanDelete
  <2>4. CASE CleanFails(p)
    BY <2>4, StillRuns DEF CleanFails
  <2>5. CASE CleanDrop(p)
    BY <2>5, StillRuns DEF CleanDrop
  <2>6. CASE CleanTimeout(p)
    BY <2>6, StillRuns DEF CleanTimeout
  <2> QED
    BY <1>7, <2>1, <2>2, <2>3, <2>4, <2>5, <2>6 DEF CleanStep
<1>8. ASSUME PassStep PROVE \A x \in Runs : RunMove(x)
  <2>1. CASE MaintBusy
    BY <2>1, StillRuns DEF MaintBusy
  <2>2. CASE MaintList
    BY <2>2, StillRuns DEF MaintList
  <2>3. CASE RecoverNext
    BY <2>3, StillRuns DEF RecoverNext
  <2>4. CASE RecoverBytes
    BY <2>4, StillRuns DEF RecoverBytes
  <2>5. CASE RecoverFails
    BY <2>5, StillRuns DEF RecoverFails
  <2>6. CASE Discard
    BY <2>6, StillRuns DEF Discard
  <2>7. CASE RecoverEnd
    BY <2>7, StillRuns DEF RecoverEnd
  <2>8. CASE ArchiveNext
    BY <2>8, StillRuns DEF ArchiveNext
  <2>9. CASE ArchiveConfirm
    BY <2>9, StillRuns DEF ArchiveConfirm
  <2>10. CASE ArchiveEnd
    BY <2>10, StillRuns DEF ArchiveEnd
  <2>11. CASE Retain
    BY <2>11, StillRuns DEF Retain
  <2>12. CASE Purge
    BY <2>12, StillRuns DEF Purge
  <2>13. CASE PurgeRow
    BY <2>13, StillRuns DEF PurgeRow
  <2>14. ASSUME NEW old \in SUBSET Runs, PurgeEnd(old) PROVE \A x \in Runs : RunMove(x)
    BY <2>14, StillRuns DEF PurgeEnd
  <2>15. CASE Expire
    BY <2>15, StillRuns DEF Expire
  <2>16. CASE Unlog
    BY <2>16, StillRuns DEF Unlog
  <2>17. CASE PassEnd
    BY <2>17, StillRuns DEF PassEnd
  <2> QED
    BY <1>8, <2>1, <2>2, <2>3, <2>4, <2>5, <2>6, <2>7, <2>8, <2>9, <2>10, <2>11, <2>12, <2>13,
      <2>14, <2>15, <2>16, <2>17 DEF PassStep
<1>9. CASE DeleteProject
  BY <1>9 DEF DeleteProject, RunMove
<1>10. CASE DeleteEnd
  BY <1>10, StillRuns DEF DeleteEnd
<1>11. CASE MaintBegin
  BY <1>11, StillRuns DEF MaintBegin
<1>12. CASE PassFails
  BY <1>12, StillRuns DEF PassFails
<1>13. ASSUME NEW r \in Revs, Age(r) PROVE \A x \in Runs : RunMove(x)
  BY <1>13, StillRuns DEF Age
<1>14. CASE Crash
  <2>1. run' = [r \in Runs |-> IF run[r] = "running" THEN "ended" ELSE run[r]]
    BY <1>14 DEF Crash
  <2> QED
    BY <2>1 DEF RunMove
<1>15. CASE UNCHANGED vars
  BY <1>15, StillRuns DEF vars
<1> QED
  BY <1>1, <1>2, <1>3, <1>4, <1>5, <1>6, <1>7, <1>8, <1>9, <1>10, <1>11, <1>12, <1>13, <1>14, <1>15
    DEF Next

\* All of it.
Effect ==
    /\ TablesOK' /\ LocOK' /\ TasksMove
    /\ (exists' => exists) /\ (~exists' => Gone')
    /\ nextRev <= nextRev' /\ (exists' => ChatMove)
    /\ exists' => \A r \in Revs : RevMove(r) /\ AgeMove(r)
    /\ \A k \in Keys : ObjectMove(k)
    /\ IntentMove
    /\ \A r \in Runs : RunMove(r)

LEMMA Effects == CheckpointsInv /\ [Next]_vars => Effect
<1> SUFFICES ASSUME CheckpointsInv, [Next]_vars PROVE Effect
  OBVIOUS
<1>1. TablesOK' /\ LocOK' /\ TasksMove
  BY TablesStep, LocStep, StepTasks
<1>2. (exists' => exists) /\ (~exists' => Gone') /\ nextRev <= nextRev' /\ (exists' => ChatMove)
  BY StepExists, StepNext, StepChat
<1>3. exists' => \A r \in Revs : RevMove(r) /\ AgeMove(r)
  BY StepRevs
<1>4. (\A k \in Keys : ObjectMove(k)) /\ IntentMove /\ (\A r \in Runs : RunMove(r))
  BY StepObjects, StepIntents, StepRuns
<1> QED
  BY <1>1, <1>2, <1>3, <1>4 DEF Effect

----------------------------------------------------------------------------
(* The parts of the invariant are kept.                                    *)

\* Every task works on what its place in the program says.
LEMMA PlacesStep == ASSUME CheckpointsInv, Effect PROVE Places'
<1>0. /\ TablesOK /\ TablesOK' /\ LocOK /\ LocOK' /\ Places
      /\ TasksMove /\ nextRev <= nextRev'
  BY TypeParts DEF CheckpointsInv, Effect
<1> USE Tasks, Objects
<1>n. nextRev \in 0..MaxRev /\ nextRev' \in 0..MaxRev
  BY <1>0 DEF TablesOK
<1>1. ASSUME NEW p \in Jobs
      PROVE  /\ loc'[p].pc \in {"idle"} \cup JobPCs
             /\ loc'[p].pc \in SaverPCs => loc'[p].key \in 1..nextRev'
             /\ p \in Runs /\ loc'[p].pc = "work" => loc'[p].key \in Revs \cup {None}
  <2>1. /\ JobMove(p) /\ loc[p].pc \in {"idle"} \cup JobPCs
        /\ loc[p].pc \in SaverPCs => loc[p].key \in 1..nextRev
        /\ p \in Runs /\ loc[p].pc = "work" => loc[p].key \in Revs \cup {None}
    BY <1>0 DEF TasksMove, Places, Key, At
  <2> QED
    BY <1>0, <1>n, <2>1 DEF JobMove, At, Insert, JobPCs, SavePCs, SaverPCs
<1>2. loc'[Del].pc \in {"idle"} \cup CleanPCs
  BY <1>0 DEF Places, TasksMove, DelMove, CleanMove, CleanPCs
<1>3. ASSUME NEW p \in Cleaners, loc'[p].pc \in CleanPCs \ {"clean"} PROVE loc'[p].key \in Keys
  <2>1. loc'[p] = loc[p] \/ CleanMove(p)
    BY <1>0, <1>3 DEF TasksMove, DelMove, MaintMove, RecoveryMove, ArchiveMove, PurgeMove, CleanPCs
  <2>2. (loc[p].pc \in CleanPCs \ {"clean"} => loc[p].key \in Keys) /\ loc[p].todo \subseteq Keys
    BY <1>0 DEF Places, Key, LocOK, LocType
  <2> QED
    BY <1>3, <2>1, <2>2 DEF CleanMove, CleanPCs, Stays, At
<1>4. loc'[Maint].pc \in RecoveryPCs \cup {"recover"} =>
        /\ loc'[Maint].todo \subseteq 1..nextRev'
        /\ loc'[Maint].pc # "recover" => loc'[Maint].key \in 1..nextRev'
  <2>1. loc'[Maint].pc \in RecoveryPCs \cup {"recover"} => loc'[Maint] = loc[Maint] \/ RecoveryMove
    BY <1>0 DEF TasksMove, MaintMove, CleanMove, ArchiveMove, PurgeMove, RecoveryPCs
  <2>2. loc[Maint].pc \in RecoveryPCs \cup {"recover"} =>
          /\ loc[Maint].todo \subseteq 1..nextRev
          /\ loc[Maint].pc # "recover" => loc[Maint].key \in 1..nextRev
    BY <1>0 DEF Places, Key, RecoveryPCs
  <2>3. {r \in Revs : status[r] = "pending"} \subseteq 1..nextRev
    BY <1>n DEF CheckpointsInv, Ordered, DeletionWhole
  <2>4. 1..nextRev \subseteq 1..nextRev'
    BY <1>0, <1>n
  <2> QED
    BY <2>1, <2>2, <2>3, <2>4 DEF RecoveryMove, RecoveryPCs, Stays, At
<1>5. loc'[Maint].pc \in ArchivePCs \cup {"archive", "expire"} =>
        /\ loc'[Maint].todo \subseteq Runs
        /\ loc'[Maint].pc \in ArchivePCs => loc'[Maint].key \in Runs
  <2>1. loc'[Maint].pc \in ArchivePCs \cup {"archive", "expire"} => loc'[Maint] = loc[Maint] \/ ArchiveMove \/ PurgeMove
    BY <1>0 DEF TasksMove, MaintMove, CleanMove, RecoveryMove, RecoveryPCs, ArchivePCs
  <2>2. loc[Maint].pc \in ArchivePCs \cup {"archive", "expire"} =>
          /\ loc[Maint].todo \subseteq Runs
          /\ loc[Maint].pc \in ArchivePCs => loc[Maint].key \in Runs
    BY <1>0 DEF Places, Key
  <2> QED
    BY <2>1, <2>2 DEF ArchiveMove, PurgeMove, ArchivePCs, Stays, At
<1>6. loc'[Maint].pc \in {"purge", "purgerow"} =>
        /\ loc'[Maint].todo \subseteq 1..nextRev'
        /\ loc'[Maint].pc = "purgerow" => loc'[Maint].key \in 1..nextRev'
  <2>1. loc'[Maint].pc \in {"purge", "purgerow"} => loc'[Maint] = loc[Maint] \/ PurgeMove
    BY <1>0 DEF TasksMove, MaintMove, CleanMove, RecoveryMove, ArchiveMove
  <2>2. loc[Maint].pc \in {"purge", "purgerow"} =>
          /\ loc[Maint].todo \subseteq 1..nextRev
          /\ loc[Maint].pc = "purgerow" => loc[Maint].key \in 1..nextRev
    BY <1>0 DEF Places, Key
  <2>3. At(Maint, "retain") /\ loc'[Maint].pc = "purge" => {r \in Revs : status'[r] = "deleting"} \subseteq 1..nextRev'
    <3> SUFFICES ASSUME At(Maint, "retain"), loc'[Maint].pc = "purge", NEW r \in Revs, status'[r] = "deleting"
                 PROVE  r \in 1..nextRev'
      OBVIOUS
    <3>1. exists /\ exists' /\ RevMove(r)
      BY DEF Effect, Gone
    <3>2. status[r] # "none" \/ r = nextRev'
      BY <3>1, <1>0 DEF RevMove, At, TablesOK
    <3> QED
      BY <3>1, <3>2, <1>0, <1>n DEF CheckpointsInv, Ordered
  <2>4. 1..nextRev \subseteq 1..nextRev'
    BY <1>0, <1>n
  <2> QED
    BY <2>1, <2>2, <2>3, <2>4 DEF PurgeMove, At
<1>7. (loc[Maint].pc \in RecoveryPCs \cup {"purgerow"} => Key(Maint) \in 1..nextRev)'
  BY <1>4, <1>6 DEF Key, RecoveryPCs
<1>8. (loc[Maint].pc \in ArchivePCs => Key(Maint) \in Runs)'
  BY <1>5 DEF Key, ArchivePCs
<1>9. (loc[Maint].pc \in RecoveryPCs \cup {"recover", "purge", "purgerow"} => loc[Maint].todo \subseteq 1..nextRev)'
  BY <1>4, <1>6 DEF RecoveryPCs
<1>10. (loc[Maint].pc \in ArchivePCs \cup {"archive", "expire"} => loc[Maint].todo \subseteq Runs)'
  BY <1>5
<1>11. (\A p \in Jobs : /\ loc[p].pc \in {"idle"} \cup JobPCs
                        /\ loc[p].pc \in SaverPCs => Key(p) \in 1..nextRev)'
  BY <1>1 DEF Key
<1>12. (\A r \in Runs : At(r, "work") => Key(r) \in Revs \cup {None})'
  BY <1>1 DEF Key, At
<1>13. (\A p \in Cleaners : loc[p].pc \in CleanPCs \ {"clean"} => Key(p) \in Keys)'
  BY <1>3 DEF Key
<1> QED
  BY <1>2, <1>7, <1>8, <1>9, <1>10, <1>11, <1>12, <1>13 DEF Places

\* The cleanup begins with the deletion of the project.
LEMMA DeletionStep == ASSUME CheckpointsInv, Effect PROVE DeletionWhole'
<1>0. DeletionWhole /\ TasksMove /\ IntentMove /\ (exists' => exists) /\ (~exists' => Gone')
  BY DEF CheckpointsInv, Effect
<1> USE Tasks
<1>1. ASSUME exists' PROVE intents' = {} /\ loc'[Del].pc = "idle"
  <2>1. exists /\ intents = {} /\ At(Del, "idle") /\ (loc[Maint].pc \in CleanPCs => At(Maint, "clean"))
    BY <1>0, <1>1 DEF DeletionWhole
  <2>2. intents' = {}
    BY <1>0, <1>1, <2>1 DEF IntentMove, At, CleanPCs
  <2>3. loc'[Del].pc = "idle"
    BY <1>0, <1>1, <2>1 DEF TasksMove, DelMove, CleanMove, At, CleanPCs
  <2> QED
    BY <2>2, <2>3
<1>2. ASSUME exists', loc'[Maint].pc \in CleanPCs
      PROVE  loc'[Maint].pc = "clean" /\ loc'[Maint].todo = {}
  <2>1. /\ exists /\ intents = {}
        /\ loc[Maint].pc \in CleanPCs => At(Maint, "clean") /\ loc[Maint].todo = {}
    BY <1>0, <1>2 DEF DeletionWhole
  <2>2. \/ loc'[Maint] = loc[Maint]
        \/ loc'[Maint].pc = "clean" /\ loc'[Maint].todo \subseteq intents
        \/ CleanMove(Maint)
    BY <1>0, <1>2 DEF TasksMove, MaintMove, RecoveryMove, ArchiveMove, PurgeMove, CleanPCs
  <2>3. ~CleanMove(Maint)
    BY <2>1 DEF CleanMove, At, CleanPCs
  <2> QED
    BY <1>2, <2>1, <2>2, <2>3 DEF At
<1> QED
  BY <1>0, <1>1, <1>2 DEF DeletionWhole, Gone, At

\* The saved revision is one of those inserted, and only moves up.
LEMMA SavedMoves ==
    ASSUME CheckpointsInv, Effect, exists'
    PROVE  /\ exists /\ saved \in 0..MaxRev /\ saved' \in 0..MaxRev /\ saved <= saved' /\ saved <= nextRev
           /\ nextRev \in 0..MaxRev /\ nextRev' \in 0..MaxRev /\ nextRev <= nextRev'
<1>0. /\ TablesOK /\ TablesOK' /\ exists /\ ChatMove /\ Ordered /\ PointersReady /\ nextRev <= nextRev'
  BY TypeParts DEF CheckpointsInv, Effect
<1>1. saved \in 0..MaxRev /\ saved' \in 0..MaxRev /\ nextRev \in 0..MaxRev /\ nextRev' \in 0..MaxRev
  BY <1>0 DEF TablesOK
<1>2. saved <= saved'
  BY <1>0, <1>1 DEF ChatMove
<1>3. saved <= nextRev
  BY <1>0, <1>1, Objects DEF PointersReady, Ordered
<1> QED
  BY <1>0, <1>1, <1>2, <1>3

\* An upload begins with a task whose object is a revision inserted or a run's log.
LEMMA UploadBegins ==
    ASSUME CheckpointsInv, Effect, NEW k \in Keys, up[k] = "none", up'[k] # "none"
    PROVE  /\ UNCHANGED <<exists, stored, status, age, run, intents>> /\ up'[k] = "check"
           /\ \/ \E p \in Jobs : At(p, "put") /\ Key(p) = k /\ loc'[p].pc = "upload" /\ k \in 1..nextRev
              \/ At(Maint, "put") /\ Key(Maint) = k /\ loc'[Maint].pc = "upload" /\ k \in Runs
<1>0. Places /\ UpMove(k)
  BY DEF CheckpointsInv, Effect, ObjectMove
<1>1. PICK p \in Jobs \cup {Maint} : At(p, "put") /\ loc[p].key = k /\ loc'[p].pc = "upload"
  BY <1>0 DEF UpMove
<1>2. UNCHANGED <<exists, stored, status, age, run, intents>> /\ up'[k] = "check"
  BY <1>0 DEF UpMove
<1>3. CASE p \in Jobs
  BY <1>0, <1>1, <1>2, <1>3 DEF Places, SaverPCs, At, Key
<1>4. CASE p = Maint
  BY <1>0, <1>1, <1>2, <1>4 DEF Places, ArchivePCs, At, Key
<1> QED
  BY <1>3, <1>4

\* A parent is older than its child; what was given up is behind or a day old.
LEMMA OrderedStep == ASSUME CheckpointsInv, Effect PROVE Ordered'
<1> SUFFICES ASSUME exists', NEW r \in Revs
             PROVE  /\ parent'[r] < r
                    /\ r > nextRev' => status'[r] = "none" /\ age'[r] = "new" /\ up'[r] = "none"
                    /\ status'[r] = "ready" => r <= saved'
                    /\ status'[r] \in {"failed", "deleting"} => age'[r] = "day" \/ r <= saved'
  BY DEF Ordered
<1>0. /\ exists /\ TablesOK /\ RevMove(r) /\ AgeMove(r)
      /\ parent[r] < r
      /\ r > nextRev => status[r] = "none" /\ age[r] = "new" /\ up[r] = "none"
      /\ status[r] = "ready" => r <= saved
      /\ status[r] \in {"failed", "deleting"} => age[r] = "day" \/ r <= saved
  BY TypeParts DEF CheckpointsInv, Effect, Ordered
<1>1. /\ saved \in 0..MaxRev /\ saved' \in 0..MaxRev /\ saved <= saved' /\ saved <= nextRev
      /\ nextRev \in 0..MaxRev /\ nextRev' \in 0..MaxRev /\ nextRev <= nextRev'
  BY SavedMoves
<1> USE Objects
<1>2. parent'[r] < r
  BY <1>0, <1>1 DEF RevMove
<1>3. ASSUME r > nextRev' PROVE status'[r] = "none" /\ age'[r] = "new" /\ up'[r] = "none"
  <2>1. r > nextRev
    BY <1>1, <1>3
  <2>2. status'[r] = "none" /\ age'[r] = "new"
    BY <1>0, <1>1, <1>3, <2>1 DEF RevMove, AgeMove
  <2>3. up'[r] = "none"
    BY <1>0, <1>1, <2>1, UploadBegins
  <2> QED
    BY <2>2, <2>3
<1>4. status'[r] = "ready" => r <= saved'
  BY <1>0, <1>1 DEF RevMove
<1>5. ASSUME status'[r] \in {"failed", "deleting"} PROVE age'[r] = "day" \/ r <= saved'
  <2>1. age[r] = "day" \/ r <= saved'
    BY <1>0, <1>1, <1>5 DEF RevMove
  <2>2. age[r] = "day" => age'[r] = "day"
    BY <1>0, <1>5 DEF AgeMove
  <2> QED
    BY <2>1, <2>2
<1> QED
  BY <1>2, <1>3, <1>4, <1>5

\* Nothing takes the object of a ready revision, or of a pending one.
LEMMA RowsKeepObjects ==
    ASSUME CheckpointsInv, Effect, exists', NEW r \in Revs, status[r] \in {"pending", "ready"}, r \in stored
    PROVE  r \in stored'
<1>0. exists /\ StoreMove(r) /\ DeletionWhole /\ PurgeSound
  BY Objects DEF CheckpointsInv, Effect, ObjectMove
<1>1. ~(\E p \in Cleaners : At(p, "delete") /\ loc[p].key = r)
  BY <1>0, Tasks DEF DeletionWhole, CleanPCs, At
<1>2. ~(At(Maint, "purge") /\ r \in loc[Maint].todo)
  BY <1>0 DEF PurgeSound, At
<1> QED
  BY <1>0, <1>1, <1>2, Objects DEF StoreMove

\* What the project points to is ready, and what is ready is stored.
LEMMA PointersStep == ASSUME CheckpointsInv, Effect PROVE PointersReady'
<1>0. /\ PointersReady /\ TablesOK /\ TablesOK' /\ (~exists' => Gone')
      /\ exists' => exists /\ ChatMove /\ \A r \in Revs : RevMove(r)
  BY TypeParts DEF CheckpointsInv, Effect
<1> USE Objects
<1>1. CASE ~exists'
  BY <1>0, <1>1 DEF Gone, PointersReady
<1>2. CASE exists'
  <2>1. saved \in 0..MaxRev /\ verified \in 0..MaxRev /\ saved' \in 0..MaxRev /\ verified' \in 0..MaxRev
    BY <1>0 DEF TablesOK
  <2>2. ASSUME NEW r \in Revs, status[r] = "ready", status'[r] # "ready" PROVE r # saved' /\ r # verified'
    <3>1. r <= nextRev
      BY <1>0, <1>2, <2>2 DEF CheckpointsInv, Ordered, TablesOK
    <3>2. r # nextRev + 1
      BY <1>0, <3>1 DEF TablesOK
    <3> QED
      BY <1>0, <1>2, <2>2, <3>2 DEF RevMove
  <2>3. saved' # 0 => status'[saved'] = "ready"
    <3>1. CASE saved' = saved
      <4>1. saved # 0 => saved \in Revs /\ status[saved] = "ready"
        BY <1>0, <2>1 DEF PointersReady
      <4> QED
        BY <3>1, <4>1, <2>2
    <3>2. CASE saved' # saved
      BY <1>0, <1>2, <3>2 DEF ChatMove
    <3> QED
      BY <3>1, <3>2
  <2>4. verified' # 0 => status'[verified'] = "ready"
    <3>1. CASE verified' = verified
      <4>1. verified # 0 => verified \in Revs /\ status[verified] = "ready"
        BY <1>0, <2>1 DEF PointersReady
      <4> QED
        BY <3>1, <4>1, <2>2
    <3>2. CASE verified' # verified
      BY <1>0, <1>2, <3>2 DEF ChatMove
    <3> QED
      BY <3>1, <3>2
  <2>5. ASSUME NEW r \in Revs, status'[r] = "ready" PROVE r \in stored'
    <3>1. status[r] \in {"pending", "ready"} /\ r \in stored
      BY <1>0, <1>2, <2>5 DEF RevMove, PointersReady
    <3> QED
      BY <1>2, <3>1, RowsKeepObjects
  <2> QED
    BY <2>3, <2>4, <2>5 DEF PointersReady
<1> QED
  BY <1>1, <1>2

\* What becomes of a row: a pending one is promoted, or given up when it is a day old; one
\* that is ready stays so while a run is running; nothing comes back.
LEMMA RowMoves ==
    ASSUME CheckpointsInv, Effect, exists', NEW r \in 1..nextRev
    PROVE  /\ r \in Revs
           /\ status[r] = "pending" /\ age[r] # "day" =>
                status'[r] = "pending" \/ (status'[r] = "ready" /\ r <= saved' /\ r \in stored)
           /\ status'[r] \in {"pending", "ready"} => status[r] \in {"pending", "ready"}
           /\ status[r] \in {"deleting", "none"} => status'[r] \in {"deleting", "none"}
           /\ status[r] = "ready" /\ Running => status'[r] = "ready"
           /\ /\ status[r] \in {"pending", "ready"} /\ loc'[Maint].pc # "purge"
              /\ ~(At(Maint, "discard") /\ loc[Maint].key = r /\ loc'[Maint].pc = "recover")
              => status'[r] \in {"pending", "ready"}
<1>1. saved' \in 0..MaxRev /\ nextRev \in 0..MaxRev /\ r \in Revs
  BY SavedMoves, Objects
<1>2. RevMove(r) /\ r # nextRev + 1 /\ r \in Nat
  BY <1>1 DEF Effect
<1> QED
  BY <1>1, <1>2 DEF RevMove

\* Who saves a revision still may promote it, or has lost the race.
LEMMA SaversStep == ASSUME CheckpointsInv, Effect PROVE SaversCurrent'
<1> SUFFICES ASSUME exists', NEW p \in Jobs, loc'[p].pc \in SaverPCs
             PROVE  /\ age'[loc'[p].key] # "day"
                    /\ status'[loc'[p].key] = "pending" \/ loc'[p].key <= saved'
  BY DEF SaversCurrent, Key
<1>0. /\ exists /\ saved \in 0..MaxRev /\ saved' \in 0..MaxRev /\ saved <= saved'
      /\ nextRev \in 0..MaxRev
  BY SavedMoves
<1>1. JobMove(p)
  BY DEF Effect, TasksMove
<1>2. CASE loc[p].pc \in SaverPCs /\ loc'[p].key = loc[p].key
  <2>1. /\ loc[p].key \in 1..nextRev /\ age[loc[p].key] # "day"
        /\ status[loc[p].key] = "pending" \/ loc[p].key <= saved
    BY <1>0, <1>2 DEF CheckpointsInv, Places, SaversCurrent, Key
  <2>2. /\ loc[p].key \in Revs
        /\ status[loc[p].key] = "pending" => status'[loc[p].key] = "pending" \/ loc[p].key <= saved'
    BY <2>1, RowMoves
  <2>3. age'[loc[p].key] # "day"
    BY <2>1, <2>2 DEF Effect, AgeMove
  <2> QED
    BY <1>0, <1>2, <2>1, <2>2, <2>3
<1>3. CASE loc'[p].key = nextRev + 1 /\ Insert
  <2>1. nextRev + 1 \in Revs /\ status'[nextRev + 1] = "pending" /\ age'[nextRev + 1] = age[nextRev + 1]
    BY <1>3 DEF Insert
  <2>2. age[nextRev + 1] = "new"
    BY <1>0, <2>1 DEF CheckpointsInv, Ordered
  <2> QED
    BY <1>3, <2>1, <2>2
<1> QED
  BY <1>1, <1>2, <1>3 DEF JobMove, SaverPCs, At

\* Whoever promotes has the object.
LEMMA PromotesStep == ASSUME CheckpointsInv, Effect PROVE PromotesStored'
<1> SUFFICES ASSUME exists', NEW p \in Jobs \cup {Maint}, loc'[p].pc \in {"promote", "locked"},
                    status'[loc'[p].key] \in {"pending", "ready"}
             PROVE  loc'[p].key \in stored'
  BY DEF PromotesStored, Key
<1>0. exists /\ Places /\ PromotesStored
  BY DEF CheckpointsInv, Effect
<1>1. \/ loc'[p].key \in stored'
      \/ /\ loc[p].pc \in {"promote", "locked"} /\ loc'[p].key = loc[p].key
      \/ At(p, "bytes") /\ p = Maint /\ loc'[p].key \in stored /\ UNCHANGED stored
  <2>1. CASE p \in Jobs
    <3>1. JobMove(p)
      BY <2>1 DEF Effect, TasksMove
    <3> QED
      BY <3>1 DEF JobMove, At
  <2>2. CASE p = Maint
    <3>1. MaintMove
      BY DEF Effect, TasksMove
    <3> QED
      BY <2>2, <3>1, Tasks DEF MaintMove, CleanMove, RecoveryMove, ArchiveMove, PurgeMove, Stays, At
  <2> QED
    BY <2>1, <2>2
<1>2. CASE loc[p].pc \in {"promote", "locked"} /\ loc'[p].key = loc[p].key
  <2>1. loc[p].key \in 1..nextRev
    BY <1>0, <1>2 DEF Places, SaverPCs, RecoveryPCs, Key
  <2>2. loc[p].key \in Revs /\ status[loc[p].key] \in {"pending", "ready"}
    BY <1>2, <2>1, RowMoves
  <2>3. loc[p].key \in stored
    BY <1>0, <1>2, <2>2 DEF PromotesStored, Key
  <2> QED
    BY <1>2, <2>2, <2>3, RowsKeepObjects
<1> QED
  BY <1>1, <1>2

\* Recovery works on rows that are pending or have been promoted meanwhile.
LEMMA RecoveryStep == ASSUME CheckpointsInv, Effect PROVE RecoverySound'
<1> SUFFICES ASSUME exists', loc'[Maint].pc \in RecoveryPCs \cup {"recover"}
             PROVE  /\ \A r \in loc'[Maint].todo : status'[r] \in {"pending", "ready"}
                    /\ loc'[Maint].pc # "recover" => /\ status'[loc'[Maint].key] \in {"pending", "ready"}
                                                     /\ loc'[Maint].key \notin loc'[Maint].todo
  BY DEF RecoverySound, Key
<1>0. exists /\ Places /\ RecoverySound /\ TasksMove
  BY DEF CheckpointsInv, Effect
<1>1. loc'[Maint] = loc[Maint] \/ RecoveryMove
  BY <1>0 DEF TasksMove, MaintMove, CleanMove, ArchiveMove, PurgeMove, RecoveryPCs
<1>2. loc[Maint].pc \in RecoveryPCs \cup {"recover"} =>
        /\ loc[Maint].todo \subseteq 1..nextRev
        /\ \A r \in loc[Maint].todo : status[r] \in {"pending", "ready"}
        /\ loc[Maint].pc # "recover" => /\ status[loc[Maint].key] \in {"pending", "ready"}
                                        /\ loc[Maint].key \notin loc[Maint].todo /\ loc[Maint].key \in 1..nextRev
  BY <1>0 DEF RecoverySound, Places, RecoveryPCs, Key
<1>3. ASSUME NEW r \in 1..nextRev, status[r] \in {"pending", "ready"},
             ~(At(Maint, "discard") /\ loc[Maint].key = r /\ loc'[Maint].pc = "recover")
      PROVE  status'[r] \in {"pending", "ready"}
  BY <1>3, RowMoves DEF RecoveryPCs
<1>4. CASE loc'[Maint] = loc[Maint]
  BY <1>2, <1>3, <1>4 DEF At
<1>5. CASE RecoveryMove /\ UNCHANGED status
  <2>1. \A r \in loc'[Maint].todo : status[r] \in {"pending", "ready"}
    BY <1>2, <1>5 DEF RecoveryMove, RecoveryPCs, Stays, At
  <2>2. loc'[Maint].pc # "recover" => status[loc'[Maint].key] \in {"pending", "ready"}
    BY <1>2, <1>5 DEF RecoveryMove, RecoveryPCs, Stays, At
  <2>3. loc'[Maint].pc # "recover" => loc'[Maint].key \notin loc'[Maint].todo
    BY <1>2, <1>5 DEF RecoveryMove, RecoveryPCs, Stays, At
  <2> QED
    BY <1>5, <2>1, <2>2, <2>3
<1>6. CASE loc[Maint].pc \in RecoveryPCs /\ loc'[Maint].pc = "recover" /\ loc'[Maint].todo = loc[Maint].todo
  <2>1. loc[Maint].pc # "recover"
    BY <1>6 DEF RecoveryPCs
  <2> QED
    BY <1>2, <1>3, <1>6, <2>1
<1> QED
  BY <1>1, <1>4, <1>5, <1>6 DEF RecoveryMove

\* Retention deletes the objects of rows it has marked.
LEMMA PurgeStep == ASSUME CheckpointsInv, Effect, Places' PROVE PurgeSound'
<1> SUFFICES ASSUME loc'[Maint].pc \in {"purge", "purgerow"}
             PROVE  /\ \A r \in loc'[Maint].todo : status'[r] \in {"deleting", "none"}
                    /\ loc'[Maint].pc = "purgerow" => /\ status'[loc'[Maint].key] \in {"deleting", "none"}
                                                      /\ exists' => loc'[Maint].key \notin stored'
  BY DEF PurgeSound, Key, At
<1>0. Places /\ PurgeSound /\ UploadsCurrent /\ TasksMove
  BY DEF CheckpointsInv, Effect
<1>1. loc'[Maint] = loc[Maint] \/ PurgeMove
  BY <1>0 DEF TasksMove, MaintMove, CleanMove, RecoveryMove, ArchiveMove
<1>2. CASE ~exists'
  <2>1. loc'[Maint].todo \subseteq 1..nextRev' /\ (loc'[Maint].pc = "purgerow" => loc'[Maint].key \in 1..nextRev')
    BY DEF Places, Key
  <2>2. \A r \in 1..nextRev' : status'[r] = "none"
    BY <1>2, Objects DEF Effect, Gone, TablesOK
  <2> QED
    BY <1>2, <2>1, <2>2
<1>3. CASE exists'
  <2>1. loc[Maint].pc \in {"purge", "purgerow"} =>
          /\ loc[Maint].todo \subseteq 1..nextRev
          /\ \A r \in loc[Maint].todo : status[r] \in {"deleting", "none"}
    BY <1>0 DEF PurgeSound, Places
  <2>2. At(Maint, "purgerow") =>
          loc[Maint].key \in 1..nextRev /\ status[loc[Maint].key] \in {"deleting", "none"} /\ loc[Maint].key \notin stored
    BY <1>0, <1>3 DEF PurgeSound, Places, At, Key, Effect
  <2>3. ASSUME NEW r \in 1..nextRev, status[r] \in {"deleting", "none"}
        PROVE  /\ status'[r] \in {"deleting", "none"}
               /\ r \notin stored => r \notin stored'
    <3>1. status'[r] \in {"deleting", "none"} /\ r \in Revs
      BY <1>3, <2>3, RowMoves
    <3>2. up[r] = "none"
      BY <1>0, <1>3, <2>3, <3>1 DEF UploadsCurrent, Effect
    <3>3. StoreMove(r)
      BY <3>1, Objects DEF Effect, ObjectMove
    <3> QED
      BY <3>1, <3>2, <3>3 DEF StoreMove
  <2>4. CASE loc'[Maint] = loc[Maint]
    BY <2>1, <2>2, <2>3, <2>4 DEF At
  <2>5. CASE PurgeMove
    BY <2>1, <2>3, <2>5 DEF PurgeMove, At
  <2> QED
    BY <1>1, <2>4, <2>5
<1> QED
  BY <1>2, <1>3

\* An object is uploaded once, while its row is pending; the deletion expects the rest.
LEMMA UploadsStep == ASSUME CheckpointsInv, Effect PROVE UploadsCurrent'
<1>0. /\ TablesOK /\ Places /\ UploadsCurrent /\ SaversCurrent /\ Ordered /\ NoStray /\ DeletionWhole /\ CleansSound
      /\ (exists' => exists) /\ TasksMove /\ IntentMove
      /\ \A k \in Keys : UpMove(k) /\ StoreMove(k)
  BY TypeParts DEF CheckpointsInv, Effect, ObjectMove
<1> USE Tasks, Objects
<1>n. nextRev \in 0..MaxRev /\ 1..nextRev \subseteq Revs
  BY <1>0 DEF TablesOK
<1>r. ASSUME exists', NEW k \in Revs, status[k] = "pending", age[k] # "day", k \notin stored
      PROVE  status'[k] = "pending"
  <2>1. k \in 1..nextRev
    BY <1>0, <1>n, <1>r DEF Ordered
  <2> QED
    BY <1>r, <2>1, RowMoves
<1>1. up'[Legacy] = "none"
  BY <1>0, <1>n, UploadBegins DEF UploadsCurrent
<1>2. ASSUME NEW k \in Revs, up'[k] # "none"
      PROVE  k \notin stored' /\ (exists' => status'[k] = "pending" /\ age'[k] # "day")
  <2>1. CASE up[k] # "none"
    <3>1. k \notin stored /\ (exists => status[k] = "pending" /\ age[k] # "day")
      BY <1>0, <2>1 DEF UploadsCurrent
    <3>2. k \notin stored'
      BY <1>0, <1>2, <3>1 DEF StoreMove
    <3>3. ASSUME exists' PROVE status'[k] = "pending" /\ age'[k] # "day"
      <4>1. status'[k] = "pending"
        BY <1>0, <1>r, <3>1, <3>3
      <4>2. age'[k] # "day"
        BY <1>0, <2>1, <3>1, <3>3 DEF Effect, AgeMove
      <4> QED
        BY <4>1, <4>2
    <3> QED
      BY <3>2, <3>3
  <2>2. CASE up[k] = "none"
    <3>1. UNCHANGED <<exists, stored, status, age>>
      BY <1>2, <2>2, UploadBegins
    <3>2. PICK p \in Jobs : At(p, "put") /\ Key(p) = k
      BY <1>2, <2>2, UploadBegins
    <3>3. k \notin stored /\ (exists => status[k] = "pending")
      BY <1>0, <3>2 DEF UploadsCurrent
    <3>4. exists => age[k] # "day"
      BY <1>0, <3>2 DEF SaversCurrent, SaverPCs, At
    <3> QED
      BY <3>1, <3>3, <3>4
  <2> QED
    BY <2>1, <2>2
<1>3. ASSUME NEW k \in Runs, up'[k] # "none", exists' PROVE run'[k] # "none"
  <2>1. run[k] # "none"
    <3>1. CASE up[k] # "none"
      BY <1>0, <1>3, <3>1 DEF UploadsCurrent
    <3>2. CASE up[k] = "none"
      <4>1. At(Maint, "put") /\ Key(Maint) = k
        BY <1>3, <1>n, <3>2, UploadBegins
      <4> QED
        BY <1>0, <1>3, <4>1 DEF UploadsCurrent
    <3> QED
      BY <3>1, <3>2
  <2> QED
    BY <1>3, <2>1 DEF Effect, RunMove
<1>4. ASSUME NEW k \in Keys, up'[k] = "put", ~exists' PROVE k \in intents'
  <2>1. up[k] = "put"
    BY <1>0, <1>4 DEF UpMove
  <2>2. CASE exists
    <3>1. k \in OwnedKeys
      BY <1>0, <2>1, <2>2 DEF UploadsCurrent, OwnedKeys, Rows
    <3> QED
      BY <1>0, <1>4, <2>2, <3>1 DEF IntentMove
  <2>3. CASE ~exists
    <3>1. k \in intents
      BY <1>0, <2>1, <2>3 DEF UploadsCurrent
    <3>2. ASSUME NEW p \in Cleaners, At(p, "drop") PROVE loc[p].key # k
      BY <1>0, <2>1, <3>2 DEF CleansSound, At, Key
    <3> QED
      BY <1>0, <2>3, <3>1, <3>2 DEF IntentMove
  <2> QED
    BY <2>2, <2>3
<1>5. ASSUME NEW p \in Jobs, loc'[p].pc = "put"
      PROVE  /\ up'[loc'[p].key] = "none" /\ loc'[p].key \notin stored'
             /\ exists' => status'[loc'[p].key] = "pending"
  <2>1. loc'[p] = loc[p] \/ (loc'[p].key = nextRev + 1 /\ Insert)
    BY <1>0, <1>5 DEF TasksMove, JobMove
  <2>2. CASE loc'[p] = loc[p]
    <3>1. /\ At(p, "put") /\ loc[p].key \in Revs /\ loc[p].key \notin stored /\ up[loc[p].key] = "none"
          /\ exists => status[loc[p].key] = "pending" /\ age[loc[p].key] # "day"
      BY <1>0, <1>n, <1>5, <2>2 DEF UploadsCurrent, SaversCurrent, SaverPCs, Places, At, Key
    <3>2. up'[loc[p].key] = "none"
      <4> SUFFICES ASSUME up'[loc[p].key] # "none" PROVE FALSE
        OBVIOUS
      <4>1. PICK q \in Jobs : At(q, "put") /\ Key(q) = loc[p].key /\ loc'[q].pc = "upload"
        BY <3>1, UploadBegins
      <4>2. q = p
        BY <1>0, <3>1, <4>1 DEF UploadsCurrent, Key
      <4> QED
        BY <1>5, <4>1, <4>2
    <3>3. loc[p].key \notin stored'
      BY <1>0, <3>1 DEF StoreMove
    <3>4. exists' => status'[loc[p].key] = "pending"
      BY <1>0, <1>r, <3>1
    <3> QED
      BY <2>2, <3>2, <3>3, <3>4
  <2>3. CASE loc'[p].key = nextRev + 1 /\ Insert
    <3>1. /\ nextRev + 1 \in Revs /\ exists /\ UNCHANGED <<up, stored>> /\ status'[nextRev + 1] = "pending"
      BY <2>3 DEF Insert
    <3>2. status[nextRev + 1] = "none" /\ up[nextRev + 1] = "none"
      BY <1>0, <1>n, <3>1 DEF Ordered
    <3>3. nextRev + 1 \notin stored
      BY <1>0, <3>1, <3>2 DEF NoStray, DeletionWhole
    <3> QED
      BY <2>3, <3>1, <3>2, <3>3
  <2> QED
    BY <2>1, <2>2, <2>3
<1>6. ASSUME NEW p \in Jobs, NEW q \in Jobs, loc'[p].pc = "put", loc'[q].pc = "put", loc'[p].key = loc'[q].key
      PROVE  p = q
  <2>1. ASSUME NEW x \in Jobs, NEW y \in Jobs, loc'[x].pc = "put", loc'[y].pc = "put",
               loc'[x].key = loc'[y].key, loc'[x] # loc[x]
        PROVE  x = y
    <3>1. loc'[x].key = nextRev + 1 /\ Alone(x)
      BY <1>0, <2>1 DEF TasksMove, JobMove
    <3>2. loc'[y] = loc[y] => loc[y].key \in 1..nextRev
      BY <1>0, <2>1 DEF Places, SaverPCs, Key
    <3>3. nextRev + 1 \notin 1..nextRev
      BY <1>n
    <3>4. x # y => loc'[y] = loc[y]
      BY <3>1 DEF Alone
    <3> QED
      BY <2>1, <3>1, <3>2, <3>3, <3>4
  <2>2. CASE loc'[p] = loc[p] /\ loc'[q] = loc[q]
    BY <1>0, <1>6, <2>2 DEF UploadsCurrent, At, Key
  <2> QED
    BY <1>6, <2>1, <2>2
<1>7. ASSUME loc'[Maint].pc = "put", exists' PROVE run'[loc'[Maint].key] # "none"
  <2>1. loc'[Maint] = loc[Maint] \/ ArchiveMove
    BY <1>0, <1>7 DEF TasksMove, MaintMove, CleanMove, RecoveryMove, PurgeMove
  <2>2. CASE loc'[Maint] = loc[Maint]
    <3>1. loc[Maint].key \in Runs /\ run[loc[Maint].key] # "none"
      BY <1>0, <1>7, <2>2 DEF Places, ArchivePCs, UploadsCurrent, At, Key
    <3> QED
      BY <1>7, <2>2, <3>1 DEF Effect, RunMove
  <2>3. CASE ArchiveMove
    BY <1>7, <2>3 DEF ArchiveMove
  <2> QED
    BY <2>1, <2>2, <2>3
<1> QED
  <2>1. (\A p \in Jobs : At(p, "put") =>
           up[Key(p)] = "none" /\ Key(p) \notin stored /\ (exists => status[Key(p)] = "pending"))'
    BY <1>5 DEF At, Key
  <2>2. (\A p, q \in Jobs : At(p, "put") /\ At(q, "put") /\ Key(p) = Key(q) => p = q)'
    BY <1>6 DEF At, Key
  <2>3. (At(Maint, "put") /\ exists => run[Key(Maint)] # "none")'
    BY <1>7 DEF At, Key
  <2> QED
    BY <1>1, <1>2, <1>3, <1>4, <2>1, <2>2, <2>3 DEF UploadsCurrent

\* The cleanup waited for the upload, and drops the intent after the object.
LEMMA CleansStep == ASSUME CheckpointsInv, Effect, DeletionWhole', Places' PROVE CleansSound'
<1> SUFFICES ASSUME NEW p \in Cleaners, loc'[p].pc \in {"delete", "drop"}
             PROVE  up'[loc'[p].key] # "put" /\ (loc'[p].pc = "drop" => loc'[p].key \notin stored')
  BY DEF CleansSound, At, Key
<1>0. Places /\ CleansSound /\ TasksMove
  BY DEF CheckpointsInv, Effect
<1>1. ~exists' /\ loc'[p].key \in Keys
  BY Tasks DEF DeletionWhole, Places, At, Key, CleanPCs
<1>2. UpMove(loc'[p].key) /\ StoreMove(loc'[p].key)
  BY <1>1 DEF Effect, ObjectMove
<1>3. loc'[p] = loc[p] \/ CleanMove(p)
  BY <1>0, Tasks DEF TasksMove, DelMove, MaintMove, RecoveryMove, ArchiveMove, PurgeMove
<1>4. CASE loc'[p] = loc[p]
  <2>1. up[loc[p].key] # "put" /\ (loc[p].pc = "drop" => loc[p].key \notin stored)
    BY <1>0, <1>4 DEF CleansSound, At, Key
  <2> QED
    BY <1>1, <1>2, <1>4, <2>1 DEF UpMove, StoreMove
<1>5. CASE CleanMove(p)
  <2>1. At(p, "delete") => up[loc[p].key] # "put"
    BY <1>0 DEF CleansSound, At, Key
  <2> QED
    BY <1>5, <2>1 DEF CleanMove, Stays, At
<1> QED
  BY <1>3, <1>4, <1>5

\* A run that may still succeed keeps what it saved.
LEMMA RunsStep == ASSUME CheckpointsInv, Effect PROVE RunsSound'
<1> SUFFICES ASSUME NEW r \in Runs, run'[r] = "running"
             PROVE  /\ r \in live'
                    /\ loc'[r].pc = "work" /\ loc'[r].key # None => status'[loc'[r].key] = "ready"
                    /\ loc'[r].pc = "locked" /\ loc'[r].seen = "ready" => status'[loc'[r].key] = "ready"
  BY DEF RunsSound, At, Key
<1>0. /\ TablesOK /\ Places /\ RunsSound /\ Ordered /\ RunMove(r) /\ exists' /\ exists
  BY TypeParts DEF CheckpointsInv, Effect, Gone
<1>j. JobMove(r)
  BY Tasks DEF Effect, TasksMove
<1>1. CASE r \in live' /\ loc'[r].pc = "source"
  BY <1>1
<1>2. CASE run[r] = "running" /\ (r \in live => r \in live')
  <2>1. /\ r \in live' /\ Running
        /\ At(r, "work") /\ loc[r].key # None => status[loc[r].key] = "ready" /\ loc[r].key \in Revs
        /\ At(r, "locked") /\ loc[r].seen = "ready" => status[loc[r].key] = "ready" /\ loc[r].key \in 1..nextRev
    BY <1>0, <1>2, Tasks DEF RunsSound, Running, Places, Key, At, SaverPCs
  <2>2. ASSUME NEW k \in Revs, status[k] = "ready" PROVE status'[k] = "ready"
    <3>1. k \in 1..nextRev
      BY <1>0, <2>2, Objects DEF Ordered, TablesOK
    <3> QED
      BY <1>0, <2>1, <2>2, <3>1, RowMoves
  <2>3. 1..nextRev \subseteq Revs
    BY <1>0, Objects DEF TablesOK
  <2> QED
    BY <1>j, <2>1, <2>2, <2>3 DEF JobMove, At
<1> QED
  BY <1>0, <1>1, <1>2 DEF RunMove

\* Nothing is left in the store that no row and no intent names.
LEMMA StrayStep == ASSUME CheckpointsInv, Effect PROVE NoStray'
<1> SUFFICES ASSUME NEW k \in stored' \ intents'
             PROVE  exists' /\ (k \in Revs => status'[k] # "none") /\ (k \in Runs => run'[k] # "none")
  BY DEF NoStray
<1>0. /\ TablesOK /\ NoStray /\ CleansSound /\ PurgeSound /\ UploadsCurrent /\ IntentMove /\ k \in Keys
      /\ exists' => exists
  BY TypeParts DEF CheckpointsInv, Effect, TablesOK
<1>1. StoreMove(k)
  BY <1>0 DEF Effect, ObjectMove
<1>2. k \in Runs /\ exists' /\ run[k] # "none" => run'[k] # "none"
  BY DEF Effect, RunMove
<1>3. CASE k \in stored
  <2>1. k \notin intents
    <3>1. ASSUME NEW p \in Cleaners, At(p, "drop") PROVE loc[p].key # k
      BY <1>0, <1>3, <3>1 DEF CleansSound, At, Key
    <3> QED
      BY <1>0, <3>1 DEF IntentMove
  <2>2. exists /\ (k \in Revs => status[k] # "none") /\ (k \in Runs => run[k] # "none")
    BY <1>0, <1>3, <2>1 DEF NoStray
  <2>3. k \in OwnedKeys
    BY <1>0, <2>2, Objects DEF OwnedKeys, Rows
  <2>4. exists'
    BY <1>0, <2>2, <2>3 DEF IntentMove
  <2>5. ASSUME k \in Revs PROVE status'[k] # "none"
    <3>1. RevMove(k)
      BY <2>4, <2>5 DEF Effect
    <3>2. ~(At(Maint, "purgerow") /\ loc[Maint].key = k)
      BY <1>0, <1>3, <2>2 DEF PurgeSound, At, Key
    <3> QED
      BY <2>2, <2>5, <3>1, <3>2 DEF RevMove
  <2> QED
    BY <1>2, <2>2, <2>4, <2>5
<1>4. CASE k \notin stored
  <2>1. up[k] = "put" /\ UNCHANGED <<exists, status, intents>>
    BY <1>1, <1>4 DEF StoreMove
  <2>2. exists
    BY <1>0, <2>1 DEF UploadsCurrent
  <2> QED
    BY <1>0, <1>2, <2>1, <2>2 DEF UploadsCurrent
<1> QED
  BY <1>3, <1>4

----------------------------------------------------------------------------
(* The invariant, and what follows from it.                                *)

LEMMA InvInit == Init => CheckpointsInv
<1> SUFFICES ASSUME Init PROVE CheckpointsInv
  OBVIOUS
<1> USE Tasks, Objects
<1>1. \A p \in Procs : loc[p].pc = "idle" /\ loc[p].key = None /\ loc[p].seen = "none" /\ loc[p].todo = {}
  BY DEF Init, Idle
<1>2. LocOK
  BY DEF Init, LocOK, LocType, AllPCs, RevStates, Idle
<1>3. TablesOK
  <2>1. exists \in BOOLEAN /\ busy \in BOOLEAN
    <3>1. exists = TRUE /\ busy = FALSE
      BY DEF Init
    <3> QED
      BY <3>1
  <2>2. saved \in 0..MaxRev /\ verified \in 0..MaxRev /\ nextRev \in 0..MaxRev /\ faults \in 0..MaxFaults
    BY CheckpointsAssumption DEF Init
  <2>3. /\ status \in [Revs -> RevStates] /\ parent \in [Revs -> 0..MaxRev]
        /\ age \in [Revs -> {"new", "hour", "day"}]
    BY DEF Init, RevStates
  <2>4. /\ run \in [Runs -> {"none", "running", "ended"}] /\ log \in [Runs -> {"none", "archived", "expired"}]
        /\ up \in [Keys -> {"none", "check", "put"}]
    BY DEF Init
  <2>5. intents \in SUBSET Keys /\ stored \in SUBSET Keys /\ live \in SUBSET Runs
    BY DEF Init
  <2> QED
    BY <2>1, <2>2, <2>3, <2>4, <2>5 DEF TablesOK
<1>4. Places
  BY <1>1 DEF Places, SaverPCs, RecoveryPCs, ArchivePCs, CleanPCs, At
<1>5. DeletionWhole
  BY <1>1 DEF Init, DeletionWhole, CleanPCs, At
<1>6. Ordered /\ PointersReady
  BY DEF Init, Ordered, PointersReady
<1>7. SaversCurrent /\ PromotesStored /\ RecoverySound /\ PurgeSound /\ CleansSound
  BY <1>1 DEF SaversCurrent, SaverPCs, PromotesStored, RecoverySound, RecoveryPCs, PurgeSound, CleansSound, At
<1>8. UploadsCurrent
  BY <1>1 DEF Init, UploadsCurrent, At
<1>9. RunsSound /\ NoStray
  BY DEF Init, RunsSound, NoStray
<1> QED
  BY <1>2, <1>3, <1>4, <1>5, <1>6, <1>7, <1>8, <1>9, TypeParts DEF CheckpointsInv

LEMMA InvStep == CheckpointsInv /\ [Next]_vars => CheckpointsInv'
<1> SUFFICES ASSUME CheckpointsInv, [Next]_vars PROVE CheckpointsInv'
  OBVIOUS
<1>1. Effect
  BY Effects
<1>2. TypeOK'
  <2>1. TablesOK' /\ LocOK'
    BY <1>1 DEF Effect
  <2> QED
    BY <2>1 DEF TypeOK, TablesOK, LocOK, LocType, AllPCs
<1>3. Places' /\ DeletionWhole'
  BY <1>1, PlacesStep, DeletionStep
<1>4. Ordered' /\ PointersReady' /\ SaversCurrent' /\ UploadsCurrent' /\ PromotesStored'
  BY <1>1, OrderedStep, PointersStep, SaversStep, UploadsStep, PromotesStep
<1>5. RecoverySound' /\ PurgeSound' /\ CleansSound' /\ RunsSound' /\ NoStray'
  BY <1>1, <1>3, RecoveryStep, PurgeStep, CleansStep, RunsStep, StrayStep
<1> QED
  BY <1>2, <1>3, <1>4, <1>5 DEF CheckpointsInv

\* The rows of a project stay within its quota: only save_revision adds one, under the lock.
LEMMA QuotaStep == CheckpointsInv /\ RowsWithinQuota /\ [Next]_vars => RowsWithinQuota'
<1> SUFFICES ASSUME CheckpointsInv, RowsWithinQuota, [Next]_vars, exists' PROVE Cardinality(Rows') <= QUOTA
  BY DEF RowsWithinQuota
<1>0. Effect /\ exists /\ Cardinality(Rows) <= QUOTA
  BY Effects DEF Effect, RowsWithinQuota
<1>1. \A r \in Revs : RevMove(r)
  BY <1>0 DEF Effect
<1>2. IsFiniteSet(Revs)
  BY Objects, FS_Interval
<1>3. Rows \subseteq Revs /\ Rows' \subseteq Revs
  BY DEF Rows
<1>4. IsFiniteSet(Rows) /\ IsFiniteSet(Rows') /\ Cardinality(Rows) \in Nat /\ Cardinality(Rows') \in Nat
  BY <1>2, <1>3, FS_Subset, FS_CardinalityType
<1>5. CASE Rows' \subseteq Rows
  <2>1. Cardinality(Rows') <= Cardinality(Rows)
    BY <1>4, <1>5, FS_Subset
  <2> QED
    BY <1>0, <1>4, <2>1, CheckpointsAssumption
<1>6. CASE ~(Rows' \subseteq Rows)
  <2>1. Rows' \subseteq Rows \cup {nextRev + 1} /\ WithinQuota
    BY <1>1, <1>6 DEF Rows, RevMove
  <2>2. IsFiniteSet(Rows \cup {nextRev + 1}) /\ Cardinality(Rows \cup {nextRev + 1}) <= Cardinality(Rows) + 1
    BY <1>4, FS_AddElement
  <2>3. Cardinality(Rows') <= Cardinality(Rows \cup {nextRev + 1})
    BY <2>1, <2>2, FS_Subset
  <2>4. Cardinality(Rows \cup {nextRev + 1}) \in Nat
    BY <2>2, FS_CardinalityType
  <2> QED
    BY <1>4, <2>1, <2>2, <2>3, <2>4, CheckpointsAssumption DEF WithinQuota
<1> QED
  BY <1>5, <1>6

\* "The last acknowledged checkpoint is safe", after any steps of any tasks: the saved and
\* the verified revision are ready and their objects are in the store.
THEOREM SavedIsReadable == Spec => []SavedReadable
<1>1. CheckpointsInv => SavedReadable
  <2> SUFFICES ASSUME CheckpointsInv PROVE SavedReadable
    OBVIOUS
  <2>1. TypeOK /\ PointersReady /\ TablesOK
    BY TypeParts DEF CheckpointsInv
  <2>2. (saved # 0 => saved \in Revs) /\ (verified # 0 => verified \in Revs)
    BY <2>1, Objects DEF TablesOK
  <2> QED
    BY <2>1, <2>2 DEF SavedReadable, PointersReady, Readable
<1> QED
  BY <1>1, InvInit, InvStep, PTL DEF Spec

\* Every object in the store is named by a row of a living project or by an intent: no
\* upload, archive, deletion or crash leaves one that nothing would ever remove.
THEOREM NothingIsStray == Spec => []NoStray
<1>1. CheckpointsInv => NoStray
  BY DEF CheckpointsInv
<1> QED
  BY <1>1, InvInit, InvStep, PTL DEF Spec

\* Both, with any number of crashes of the process and aborted storage passes.
THEOREM CrashesAreSafe == Spec => []SafeThroughCrash
<1>1. SavedReadable /\ NoStray => SafeThroughCrash
  BY DEF SafeThroughCrash
<1> QED
  BY <1>1, SavedIsReadable, NothingIsStray, PTL

\* The revision objects of a living project are as many as its quota allows, however saves,
\* failed uploads, recovery and retention interleave.
THEOREM ObjectsWithinQuota == Spec => []StoredWithinQuota
<1>1. Init => RowsWithinQuota
  <2> SUFFICES ASSUME Init PROVE Cardinality(Rows) <= QUOTA
    BY DEF RowsWithinQuota
  <2>1. Rows = {}
    BY DEF Init, Rows
  <2> QED
    BY <2>1, FS_EmptySet, CheckpointsAssumption
<1>2. CheckpointsInv /\ RowsWithinQuota => StoredWithinQuota
  <2> SUFFICES ASSUME CheckpointsInv, RowsWithinQuota, exists
               PROVE  Cardinality(stored \cap Revs) <= QUOTA
    BY DEF StoredWithinQuota
  <2>1. stored \cap Revs \subseteq Rows
    BY DEF CheckpointsInv, NoStray, DeletionWhole, Rows
  <2>2. IsFiniteSet(Rows)
    <3>1. Rows \subseteq Revs /\ IsFiniteSet(Revs)
      BY Objects, FS_Interval DEF Rows
    <3> QED
      BY <3>1, FS_Subset
  <2>3. /\ Cardinality(stored \cap Revs) <= Cardinality(Rows) /\ Cardinality(Rows) <= QUOTA
        /\ Cardinality(stored \cap Revs) \in Nat /\ Cardinality(Rows) \in Nat
    BY <2>1, <2>2, FS_Subset, FS_CardinalityType DEF RowsWithinQuota
  <2> QED
    BY <2>3, CheckpointsAssumption
<1> QED
  BY <1>1, <1>2, InvInit, InvStep, QuotaStep, PTL DEF Spec

\* promote() decides on a status it read before it had the lock, and still the saved revision
\* moves only to a child of it, and nothing given up or marked for deletion becomes ready.
THEOREM PromotesSoundly == Spec => PromotionSound
<1>1. CheckpointsInv /\ [Next]_vars =>
        [/\ exists' /\ saved' # saved => parent[saved'] = saved
         /\ \A r \in Revs : status[r] \in {"failed", "deleting"} => status'[r] # "ready"]_vars
  <2> SUFFICES ASSUME CheckpointsInv, [Next]_vars
               PROVE  /\ exists' /\ saved' # saved => parent[saved'] = saved
                      /\ \A r \in Revs : status[r] \in {"failed", "deleting"} => status'[r] # "ready"
    OBVIOUS
  <2>1. Effect
    BY Effects
  <2>2. exists' /\ saved' # saved => parent[saved'] = saved
    BY <2>1 DEF Effect, ChatMove
  <2>3. ASSUME NEW r \in Revs, status[r] \in {"failed", "deleting"} PROVE status'[r] # "ready"
    BY <2>1, <2>3 DEF Effect, RevMove, Gone
  <2> QED
    BY <2>2, <2>3
<1> QED
  BY <1>1, InvInit, InvStep, PTL DEF Spec, PromotionSound

=============================================================================
