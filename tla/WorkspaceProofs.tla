-------------------------- MODULE WorkspaceProofs ---------------------------
(***************************************************************************)
(* Proofs about Workspace: startup requests, the listed revision, deleted  *)
(* projects, and what the preview and the file viewer show, for any number *)
(* of projects, files, revisions, visits and turns.                        *)
(***************************************************************************)
EXTENDS Workspace, FiniteSetTheorems, WellFoundedInduction, SequenceTheorems, TLAPS

----------------------------------------------------------------------------
(* The functions of usePreviewLifecycle.                                   *)

\* A status as the server's answers and the page's own knowledge give it.
Answer == [state : States \cup {"none", "failed"}, rev : 0..MaxRev]

\* A preview taken for working is one of revision rev.
Follows(p, rev) == p.phase = "active" => p.rev = rev

\* The named values have their types.
LEMMA ValuesTyped ==
    /\ \A s \in States, r \in 0..MaxRev : Status(s, r) \in Answer
    /\ NoAnswer \in Answer /\ Failed \in Answer /\ Idle \in Check /\ Asleep \in Preview
    /\ None \in 0..MaxRev
  BY WorkspaceAssumption
     DEF Status, Answer, NoAnswer, Failed, Idle, Check, Asleep, Preview, None, States

\* observe() keeps the shape, never forgets an attempt, and calls active only a preview
\* of the revision it was given.
LEMMA ObserveSound ==
    ASSUME NEW p \in Preview, NEW s \in Answer, NEW rev \in 0..MaxRev
    PROVE  /\ Observe(p, s, rev) \in Preview
           /\ p.attempted => Observe(p, s, rev).attempted
           /\ Observe(p, s, rev).phase = "active" => Observe(p, s, rev).rev = rev
  <1>1. CASE s.state \in {"opening", "building"}
    BY ZenonT(60), <1>1 DEF Observe, Fail, Preview, Answer, States
  <1>2. CASE s.state = "active"
    BY <1>2 DEF Observe, Fail, Preview, Answer, States, ShowsRevision
  <1>3. CASE s.state \notin {"opening", "building", "active"}
    BY <1>3 DEF Observe, Fail, Preview, Answer, States
  <1> QED  BY <1>1, <1>2, <1>3

\* A check that ends leaves a well-formed effect behind.
LEMMA ArmedSound ==
    ASSUME NEW c \in Check, NEW p \in Preview
    PROVE  Armed(c, p) \in Check
  BY ValuesTyped DEF Armed, Check, Preview, Answer

\* check() up to its first await.
LEMMA WakeSound ==
    ASSUME NEW p \in Preview, NEW c \in Check, NEW rev \in 0..MaxRev, NEW eligible \in BOOLEAN,
           NEW building \in BOOLEAN, p.phase = "active" => p.rev = rev
    PROVE  LET w == Wake(p, c, rev, eligible, building)
           IN  /\ w.p \in Preview /\ w.c \in Check
               /\ p.attempted => w.p.attempted
               /\ w.p.phase = "active" => w.p.rev = rev
  <1> DEFINE q == Observe(p, Status("building", None), rev)
  <1>1. Status("building", None) \in Answer
    BY ValuesTyped DEF States
  <1>2. /\ q \in Preview /\ (p.attempted => q.attempted)
        /\ q.phase = "active" => q.rev = rev
    BY <1>1, ObserveSound
  <1>3. Armed(c, q) \in Check
    BY <1>2, ArmedSound
  <1>4. [c EXCEPT !.at = "status", !.timer = FALSE] \in Check
    BY DEF Check
  <1> HIDE DEF q
  <1>5. CASE Checking(c) \/ ~eligible \/ p.failure
    BY <1>5 DEF Wake
  <1>6. CASE ~(Checking(c) \/ ~eligible \/ p.failure) /\ building
    BY <1>6, <1>2, <1>3 DEF Wake, q
  <1>7. CASE ~(Checking(c) \/ ~eligible \/ p.failure) /\ ~building
    BY <1>7, <1>4 DEF Wake
  <1> QED  BY <1>5, <1>6, <1>7

\* The page after check() was called: the preview still follows the listed revision.
LEMMA WakeNowSound ==
    ASSUME PreviewOK, revisionId \in 0..MaxRev, NEW p \in Preview, NEW t, NEW v \in BOOLEAN,
           NEW building \in BOOLEAN, p.phase = "active" => p.rev = revisionId,
           WakeNow(p, t, v, building)
    PROVE  /\ pv' \in Preview /\ ctx' \in [Effects -> Check]
           /\ p.attempted => pv'.attempted
           /\ Follows(pv', revisionId)
  <1>1. CASE effect = 0
    <2>1. pv' = p /\ ctx' = ctx
      BY <1>1 DEF WakeNow
    <2> QED  BY <2>1 DEF PreviewOK, Follows
  <1>2. CASE effect # 0
    <2> DEFINE w == Wake(p, ctx[effect], revisionId, Enabled(t) /\ v, building)
    <2>1. ctx[effect] \in Check /\ (Enabled(t) /\ v) \in BOOLEAN
      BY SMTT(30), <1>2, WorkspaceAssumption DEF PreviewOK, Effects
    <2>2. /\ w.p \in Preview /\ w.c \in Check /\ (p.attempted => w.p.attempted)
          /\ w.p.phase = "active" => w.p.rev = revisionId
      BY ZenonT(60), <2>1, WakeSound
    <2>3. pv' = w.p /\ ctx' = [ctx EXCEPT ![effect] = w.c]
      BY <1>2 DEF WakeNow
    <2> HIDE DEF w
    <2>4. ctx' \in [Effects -> Check]
      BY <2>2, <2>3 DEF PreviewOK
    <2> QED  BY SMTT(30), <2>2, <2>3, <2>4 DEF Follows
  <1> QED  BY <1>1, <1>2

----------------------------------------------------------------------------
(* The preview.                                                            *)

previewState == <<isBuilding, visible, tab, revisionId, previewVars>>

\* The server, the collection, list requests that are not taken and the file viewer
\* leave the preview alone.
LEMMA PreviewQuiet ==
    ASSUME [Next]_vars
    PROVE  \/ UNCHANGED previewState
           \/ TimerFires \/ DeadlinePasses \/ Retry \/ LearnRun \/ BackToProjects
           \/ \E e \in Effects : CheckStep(e)
           \/ \E v \in BOOLEAN : SetVisible(v)
           \/ \E t \in {"preview", "files"} : SetTab(t)
           \/ \E q \in lists : TakeFiles(q)
  <1> USE DEF previewState, chatVars, previewVars
  <1>1. CASE RunBegins \/ RunEnds \/ PreviewMoves \/ PollFiles \/ OpenProject \/ NewSession
    BY <1>1 DEF RunBegins, RunEnds, PreviewMoves, PollFiles, OpenProject, NewSession
  <1>2. CASE CollectionStep
    BY <1>2 DEF CollectionStep, ServeList, TakeList, TryAgain, KeepProject, ServeDelete,
                TakeDelete, ConfirmDelete
  <1>3. ASSUME NEW q \in lists, ServeFiles(q) \/ ListLost(q) PROVE UNCHANGED previewState
    BY <1>3 DEF ServeFiles, ListLost
  <1>4. ASSUME NEW q \in reads, NEW ok \in BOOLEAN, TakeRead(q, ok)
        PROVE  UNCHANGED previewState
    BY <1>4 DEF TakeRead
  <1>5. ASSUME NEW f \in Files, SelectFile(f) PROVE UNCHANGED previewState
    BY <1>5 DEF SelectFile
  <1>6. CASE UNCHANGED vars
    BY <1>6 DEF vars
  <1> QED
    BY <1>1, <1>2, <1>3, <1>4, <1>5, <1>6 DEF Next, FilesStep, UserStep

\* The preview's part of the invariant.
PreviewInv == PreviewOK /\ StartsPaid /\ Follows(pv, revisionId)

LEMMA PreviewInvDef == ASSUME WorkspaceInv
                       PROVE  PreviewInv /\ revisionId \in 0..MaxRev /\ saved \in 0..MaxRev
  BY WorkspaceAssumption
     DEF WorkspaceInv, PreviewInv, PreviewFollows, Follows, TypeOK, ListsOK, ServerOK

\* Steps that leave the flags alone: what they must show of the preview.
LEMMA PreviewKept ==
    ASSUME PreviewInv, pv' \in Preview, ctx' \in [Effects -> Check],
           pv.attempted => pv'.attempted, Follows(pv', revisionId'),
           UNCHANGED <<effect, posts, retries>>,
           isBuilding' \in BOOLEAN, visible' \in BOOLEAN, tab' \in {"preview", "files"}
    PROVE  PreviewInv'
  <1>1. PreviewOK'
    BY DEF PreviewInv, PreviewOK
  <1>2. StartsPaid'
    BY DEF PreviewInv, PreviewOK, StartsPaid
  <1> QED  BY <1>1, <1>2 DEF PreviewInv

\* The answers check() waits for.
LEMMA ServeKeeps ==
    ASSUME WorkspaceInv, NEW e \in Effects, Serve(e)
    PROVE  PreviewInv'
  <1>1. ctx' \in [Effects -> Check]
    <2>1. srv \in Answer /\ ServeStatus \in Answer /\ Failed \in Answer
          /\ Status("active", saved) \in Answer
      BY ValuesTyped, PreviewInvDef
         DEF WorkspaceInv, TypeOK, ServerOK, ServeStatus, Answer, States
    <2>2. ctx \in [Effects -> Check] /\ ctx[e] \in Check
      BY DEF WorkspaceInv, TypeOK, PreviewOK
    <2>3. PICK ans \in Answer : ctx' = [ctx EXCEPT ![e].ans = ans]
      <3>1. CASE ctx[e].at # "open"
        BY <3>1, <2>1 DEF Serve
      <3>2. CASE ctx[e].at = "open" /\ ~run /\ srv.state = "sleeping"
        <4>1. srv' \in {Status("opening", None), Status("active", saved), srv}
          BY <3>2 DEF Serve
        <4>2. Status("opening", None).state # "active"
          BY DEF Status
        <4>3. srv'.state = "active" => srv' \in Answer
          BY <4>1, <4>2, <2>1
        <4>4. ctx' = [ctx EXCEPT ![e].ans = IF srv'.state = "active" THEN srv' ELSE Failed]
          BY <3>2 DEF Serve
        <4> QED  BY <4>3, <4>4, <2>1
      <3>3. CASE ctx[e].at = "open" /\ (run \/ srv.state # "sleeping")
        <4>1. ctx' = [ctx EXCEPT ![e].ans = IF ~run /\ srv.state = "active" THEN srv ELSE Failed]
          BY <3>3 DEF Serve
        <4> QED  BY <4>1, <2>1
      <3> QED  BY <3>1, <3>2, <3>3 DEF Serve
    <2>4. [ctx[e] EXCEPT !.ans = ans] \in Check
      BY <2>2 DEF Check, Answer
    <2>5. ctx' = [ctx EXCEPT ![e] = [ctx[e] EXCEPT !.ans = ans]]
      BY <2>3
    <2> QED  BY <2>2, <2>4, <2>5
  <1>2. UNCHANGED <<pv, effect, posts, retries, isBuilding, visible, tab, revisionId>>
    BY DEF Serve
  <1>3. PreviewInv
    BY PreviewInvDef
  <1> QED
    BY <1>1, <1>2, <1>3, PreviewKept DEF PreviewInv, PreviewOK

\* The continuations of check(): settling with preview p, for any effect.
LEMMA Settles ==
    ASSUME PreviewInv, revisionId \in 0..MaxRev, NEW e \in Effects, NEW p \in Preview,
           pv.attempted => p.attempted, p.phase = "active" => p.rev = revisionId,
           pv' = p,
           ctx' = [ctx EXCEPT ![e] = IF e = effect THEN Armed(ctx[e], p) ELSE Idle],
           UNCHANGED <<isBuilding, visible, tab, revisionId, effect, posts, retries>>
    PROVE  PreviewInv'
  <1>1. isBuilding \in BOOLEAN /\ ctx \in [Effects -> Check] /\ ctx[e] \in Check
    BY DEF PreviewInv, PreviewOK
  <1>2. /\ pv' \in Preview /\ (pv.attempted => pv'.attempted)
        /\ Follows(pv', revisionId)
    BY <1>1 DEF Follows
  <1>3. Armed(ctx[e], p) \in Check /\ Idle \in Check
    BY <1>1, ArmedSound, ValuesTyped
  <1>4. ctx' \in [Effects -> Check]
    BY <1>1, <1>3
  <1>5. Follows(pv', revisionId')
    BY <1>2
  <1> QED
    BY <1>2, <1>4, <1>5, PreviewKept DEF PreviewInv, PreviewOK

\* check() after its awaits: a startup request is sent only before the first attempt.
LEMMA ReturnsKeeps ==
    ASSUME WorkspaceInv, NEW e \in Effects, Returns(e)
    PROVE  PreviewInv'
  <1> DEFINE c == ctx[e]
             Settled(p) == /\ pv' = p
                           /\ ctx' = [ctx EXCEPT ![e] = IF e = effect THEN Armed(c, p) ELSE Idle]
                           /\ UNCHANGED posts
             Known(p) == /\ p \in Preview /\ (pv.attempted => p.attempted)
                         /\ p.phase = "active" => p.rev = revisionId
             Starts == /\ ~pv.attempted
                       /\ pv' = [pv EXCEPT !.attempted = TRUE, !.waiting = "set",
                                           !.phase = "opening"]
                       /\ ctx' = [ctx EXCEPT ![e] = [c EXCEPT !.at = "open", !.ans = NoAnswer]]
                       /\ posts' = posts + 1
             AsksAgain == /\ ctx' = [ctx EXCEPT ![e] = [c EXCEPT !.at = "again", !.ans = NoAnswer]]
                          /\ UNCHANGED <<pv, posts>>
             gaveUp == IF ~Disposed(e) /\ ~pv.active THEN Fail(pv) ELSE pv
             observed == Observe(pv, c.ans, revisionId)
  <1>1. PreviewInv /\ revisionId \in 0..MaxRev
    BY PreviewInvDef
  <1>2. /\ pv \in Preview /\ ctx \in [Effects -> Check] /\ c \in Check
        /\ isBuilding \in BOOLEAN /\ posts \in Nat /\ retries \in Nat
        /\ pv.phase = "active" => pv.rev = revisionId
    BY <1>1 DEF PreviewInv, PreviewOK, Follows
  <1>3. UNCHANGED <<isBuilding, visible, tab, revisionId, effect, retries>>
    BY DEF Returns
  <1>4. Known(pv) /\ Known(gaveUp) /\ Known(observed)
    <2>1. c.ans \in Answer
      BY <1>2 DEF Check, Answer
    <2>2. Known(observed)
      BY <2>1, <1>1, <1>2, ObserveSound
    <2>3. Known(pv)
      BY <1>2
    <2>4. Known(gaveUp)
      BY <1>2 DEF Fail, Preview, States
    <2> QED  BY <2>2, <2>3, <2>4
  <1>5. \/ Settled(pv) \/ Settled(gaveUp) \/ Settled(observed) \/ Starts \/ AsksAgain
    BY DEF Returns, MayStart
  <1>6. ASSUME NEW p, Known(p), Settled(p) PROVE PreviewInv'
    BY <1>6, <1>1, <1>3, Settles
  <1>7. CASE Starts
    <2> DEFINE q == [pv EXCEPT !.attempted = TRUE, !.waiting = "set", !.phase = "opening"]
    <2>1. q \in Preview /\ q.attempted = TRUE /\ q.phase # "active"
      BY <1>2 DEF Preview, States
    <2>2. pv' = q
      BY <1>7
    <2> HIDE DEF q
    <2>3. pv' \in Preview /\ pv'.attempted = TRUE /\ Follows(pv', revisionId)
      BY <2>1, <2>2, <1>2 DEF Follows
    <2>4. [c EXCEPT !.at = "open", !.ans = NoAnswer] \in Check
      BY <1>2, ValuesTyped DEF Check, Answer
    <2>5. ctx' \in [Effects -> Check]
      BY <2>4, <1>2, <1>7
    <2>6. PreviewOK'
      BY <2>3, <2>5, <1>1, <1>2, <1>3, <1>7 DEF PreviewInv, PreviewOK
    <2>7. StartsPaid'
      BY <2>3, <1>1, <1>2, <1>3, <1>7 DEF PreviewInv, StartsPaid
    <2> QED  BY <2>3, <2>6, <2>7, <1>3 DEF PreviewInv
  <1>8. CASE AsksAgain
    <2>1. [c EXCEPT !.at = "again", !.ans = NoAnswer] \in Check
      BY <1>2, ValuesTyped DEF Check, Answer
    <2>2. ctx' \in [Effects -> Check]
      BY <2>1, <1>2, <1>8
    <2> QED
      BY <2>2, <1>1, <1>2, <1>3, <1>8, PreviewKept DEF PreviewInv, PreviewOK
  <1> QED
    BY <1>4, <1>5, <1>6, <1>7, <1>8

\* A retry resets the attempt and pays for the next one.
LEMMA RetryKeeps ==
    ASSUME WorkspaceInv, Retry
    PROVE  PreviewInv'
  <1> DEFINE q == [pv EXCEPT !.attempted = FALSE, !.waiting = "no", !.failure = FALSE,
                             !.phase = "checking"]
  <1>1. PreviewInv /\ revisionId \in 0..MaxRev /\ PreviewOK
    BY PreviewInvDef DEF PreviewInv
  <1>2. q \in Preview /\ q.phase # "active"
    BY <1>1 DEF PreviewOK, Preview, States
  <1>3. /\ WakeNow(q, tab, visible, isBuilding) /\ retries' = retries + 1
        /\ UNCHANGED <<isBuilding, visible, tab, revisionId, effect, posts>>
    BY DEF Retry
  <1> HIDE DEF q
  <1>4. visible \in BOOLEAN /\ isBuilding \in BOOLEAN /\ posts \in Nat /\ retries \in Nat
    BY <1>1 DEF PreviewOK
  <1>5. /\ pv' \in Preview /\ ctx' \in [Effects -> Check]
        /\ Follows(pv', revisionId)
    BY <1>1, <1>2, <1>3, <1>4, WakeNowSound
  <1>6. PreviewOK'
    BY <1>1, <1>3, <1>4, <1>5 DEF PreviewOK
  <1>7. posts <= retries + 1
    BY <1>1, <1>4 DEF PreviewInv, StartsPaid
  <1>8. StartsPaid'
    BY <1>3, <1>4, <1>7 DEF StartsPaid
  <1> QED
    BY <1>3, <1>5, <1>6, <1>8 DEF PreviewInv

\* The controls effect, for another tab or another state of the run.
LEMMA ControlsKeep ==
    ASSUME WorkspaceInv, NEW t \in {"preview", "files"}, NEW building \in BOOLEAN,
           Controls(t, building), tab' = t, isBuilding' = building,
           UNCHANGED <<visible, revisionId, effect, posts, retries>>
    PROVE  PreviewInv'
  <1> DEFINE q == IF building \/ isBuilding
                  THEN [pv EXCEPT !.attempted = TRUE, !.failure = FALSE, !.waiting = "no"]
                  ELSE pv
  <1>1. PreviewInv /\ revisionId \in 0..MaxRev /\ PreviewOK
    BY PreviewInvDef DEF PreviewInv
  <1>2. /\ q \in Preview /\ (pv.attempted => q.attempted)
        /\ q.phase = "active" => q.rev = revisionId
    BY <1>1 DEF PreviewInv, PreviewOK, Preview, Follows
  <1>3. WakeNow(q, t, visible, building) /\ visible \in BOOLEAN
    BY <1>1 DEF Controls, PreviewOK
  <1> HIDE DEF q
  <1>4. /\ pv' \in Preview /\ ctx' \in [Effects -> Check] /\ (q.attempted => pv'.attempted)
        /\ Follows(pv', revisionId)
    BY <1>1, <1>2, <1>3, WakeNowSound
  <1> QED
    BY <1>1, <1>2, <1>3, <1>4, PreviewKept

\* A new revision takes a new effect, which there is: effects are fewer than revisions.
LEMMA TakeFilesPreview ==
    ASSUME WorkspaceInv, NEW q \in lists, TakeFiles(q)
    PROVE  PreviewInv'
  <1>1. PreviewInv /\ PreviewOK /\ revisionId \in 0..MaxRev
    BY PreviewInvDef DEF PreviewInv
  <1>2. UNCHANGED <<isBuilding, visible, tab, posts, retries>>
    BY DEF TakeFiles
  <1>3. CASE ~Newest(q) \/ q.rev = revisionId
    <2>1. UNCHANGED <<revisionId, pv, effect, ctx>>
      BY <1>3 DEF TakeFiles
    <2> QED
      BY <2>1, <1>1, <1>2, PreviewKept DEF PreviewInv, PreviewOK
  <1>4. CASE Newest(q) /\ q.rev # revisionId
    <2> DEFINE p == [pv EXCEPT !.failure = FALSE, !.waiting = "no", !.active = FALSE,
                               !.phase = "checking"]
    <2>1. /\ revisionId' = q.rev /\ effect' = effect + 1 /\ pv' = p
          /\ ctx' = [e \in Effects |-> IF e = effect' THEN [Idle EXCEPT !.timer = TRUE]
                                       ELSE [ctx[e] EXCEPT !.timer = FALSE]]
      BY <1>4 DEF TakeFiles
    <2>2. p \in Preview /\ p.phase # "active" /\ p.attempted = pv.attempted
      BY <1>1 DEF PreviewOK, Preview, States
    <2>3. effect' \in 0..MaxRev
      <3>1. q.rev # -1 /\ q.rev \in -1..MaxRev
        BY DEF TakeFiles, WorkspaceInv, TypeOK, ListsOK, ListReq
      <3>2. q.rev >= revisionId /\ effect <= revisionId
        BY <1>4, <3>1 DEF WorkspaceInv, ListsInOrder
      <3> QED
        BY <3>1, <3>2, <2>1, <1>1, <1>4, WorkspaceAssumption DEF PreviewOK
    <2>4. ctx' \in [Effects -> Check]
      <3>1. [Idle EXCEPT !.timer = TRUE] \in Check
        BY ValuesTyped DEF Check
      <3>2. ASSUME NEW e \in Effects PROVE [ctx[e] EXCEPT !.timer = FALSE] \in Check
        BY <1>1 DEF PreviewOK, Check
      <3> QED  BY <3>1, <3>2, <2>1
    <2> HIDE DEF p
    <2>5. PreviewOK'
      BY <1>1, <1>2, <2>1, <2>2, <2>3, <2>4 DEF PreviewOK
    <2>6. StartsPaid'
      BY <1>1, <1>2, <2>1, <2>2 DEF PreviewInv, StartsPaid
    <2>7. Follows(pv', revisionId')
      BY <2>1, <2>2 DEF Follows
    <2> QED  BY <2>5, <2>6, <2>7 DEF PreviewInv
  <1> QED  BY <1>3, <1>4

\* Every step keeps the preview's part of the invariant.
LEMMA PreviewStep == WorkspaceInv /\ [Next]_vars => PreviewInv'
<1> SUFFICES ASSUME WorkspaceInv, [Next]_vars PROVE PreviewInv'
    OBVIOUS
<1>1. /\ PreviewInv /\ PreviewOK /\ revisionId \in 0..MaxRev /\ run \in BOOLEAN
      /\ pv \in Preview /\ Follows(pv, revisionId)
      /\ isBuilding \in BOOLEAN /\ visible \in BOOLEAN /\ tab \in {"preview", "files"}
  BY PreviewInvDef DEF PreviewInv, PreviewOK, WorkspaceInv, TypeOK, ServerOK
<1>2. CASE UNCHANGED previewState
  BY <1>2, <1>1
     DEF previewState, previewVars, PreviewInv, PreviewOK, StartsPaid, Follows
<1>3. CASE TimerFires
  <2> DEFINE c == [ctx[effect] EXCEPT !.timer = FALSE]
             w == Wake(pv, c, revisionId, Enabled(tab) /\ visible, isBuilding)
  <2>1. c \in Check /\ (Enabled(tab) /\ visible) \in BOOLEAN
    <3>1. effect # 0 /\ effect \in 0..MaxRev /\ ctx \in [Effects -> Check]
      BY <1>1, <1>3 DEF TimerFires, PreviewOK
    <3>2. ctx[effect] \in Check
      BY SMTT(30), <3>1, WorkspaceAssumption DEF Effects
    <3>3. c \in Check
      BY <3>2 DEF Check
    <3> QED  BY <3>3
  <2>2. pv.phase = "active" => pv.rev = revisionId
    BY <1>1 DEF Follows
  <2>3. /\ w.p \in Preview /\ w.c \in Check /\ (pv.attempted => w.p.attempted)
        /\ w.p.phase = "active" => w.p.rev = revisionId
    BY <1>1, <2>1, <2>2, WakeSound
  <2>4. /\ pv' = w.p /\ ctx' = [ctx EXCEPT ![effect] = w.c]
        /\ UNCHANGED <<isBuilding, visible, tab, revisionId, effect, posts, retries>>
    BY <1>3 DEF TimerFires
  <2> HIDE DEF w, c
  <2>5. ctx' \in [Effects -> Check]
    BY <2>3, <2>4, <1>1 DEF PreviewOK
  <2>6. /\ pv' \in Preview /\ (pv.attempted => pv'.attempted)
        /\ Follows(pv', revisionId)
    BY <1>1, <2>3, <2>4 DEF Follows
  <2> QED
    BY <1>1, <2>4, <2>5, <2>6, PreviewKept
<1>4. CASE DeadlinePasses
  <2>1. /\ pv' \in Preview /\ (pv.attempted => pv'.attempted)
        /\ Follows(pv', revisionId)
    BY <1>1, <1>4 DEF DeadlinePasses, Preview, Follows
  <2>2. UNCHANGED <<isBuilding, visible, tab, revisionId, effect, posts, retries, ctx>>
    BY <1>4 DEF DeadlinePasses
  <2> QED
    BY <1>1, <2>1, <2>2, PreviewKept DEF PreviewOK
<1>5. CASE Retry
  BY <1>5, RetryKeeps
<1>6. CASE LearnRun
  BY <1>6, <1>1, ControlsKeep DEF LearnRun
<1>7. CASE BackToProjects
  <2>1. /\ isBuilding' = FALSE /\ visible' = TRUE /\ tab' = "preview"
        /\ pv' = Asleep /\ effect' = 0 /\ ctx' = [e \in Effects |-> Idle]
        /\ posts' = 0 /\ retries' = 0
    BY <1>7 DEF BackToProjects
  <2>3. PreviewOK'
    BY <2>1, ValuesTyped DEF PreviewOK, None
  <2>2. StartsPaid' /\ Follows(pv', revisionId')
    BY <1>7 DEF BackToProjects, StartsPaid, Asleep, Follows
  <2> QED  BY <2>2, <2>3 DEF PreviewInv
<1>8. ASSUME NEW e \in Effects, CheckStep(e) PROVE PreviewInv'
  BY <1>8, ServeKeeps, ReturnsKeeps DEF CheckStep
<1>9. ASSUME NEW v \in BOOLEAN, SetVisible(v) PROVE PreviewInv'
  <2>1. /\ WakeNow(pv, tab, v, isBuilding) /\ visible' = v
        /\ UNCHANGED <<isBuilding, tab, revisionId, effect, posts, retries>>
    BY <1>9 DEF SetVisible
  <2>2. pv.phase = "active" => pv.rev = revisionId
    BY <1>1 DEF Follows
  <2>3. /\ pv' \in Preview /\ ctx' \in [Effects -> Check] /\ (pv.attempted => pv'.attempted)
        /\ Follows(pv', revisionId)
    BY <1>1, <2>1, <2>2, WakeNowSound
  <2> QED
    BY <1>1, <2>1, <2>3, PreviewKept
<1>10. ASSUME NEW t \in {"preview", "files"}, SetTab(t) PROVE PreviewInv'
  BY <1>10, <1>1, ControlsKeep DEF SetTab
<1>11. ASSUME NEW q \in lists, TakeFiles(q) PROVE PreviewInv'
  BY <1>11, TakeFilesPreview
<1> QED
  BY <1>2, <1>3, <1>4, <1>5, <1>6, <1>7, <1>8, <1>9, <1>10, <1>11, PreviewQuiet

----------------------------------------------------------------------------
(* The saved revision and its requests.                                    *)

listState == <<saved, revisionId, lists, effect>>

\* Only these steps save, ask for or take a list of files.
LEMMA ListsQuiet ==
    ASSUME [Next]_vars
    PROVE  \/ UNCHANGED listState
           \/ RunEnds \/ PollFiles \/ LearnRun \/ OpenProject \/ BackToProjects
           \/ \E q \in lists : ServeFiles(q) \/ TakeFiles(q) \/ ListLost(q)
  <1> USE DEF listState, serverVars, chatVars, previewVars
  <1>1. CASE RunBegins \/ PreviewMoves \/ NewSession \/ Retry
    BY <1>1 DEF RunBegins, PreviewMoves, NewSession, Retry
  <1>2. CASE CollectionStep
    BY <1>2 DEF CollectionStep, ServeList, TakeList, TryAgain, KeepProject, ServeDelete,
                TakeDelete, ConfirmDelete
  <1>3. CASE TimerFires \/ DeadlinePasses
    BY <1>3 DEF TimerFires, DeadlinePasses
  <1>4. ASSUME NEW q \in reads, NEW ok \in BOOLEAN, TakeRead(q, ok) PROVE UNCHANGED listState
    BY <1>4 DEF TakeRead
  <1>5. ASSUME NEW f \in Files, SelectFile(f) PROVE UNCHANGED listState
    BY <1>5 DEF SelectFile
  <1>6. ASSUME NEW v \in BOOLEAN, SetVisible(v) PROVE UNCHANGED listState
    BY <1>6 DEF SetVisible
  <1>7. ASSUME NEW t \in {"preview", "files"}, SetTab(t) PROVE UNCHANGED listState
    BY <1>7 DEF SetTab
  <1>8. ASSUME NEW e \in Effects, CheckStep(e) PROVE UNCHANGED listState
    BY <1>8 DEF CheckStep, Serve, Returns
  <1>9. CASE UNCHANGED vars
    BY <1>9 DEF vars
  <1> QED
    BY <1>1, <1>2, <1>3, <1>4, <1>5, <1>6, <1>7, <1>8, <1>9 DEF Next, FilesStep, UserStep

\* Requests that ask again: what was under way is no longer taken.
LEMMA AskedAgain ==
    ASSUME ListsOK, ListsInOrder, saved \in 0..MaxRev, NEW others \in SUBSET ListReq,
           \A q \in others : q.rev <= saved /\ ~Newest(q),
           lists' = others \cup {NewList}, UNCHANGED <<saved, revisionId, effect>>
    PROVE  ListsOK' /\ ListsInOrder'
  <1>1. NewList \in ListReq /\ NewList.rev = -1
    BY WorkspaceAssumption DEF NewList, ListReq
  <1>2. \A q \in lists' : Newest(q) => q = NewList
    OBVIOUS
  <1>3. ListsOK'
    BY <1>1 DEF ListsOK
  <1>4. \A q \in lists' : q.rev <= saved'
    BY <1>1
  <1>5. \A q \in lists' : Newest(q) => q.rev = -1 \/ q.rev >= revisionId'
    BY <1>1, <1>2
  <1>6. \A q, r \in lists' : Newest(q) /\ Newest(r) => q = r
    BY <1>2
  <1>7. (effect <= revisionId)'
    BY DEF ListsInOrder
  <1> QED
    BY <1>3, <1>4, <1>5, <1>6, <1>7 DEF ListsInOrder, Newest

\* Every step keeps the order of revisions.
LEMMA ListsStep == WorkspaceInv /\ [Next]_vars => ListsOK' /\ ListsInOrder'
<1> SUFFICES ASSUME WorkspaceInv, [Next]_vars PROVE ListsOK' /\ ListsInOrder'
    OBVIOUS
<1>1. /\ ListsOK /\ ListsInOrder /\ saved \in 0..MaxRev /\ lists \subseteq ListReq
      /\ revisionId \in 0..saved /\ effect \in 0..MaxRev
      /\ \A q \in lists : q.rev \in -1..MaxRev /\ q.rev <= saved
  BY DEF WorkspaceInv, TypeOK, ServerOK, PreviewOK, ListsOK, ListsInOrder, ListReq
<1>2. CASE UNCHANGED listState
  BY <1>1, <1>2 DEF listState, ListsOK, ListsInOrder, Newest
<1>3. CASE RunEnds
  <2>1. saved' \in saved..(saved + 1) /\ UNCHANGED <<lists, revisionId, effect>>
    BY <1>1, <1>3, WorkspaceAssumption DEF RunEnds, Saves, chatVars, previewVars
  <2> QED
    BY <1>1, <2>1, WorkspaceAssumption DEF ListsOK, ListsInOrder, Newest
<1>4. CASE PollFiles
  <2>1. Outdated \subseteq ListReq /\ \A q \in Outdated : q.rev <= saved /\ ~Newest(q)
    BY <1>1 DEF Outdated, ListReq, Newest
  <2>2. lists' = Outdated \cup {NewList} /\ UNCHANGED <<saved, revisionId, effect>>
    BY <1>4 DEF PollFiles, serverVars, previewVars
  <2> QED
    BY <1>1, <2>1, <2>2, AskedAgain
<1>5. CASE LearnRun
  <2> DEFINE dead == {[q EXCEPT !.live = FALSE] : q \in lists}
  <2>1. dead \subseteq ListReq /\ \A q \in dead : q.rev <= saved /\ ~Newest(q)
    BY <1>1 DEF ListReq, Newest
  <2>2. lists' = dead \cup {NewList} /\ UNCHANGED <<saved, revisionId, effect>>
    BY <1>5 DEF LearnRun, serverVars
  <2> HIDE DEF dead
  <2> QED
    BY <1>1, <2>1, <2>2, AskedAgain
<1>6. CASE OpenProject
  <2> DEFINE nothing == {q \in lists : FALSE}
  <2>1. lists' = nothing \cup {NewList} /\ UNCHANGED <<saved, revisionId, effect>>
    BY <1>6 DEF OpenProject, previewVars
  <2>2. nothing \in SUBSET ListReq /\ \A q \in nothing : q.rev <= saved /\ ~Newest(q)
    OBVIOUS
  <2> HIDE DEF nothing
  <2> QED
    BY <1>1, <2>1, <2>2, AskedAgain
<1>7. CASE BackToProjects
  <2>1. revisionId' = 0 /\ lists' = {} /\ effect' = 0 /\ saved' = saved
    BY <1>7 DEF BackToProjects, serverVars, None
  <2> QED
    BY <1>1, <2>1, WorkspaceAssumption DEF ListsOK, ListsInOrder
<1>8. ASSUME NEW q \in lists, ServeFiles(q) PROVE ListsOK' /\ ListsInOrder'
  <2> DEFINE r == [q EXCEPT !.rev = saved]
  <2>1. r \in ListReq /\ r.rev = saved /\ (Newest(r) <=> Newest(q))
    <3>1. /\ q \in ListReq /\ saved \in -1..MaxRev
      BY <1>1, WorkspaceAssumption
    <3>2. r \in ListReq /\ r.rev = saved /\ r.live = q.live /\ r.latest = q.latest
      BY <3>1 DEF ListReq
    <3> HIDE DEF r
    <3> QED  BY <3>2 DEF Newest
  <2>2. lists' = (lists \ {q}) \cup {r} /\ UNCHANGED <<saved, revisionId, effect>>
    BY <1>8 DEF ServeFiles, serverVars, previewVars
  <2> HIDE DEF r
  <2>3. ListsOK'
    BY <1>1, <2>1, <2>2 DEF ListsOK
  <2>4. \A s \in lists' : s.rev <= saved'
    BY <1>1, <2>1, <2>2, WorkspaceAssumption
  <2>5. \A s \in lists' : Newest(s) => s.rev = -1 \/ s.rev >= revisionId'
    BY <1>1, <2>1, <2>2, WorkspaceAssumption DEF ListsInOrder
  <2>6. \A s, u \in lists' : Newest(s) /\ Newest(u) => s = u
    BY <1>1, <2>1, <2>2 DEF ListsInOrder
  <2> QED
    BY <1>1, <2>2, <2>3, <2>4, <2>5, <2>6 DEF ListsInOrder, Newest
<1>9. ASSUME NEW q \in lists, TakeFiles(q) PROVE ListsOK' /\ ListsInOrder'
  <2>1. q.rev # -1 /\ lists' = lists \ {q} /\ saved' = saved
    BY <1>9 DEF TakeFiles, serverVars
  <2>2. CASE ~Newest(q) \/ q.rev = revisionId
    <3>1. UNCHANGED <<revisionId, effect>>
      BY <1>9, <2>2 DEF TakeFiles
    <3> QED
      BY <1>1, <2>1, <3>1 DEF ListsOK, ListsInOrder, Newest
  <2>3. CASE Newest(q) /\ q.rev # revisionId
    <3>1. revisionId' = q.rev /\ effect' = effect + 1
      BY <1>9, <2>3 DEF TakeFiles
    <3>2. \A r \in lists' : ~Newest(r)
      BY <1>1, <2>1, <2>3 DEF ListsInOrder
    <3>3. revisionId < q.rev /\ q.rev <= saved /\ effect <= revisionId
      BY <1>1, <2>1, <2>3 DEF ListsInOrder
    <3>4. ListsOK'
      BY <1>1, <2>1, <3>1, <3>3 DEF ListsOK
    <3>5. effect' <= revisionId'
      BY <1>1, <3>1, <3>3
    <3> QED
      BY <1>1, <2>1, <3>2, <3>4, <3>5 DEF ListsInOrder, Newest
  <2> QED  BY <2>2, <2>3
<1>10. ASSUME NEW q \in lists, ListLost(q) PROVE ListsOK' /\ ListsInOrder'
  <2>1. lists' = lists \ {q} /\ UNCHANGED <<saved, revisionId, effect>>
    BY <1>10 DEF ListLost, serverVars, previewVars
  <2> QED
    BY <1>1, <2>1 DEF ListsOK, ListsInOrder, Newest
<1> QED
  BY <1>2, <1>3, <1>4, <1>5, <1>6, <1>7, <1>8, <1>9, <1>10, ListsQuiet

----------------------------------------------------------------------------
(* The server and the list of projects.                                    *)

\* Every step keeps the server's tables, the route and the bounded counters.
LEMMA ServerStep == WorkspaceInv /\ [Next]_vars => ServerOK'
<1> SUFFICES ASSUME WorkspaceInv, [Next]_vars PROVE ServerOK'
    OBVIOUS
<1> USE WorkspaceAssumption DEF serverVars
<1>1. ServerOK /\ {MaxVisits, MaxTurns} \subseteq Nat /\ MaxRev \in Nat
  BY DEF WorkspaceInv, TypeOK
<1>2. /\ Status("sleeping", None) \in [state : States \ {"building"}, rev : 0..MaxRev]
      /\ Status("opening", None) \in [state : States \ {"building"}, rev : 0..MaxRev]
      /\ \A r \in 0..MaxRev : Status("active", r) \in [state : States \ {"building"}, rev : 0..MaxRev]
  BY DEF Status, States, None
<1>3. ASSUME Turn PROVE turns' \in 0..MaxTurns
  BY <1>1, <1>3 DEF Turn, ServerOK
<1>4. CASE RunBegins
  BY <1>1, <1>2, <1>3, <1>4 DEF RunBegins, ServerOK
<1>5. CASE RunEnds
  <2>1. saved' \in 0..MaxRev
    BY <1>1, <1>5 DEF RunEnds, Saves, ServerOK
  <2>2. srv' = Status("sleeping", None) \/ srv' = Status("active", saved')
    BY <1>5 DEF RunEnds
  <2> QED
    BY <1>1, <1>2, <1>5, <2>1, <2>2 DEF RunEnds, ServerOK
<1>6. CASE PreviewMoves
  <2>1. turns' \in 0..MaxTurns
    BY <1>1, <1>3, <1>6 DEF PreviewMoves, ServerOK
  <2>2. srv' \in {Status("opening", None), Status("active", saved), Status("sleeping", None)}
    BY <1>6 DEF PreviewMoves
  <2> QED
    BY <1>1, <1>2, <1>6, <2>1, <2>2 DEF PreviewMoves, ServerOK
<1>7. CASE CollectionStep
  <2>1. CASE ServeList \/ TakeList \/ KeepProject \/ TakeDelete
    BY <1>1, <2>1 DEF ServeList, TakeList, KeepProject, TakeDelete, ServerOK
  <2>2. CASE TryAgain \/ \E p \in Projects : ConfirmDelete(p)
    BY <1>1, <1>3, <2>2 DEF TryAgain, ConfirmDelete, ServerOK
  <2>3. CASE ServeDelete
    BY <1>1, <2>3 DEF ServeDelete, ServerOK
  <2> QED  BY <1>7, <2>1, <2>2, <2>3 DEF CollectionStep
<1>8. CASE FilesStep
  BY <1>1, <1>8 DEF FilesStep, ServeFiles, TakeFiles, ListLost, TakeRead, ServerOK
<1>9. CASE PollFiles \/ Retry \/ NewSession
  BY <1>1, <1>3, <1>9 DEF PollFiles, Retry, NewSession, ServerOK
<1>10. ASSUME NEW v \in BOOLEAN, SetVisible(v) PROVE ServerOK'
  BY <1>1, <1>3, <1>10 DEF SetVisible, ServerOK
<1>11. ASSUME NEW t \in {"preview", "files"}, SetTab(t) PROVE ServerOK'
  BY <1>1, <1>3, <1>11 DEF SetTab, ServerOK
<1>12. ASSUME NEW f \in Files, SelectFile(f) PROVE ServerOK'
  BY <1>1, <1>12 DEF SelectFile, ServerOK
<1>13. CASE LearnRun \/ TimerFires \/ DeadlinePasses
  BY <1>1, <1>13 DEF LearnRun, TimerFires, DeadlinePasses, ServerOK
<1>14. ASSUME NEW e \in Effects, CheckStep(e) PROVE ServerOK'
  <2>1. CASE Serve(e)
    <3>1. srv' \in {srv, Status("opening", None), Status("active", saved)}
      BY <2>1 DEF Serve
    <3> QED  BY <1>1, <1>2, <2>1, <3>1 DEF Serve, ServerOK
  <2>2. CASE Returns(e)
    BY <1>1, <2>2 DEF Returns, ServerOK
  <2> QED  BY <1>14, <2>1, <2>2 DEF CheckStep
<1>15. CASE OpenProject
  <2>1. alive' \subseteq alive
    BY <1>15 DEF OpenProject
  <2>2. visits' \in 0..MaxVisits
    BY <1>1, <1>15 DEF OpenProject, ServerOK
  <2> QED  BY <1>1, <1>15, <2>1, <2>2 DEF OpenProject, ServerOK
<1>16. CASE BackToProjects
  BY <1>1, <1>16 DEF BackToProjects, ServerOK
<1>17. CASE UNCHANGED vars
  BY <1>1, <1>17 DEF vars, ServerOK
<1> QED
  BY <1>4, <1>5, <1>6, <1>7, <1>8, <1>9, <1>10, <1>11, <1>12, <1>13, <1>14, <1>15, <1>16, <1>17
     DEF Next, UserStep

\* Outside the list of projects, and the routes, nothing touches its state.
LEMMA CollectionQuiet ==
    ASSUME [Next]_vars
    PROVE  UNCHANGED <<alive, col>> \/ CollectionStep \/ OpenProject \/ BackToProjects
  <1> USE DEF serverVars
  <1>1. CASE RunBegins \/ RunEnds \/ PreviewMoves \/ PollFiles \/ LearnRun
    BY <1>1 DEF RunBegins, RunEnds, PreviewMoves, PollFiles, LearnRun
  <1>2. CASE TimerFires \/ DeadlinePasses
    BY <1>2 DEF TimerFires, DeadlinePasses
  <1>3. CASE FilesStep
    BY <1>3 DEF FilesStep, ServeFiles, TakeFiles, ListLost, TakeRead
  <1>4. CASE UserStep
    BY <1>4 DEF UserStep, Retry, NewSession, SetVisible, SetTab, SelectFile
  <1>5. ASSUME NEW e \in Effects, CheckStep(e) PROVE UNCHANGED <<alive, col>>
    BY <1>5 DEF CheckStep, Serve, Returns
  <1>6. CASE UNCHANGED vars
    BY <1>6 DEF vars
  <1> QED
    BY <1>1, <1>2, <1>3, <1>4, <1>5, <1>6 DEF Next

\* A collection that was just mounted, or is not mounted, lists and removed nothing.
LEMMA EmptyCollection ==
    ASSUME NEW c, c = NoCol \/ c = [NoCol EXCEPT !.loading = TRUE, !.list = "sent"]
    PROVE  /\ c \in [projects : SUBSET Projects, loading : BOOLEAN, error : BOOLEAN,
                     list : {"none", "sent", "ok", "failed"}, answer : SUBSET Projects,
                     pendingDelete : Projects \cup {Nothing},
                     deleting : {"no", "sent", "ok", "failed"}, removed : SUBSET Projects]
           /\ c.projects = {} /\ c.removed = {} /\ c.answer = {} /\ c.deleting = "no"
           /\ (c.list = "none" /\ c.loading = FALSE) \/ (c.list = "sent" /\ c.loading = TRUE)
  <1>1. CASE c = NoCol
    BY <1>1 DEF NoCol
  <1>2. CASE c = [NoCol EXCEPT !.loading = TRUE, !.list = "sent"]
    BY <1>2 DEF NoCol
  <1> QED  BY <1>1, <1>2

\* Every step keeps deleted projects out of the list and of the answers to come.
LEMMA CollectionKept == WorkspaceInv /\ [Next]_vars => CollectionOK' /\ DeletionsHold'
<1> SUFFICES ASSUME WorkspaceInv, [Next]_vars PROVE CollectionOK' /\ DeletionsHold'
    OBVIOUS
<1>1. CollectionOK /\ DeletionsHold /\ alive \subseteq Projects
  BY DEF WorkspaceInv, TypeOK, ServerOK
<1>2. CASE UNCHANGED <<alive, col>>
  BY <1>1, <1>2 DEF CollectionOK, DeletionsHold
<1>3. CASE ServeList
  <2>1. alive' = alive
    BY <1>3 DEF ServeList, serverVars
  <2> QED  BY <1>1, <1>3, <2>1 DEF ServeList, CollectionOK, DeletionsHold
<1>4. CASE TakeList
  <2>1. alive' = alive
    BY <1>4 DEF TakeList, serverVars
  <2> QED  BY <1>1, <1>4, <2>1 DEF TakeList, CollectionOK, DeletionsHold
<1>5. CASE TryAgain
  <2>1. alive' = alive
    BY <1>5 DEF TryAgain, serverVars
  <2> QED  BY <1>1, <1>5, <2>1 DEF TryAgain, RetryShown, CollectionOK, DeletionsHold
<1>6. CASE KeepProject
  <2>1. alive' = alive
    BY <1>6 DEF KeepProject, serverVars
  <2> QED  BY <1>1, <1>6, <2>1 DEF KeepProject, CollectionOK, DeletionsHold
<1>7. CASE ServeDelete
  BY <1>1, <1>7 DEF ServeDelete, CollectionOK, DeletionsHold
<1>8. CASE TakeDelete
  <2>1. alive' = alive
    BY <1>8 DEF TakeDelete, serverVars
  <2> QED  BY ZenonT(60), <1>1, <1>8, <2>1 DEF TakeDelete, CollectionOK, DeletionsHold
<1>9. ASSUME NEW p \in Projects, ConfirmDelete(p) PROVE CollectionOK' /\ DeletionsHold'
  <2>1. alive' = alive
    BY <1>9 DEF ConfirmDelete, serverVars
  <2> QED  BY <1>1, <1>9, <2>1 DEF ConfirmDelete, CollectionOK, DeletionsHold
<1>10. CASE OpenProject \/ BackToProjects
  <2>1. alive' \subseteq alive
    BY <1>10 DEF OpenProject, BackToProjects, serverVars
  <2>2. col' = NoCol \/ col' = [NoCol EXCEPT !.loading = TRUE, !.list = "sent"]
    BY <1>10 DEF OpenProject, BackToProjects
  <2> QED
    BY <2>2, EmptyCollection DEF CollectionOK, DeletionsHold
<1> QED
  BY <1>2, <1>3, <1>4, <1>5, <1>6, <1>7, <1>8, <1>9, <1>10, CollectionQuiet DEF CollectionStep

----------------------------------------------------------------------------
(* The file viewer.                                                        *)

viewerState == <<sid, selected, content, reads, revisionId>>

\* Only these steps select, read or show a file.
LEMMA ViewerQuiet ==
    ASSUME [Next]_vars
    PROVE  \/ UNCHANGED viewerState
           \/ NewSession \/ BackToProjects
           \/ \E t \in {"preview", "files"} : SetTab(t)
           \/ \E f \in Files : SelectFile(f)
           \/ \E q \in lists : TakeFiles(q)
           \/ \E q \in reads, ok \in BOOLEAN : TakeRead(q, ok)
  <1> USE DEF viewerState, chatVars, viewerVars
  <1>1. CASE RunBegins \/ RunEnds \/ PreviewMoves \/ PollFiles \/ LearnRun \/ OpenProject \/ Retry
    BY <1>1 DEF RunBegins, RunEnds, PreviewMoves, PollFiles, LearnRun, OpenProject, Retry
  <1>2. CASE TimerFires \/ DeadlinePasses
    BY <1>2 DEF TimerFires, DeadlinePasses
  <1>3. CASE CollectionStep
    BY <1>3 DEF CollectionStep, ServeList, TakeList, TryAgain, KeepProject, ServeDelete,
                TakeDelete, ConfirmDelete
  <1>4. ASSUME NEW q \in lists, ServeFiles(q) \/ ListLost(q) PROVE UNCHANGED viewerState
    BY <1>4 DEF ServeFiles, ListLost
  <1>5. ASSUME NEW v \in BOOLEAN, SetVisible(v) PROVE UNCHANGED viewerState
    BY <1>5 DEF SetVisible
  <1>6. ASSUME NEW e \in Effects, CheckStep(e) PROVE UNCHANGED viewerState
    BY <1>6 DEF CheckStep, Serve, Returns
  <1>7. CASE UNCHANGED vars
    BY <1>7 DEF vars
  <1> QED
    BY <1>1, <1>2, <1>3, <1>4, <1>5, <1>6, <1>7 DEF Next, FilesStep, UserStep

\* The auto-select effect picks a file of the revision, or nothing without one.
LEMMA AutoSelects ==
    ASSUME NEW file, NEW rev \in 0..MaxRev, AutoSelect(file, rev) # Nothing
    PROVE  rev \in 1..MaxRev /\ AutoSelect(file, rev) \in Files
  <1>1. rev # None
    BY DEF AutoSelect
  <1>2. rev \in 1..MaxRev
    BY <1>1, WorkspaceAssumption DEF None
  <1>3. filesOf[rev] \subseteq Files /\ filesOf[rev] # {}
    BY <1>2, WorkspaceAssumption
  <1> QED  BY <1>1, <1>2, <1>3 DEF AutoSelect

\* Showing a file aborts the reads of the former one.
LEMMA ShowSound ==
    ASSUME ViewerOK, NEW file \in Files \cup {Nothing}, NEW rev \in 0..MaxRev,
           file # Nothing => rev \in 1..MaxRev /\ file \in Files, NEW mounted \in BOOLEAN,
           Show(file, rev, mounted), sid' = sid, revisionId' = rev
    PROVE  ViewerOK' /\ ReadsFollow'
  <1> DEFINE new == [live |-> TRUE, sid |-> sid, file |-> file, rev |-> rev]
  <1>1. Aborted \subseteq ReadReq /\ \A q \in Aborted : q.live = FALSE
    BY DEF Aborted, ViewerOK, ReadReq
  <1>2. Blank \in [what : {"none", "loading", "text", "error"}, file : Files \cup {Nothing},
                   rev : 0..MaxRev]
    BY ValuesTyped DEF Blank
  <1>3. selected' = file
    BY DEF Show
  <1>4. \/ content' = Blank
        \/ content' = [what |-> "text", file |-> file, rev |-> rev]
        \/ content' = [what |-> "loading", file |-> file, rev |-> rev]
    BY DEF Show
  <1>5. reads' = Aborted \/ (file # Nothing /\ reads' = Aborted \cup {new})
    BY DEF Show
  <1>6. file # Nothing => new \in ReadReq /\ new.file = file /\ new.rev = rev
    BY DEF ReadReq, ViewerOK
  <1> HIDE DEF new
  <1>7. content' \in [what : {"none", "loading", "text", "error"}, file : Files \cup {Nothing},
                      rev : 0..MaxRev]
    BY <1>2, <1>4
  <1>8. reads' \subseteq ReadReq
    BY <1>1, <1>5, <1>6
  <1>9. content' # Blank => content'.file = selected' /\ content'.rev = revisionId'
    BY <1>3, <1>4
  <1>10. \A q \in reads' : q.live => q.file = selected' /\ q.rev = revisionId'
    BY <1>1, <1>3, <1>5, <1>6
  <1>11. ViewerOK'
    BY <1>3, <1>7, <1>8 DEF ViewerOK
  <1> QED
    BY <1>9, <1>10, <1>11 DEF ReadsFollow, ViewCurrent

\* Every step keeps the viewer with the selected file of the listed revision.
LEMMA ViewerStep == WorkspaceInv /\ [Next]_vars => ViewerOK' /\ ReadsFollow'
<1> SUFFICES ASSUME WorkspaceInv, [Next]_vars PROVE ViewerOK' /\ ReadsFollow'
    OBVIOUS
<1>1. /\ ViewerOK /\ ReadsFollow /\ ListsOK
      /\ revisionId \in 0..MaxRev /\ selected \in Files \cup {Nothing}
  BY PreviewInvDef DEF WorkspaceInv, TypeOK, ViewerOK
<1>2. CASE UNCHANGED viewerState
  BY <1>1, <1>2 DEF viewerState, ViewerOK, ReadsFollow, ViewCurrent
<1>3. CASE NewSession
  BY <1>1, <1>3 DEF NewSession, Sids, ViewerOK, ReadsFollow, ViewCurrent
<1>4. CASE BackToProjects
  BY <1>1, <1>4, ValuesTyped DEF BackToProjects, Blank, ViewerOK, ReadsFollow, ViewCurrent
<1>5. ASSUME NEW t \in {"preview", "files"}, SetTab(t) PROVE ViewerOK' /\ ReadsFollow'
  <2> DEFINE file == IF t = "files" THEN AutoSelect(Nothing, revisionId) ELSE Nothing
  <2>1. Show(file, revisionId, t = "files") /\ UNCHANGED <<sid, revisionId>>
    BY <1>5 DEF SetTab
  <2>2. file # Nothing => revisionId \in 1..MaxRev /\ file \in Files
    BY <1>1, AutoSelects
  <2> HIDE DEF file
  <2> QED
    BY <1>1, <2>1, <2>2, ShowSound
<1>6. ASSUME NEW f \in Files, SelectFile(f) PROVE ViewerOK' /\ ReadsFollow'
  <2>1. Show(f, revisionId, TRUE) /\ UNCHANGED <<sid, revisionId>> /\ revisionId # None
    BY <1>6 DEF SelectFile
  <2>2. revisionId \in 1..MaxRev
    BY <1>1, <2>1, WorkspaceAssumption DEF None
  <2> QED
    BY <1>1, <2>1, <2>2, ShowSound
<1>7. ASSUME NEW q \in lists, TakeFiles(q) PROVE ViewerOK' /\ ReadsFollow'
  <2>1. sid' = sid
    BY <1>7 DEF TakeFiles
  <2>2. CASE ~Newest(q) \/ q.rev = revisionId
    <3>1. UNCHANGED viewerState
      BY <1>7, <2>2 DEF TakeFiles, viewerVars, viewerState
    <3> QED  BY <1>2, <3>1
  <2>3. CASE Newest(q) /\ q.rev # revisionId
    <3> DEFINE file == IF tab = "files" THEN AutoSelect(selected, q.rev) ELSE Nothing
    <3>1. Show(file, q.rev, tab = "files") /\ revisionId' = q.rev
      BY <1>7, <2>3 DEF TakeFiles
    <3>2. q.rev \in 0..MaxRev
      BY <1>1, <1>7, WorkspaceAssumption DEF TakeFiles, ListsOK, ListReq
    <3>3. file # Nothing => q.rev \in 1..MaxRev /\ file \in Files
      BY <3>2, AutoSelects
    <3> HIDE DEF file
    <3> QED
      BY <1>1, <2>1, <3>1, <3>2, <3>3, ShowSound
  <2> QED  BY <2>2, <2>3
<1>8. ASSUME NEW q \in reads, NEW ok \in BOOLEAN, TakeRead(q, ok)
      PROVE  ViewerOK' /\ ReadsFollow'
  <2>1. reads' = reads \ {q} /\ UNCHANGED <<sid, revisionId, selected>>
    BY <1>8 DEF TakeRead
  <2>2. q \in ReadReq /\ 1..MaxRev \subseteq 0..MaxRev
    BY <1>1, WorkspaceAssumption DEF ViewerOK
  <2>3. /\ content' \in [what : {"none", "loading", "text", "error"},
                         file : Files \cup {Nothing}, rev : 0..MaxRev]
        /\ content' # Blank => content'.file = selected /\ content'.rev = revisionId
    <3>1. CASE ~q.live
      BY <1>1, <1>8, <3>1 DEF TakeRead, Wanted, ViewerOK, ReadsFollow, ViewCurrent
    <3>2. CASE q.live
      <4>1. q.file = selected /\ q.rev = revisionId
        BY <1>1, <3>2 DEF ReadsFollow
      <4>2. \/ content' = [what |-> "error", file |-> q.file, rev |-> q.rev]
            \/ content' = [what |-> "text", file |-> q.file, rev |-> q.rev]
            \/ content' = Blank
        BY <1>8, <3>2 DEF TakeRead, Wanted
      <4> QED
        BY <2>2, <4>1, <4>2, ValuesTyped DEF ReadReq, Blank
    <3> QED  BY <3>1, <3>2
  <2>4. ViewerOK'
    BY <1>1, <2>1, <2>3 DEF ViewerOK
  <2> QED
    BY <1>1, <2>1, <2>3, <2>4 DEF ReadsFollow, ViewCurrent
<1> QED
  BY <1>2, <1>3, <1>4, <1>5, <1>6, <1>7, <1>8, ViewerQuiet

----------------------------------------------------------------------------
(* The file cache.                                                         *)

Key == Sids \X Files \X (1..MaxRev)

\* A set of numbers has a least one.
LEMMA LeastNumber ==
    ASSUME NEW T, T \subseteq Nat, T # {}
    PROVE  \E x \in T : \A y \in T : x <= y
<1> DEFINE Below == {1..n : n \in T}
<1>1. Below \subseteq FiniteSubsetsOf(Nat) /\ Below # {}
  <2>1. ASSUME NEW n \in T PROVE 1..n \in FiniteSubsetsOf(Nat)
    <3>1. IsFiniteSet(1..n)
      BY FS_Interval
    <3> QED  BY <3>1 DEF FiniteSubsetsOf
  <2> QED  BY <2>1
<1>2. PICK s \in Below : \A t \in Below : <<t, s>> \notin StrictSubsetOrdering(Nat)
  BY <1>1, FS_StrictSubsetOrderingWellFounded, WFMin
<1>3. PICK x \in T : s = 1..x
  OBVIOUS
<1>4. ASSUME NEW y \in T, y < x PROVE FALSE
  <2>1. (1..y) \subseteq s /\ x \in s /\ x \notin 1..y
    BY <1>3, <1>4
  <2>2. (1..y) \in SUBSET Nat /\ s \in SUBSET Nat
    BY <1>3
  <2>3. <<1..y, s>> \in StrictSubsetOrdering(Nat)
    BY <2>1, <2>2 DEF StrictSubsetOrdering
  <2> QED  BY <1>2, <2>3
<1> QED  BY <1>4

\* A set with 0 and, from each number up to n, the next one, has all of them.
LEMMA NumberByNumber ==
    ASSUME NEW n \in Nat, NEW T, 0 \in T, \A i \in 1..n : i - 1 \in T => i \in T
    PROVE  0..n \subseteq T
<1> DEFINE Missed == {i \in 0..n : i \notin T}
<1>1. SUFFICES ASSUME Missed # {} PROVE FALSE
  OBVIOUS
<1>2. PICK x \in Missed : \A y \in Missed : x <= y
  <2>1. Missed \subseteq Nat
    OBVIOUS
  <2> HIDE DEF Missed
  <2> QED  BY <1>1, <2>1, LeastNumber
<1>3. x \in 1..n /\ x - 1 \in 0..n
  BY <1>2
<1>4. x - 1 \in T
  BY <1>2, <1>3
<1> QED  BY <1>2, <1>3, <1>4

\* A value of V after each of n steps.
Computes(V, start, n, step) ==
    \E g \in [0..n -> V] : g[0] = start /\ \A i \in 1..n : g[i] = step[<<i, g[i - 1]>>]

\* What is computed step by step has a value after each step.
LEMMA StepsExist ==
    ASSUME NEW V, NEW start \in V, NEW n \in Nat, NEW step \in [(1..n) \X V -> V]
    PROVE  Computes(V, start, n, step)
<1> DEFINE Steps(g, m) == /\ g \in [0..m -> V] /\ g[0] = start
                          /\ \A i \in 1..m : g[i] = step[<<i, g[i - 1]>>]
           Done == {m \in 0..n : \E g : Steps(g, m)}
<1>1. 0 \in Done
  <2>1. Steps([i \in 0..0 |-> start], 0) /\ 0 \in 0..n
    OBVIOUS
  <2> HIDE DEF Steps
  <2> QED  BY <2>1
<1>2. ASSUME NEW m \in 1..n, m - 1 \in Done PROVE m \in Done
  <2>1. PICK g : Steps(g, m - 1)
    BY <1>2
  <2> DEFINE v == step[<<m, g[m - 1]>>]
             h == [i \in 0..m |-> IF i = m THEN v ELSE g[i]]
  <2>2. g[m - 1] \in V /\ <<m, g[m - 1]>> \in (1..n) \X V
    BY <2>1
  <2>3. v \in V
    BY <2>2
  <2>4. \A i \in 0..(m - 1) : h[i] = g[i] /\ g[i] \in V
    BY <2>1
  <2>5. h[m] = v
    OBVIOUS
  <2>6. h \in [0..m -> V]
    <3>1. \A i \in 0..m : i = m \/ i \in 0..(m - 1)
      OBVIOUS
    <3>2. \A i \in 0..m : h[i] \in V
      <4> HIDE DEF h, v
      <4> QED  BY <2>3, <2>4, <2>5, <3>1
    <3> HIDE DEF v
    <3> QED  BY <3>2
  <2> HIDE DEF h, v
  <2>7. h[0] = start
    BY <2>1, <2>4
  <2>8. ASSUME NEW i \in 1..m PROVE h[i] = step[<<i, h[i - 1]>>]
    <3>1. i - 1 \in 0..(m - 1) /\ h[i - 1] = g[i - 1]
      BY <2>4
    <3>2. CASE i = m
      BY <2>5, <3>1, <3>2 DEF v
    <3>3. CASE i # m
      <4>1. i \in 1..(m - 1)
        BY <3>3
      <4>2. h[i] = g[i]
        BY <2>4, <4>1
      <4> QED  BY <2>1, <3>1, <4>1, <4>2
    <3> QED  BY <3>2, <3>3
  <2>9. Steps(h, m)
    BY <2>6, <2>7, <2>8
  <2> QED  BY <2>9
<1>3. n \in Done
  <2> HIDE DEF Done
  <2> QED  BY <1>1, <1>2, NumberByNumber
<1> QED  BY <1>3 DEF Computes

\* cachedBytes is counted entry by entry.
LEMMA BytesCounted ==
    ASSUME NEW keys \in Seq(Key)
    PROVE  \E f \in [0..Len(keys) -> Nat] :
              /\ f[0] = 0 /\ f[Len(keys)] = Bytes(keys)
              /\ \A i \in 1..Len(keys) : f[i] = f[i - 1] + size[keys[i][2]]
<1> DEFINE n == Len(keys)
           step == [x \in (1..n) \X Nat |-> x[2] + size[keys[x[1]][2]]]
           Counts(f) == f = [i \in 0..n |-> IF i = 0 THEN 0 ELSE f[i - 1] + size[keys[i][2]]]
           f == CHOOSE f : Counts(f)
<1>1. ASSUME NEW i \in 1..n PROVE size[keys[i][2]] \in Nat
  <2>1. keys[i] \in Key
    OBVIOUS
  <2>2. keys[i][2] \in Files
    BY <2>1 DEF Key
  <2> QED  BY <2>2, WorkspaceAssumption
<1>2. n \in Nat /\ step \in [(1..n) \X Nat -> Nat]
  BY <1>1
<1>3. PICK g \in [0..n -> Nat] : g[0] = 0 /\ \A i \in 1..n : g[i] = step[<<i, g[i - 1]>>]
  <2>1. 0 \in Nat
    OBVIOUS
  <2>2. Computes(Nat, 0, n, step)
    <3> HIDE DEF n, step
    <3> QED  BY ONLY <1>2, <2>1, StepsExist
  <2> HIDE DEF n, step
  <2> QED  BY <2>2 DEF Computes
<1>4. ASSUME NEW i \in 1..n PROVE g[i - 1] \in Nat /\ g[i] = g[i - 1] + size[keys[i][2]]
  <2>1. i - 1 \in 0..n
    BY <1>2
  <2>2. g[i - 1] \in Nat
    BY <1>3, <2>1
  <2>3. <<i, g[i - 1]>> \in (1..n) \X Nat
    BY <2>2
  <2>4. step[<<i, g[i - 1]>>] = g[i - 1] + size[keys[i][2]]
    BY <2>3
  <2> QED  BY <1>3, <2>2, <2>4
<1>5. Counts(g)
  BY <1>3, <1>4
<1>6. Counts(f)
  <2> HIDE DEF Counts
  <2> QED  BY <1>5
<1>7. f[0] = 0 /\ \A i \in 1..n : f[i] = f[i - 1] + size[keys[i][2]]
  <2> HIDE DEF f
  <2> QED  BY <1>2, <1>6
<1>8. 0..n \subseteq {i \in 0..n : f[i] = g[i]}
  <2> HIDE DEF f, n
  <2> DEFINE T == {i \in 0..n : f[i] = g[i]}
  <2>1. 0 \in T /\ \A i \in 1..n : i - 1 \in T => i \in T
    BY <1>2, <1>3, <1>4, <1>7
  <2> HIDE DEF T
  <2>2. 0..n \subseteq T
    BY <1>2, <2>1, NumberByNumber
  <2> QED  BY <2>2 DEF T
<1>9. f[n] = Bytes(keys)
  BY DEF Bytes
<1>10. f \in [0..n -> Nat]
  <2> HIDE DEF f, n
  <2>1. f = [i \in 0..n |-> f[i]]
    BY <1>6
  <2> QED  BY <1>3, <1>8, <2>1
<1> QED  BY <1>7, <1>9, <1>10

\* The other entries are found entry by entry.
LEMMA OthersFound ==
    ASSUME NEW keys \in Seq(Key), NEW key
    PROVE  \E f \in [0..Len(keys) -> Seq(Key)] :
              /\ f[0] = <<>> /\ f[Len(keys)] = Without(keys, key)
              /\ \A i \in 1..Len(keys) :
                   f[i] = IF keys[i] = key THEN f[i - 1] ELSE Append(f[i - 1], keys[i])
<1> DEFINE n == Len(keys)
           More(others, i) == IF keys[i] = key THEN others ELSE Append(others, keys[i])
           step == [x \in (1..n) \X Seq(Key) |-> More(x[2], x[1])]
           Finds(g) == g = [i \in 0..n |-> IF i = 0 THEN <<>> ELSE More(g[i - 1], i)]
           f == CHOOSE g : Finds(g)
<1>1. n \in Nat /\ <<>> \in Seq(Key) /\ \A i \in 1..n : keys[i] \in Key
  OBVIOUS
<1>2. ASSUME NEW i \in 1..n, NEW others \in Seq(Key) PROVE More(others, i) \in Seq(Key)
  BY <1>1
<1>3. step \in [(1..n) \X Seq(Key) -> Seq(Key)]
  <2> HIDE DEF More, n
  <2> QED  BY <1>2
<1>4. PICK g \in [0..n -> Seq(Key)] :
        g[0] = <<>> /\ \A i \in 1..n : g[i] = step[<<i, g[i - 1]>>]
  <2>1. Computes(Seq(Key), <<>>, n, step)
    <3> HIDE DEF n, step
    <3> QED  BY ONLY <1>1, <1>3, StepsExist
  <2> HIDE DEF n, step
  <2> QED  BY <2>1 DEF Computes
<1>5. ASSUME NEW i \in 1..n PROVE g[i] = More(g[i - 1], i)
  <2>1. i - 1 \in 0..n
    BY <1>1
  <2>2. g[i - 1] \in Seq(Key)
    BY <1>4, <2>1
  <2>3. <<i, g[i - 1]>> \in (1..n) \X Seq(Key)
    BY <2>2
  <2> HIDE DEF More
  <2>4. step[<<i, g[i - 1]>>] = More(g[i - 1], i)
    BY <2>3
  <2> HIDE DEF step
  <2> QED  BY <1>4, <2>4
<1>6. Finds(g)
  <2> HIDE DEF More, n, step
  <2> QED  BY <1>4, <1>5
<1>7. Finds(f)
  <2> HIDE DEF Finds
  <2> QED  BY <1>6
<1>8. f[0] = <<>> /\ \A i \in 1..n : f[i] = More(f[i - 1], i)
  <2> HIDE DEF f, More
  <2> QED  BY <1>1, <1>7
<1>9. 0..n \subseteq {i \in 0..n : f[i] = g[i]}
  <2> HIDE DEF f, n, More
  <2> DEFINE T == {i \in 0..n : f[i] = g[i]}
  <2>1. 0 \in T /\ \A i \in 1..n : i - 1 \in T => i \in T
    BY <1>1, <1>4, <1>5, <1>8
  <2> HIDE DEF T
  <2>2. 0..n \subseteq T
    BY <1>1, <2>1, NumberByNumber
  <2> QED  BY <2>2 DEF T
<1>10. f[n] = Without(keys, key)
  BY DEF Without
<1>11. f \in [0..n -> Seq(Key)]
  <2> HIDE DEF f, n, More
  <2>1. f = [i \in 0..n |-> f[i]]
    BY <1>7
  <2> QED  BY <1>4, <1>9, <2>1
<1> QED  BY <1>8, <1>10, <1>11

LEMMA BytesNat ==
    /\ \A keys \in Seq(Key) : Bytes(keys) \in Nat
    /\ Bytes(<<>>) = 0
<1>1. ASSUME NEW keys \in Seq(Key) PROVE Bytes(keys) \in Nat
  <2>1. Len(keys) \in 0..Len(keys)
    OBVIOUS
  <2> QED  BY <2>1, BytesCounted
<1>2. Bytes(<<>>) = 0
  <2>1. <<>> \in Seq(Key) /\ Len(<<>>) = 0
    OBVIOUS
  <2> QED  BY <2>1, BytesCounted
<1> QED  BY <1>1, <1>2

\* An entry more is its size more.
LEMMA BytesAppend ==
    ASSUME NEW keys \in Seq(Key), NEW key \in Key
    PROVE  Bytes(Append(keys, key)) = Bytes(keys) + size[key[2]]
<1> DEFINE n == Len(keys)
           more == Append(keys, key)
<1>1. n \in Nat /\ more \in Seq(Key) /\ Len(more) = n + 1 /\ more[n + 1] = key
  OBVIOUS
<1>2. \A i \in 1..n : more[i] = keys[i]
  OBVIOUS
<1>3. PICK f \in [0..n -> Nat] : /\ f[0] = 0 /\ f[n] = Bytes(keys)
                                 /\ \A i \in 1..n : f[i] = f[i - 1] + size[keys[i][2]]
  BY BytesCounted
<1> HIDE DEF n, more
<1>4. PICK g \in [0..n + 1 -> Nat] :
        /\ g[0] = 0 /\ g[n + 1] = Bytes(more)
        /\ \A i \in 1..n + 1 : g[i] = g[i - 1] + size[more[i][2]]
  <2>1. PICK g \in [0..Len(more) -> Nat] :
          /\ g[0] = 0 /\ g[Len(more)] = Bytes(more)
          /\ \A i \in 1..Len(more) : g[i] = g[i - 1] + size[more[i][2]]
    BY ONLY <1>1, BytesCounted
  <2> QED  BY <1>1, <2>1
<1>5. f[n] = g[n]
  <2> DEFINE T == {i \in 0..n : f[i] = g[i]}
  <2>1. 0 \in T
    BY <1>1, <1>3, <1>4
  <2>2. ASSUME NEW i \in 1..n, i - 1 \in T PROVE i \in T
    <3>1. i \in 1..n + 1
      BY <1>1
    <3> QED  BY <1>2, <1>3, <1>4, <2>2, <3>1
  <2> HIDE DEF T
  <2>3. 0..n \subseteq T
    BY ONLY <1>1, <2>1, <2>2, NumberByNumber
  <2>4. n \in T
    BY <1>1, <2>3
  <2> QED  BY <2>4 DEF T
<1>6. n + 1 \in 1..n + 1 /\ (n + 1) - 1 = n
  BY <1>1
<1> QED  BY <1>1, <1>3, <1>4, <1>5, <1>6 DEF more

\* Taking an entry out makes neither the queue longer nor its bytes more.
LEMMA WithoutIsLess ==
    ASSUME NEW keys \in Seq(Key), NEW key
    PROVE  /\ Without(keys, key) \in Seq(Key) /\ Len(Without(keys, key)) <= Len(keys)
           /\ Bytes(Without(keys, key)) <= Bytes(keys)
<1> DEFINE n == Len(keys)
<1>1. n \in Nat /\ \A i \in 1..n : keys[i] \in Key /\ size[keys[i][2]] \in Nat
  <2>1. ASSUME NEW i \in 1..n PROVE keys[i] \in Key /\ size[keys[i][2]] \in Nat
    <3>1. keys[i] \in Key
      OBVIOUS
    <3>2. keys[i][2] \in Files
      BY <3>1 DEF Key
    <3> QED  BY <3>1, <3>2, WorkspaceAssumption
  <2> QED  BY <2>1
<1>2. PICK f \in [0..n -> Nat] : /\ f[0] = 0 /\ f[n] = Bytes(keys)
                                 /\ \A i \in 1..n : f[i] = f[i - 1] + size[keys[i][2]]
  BY BytesCounted
<1>3. PICK g \in [0..n -> Seq(Key)] :
        /\ g[0] = <<>> /\ g[n] = Without(keys, key)
        /\ \A i \in 1..n : g[i] = IF keys[i] = key THEN g[i - 1] ELSE Append(g[i - 1], keys[i])
  BY OthersFound
<1> HIDE DEF n
<1> DEFINE T == {i \in 0..n : Len(g[i]) <= i /\ Bytes(g[i]) <= f[i]}
<1>4. 0 \in T
  <2>1. Len(g[0]) = 0 /\ Bytes(g[0]) = 0 /\ 0 \in 0..n
    BY <1>1, <1>3, BytesNat
  <2> QED  BY <1>2, <2>1
<1>5. ASSUME NEW i \in 1..n, i - 1 \in T PROVE i \in T
  <2> DEFINE others == g[i - 1]
  <2>1. i \in 0..n /\ i - 1 \in 0..n
    BY <1>1
  <2>2. others \in Seq(Key) /\ Len(others) <= i - 1 /\ Bytes(others) <= f[i - 1]
    BY <1>3, <1>5, <2>1
  <2>3. f[i] = f[i - 1] + size[keys[i][2]] /\ f[i - 1] \in Nat /\ size[keys[i][2]] \in Nat
    BY <1>1, <1>2, <2>1
  <2>4. Bytes(others) \in Nat /\ Len(others) \in Nat
    BY <2>2, BytesNat
  <2>5. CASE g[i] = others
    BY <2>1, <2>2, <2>3, <2>4, <2>5
  <2>6. CASE g[i] = Append(others, keys[i])
    <3>1. Bytes(g[i]) = Bytes(others) + size[keys[i][2]] /\ Len(g[i]) = Len(others) + 1
      <4> HIDE DEF others
      <4>1. keys[i] \in Key
        BY <1>1
      <4>2. Bytes(Append(others, keys[i])) = Bytes(others) + size[keys[i][2]]
        BY ONLY <2>2, <4>1, BytesAppend
      <4> QED  BY <2>2, <2>6, <4>1, <4>2
    <3> HIDE DEF others
    <3>2. Len(g[i]) <= i /\ Bytes(g[i]) <= f[i]
      BY <2>1, <2>2, <2>3, <2>4, <3>1
    <3> QED  BY <2>1, <3>2
  <2> QED  BY <1>3, <2>5, <2>6
<1>6. n \in T
  <2> HIDE DEF T
  <2>1. 0..n \subseteq T
    BY ONLY <1>1, <1>4, <1>5, NumberByNumber
  <2> QED  BY <1>1, <2>1
<1> QED  BY <1>1, <1>2, <1>3, <1>6 DEF n

\* cacheFile() leaves a cache within its limits, whatever it has to drop.
LEMMA CacheFileFits ==
    ASSUME NEW keys \in Seq(Key), NEW key \in Key, Len(keys) <= MaxFiles, Bytes(keys) <= MaxBytes
    PROVE  LET new == CacheFile(keys, key)
           IN  new \in Seq(Key) /\ Len(new) <= MaxFiles /\ Bytes(new) <= MaxBytes
<1> DEFINE others == Without(keys, key)
           n == Len(others)
           Left(d) == SubSeq(others, d + 1, n)
           Room == {d \in 0..n : Fits(Left(d), key)}
           drop == Min(Room)
<1>1. /\ others \in Seq(Key) /\ n \in Nat /\ n <= MaxFiles /\ Bytes(others) <= MaxBytes
      /\ MaxFiles \in Nat \ {0} /\ MaxBytes \in Nat
  <2>1. MaxFiles \in Nat \ {0} /\ MaxBytes \in Nat
    BY WorkspaceAssumption
  <2>2. Bytes(keys) \in Nat /\ Bytes(others) \in Nat /\ Len(keys) \in Nat /\ n \in Nat
    BY WithoutIsLess, BytesNat
  <2> HIDE DEF others
  <2>3. others \in Seq(Key) /\ Len(others) <= Len(keys) /\ Bytes(others) <= Bytes(keys)
    BY WithoutIsLess DEF others
  <2> QED  BY <2>1, <2>2, <2>3
<1>2. size[key[2]] \in Nat
  <2>1. key[2] \in Files
    BY DEF Key
  <2> QED  BY <2>1, WorkspaceAssumption
<1>3. CASE size[key[2]] > MaxBytes
  <2>1. CacheFile(keys, key) = others
    BY <1>3 DEF CacheFile
  <2> QED  BY <1>1, <2>1
<1>4. CASE ~(size[key[2]] > MaxBytes)
  <2> HIDE DEF others
  <2>1. Left(n) = <<>>
    BY <1>1
  <2>2. n \in Room
    <3>1. Len(Left(n)) = 0 /\ Bytes(Left(n)) = 0
      BY <2>1, BytesNat
    <3>2. Fits(Left(n), key)
      <4> HIDE DEF Left
      <4> QED  BY <1>1, <1>2, <1>4, <3>1 DEF Fits
    <3> QED  BY <1>1, <3>2
  <2>3. drop \in Room
    <3>1. Room \subseteq Nat /\ Room # {}
      BY <2>2
    <3> HIDE DEF Room
    <3>2. \E d \in Room : \A e \in Room : d <= e
      BY <3>1, LeastNumber
    <3> QED  BY <3>2 DEF Min
  <2>4. CacheFile(keys, key) = Append(Left(drop), key)
    BY <1>4 DEF CacheFile, others
  <2> HIDE DEF drop
  <2>5. drop \in 0..n /\ Fits(Left(drop), key)
    BY <2>3
  <2>6. Left(drop) \in Seq(Key)
    BY <1>1, <2>5
  <2> HIDE DEF Left
  <2>7. Bytes(Left(drop)) \in Nat /\ Len(Left(drop)) \in Nat
    BY <2>6, BytesNat
  <2>8. /\ Append(Left(drop), key) \in Seq(Key)
        /\ Len(Append(Left(drop), key)) = Len(Left(drop)) + 1
        /\ Bytes(Append(Left(drop), key)) = Bytes(Left(drop)) + size[key[2]]
    BY <2>6, BytesAppend
  <2>9. Len(Left(drop)) < MaxFiles /\ Bytes(Left(drop)) + size[key[2]] <= MaxBytes
    BY <2>5 DEF Fits
  <2> QED  BY <1>1, <2>4, <2>7, <2>8, <2>9
<1> QED  BY <1>3, <1>4

\* Only an answer changes the cache, and a sign-in here, which empties it.
LEMMA CacheStep == WorkspaceInv /\ [Next]_vars => CacheBounded'
<1> SUFFICES ASSUME WorkspaceInv, [Next]_vars PROVE CacheBounded'
    OBVIOUS
<1>1. /\ cache \in Seq(Key) /\ Len(cache) <= MaxFiles /\ Bytes(cache) <= MaxBytes
      /\ ViewerOK
  BY DEF WorkspaceInv, TypeOK, CacheBounded, Key
<1> SUFFICES cache' \in Seq(Key) /\ Len(cache') <= MaxFiles /\ Bytes(cache') <= MaxBytes
  BY DEF CacheBounded, Key, Bytes
<1>2. CASE UNCHANGED cache
  BY <1>1, <1>2
<1>3. CASE NewSession
  <2>1. cache' = cache \/ cache' = <<>>
    BY <1>3 DEF NewSession
  <2>2. CASE cache' = <<>>
    <3>1. <<>> \in Seq(Key) /\ Len(<<>>) = 0 /\ Bytes(<<>>) = 0
      BY BytesNat
    <3> QED  BY <2>2, <3>1, WorkspaceAssumption
  <2> QED  BY <1>1, <2>1, <2>2
<1>4. ASSUME NEW q \in reads, NEW ok \in BOOLEAN, TakeRead(q, ok)
      PROVE  cache' \in Seq(Key) /\ Len(cache') <= MaxFiles /\ Bytes(cache') <= MaxBytes
  <2>1. cache' = cache \/ cache' = CacheFile(cache, <<q.sid, q.file, q.rev>>)
    BY <1>4 DEF TakeRead
  <2>2. <<q.sid, q.file, q.rev>> \in Key
    <3>1. q \in ReadReq
      BY <1>1 DEF ViewerOK
    <3> QED  BY <3>1 DEF ReadReq, Key
  <2>3. CASE cache' = CacheFile(cache, <<q.sid, q.file, q.rev>>)
    BY <1>1, <2>2, <2>3, CacheFileFits
  <2> QED  BY <1>1, <2>1, <2>3
<1>5. CASE BackToProjects \/ RunBegins \/ RunEnds \/ PreviewMoves \/ PollFiles \/ LearnRun
           \/ OpenProject \/ Retry \/ TimerFires \/ DeadlinePasses
  BY <1>2, <1>5 DEF BackToProjects, RunBegins, RunEnds, PreviewMoves, PollFiles, LearnRun,
       OpenProject, Retry, TimerFires, DeadlinePasses, chatVars, viewerVars
<1>6. CASE CollectionStep
  BY <1>2, <1>6 DEF CollectionStep, ServeList, TakeList, TryAgain, KeepProject, ServeDelete,
                    TakeDelete, ConfirmDelete, chatVars, viewerVars
<1>7. ASSUME NEW q \in lists, ServeFiles(q) \/ TakeFiles(q) \/ ListLost(q)
      PROVE  UNCHANGED cache
  BY <1>7 DEF ServeFiles, TakeFiles, ListLost, Show, viewerVars
<1>8. ASSUME NEW v \in BOOLEAN, SetVisible(v) PROVE UNCHANGED cache
  BY <1>8 DEF SetVisible, viewerVars
<1>9. ASSUME NEW t \in {"preview", "files"}, SetTab(t) PROVE UNCHANGED cache
  BY <1>9 DEF SetTab, Show
<1>10. ASSUME NEW f \in Files, SelectFile(f) PROVE UNCHANGED cache
  BY <1>10 DEF SelectFile, Show
<1>11. ASSUME NEW e \in Effects, CheckStep(e) PROVE UNCHANGED cache
  BY <1>11 DEF CheckStep, Serve, Returns, viewerVars
<1>12. CASE UNCHANGED vars
  BY <1>2, <1>12 DEF vars, chatVars, viewerVars
<1> QED
  BY <1>2, <1>3, <1>4, <1>5, <1>6, <1>7, <1>8, <1>9, <1>10, <1>11, <1>12
     DEF Next, FilesStep, UserStep

----------------------------------------------------------------------------
(* The theorems.                                                           *)

LEMMA WorkspaceInitial == Init => WorkspaceInv
<1> SUFFICES ASSUME Init PROVE WorkspaceInv
    OBVIOUS
<1> USE WorkspaceAssumption DEF Init, None
<1>1. ServerOK
  <2>1. saved \in 0..MaxRev /\ visits \in 0..MaxVisits /\ turns \in 0..MaxTurns
    OBVIOUS
  <2>2. srv \in [state : States \ {"building"}, rev : 0..MaxRev]
    BY DEF Status, States
  <2> QED  BY <2>1, <2>2 DEF ServerOK
<1>2. CollectionOK /\ DeletionsHold
  <2>1. col = [NoCol EXCEPT !.loading = TRUE, !.list = "sent"]
    OBVIOUS
  <2> QED  BY <2>1, EmptyCollection DEF CollectionOK, DeletionsHold
<1>3. PreviewOK
  BY ValuesTyped DEF PreviewOK
<1>4. StartsPaid /\ PreviewFollows
  BY DEF StartsPaid, PreviewFollows, Asleep
<1>5. ListsOK /\ ListsInOrder
  BY DEF ListsOK, ListsInOrder
<1>6. ViewerOK /\ ReadsFollow
  BY DEF ViewerOK, ReadsFollow, ViewCurrent, Blank, Sids
<1>7. CacheBounded
  <2>1. <<>> \in Seq(Key) /\ Len(<<>>) = 0 /\ Bytes(<<>>) = 0
    BY BytesNat
  <2> QED  BY <2>1 DEF CacheBounded, Key
<1> QED
  BY <1>1, <1>2, <1>3, <1>4, <1>5, <1>6, <1>7 DEF WorkspaceInv, TypeOK

LEMMA WorkspaceInductive == WorkspaceInv /\ [Next]_vars => WorkspaceInv'
<1> SUFFICES ASSUME WorkspaceInv, [Next]_vars PROVE WorkspaceInv'
    OBVIOUS
<1>1. PreviewInv'
  BY PreviewStep
<1>2. PreviewOK' /\ StartsPaid' /\ PreviewFollows'
  BY <1>1 DEF PreviewInv, PreviewFollows, Follows
<1> QED
  BY <1>2, ServerStep, CollectionKept, ListsStep, ViewerStep, CacheStep
     DEF WorkspaceInv, TypeOK

\* Whatever revisions, runs, tabs, retries and lost answers come, the state of the pages
\* is well formed and a visit sends one startup request, and one more for each retry.
THEOREM StartsOnce == Spec => []OneStartup
<1>1. WorkspaceInv => OneStartup
  <2> SUFFICES ASSUME WorkspaceInv PROVE OneStartup
      OBVIOUS
  <2>1. TypeOK /\ posts \in Nat /\ retries \in Nat /\ StartsPaid
    BY DEF WorkspaceInv, TypeOK, PreviewOK
  <2> QED  BY <2>1 DEF OneStartup, StartsPaid
<1> QED
  BY <1>1, WorkspaceInitial, WorkspaceInductive, PTL DEF Spec

\* The listed revision never goes back, because one request at most will be taken and it
\* is the last one sent; a deleted project is not listed again, because a deletion is
\* confirmed only while no list is on its way.
THEOREM NeverBack == Spec => Forward
<1> DEFINE Step == /\ page' = "chat" => revisionId' >= revisionId
                   /\ col'.projects \cap col.removed = {}
<1>1. WorkspaceInv /\ [Next]_vars => [Step]_vars
  <2> SUFFICES ASSUME WorkspaceInv, [Next]_vars PROVE Step
      OBVIOUS
  <2>1. ASSUME page' = "chat" PROVE revisionId' >= revisionId
    <3>1. revisionId \in Int
      BY PreviewInvDef
    <3>2. CASE UNCHANGED listState \/ RunEnds \/ PollFiles \/ LearnRun \/ OpenProject
      BY <3>1, <3>2 DEF listState, RunEnds, PollFiles, LearnRun, OpenProject, chatVars
    <3>3. CASE BackToProjects
      BY <2>1, <3>3 DEF BackToProjects
    <3>4. ASSUME NEW q \in lists, ServeFiles(q) \/ ListLost(q)
          PROVE  revisionId' >= revisionId
      BY <3>1, <3>4 DEF ServeFiles, ListLost
    <3>5. ASSUME NEW q \in lists, TakeFiles(q) PROVE revisionId' >= revisionId
      <4>1. Newest(q) /\ q.rev # -1 => q.rev >= revisionId
        BY DEF WorkspaceInv, ListsInOrder
      <4> QED  BY <3>1, <3>5, <4>1 DEF TakeFiles
    <3> QED  BY <3>2, <3>3, <3>4, <3>5, ListsQuiet
  <2>2. col'.projects \cap col.removed = {}
    <3>1. DeletionsHold /\ CollectionOK
      BY DEF WorkspaceInv, TypeOK
    <3>2. \/ UNCHANGED col
          \/ col'.projects \subseteq col.projects \cup col.answer
      <4>1. CASE CollectionStep
        <5>1. CASE ServeList \/ TryAgain \/ KeepProject \/ ServeDelete
          BY <3>1, <5>1 DEF CollectionOK, ServeList, TryAgain, KeepProject, ServeDelete
        <5>2. CASE TakeList
          BY <3>1, <5>2 DEF CollectionOK, TakeList
        <5>3. CASE TakeDelete
          BY <3>1, <5>3 DEF CollectionOK, TakeDelete
        <5>4. ASSUME NEW p \in Projects, ConfirmDelete(p) PROVE col'.projects = col.projects
          BY <3>1, <5>4 DEF CollectionOK, ConfirmDelete
        <5> QED  BY <4>1, <5>1, <5>2, <5>3, <5>4 DEF CollectionStep
      <4>2. CASE OpenProject \/ BackToProjects
        BY <4>2, EmptyCollection DEF OpenProject, BackToProjects
      <4> QED  BY <4>1, <4>2, CollectionQuiet
    <3> QED  BY <3>1, <3>2 DEF DeletionsHold
  <2> QED  BY <2>1, <2>2
<1> QED
  BY <1>1, WorkspaceInitial, WorkspaceInductive, PTL DEF Spec, Forward

\* The preview the page takes for working, and what the file viewer shows, are of the
\* revision whose files are listed, the viewer's the selected one of them, and the cache of files read keeps within both of its limits,
\* whatever it has to drop for an answer.
THEOREM ShowsListed == Spec => []ShownIsCurrent
<1>1. WorkspaceInv => ShownIsCurrent
  BY DEF WorkspaceInv, PreviewFollows, ReadsFollow, ShownIsCurrent
<1> QED
  BY <1>1, WorkspaceInitial, WorkspaceInductive, PTL DEF Spec
=============================================================================
