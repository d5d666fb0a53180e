----------------------------- MODULE Workspace ------------------------------
(***************************************************************************)
(* The pages around a conversation: the list of projects, and in the       *)
(* workspace of one project the preview's lifecycle (usePreviewLifecycle), *)
(* the saved revision (useProjectFiles) and the file viewer with its cache *)
(* (useFileViewer, contentCache).  The preview's frame is left out: its    *)
(* address is also written by the chat (setAppUrl of handleChatEvent).     *)
(*                                                                         *)
(* JavaScript runs one callback at a time; what interleaves is the answers *)
(* of requests, timers, the user, and a run that the page learns about     *)
(* later (ChatView).  An effect that React has disposed of may still have  *)
(* an answer to come.  Revisions are numbered in the order they were saved.*)
(***************************************************************************)
EXTENDS Integers, Sequences, SequencesExt, FiniteSets, FiniteSetsExt

CONSTANTS Projects, Main,    \* projects of the account; the one whose workspace is opened
          Files, filesOf,    \* file names; the files of a revision
          size,              \* the size of a file's cache entry
          MaxBytes, MaxFiles,\* limits of the cache (2 MiB and 64 in the code)
          MaxRev,            \* bound: revisions saved
          MaxVisits,         \* bound: visits of the workspace
          MaxTurns           \* bound: runs, polls, retries, tab and visibility changes,
                             \* new sign-ins, deletions and previews that end, together

ASSUME WorkspaceAssumption ==
    /\ Main \in Projects
    /\ {MaxRev, MaxFiles, MaxBytes} \subseteq Nat \ {0} /\ {MaxVisits, MaxTurns} \subseteq Nat
    /\ filesOf \in [1..MaxRev -> (SUBSET Files) \ {{}}]
    /\ size \in [Files -> Nat]

VARIABLES alive,       \* server: the projects that exist
          saved,       \* server: the latest saved revision, 0 before the first
          run,         \* server: a run of the project is active
          srv          \* server: its preview, [state, rev]
VARIABLES page,        \* the route: "projects" or "chat"
          visits, turns,
          col          \* useProjectCollection
VARIABLES isBuilding, visible, tab, sid,
          revisionId,  \* useProjectFiles
          lists,       \* its requests in flight
          pv,          \* usePreviewLifecycle: entry, phase and whose status it was
          effect,      \* number of the revision effect that is installed, 0 for none
          ctx,         \* check() of each effect installed so far
          posts, retries
VARIABLES selected, content, reads,   \* useFileViewer
          cache                       \* contentCache: its keys, oldest first

serverVars  == <<alive, saved, run, srv>>
previewVars == <<pv, effect, ctx, posts, retries>>
viewerVars  == <<selected, content, reads, cache>>
chatVars    == <<isBuilding, visible, tab, sid, revisionId, lists, previewVars, viewerVars>>
vars == <<serverVars, page, visits, turns, col, chatVars>>

None == 0
Nothing == "none"
Effects == 1..MaxRev
Sids == {1, 2}
States == {"sleeping", "opening", "active", "building"}
Status(state, rev) == [state |-> state, rev |-> rev]
NoAnswer == Status("none", None)
Failed == Status("failed", None)
Idle == [at |-> "idle", ans |-> NoAnswer, timer |-> FALSE]
Asleep == [attempted |-> FALSE, waiting |-> "no", failure |-> FALSE, active |-> FALSE,
           phase |-> "checking", rev |-> None]
NoCol == [projects |-> {}, loading |-> FALSE, error |-> FALSE, list |-> "none", answer |-> {},
          pendingDelete |-> Nothing, deleting |-> "no", removed |-> {}]
Blank == [what |-> "none", file |-> Nothing, rev |-> None]

ListReq == [live : BOOLEAN, latest : BOOLEAN, rev : -1..MaxRev]
ReadReq == [live : BOOLEAN, sid : Sids, file : Files, rev : 1..MaxRev]
Check == [at : {"idle", "status", "open", "again"},
          ans : [state : States \cup {"none", "failed"}, rev : 0..MaxRev], timer : BOOLEAN]

Preview == [attempted : BOOLEAN, waiting : {"no", "set", "past"}, failure : BOOLEAN,
            active : BOOLEAN, phase : States \cup {"checking", "error"},
            rev : 0..MaxRev]

ServerOK ==
    /\ alive \subseteq Projects /\ saved \in 0..MaxRev /\ run \in BOOLEAN
    /\ srv \in [state : States \ {"building"}, rev : 0..MaxRev]
    /\ page \in {"projects", "chat"} /\ visits \in 0..MaxVisits /\ turns \in 0..MaxTurns

CollectionOK ==
    col \in [projects : SUBSET Projects, loading : BOOLEAN, error : BOOLEAN,
             list : {"none", "sent", "ok", "failed"}, answer : SUBSET Projects,
             pendingDelete : Projects \cup {Nothing},
             deleting : {"no", "sent", "ok", "failed"}, removed : SUBSET Projects]

PreviewOK ==
    /\ isBuilding \in BOOLEAN /\ visible \in BOOLEAN /\ tab \in {"preview", "files"}
    /\ pv \in Preview /\ effect \in 0..MaxRev /\ ctx \in [Effects -> Check]
    /\ posts \in Nat /\ retries \in Nat

ListsOK == revisionId \in 0..saved /\ lists \subseteq ListReq

ViewerOK ==
    /\ sid \in Sids /\ selected \in Files \cup {Nothing}
    /\ content \in [what : {"none", "loading", "text", "error"}, file : Files \cup {Nothing},
                    rev : 0..MaxRev]
    /\ reads \subseteq ReadReq

\* The pages' state and the requests in flight have the shape the code gives them.
TypeOK == ServerOK /\ CollectionOK /\ PreviewOK /\ ListsOK /\ ViewerOK

Init ==
    /\ alive = Projects /\ saved \in {0, 1} /\ run = FALSE /\ srv = Status("sleeping", None)
    /\ page = "projects" /\ visits = 0 /\ turns = 0
    /\ col = [NoCol EXCEPT !.loading = TRUE, !.list = "sent"]
    /\ isBuilding = FALSE /\ visible = TRUE /\ tab = "preview" /\ sid = 1
    /\ revisionId = None /\ lists = {}
    /\ pv = Asleep /\ effect = 0 /\ ctx = [e \in Effects |-> Idle]
    /\ posts = 0 /\ retries = 0
    /\ selected = Nothing /\ content = Blank /\ reads = {} /\ cache = <<>>

Turn == turns < MaxTurns /\ turns' = turns + 1

----------------------------------------------------------------------------
(* The server, as far as these pages can see it (RunService, Checkpoints). *)

Saves == \/ UNCHANGED saved
         \/ saved < MaxRev /\ saved' = saved + 1

RunBegins ==
    /\ ~run /\ srv.state # "opening" /\ Turn
    /\ run' = TRUE /\ srv' = Status("sleeping", None)
    /\ UNCHANGED <<alive, saved, page, visits, col, chatVars>>

\* Files are saved with the run; its preview stays open, or it failed.
RunEnds ==
    /\ run /\ run' = FALSE
    /\ Saves
    /\ srv' \in {Status("sleeping", None)} \cup
                (IF saved' = 0 THEN {} ELSE {Status("active", saved')})
    /\ UNCHANGED <<alive, page, visits, turns, col, chatVars>>

\* Somebody else opens a preview; an opening ends; a preview expires.
PreviewMoves ==
    /\ \/ /\ srv.state = "sleeping" /\ ~run /\ saved > 0 /\ Turn
          /\ srv' = Status("opening", None)
       \/ /\ srv.state = "opening" /\ UNCHANGED turns
          /\ srv' \in {Status("active", saved), Status("sleeping", None)}
       \/ /\ srv.state = "active" /\ Turn
          /\ srv' = Status("sleeping", None)
    /\ UNCHANGED <<alive, saved, run, page, visits, col, chatVars>>

ServeStatus == IF run THEN Status("building", None) ELSE srv

----------------------------------------------------------------------------
(* useProjectCollection: the list of projects and the deletion of one.      *)

ServeList ==
    /\ page = "projects" /\ col.list = "sent"
    /\ \/ col' = [col EXCEPT !.list = "ok", !.answer = alive]
       \/ col' = [col EXCEPT !.list = "failed"]
    /\ UNCHANGED <<serverVars, page, visits, turns, chatVars>>

TakeList ==
    /\ page = "projects" /\ col.list \in {"ok", "failed"}
    /\ col' = [col EXCEPT !.list = "none", !.answer = {}, !.loading = FALSE,
                          !.error = (col.list = "failed") \/ col.error,
                          !.projects = IF col.list = "ok" THEN col.answer ELSE col.projects]
    /\ UNCHANGED <<serverVars, page, visits, turns, chatVars>>

\* "Try again" replaces the list while its error is shown.
RetryShown == col.error /\ ~col.loading

TryAgain ==
    /\ page = "projects" /\ RetryShown /\ Turn
    /\ col' = [col EXCEPT !.loading = TRUE, !.error = FALSE, !.list = "sent", !.answer = {}]
    /\ UNCHANGED <<serverVars, page, visits, chatVars>>

\* The dialog of a listed project, and deleteProject().
ConfirmDelete(p) ==
    /\ page = "projects" /\ ~col.loading /\ ~col.error
    /\ p \in col.projects /\ col.pendingDelete \in {Nothing, p} /\ col.deleting = "no" /\ Turn
    /\ col' = [col EXCEPT !.pendingDelete = p, !.deleting = "sent"]
    /\ UNCHANGED <<serverVars, page, visits, chatVars>>

KeepProject ==
    /\ page = "projects" /\ col.pendingDelete # Nothing /\ col.deleting = "no"
    /\ col' = [col EXCEPT !.pendingDelete = Nothing]
    /\ UNCHANGED <<serverVars, page, visits, turns, chatVars>>

\* The answer may be lost after the project is gone, or be a 404.
ServeDelete ==
    /\ col.deleting = "sent"
    /\ \/ /\ col.pendingDelete \in alive
          /\ alive' = alive \ {col.pendingDelete}
          /\ \E answer \in {"ok", "failed"} : col' = [col EXCEPT !.deleting = answer]
       \/ UNCHANGED alive /\ col' = [col EXCEPT !.deleting = "failed"]
    /\ UNCHANGED <<saved, run, srv, page, visits, turns, chatVars>>

TakeDelete ==
    /\ col.deleting \in {"ok", "failed"}
    /\ col' = IF col.deleting = "failed" THEN [col EXCEPT !.deleting = "no"]
              ELSE [col EXCEPT !.deleting = "no", !.pendingDelete = Nothing,
                               !.projects = @ \ {col.pendingDelete},
                               !.removed = @ \cup {col.pendingDelete}]
    /\ UNCHANGED <<serverVars, page, visits, turns, chatVars>>

----------------------------------------------------------------------------
(* usePreviewLifecycle, as functions of what it remembers.                  *)

Fail(p) == [p EXCEPT !.failure = TRUE, !.waiting = "no", !.phase = "error"]

\* Mutant: whatever revision the preview shows.
ShowsAny(status, rev) == TRUE

ShowsRevision(status, rev) == status.rev = rev

\* observe() of the effect for revision rev.
Observe(p, status, rev) ==
    CASE status.state \in {"opening", "building"} ->
            IF p.waiting = "past" THEN Fail([p EXCEPT !.active = FALSE, !.attempted = TRUE])
            ELSE [p EXCEPT !.active = FALSE, !.attempted = TRUE, !.waiting = "set",
                           !.phase = status.state]
      [] status.state = "active" ->
            IF ~ShowsRevision(status, rev) THEN Fail(p)
            ELSE [p EXCEPT !.active = TRUE, !.attempted = TRUE, !.waiting = "no",
                           !.failure = FALSE, !.phase = "active", !.rev = status.rev]
      [] OTHER ->
            IF p.waiting # "no" THEN Fail([p EXCEPT !.active = FALSE])
            ELSE [p EXCEPT !.active = FALSE, !.phase = "sleeping"]

Enabled(t) == t = "preview"
Checking(c) == c.at # "idle"

\* Mutant: only a working preview is looked at again.
ArmedIfActive(c, p) == [c EXCEPT !.at = "idle", !.ans = NoAnswer, !.timer = p.active]

\* The finally block: what comes next is up to the timer.
Armed(c, p) == [c EXCEPT !.at = "idle", !.ans = NoAnswer, !.timer = ~p.failure]

\* check() from its first line to its first await, by the installed effect.
Wake(p, c, rev, eligible, building) ==
    IF Checking(c) \/ ~eligible \/ p.failure THEN [p |-> p, c |-> c]
    ELSE IF building
         THEN LET q == Observe(p, Status("building", None), rev)
              IN  [p |-> q, c |-> Armed(c, q)]
         ELSE [p |-> p, c |-> [c EXCEPT !.at = "status", !.timer = FALSE]]

\* The page's state after check() was called, with the tab, visibility and run state
\* of this moment.
WakeNow(p, t, v, building) ==
    IF effect = 0
    THEN pv' = p /\ UNCHANGED ctx
    ELSE LET w == Wake(p, ctx[effect], revisionId, Enabled(t) /\ v, building)
         IN  /\ pv' = w.p
             /\ ctx' = [ctx EXCEPT ![effect] = w.c]

TimerFires ==
    /\ effect # 0 /\ ctx[effect].timer
    /\ LET w == Wake(pv, [ctx[effect] EXCEPT !.timer = FALSE], revisionId,
                     Enabled(tab) /\ visible, isBuilding)
       IN  pv' = w.p /\ ctx' = [ctx EXCEPT ![effect] = w.c]
    /\ UNCHANGED <<serverVars, page, visits, turns, col, isBuilding, visible, tab, sid,
                   revisionId, lists, effect, posts, retries, viewerVars>>

\* 200 seconds after the wait began.
DeadlinePasses ==
    /\ pv.waiting = "set"
    /\ pv' = [pv EXCEPT !.waiting = "past"]
    /\ UNCHANGED <<serverVars, page, visits, turns, col, isBuilding, visible, tab, sid,
                   revisionId, lists, effect, ctx, posts, retries, viewerVars>>

\* A status request is answered or lost; a startup request takes the preview, finds
\* it taken, or outlives its timeout.
Serve(e) ==
    /\ Checking(ctx[e]) /\ ctx[e].ans = NoAnswer
    /\ \/ /\ ctx[e].at # "open" /\ UNCHANGED srv
          /\ \E ans \in {ServeStatus, Failed} : ctx' = [ctx EXCEPT ![e].ans = ans]
       \/ /\ ctx[e].at = "open" /\ ~run /\ srv.state = "sleeping"
          /\ srv' \in {Status("opening", None), Status("active", saved), srv}
          /\ ctx' = [ctx EXCEPT ![e].ans = IF srv'.state = "active" THEN srv' ELSE Failed]
       \/ /\ ctx[e].at = "open" /\ (run \/ srv.state # "sleeping") /\ UNCHANGED srv
          /\ ctx' = [ctx EXCEPT ![e].ans = IF ~run /\ srv.state = "active" THEN srv ELSE Failed]
    /\ UNCHANGED <<alive, saved, run, page, visits, turns, col, isBuilding, visible, tab, sid,
                   revisionId, lists, pv, effect, posts, retries, viewerVars>>

Disposed(e) == e # effect

\* Mutant: a startup may follow any sleeping status.
MayStartAgain == TRUE

MayStart == ~pv.attempted

\* check() after an await, in effect e.
Returns(e) ==
    LET c == ctx[e]
        lost == c.ans = Failed
        settle(p) == /\ pv' = p
                     /\ ctx' = [ctx EXCEPT ![e] = IF e = effect THEN Armed(c, p) ELSE Idle]
                     /\ UNCHANGED posts
        giveUp == settle(IF ~Disposed(e) /\ ~pv.active THEN Fail(pv) ELSE pv)
        observe == settle(Observe(pv, c.ans, revisionId))
    IN  /\ Checking(c) /\ c.ans # NoAnswer
        /\ CASE c.at = "status" ->
                  IF lost THEN giveUp
                  ELSE IF Disposed(e) \/ ~Enabled(tab) \/ ~visible \/ isBuilding THEN settle(pv)
                  ELSE IF c.ans.state # "sleeping" \/ ~MayStart THEN observe
                  ELSE /\ pv' = [pv EXCEPT !.attempted = TRUE, !.waiting = "set",
                                           !.phase = "opening"]
                       /\ ctx' = [ctx EXCEPT ![e] = [c EXCEPT !.at = "open", !.ans = NoAnswer]]
                       /\ posts' = posts + 1
             [] c.at = "open" ->
                  IF lost THEN IF Disposed(e) THEN settle(pv)
                               ELSE /\ ctx' = [ctx EXCEPT ![e] = [c EXCEPT !.at = "again",
                                                                          !.ans = NoAnswer]]
                                    /\ UNCHANGED <<pv, posts>>
                  ELSE IF ~Disposed(e) /\ ~isBuilding THEN observe ELSE settle(pv)
             [] OTHER -> IF lost THEN giveUp ELSE IF Disposed(e) THEN settle(pv) ELSE observe
        /\ UNCHANGED <<serverVars, page, visits, turns, col, isBuilding, visible, tab, sid,
                       revisionId, lists, effect, retries, viewerVars>>

\* "Retry" or "Resume preview" of the panel, and retryNow.
Retry ==
    /\ effect # 0 /\ tab = "preview" /\ visible /\ ~isBuilding /\ ~Checking(ctx[effect])
    /\ pv.phase \in {"sleeping", "error"} /\ Turn
    /\ retries' = retries + 1
    /\ WakeNow([pv EXCEPT !.attempted = FALSE, !.waiting = "no", !.failure = FALSE,
                          !.phase = "checking"], tab, visible, isBuilding)
    /\ UNCHANGED <<serverVars, page, visits, col, isBuilding, visible, tab, sid,
                   revisionId, lists, effect, posts, viewerVars>>

\* The controls effect; a run of this page is its own preview's startup.
Controls(t, building) ==
    WakeNow(IF building \/ isBuilding
            THEN [pv EXCEPT !.attempted = TRUE, !.failure = FALSE, !.waiting = "no"]
            ELSE pv, t, visible, building)

SetVisible(v) ==
    /\ page = "chat" /\ visible # v /\ Turn
    /\ visible' = v
    /\ WakeNow(pv, tab, v, isBuilding)
    /\ UNCHANGED <<serverVars, page, visits, col, isBuilding, tab, sid, revisionId, lists,
                   effect, posts, retries, viewerVars>>

----------------------------------------------------------------------------
(* useFileViewer and contentCache.                                          *)

\* cachedBytes: the sizes of the entries.
Bytes(keys) ==
    LET upTo[n \in 0..Len(keys)] == IF n = 0 THEN 0 ELSE upTo[n - 1] + size[keys[n][2]]
    IN  upTo[Len(keys)]

\* The other entries, in their order.
Without(keys, key) ==
    LET upTo[n \in 0..Len(keys)] ==
          IF n = 0 THEN <<>>
          ELSE IF keys[n] = key THEN upTo[n - 1] ELSE Append(upTo[n - 1], keys[n])
    IN  upTo[Len(keys)]

Fits(keys, key) == Len(keys) < MaxFiles /\ Bytes(keys) + size[key[2]] <= MaxBytes

\* cacheFile(): the shortest queue of the newest entries that leaves room.
CacheFile(keys, key) ==
    LET others == Without(keys, key)
        drop == Min({n \in 0..Len(others) : Fits(SubSeq(others, n + 1, Len(others)), key)})
    IN  IF size[key[2]] > MaxBytes THEN others
        ELSE Append(SubSeq(others, drop + 1, Len(others)), key)

\* The auto-select effect: the first file, unless the selected one still exists.
AutoSelect(file, rev) ==
    IF rev = None THEN Nothing
    ELSE IF file \in filesOf[rev] THEN file ELSE CHOOSE f \in filesOf[rev] : TRUE

Aborted == {[q EXCEPT !.live = FALSE] : q \in reads}

\* The read effect of a mounted viewer, after its file or revision changed.
Show(file, rev, mounted) ==
    /\ selected' = file
    /\ IF ~mounted \/ file = Nothing
       THEN content' = Blank /\ reads' = Aborted
       ELSE IF <<sid, file, rev>> \in Range(cache)
       THEN content' = [what |-> "text", file |-> file, rev |-> rev] /\ reads' = Aborted
       ELSE /\ content' = [what |-> "loading", file |-> file, rev |-> rev]
            /\ reads' = Aborted \cup {[live |-> TRUE, sid |-> sid, file |-> file, rev |-> rev]}
    /\ UNCHANGED cache

\* The tabs of the panel: both hooks see the change in one render.
SetTab(t) ==
    /\ page = "chat" /\ tab # t /\ Turn
    /\ tab' = t
    /\ Controls(t, isBuilding)
    /\ Show(IF t = "files" THEN AutoSelect(Nothing, revisionId) ELSE Nothing, revisionId,
            t = "files")
    /\ UNCHANGED <<serverVars, page, visits, col, isBuilding, visible, sid, revisionId, lists,
                   effect, posts, retries>>

SelectFile(f) ==
    /\ page = "chat" /\ tab = "files" /\ revisionId # None
    /\ f \in filesOf[revisionId] /\ f # selected /\ Cardinality(reads) < 2
    /\ Show(f, revisionId, TRUE)
    /\ UNCHANGED <<serverVars, page, visits, turns, col, isBuilding, visible, tab, sid, revisionId,
                   lists, previewVars>>

\* Mutant: an aborted read is shown.
WantedAlways(q) == TRUE

Wanted(q) == q.live

\* The answer to a read; an answer for another session is not shown.
TakeRead(q, ok) ==
    /\ reads' = reads \ {q}
    /\ IF ~Wanted(q) THEN UNCHANGED <<content, cache>>
       ELSE IF ~ok THEN content' = [what |-> "error", file |-> q.file, rev |-> q.rev]
                        /\ UNCHANGED cache
       ELSE IF q.sid # sid THEN content' = Blank /\ UNCHANGED cache
       ELSE /\ content' = [what |-> "text", file |-> q.file, rev |-> q.rev]
            /\ cache' = CacheFile(cache, <<q.sid, q.file, q.rev>>)
    /\ UNCHANGED <<serverVars, page, visits, turns, col, isBuilding, visible, tab, sid,
                   revisionId, lists, previewVars, selected>>

\* Somebody signs in: in another tab, or here, where the cache is cleared with it.
NewSession ==
    /\ sid = 1 /\ sid' = 2 /\ Turn
    /\ cache' \in {cache, <<>>}
    /\ UNCHANGED <<serverVars, page, visits, col, isBuilding, visible, tab,
                   revisionId, lists, previewVars, selected, content, reads>>

----------------------------------------------------------------------------
(* useProjectFiles, and the page's knowledge of a run.                      *)

NewList == [live |-> TRUE, latest |-> TRUE, rev |-> -1]
Outdated == {[q EXCEPT !.latest = FALSE] : q \in lists}

\* The interval of a building page asks again.
PollFiles ==
    /\ page = "chat" /\ isBuilding /\ Cardinality(lists) < 2 /\ Turn
    /\ lists' = Outdated \cup {NewList}
    /\ UNCHANGED <<serverVars, page, visits, col, isBuilding, visible, tab, sid,
                   revisionId, previewVars, viewerVars>>

ServeFiles(q) ==
    /\ q.rev = -1
    /\ lists' = (lists \ {q}) \cup {[q EXCEPT !.rev = saved]}
    /\ UNCHANGED <<serverVars, page, visits, turns, col, isBuilding, visible, tab, sid,
                   revisionId, previewVars, viewerVars>>

\* Mutant: answers are taken in the order they arrive.
NewestAny(q) == TRUE

Newest(q) == q.live /\ q.latest

\* A new revision installs a new effect; the old one is disposed of.
TakeFiles(q) ==
    /\ q.rev # -1
    /\ lists' = lists \ {q}
    /\ IF ~Newest(q) \/ q.rev = revisionId
       THEN UNCHANGED <<revisionId, pv, effect, ctx, viewerVars>>
       ELSE /\ revisionId' = q.rev
            /\ effect' = effect + 1
            /\ pv' = [pv EXCEPT !.failure = FALSE, !.waiting = "no", !.active = FALSE,
                                !.phase = "checking"]
            /\ ctx' = [e \in Effects |->
                         IF e = effect' THEN [Idle EXCEPT !.timer = TRUE]
                         ELSE [ctx[e] EXCEPT !.timer = FALSE]]
            /\ Show(IF tab = "files" THEN AutoSelect(selected, q.rev) ELSE Nothing, q.rev,
                    tab = "files")
    /\ UNCHANGED <<serverVars, page, visits, turns, col, isBuilding, visible, tab, sid,
                   posts, retries>>

ListLost(q) ==
    /\ lists' = lists \ {q}
    /\ UNCHANGED <<serverVars, page, visits, turns, col, isBuilding, visible, tab, sid,
                   revisionId, previewVars, viewerVars>>

\* The page learns that a run began or ended: both effects run again.
LearnRun ==
    /\ page = "chat" /\ isBuilding # run /\ Cardinality(lists) < 2
    /\ isBuilding' = run
    /\ lists' = {[q EXCEPT !.live = FALSE] : q \in lists} \cup {NewList}
    /\ Controls(tab, run)
    /\ UNCHANGED <<serverVars, page, visits, turns, col, visible, tab, sid, revisionId,
                   effect, posts, retries, viewerVars>>

----------------------------------------------------------------------------
(* Routes.                                                                  *)

\* A card of the list opens its workspace; the list's component is unmounted, with
\* a deletion that may or may not have reached the server.
OpenProject ==
    /\ page = "projects" /\ ~col.loading /\ ~col.error /\ Main \in col.projects
    /\ visits < MaxVisits /\ visits' = visits + 1
    /\ page' = "chat" /\ col' = NoCol
    /\ alive' \in IF col.deleting = "sent" THEN {alive, alive \ {col.pendingDelete}} ELSE {alive}
    /\ lists' = {NewList}
    /\ UNCHANGED <<saved, run, srv, turns, isBuilding, visible, tab, sid, revisionId,
                   previewVars, viewerVars>>

\* Everything but the cache belongs to the page.
BackToProjects ==
    /\ page = "chat"
    /\ page' = "projects" /\ col' = [NoCol EXCEPT !.loading = TRUE, !.list = "sent"]
    /\ isBuilding' = FALSE /\ visible' = TRUE /\ tab' = "preview"
    /\ revisionId' = None /\ lists' = {}
    /\ pv' = Asleep /\ effect' = 0 /\ ctx' = [e \in Effects |-> Idle]
    /\ posts' = 0 /\ retries' = 0
    /\ selected' = Nothing /\ content' = Blank /\ reads' = {}
    /\ UNCHANGED <<serverVars, visits, turns, sid, cache>>

----------------------------------------------------------------------------
CollectionStep ==
    \/ ServeList \/ TakeList \/ TryAgain \/ KeepProject \/ ServeDelete \/ TakeDelete
    \/ \E p \in Projects : ConfirmDelete(p)

CheckStep(e) == Serve(e) \/ Returns(e)

FilesStep ==
    \/ \E q \in lists : ServeFiles(q) \/ TakeFiles(q) \/ ListLost(q)
    \/ \E q \in reads, ok \in BOOLEAN : TakeRead(q, ok)

UserStep ==
    \/ Retry \/ NewSession
    \/ \E v \in BOOLEAN : SetVisible(v)
    \/ \E t \in {"preview", "files"} : SetTab(t)
    \/ \E f \in Files : SelectFile(f)

Next ==
    \/ RunBegins \/ RunEnds \/ PreviewMoves
    \/ CollectionStep \/ FilesStep \/ PollFiles \/ LearnRun \/ UserStep
    \/ \E e \in Effects : CheckStep(e)
    \/ TimerFires \/ DeadlinePasses
    \/ OpenProject \/ BackToProjects

\* Requests are answered or time out, timers fire and the clock goes on.
Fairness == WF_vars(TimerFires \/ \E e \in Effects : CheckStep(e)) /\ WF_vars(DeadlinePasses)

Spec == Init /\ [][Next]_vars /\ Fairness

----------------------------------------------------------------------------
(* Properties.                                                              *)

\* Within a visit the page asks for a startup once, and once more for each retry of
\* the user, whatever revisions, runs, tabs and lost answers come between: "never
\* loop startup POSTs".
OneStartup == TypeOK /\ posts <= 1 + retries

\* What the page takes for a working preview, and what the file viewer shows or waits
\* for, is of the listed revision.
PreviewFollows == pv.phase = "active" => pv.rev = revisionId
ViewCurrent == content # Blank => content.file = selected /\ content.rev = revisionId
CacheBounded ==
    /\ cache \in Seq(Sids \X Files \X (1..MaxRev))
    /\ Len(cache) <= MaxFiles /\ Bytes(cache) <= MaxBytes

\* A preview counts as working only while its last status was of the revision whose
\* files the page lists, whatever answers of older effects, startups and lists come
\* late.  What the file viewer shows, or waits for, is the selected file in that
\* revision, and the cache holds entries within both of its limits.
ShownIsCurrent == PreviewFollows /\ ViewCurrent /\ CacheBounded

\* The listed revision never goes back to an earlier one, and a project that was
\* deleted here is not listed again.
Forward ==
    [][/\ page' = "chat" => revisionId' >= revisionId
       /\ col'.projects \cap col.removed = {}]_vars

\* A visible preview does not wait for ever: it opens, fails, goes to sleep, or is
\* hidden.  (An effect that has seen a preview work keeps waiting for the next answer.)
OpeningEnds ==
    pv.phase \in {"checking", "opening"} /\ revisionId # None /\ ~pv.active ~>
        \/ pv.phase \notin {"checking", "opening"} \/ pv.active
        \/ ~visible \/ tab # "preview" \/ revisionId = None

----------------------------------------------------------------------------
(* The inductive invariant of the proofs (WorkspaceProofs).                 *)

\* Every startup request is the visit's first or paid for by a retry.
StartsPaid == posts <= retries + (IF pv.attempted THEN 1 ELSE 0)

\* An answer is no newer than what is saved; the one that will be taken is the only
\* one, and no older than what is listed.  Each effect belongs to a newer revision.
ListsInOrder ==
    /\ \A q \in lists : q.rev <= saved
    /\ \A q \in lists : Newest(q) => q.rev = -1 \/ q.rev >= revisionId
    /\ \A q, r \in lists : Newest(q) /\ Newest(r) => q = r
    /\ effect <= revisionId

\* A deletion is confirmed in a list that is neither loading nor in error, so no
\* answer that still names the project is under way.
DeletionsHold ==
    /\ col.list = "none" <=> ~col.loading
    /\ col.answer # {} => col.list = "ok"
    /\ col.deleting # "no" => /\ col.pendingDelete \in Projects
                              /\ ~col.loading /\ ~col.error
    /\ col.deleting = "ok" => col.pendingDelete \notin alive
    /\ col.removed \cap (alive \cup col.projects \cup col.answer) = {}

\* A read that is not aborted is of the selected file in the listed revision.
ReadsFollow ==
    /\ ViewCurrent
    /\ \A q \in reads : q.live => q.file = selected /\ q.rev = revisionId

WorkspaceInv ==
    /\ TypeOK /\ StartsPaid /\ ListsInOrder /\ DeletionsHold
    /\ PreviewFollows /\ ReadsFollow /\ CacheBounded
=============================================================================
