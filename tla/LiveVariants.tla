---------------------------- MODULE LiveVariants ----------------------------
(***************************************************************************)
(* The overlay of the live variant mode (live-browser.js) that the         *)
(* impeccable skill puts into a page under development: the user picks an   *)
(* element, an agent writes variants of it into the source, the user       *)
(* compares them and accepts or discards.  The page may be rendered again  *)
(* by its framework or reloaded at any time, so a session is kept in       *)
(* localStorage, in the wrapper around its variants and on the helper      *)
(* server.                                                                 *)
(*                                                                         *)
(* JavaScript runs one callback at a time, and a MutationObserver runs     *)
(* right after the callback that changed the document.  A handler is       *)
(* therefore an operator from one state of the browser to the next, and    *)
(* what interleaves is the user, timers, answers, events and the agent.    *)
(* Variants live in the source of the page (not in compiled components).   *)
(***************************************************************************)
EXTENDS Integers, Sequences, FiniteSets, FiniteSetsExt

CONSTANTS MaxSessions,   \* bound: sessions begun in this tab
          Variants,      \* variants asked for in a session
          Retries,       \* reads repeated before giving up (3 in the code)
          MaxAttempts,   \* reloads for one stale wrapper (2 in the code)
          MaxConfigs,    \* bound: configurations begun
          MaxChoices,    \* bound: accepts and discards
          MaxFaults      \* bound: failed requests, dropped streams, reloads by the
                         \* user, agent errors and elements that are not found

ASSUME LiveAssumption ==
    /\ {MaxSessions, Variants, MaxAttempts} \subseteq Nat \ {0}
    /\ {Retries, MaxConfigs, MaxChoices, MaxFaults} \subseteq Nat

VARIABLES owned,   \* a framework owns the page's DOM (JSX and hot updates), or it is static HTML
          b,       \* the browser: page, document, storage, timers and requests
          src,     \* the variants a session has in the source file, Absent without its wrapper
          srv,     \* the helper server's record of a session
          sse,     \* events on their way to the page
          conn,    \* the event stream: "up", "down" (EventSource reconnects), "lost"
          blocked, \* a read failed, the picked element was not found, or the source was edited
          faults

vars == <<owned, b, src, srv, sse, conn, blocked, faults>>

Sessions == 1..MaxSessions
None == 0
Absent == -1
Counts == Absent..Variants
NoneSaved == [id |-> None, state |-> "none", arrived |-> 0, visible |-> 0, file |-> FALSE]
Nowhere == [s \in Sessions |-> Absent]
States == {"PICKING", "CONFIGURING", "GENERATING", "CYCLING", "SAVING"}
Post(type, s, at) == [type |-> type, s |-> s, at |-> at]
Timer(kind, s, n) == [kind |-> kind, s |-> s, n |-> n]
Source(s, mode, n) == [s |-> s, mode |-> mode, n |-> n, got |-> "sent", count |-> Absent]
Message(type, s) == [type |-> type, s |-> s, active |-> {}, files |-> {}, done |-> {},
                      written |-> Nowhere]

\* The page as it is before init() has run.  Its number, 0 or 1, tells two loads apart.
Blank == [page |-> 0, state |-> "PICKING", cur |-> None, rev |-> 0, arrived |-> 0, visible |-> 0,
          pend |-> None, awaiting |-> None, obs |-> FALSE, scout |-> FALSE, anchor |-> None,
          file |-> FALSE, ckpt |-> FALSE, timers |-> {}, reads |-> {}, posts |-> {},
          dom |-> Nowhere, ids |-> 0, configs |-> 0, choices |-> 0, saved |-> NoneSaved, handled |-> {},
          stamp |-> [s \in Sessions |-> 0]]

\* The page, its storage and everything in flight have the shape the code gives them.
TypeOK ==
    /\ owned \in BOOLEAN /\ blocked \in BOOLEAN /\ faults \in 0..MaxFaults
    /\ src \in [Sessions -> Counts]
    /\ srv \in [Sessions -> {"none", "generating", "done", "accepting", "accepted",
                             "discarded", "failed"}]
    /\ conn \in {"up", "down", "lost"}
    /\ b.page \in {0, 1} /\ b.state \in States /\ b.cur \in 0..MaxSessions /\ b.rev \in 0..MaxConfigs
    /\ {b.arrived, b.visible} \subseteq 0..Variants
    /\ {b.pend, b.awaiting, b.anchor, b.saved.id} \subseteq 0..MaxSessions
    /\ {b.obs, b.scout, b.file, b.ckpt, b.saved.file} \subseteq BOOLEAN
    /\ b.dom \in [Sessions -> Counts] /\ b.ids \in 0..MaxSessions
    /\ b.handled \subseteq Sessions /\ b.stamp \in [Sessions -> 0..MaxAttempts]
    /\ \A t \in b.timers : t.s \in Sessions /\ t.n \in 0..(MaxConfigs + Retries)
    /\ \A r \in b.reads : r.s \in Sessions /\ r.n \in 0..Retries /\ r.count \in Counts
    /\ \A q \in b.posts : q.s \in Sessions
    /\ \A i \in 1..Len(sse) : sse[i].s \in 0..MaxSessions

Fault == faults < MaxFaults /\ faults' = faults + 1

----------------------------------------------------------------------------
(* Sessions in storage (live-browser-session.js).                           *)

SaveSession(p) ==
    IF p.cur = None THEN p
    ELSE [p EXCEPT !.saved = [id |-> p.cur, state |-> p.state, arrived |-> p.arrived,
                              visible |-> p.visible, file |-> p.file]]

MarkSessionHandled(p) == IF p.cur = None THEN p ELSE [p EXCEPT !.handled = @ \cup {p.cur}]

\* queueCheckpoint and sendCheckpoint: a checkpoint of the current session will be sent.
\* One about a session that the server knows changes nothing and is left out.
QueueCheckpoint(p) ==
    IF p.cur = None \/ srv[p.cur] # "none" THEN p ELSE [p EXCEPT !.ckpt = TRUE]

\* clampVariantIndex, and what is shown when the saved variant is not there.
ShownFrom(visible, count) == IF visible \in 1..count THEN visible ELSE IF count > 0 THEN 1 ELSE 0

\* Without the revision of the configuration.
SupersededBySession(p, s, rev) == p.cur \notin {None, s}

\* deferredRecoverySuperseded: something new was configured, or another session is current.
Superseded(p, s, rev) == p.rev # rev \/ p.cur \notin {None, s}

Wrappers(p) == {s \in Sessions : p.dom[s] # Absent}

\* The wrapper a resume finds: one that has variants, if any has.
AnyWrapper(p) ==
    LET populated == {s \in Sessions : p.dom[s] > 0}
    IN  IF populated # {} THEN populated ELSE IF Wrappers(p) # {} THEN Wrappers(p) ELSE {None}

----------------------------------------------------------------------------
(* The end of a session.                                                    *)

\* cleanup(): the wrapper is hidden now and removed later, when no update did.
Cleanup(p) ==
    [p EXCEPT !.state = "PICKING", !.cur = None, !.obs = FALSE, !.anchor = None, !.file = FALSE,
              !.saved = NoneSaved,
              !.timers = IF p.cur = None THEN @ ELSE @ \cup {Timer("discard", p.cur, p.rev)}]

RecoverEmptyCycling(p) == Cleanup(p)

\* Without the check that there is a variant to show.
ShowCyclingAnyway(p) == [p EXCEPT !.state = "CYCLING"]

\* setLiveState("CYCLING") and the bar, which refuses to show no variant.
ShowCycling(p) ==
    IF p.arrived > 0
    THEN [p EXCEPT !.state = "CYCLING",
                   !.visible = IF @ \in 1..p.arrived THEN @ ELSE 1]
    ELSE RecoverEmptyCycling([p EXCEPT !.state = "CYCLING"])

AbandonForeignSession(p) == Cleanup(MarkSessionHandled(p))

DiscardOrphanedSession(p) ==
    IF p.cur = None THEN p
    ELSE Cleanup(MarkSessionHandled([p EXCEPT !.posts = @ \cup {Post("orphan", p.cur, "sent")}]))

\* scheduleHandledRuntimeWrapperReload for the wrapper of a session that is handled.
ScheduleReload(p, s, rev) ==
    IF \/ Superseded(p, s, rev)
       \/ \E t \in p.timers : t.kind = "handled" /\ t.s = s
       \/ p.stamp[s] >= MaxAttempts
    THEN p
    ELSE [p EXCEPT !.stamp[s] = @ + 1, !.timers = @ \cup {Timer("handled", s, rev)}]

\* watchForHandledRuntimeWrapper looks at once and at every later change.
Watch(p, s, rev) ==
    IF p.dom[s] # Absent /\ s \in p.handled THEN ScheduleReload(p, s, rev) ELSE p

CleanupAcceptedSession(p) ==
    [p EXCEPT !.state = "PICKING", !.cur = None, !.obs = FALSE, !.file = FALSE, !.pend = None,
              !.saved = NoneSaved]

\* markSessionHandled, "CONFIRMED", scheduleAcceptCleanup and its microtask.
ConfirmAccept(p, s) ==
    LET marked  == MarkSessionHandled(p)
        watched == Watch([marked EXCEPT !.timers = {t \in @ : ~(t.kind = "watch" /\ t.s = s)}
                              \cup {Timer("watch", s, p.rev), Timer("accept", s, p.rev)}],
                         s, p.rev)
    IN  CleanupAcceptedSession(watched)

----------------------------------------------------------------------------
(* Variants from the source file.                                           *)

\* completeSourceInjection: the document now has count variants of session s.
CompleteSourceInjection(p, s, mode, n) ==
    LET count == p.dom[s]
        there == [p EXCEPT !.anchor = None, !.arrived = count]
        shown == IF p.cur = s /\ p.visible \in 1..count THEN p.visible
                 ELSE ShownFrom(IF p.saved.id = s THEN p.saved.visible ELSE 0, count)
    IN  IF count > 0 THEN SaveSession(ShowCycling([there EXCEPT !.visible = shown]))
        ELSE IF p.state = "GENERATING" /\ mode # "completed" THEN there
        ELSE IF p.state = "GENERATING" /\ n < Retries
             THEN [there EXCEPT !.timers = @ \cup {Timer("inject", s, n + 1)}]
        ELSE RecoverEmptyCycling(there)

\* injectVariantsFromSource for HTML asks for the file; for JSX it only looks at the
\* document, and a resumed comparison whose wrapper is gone has the file probed.
Inject(p, s, mode, n) ==
    LET q == [p EXCEPT !.file = TRUE]
    IN  IF ~owned THEN [q EXCEPT !.reads = @ \cup {Source(s, mode, n)}]
        ELSE IF p.dom[s] > 0 THEN CompleteSourceInjection(q, s, mode, n)
        ELSE IF mode = "completed" /\ s = p.cur
             THEN IF n < Retries THEN [q EXCEPT !.timers = @ \cup {Timer("inject", s, n + 1)}]
                  ELSE IF p.dom[s] = Absent THEN q
                  ELSE RecoverEmptyCycling(q)
        ELSE IF mode = "orphan" /\ p.dom[s] = Absent /\ s = p.cur
             THEN [q EXCEPT !.reads = @ \cup {Source(s, mode, n)}]
        ELSE q

\* restoreSessionWithoutWrapper: saved is the stored session, or one the server still has.
Restorable(p, saved) ==
    saved.id # None /\ saved.id \notin p.handled /\ saved.state \in {"GENERATING", "CYCLING"}

RestoredVisible(saved) ==
    IF saved.arrived = 0 /\ saved.visible \in 1..Variants THEN saved.visible
    ELSE ShownFrom(saved.visible, saved.arrived)

RestoreWithoutWrapper(p, saved, hasFile) ==
    LET q == QueueCheckpoint(SaveSession(
                 [p EXCEPT !.state = "GENERATING", !.cur = saved.id, !.obs = TRUE,
                           !.arrived = saved.arrived, !.file = @ \/ hasFile,
                           !.visible = RestoredVisible(saved)]))
    IN  IF q.file THEN Inject(q, q.cur, IF saved.state = "CYCLING" THEN "orphan" ELSE "plain", 0)
        ELSE q

\* resumeSession with the wrapper it found; the result says whether it resumed.
Resume(p, w) ==
    LET yes(q) == [ok |-> TRUE, page |-> q]
        no(q)  == [ok |-> FALSE, page |-> q]
        newer  == p.saved.id \notin {None, w} \cup p.handled
        shown  == ShownFrom(IF p.saved.id = w THEN p.saved.visible ELSE 0, p.dom[w])
    IN  IF w = None
        THEN IF Restorable(p, p.saved) THEN yes(RestoreWithoutWrapper(p, p.saved, p.saved.file))
             ELSE no([p EXCEPT !.saved = NoneSaved])
        ELSE IF w \in p.handled
        THEN IF newer /\ p.cur = p.saved.id THEN yes(p)
             ELSE IF newer /\ Restorable(p, p.saved)
             THEN yes(RestoreWithoutWrapper(p, p.saved, p.saved.file))
             ELSE no(ScheduleReload(p, w, 0))
        ELSE yes(QueueCheckpoint(SaveSession(
                 [p EXCEPT !.cur = w, !.obs = TRUE, !.arrived = p.dom[w], !.visible = shown,
                           !.file = @ \/ (p.saved.id = w /\ p.saved.file),
                           !.state = IF p.dom[w] > 0 THEN "CYCLING" ELSE "GENERATING"])))

----------------------------------------------------------------------------
(* The observers of the document, in the order they were installed.         *)

\* The scout of init(): the first wrapper that appears resumes its session.
Scouted(p, w) ==
    IF p.scout /\ w # None THEN Resume([p EXCEPT !.scout = FALSE], w).page ELSE p

\* startVariantObserver: more variants of the current session have arrived.
Observed(p) ==
    IF p.obs /\ p.dom[p.cur] > p.arrived
    THEN LET count == p.dom[p.cur]
             saved == IF p.saved.id = p.cur THEN p.saved.visible ELSE 0
             q     == [p EXCEPT !.arrived = count,
                                !.visible = IF @ = 0 THEN ShownFrom(saved, count) ELSE @]
         IN  QueueCheckpoint(SaveSession(ShowCycling(q)))
    ELSE p

\* waitForVariantAnchorAndRetry: the wrapper landed after all.
Anchored(p) ==
    IF p.anchor # None /\ p.dom[p.anchor] # Absent
    THEN Inject([p EXCEPT !.anchor = None], p.anchor, "plain", 0)
    ELSE p

\* Every watcher of a handled session sees the change; each session has one at most.
Watched(p) ==
    FoldSet(LAMBDA t, q : Watch(q, t.s, t.n), p, {t \in p.timers : t.kind = "watch"})

Mutated(p, w) == Watched(Anchored(Observed(Scouted(p, w))))

----------------------------------------------------------------------------
(* Loading the page: init().                                                *)

Loaded(p, dom, w) ==
    LET fresh   == [Blank EXCEPT !.page = 1 - p.page, !.dom = dom, !.ids = p.ids, !.configs = p.configs, !.choices = p.choices,
                                 !.saved = p.saved, !.handled = p.handled, !.stamp = p.stamp]
        resumed == Resume(fresh, w)
    IN  [resumed.page EXCEPT !.scout = ~resumed.ok \/ Wrappers(fresh) = {}]

Active(s) == srv[s] \in {"generating", "done"}

\* What the server says when an event stream is opened.
Connected ==
    LET active == {s \in Sessions : Active(s)}
    IN  [type |-> "connected", s |-> None, active |-> active,
         files |-> {s \in active : src[s] # Absent \/ srv[s] = "done"},
         done |-> {s \in active : srv[s] = "done"},
         written |-> [s \in Sessions |-> IF s \in active THEN src[s] ELSE Absent]]

\* The document is served from the source, from a cache without wrappers, or it is stale.
Reload ==
    /\ \E dom \in {src, Nowhere} \cup (IF owned THEN {b.dom} ELSE {}) :
           \E w \in AnyWrapper([b EXCEPT !.dom = dom]) : b' = Loaded(b, dom, w)
    /\ sse' = <<Connected>> /\ conn' = "up"

Stays(p) == b' = p /\ UNCHANGED <<sse, conn>>

Init ==
    /\ owned \in BOOLEAN
    /\ b = Loaded(Blank, Nowhere, None)
    /\ src = Nowhere /\ srv = [s \in Sessions |-> "none"]
    /\ sse = <<>> /\ conn = "up" /\ blocked = FALSE /\ faults = 0

UserReload ==
    /\ Fault /\ Reload
    /\ UNCHANGED <<owned, src, srv, blocked>>

----------------------------------------------------------------------------
(* Timers.                                                                  *)

\* The 2 s after cleanup(), and the 2 s more it gives a framework.
DiscardTimer(t) ==
    LET p == [b EXCEPT !.timers = @ \ {t}]
        released == [p EXCEPT !.dom[t.s] = Absent]
    IN  IF b.dom[t.s] = Absent THEN Stays(p)
        ELSE IF ~owned THEN Stays(released)
        ELSE IF Superseded(b, t.s, t.n)
             THEN Stays([p EXCEPT !.timers = @ \cup {Timer("gone", t.s, 0)}])
        ELSE IF t.kind = "discard"
             THEN Stays([p EXCEPT !.timers = @ \cup {Timer("discard2", t.s, t.n)}])
        ELSE Reload

\* watchForDiscardedFrameworkWrapperRemoval: every 12 s while a replacement is active.
Replaced(p) == p.cur # None \/ p.state # "PICKING"

GoneTimer(t) ==
    IF b.dom[t.s] = Absent THEN Stays([b EXCEPT !.timers = @ \ {t}])
    ELSE ~Replaced(b) /\ Reload

\* scheduleAcceptCleanup and ensureAcceptedDomClean.  Without a wrapper the accepted
\* element may be in place, may be put back, or may be missing.
AcceptTimer(t) ==
    LET p == [b EXCEPT !.timers = @ \ {t}]
    IN  IF Superseded(b, t.s, t.n) THEN Stays(p)
        ELSE IF owned
        THEN \/ b.dom[t.s] = Absent /\ Stays(p)
             \/ t.kind = "accept" /\ Stays([p EXCEPT !.timers = @ \cup {Timer("accept2", t.s, t.n)}])
             \/ t.kind = "accept2" /\ Reload
        ELSE Stays([p EXCEPT !.dom[t.s] = Absent]) \/ Reload

\* The 3 s of scheduleHandledRuntimeWrapperReload.
HandledTimer(t) ==
    LET p == [b EXCEPT !.timers = @ \ {t}, !.stamp[t.s] = 0]
    IN  IF Superseded(b, t.s, t.n) \/ b.dom[t.s] = Absent THEN Stays(p) ELSE Reload

\* The 750 ms after a finished generation, and the later repetitions of its read.
InjectTimer(t) ==
    LET p == [b EXCEPT !.timers = @ \ {t}]
        late == \/ b.state # "GENERATING"
                \/ b.cur # t.s
                \/ t.n = 0 /\ b.arrived >= Variants
                \/ t.n > 0 /\ ~owned /\ b.arrived > 0
    IN  Stays(IF late THEN p ELSE Inject(p, t.s, "completed", t.n))

OrphanTimer(t) ==
    LET p == [b EXCEPT !.timers = @ \ {t}]
    IN  Stays(IF b.cur = t.s /\ b.state \in {"GENERATING", "CYCLING"}
              THEN Inject(p, t.s, "orphan", t.n) ELSE p)

TimerFires(t) ==
    /\ \/ t.kind \in {"discard", "discard2"} /\ DiscardTimer(t)
       \/ t.kind = "gone" /\ GoneTimer(t)
       \/ t.kind \in {"accept", "accept2"} /\ AcceptTimer(t)
       \/ t.kind = "handled" /\ HandledTimer(t)
       \/ t.kind = "inject" /\ InjectTimer(t)
       \/ t.kind = "orphan" /\ OrphanTimer(t)
    /\ UNCHANGED <<owned, src, srv, blocked, faults>>

\* The 120 ms of queueCheckpoint.
CheckpointTimer ==
    /\ b.ckpt
    /\ Stays([b EXCEPT !.ckpt = FALSE,
                       !.posts = IF b.cur = None \/ srv[b.cur] # "none" THEN @
                                 ELSE @ \cup {Post("checkpoint", b.cur, "sent")}])
    /\ UNCHANGED <<owned, src, srv, blocked, faults>>

----------------------------------------------------------------------------
(* Reads of the source file.                                                *)

ServeRead(r) ==
    /\ r.got = "sent"
    /\ \/ /\ Stays([b EXCEPT !.reads = (@ \ {r}) \cup
                               {[r EXCEPT !.got = "ok", !.count = src[r.s]]}])
          /\ UNCHANGED <<blocked, faults>>
       \/ /\ Fault /\ blocked' = TRUE
          /\ Stays([b EXCEPT !.reads = (@ \ {r}) \cup {[r EXCEPT !.got = "failed"]}])
    /\ UNCHANGED <<owned, src, srv>>

Repeated(p, r) == [p EXCEPT !.timers = @ \cup {Timer("orphan", r.s, r.n + 1)}]

\* probeJsxWrapperForOrphan
TakeProbe(r) ==
    LET p == [b EXCEPT !.reads = @ \ {r}]
        active == b.cur = r.s /\ b.state \in {"GENERATING", "CYCLING"}
    IN  Stays(IF ~active \/ (r.got = "ok" /\ r.count # Absent) THEN p
              ELSE IF r.n < Retries THEN Repeated(p, r)
              ELSE IF r.got = "ok" THEN DiscardOrphanedSession(p)
              ELSE p)

\* injectVariantsFromSource once the file is there.
TakeSource(r) ==
    LET p == [b EXCEPT !.reads = @ \ {r}]
        placed == [p EXCEPT !.dom[r.s] = r.count]
        injected == CompleteSourceInjection(placed, r.s, r.mode, r.n)
        waiting == SaveSession([p EXCEPT !.state = "GENERATING"])
    IN  \/ r.got = "failed" /\ Stays(p) /\ UNCHANGED <<blocked, faults>>
        \/ /\ r.got = "ok" /\ r.count = Absent
           /\ Stays(IF r.mode # "orphan" \/ r.s # b.cur THEN p
                    ELSE IF r.n < Retries THEN Repeated(p, r)
                    ELSE DiscardOrphanedSession(p))
           /\ UNCHANGED <<blocked, faults>>
        \/ /\ r.got = "ok" /\ r.count # Absent
           /\ \E w \in AnyWrapper(injected) : Stays(Mutated(injected, w))
           /\ UNCHANGED <<blocked, faults>>
        \/ /\ r.got = "ok" /\ r.count # Absent /\ b.dom[r.s] = Absent
           /\ Fault /\ blocked' = TRUE
           /\ Stays(QueueCheckpoint([waiting EXCEPT !.anchor = r.s]))

TakeRead(r) ==
    /\ r.got # "sent"
    /\ IF owned THEN TakeProbe(r) /\ UNCHANGED <<blocked, faults>> ELSE TakeSource(r)
    /\ UNCHANGED <<owned, src, srv>>

\* The element a read was waiting for appears.
AnchorAppears ==
    /\ b.anchor # None
    /\ Stays(Inject([b EXCEPT !.anchor = None], b.anchor, "plain", 0))
    /\ UNCHANGED <<owned, src, srv, blocked, faults>>

\* The framework renders the page again from its source, or without the element.
HotUpdate(s) ==
    /\ owned /\ b.dom[s] # src[s]
    /\ LET p == [b EXCEPT !.dom[s] = src[s]]
       IN  \E w \in AnyWrapper(p) : Stays(Mutated(p, w))
    /\ UNCHANGED <<owned, src, srv, blocked, faults>>

----------------------------------------------------------------------------
(* The user.                                                                *)

\* Click on an element, or between two for an insertion.
Configure ==
    /\ b.state = "PICKING" /\ b.configs < MaxConfigs
    /\ Stays([b EXCEPT !.state = "CONFIGURING", !.configs = @ + 1, !.rev = @ + 1])
    /\ UNCHANGED <<owned, src, srv, blocked, faults>>

\* Escape, a click outside, or the selection removed.
ExitConfigure ==
    /\ b.state = "CONFIGURING"
    /\ Stays([b EXCEPT !.state = "PICKING"])
    /\ UNCHANGED <<owned, src, srv, blocked, faults>>

\* handleGo, handleInsertCreate and captureAndEmit; annotations are uploaded first.
Go(at) ==
    /\ b.state = "CONFIGURING" /\ b.ids < MaxSessions
    /\ LET s == b.ids + 1
       IN  Stays(SaveSession([b EXCEPT !.state = "GENERATING", !.cur = s, !.ids = s, !.obs = TRUE,
                                       !.arrived = 0, !.visible = 0, !.pend = None,
                                       !.awaiting = None, !.file = FALSE,
                                       !.posts = @ \cup {Post("generate", s, at)}]))
    /\ UNCHANGED <<owned, src, srv, blocked, faults>>

Captured(q) ==
    /\ q.at = "capture"
    /\ Stays([b EXCEPT !.posts = (@ \ {q}) \cup {[q EXCEPT !.at = "sent"]}])
    /\ UNCHANGED <<owned, src, srv, blocked, faults>>

SelectVariant(v) ==
    /\ b.state = "CYCLING" /\ v \in 1..b.arrived /\ v # b.visible
    /\ b.cur # None /\ b.dom[b.cur] # Absent
    /\ Stays(QueueCheckpoint(SaveSession([b EXCEPT !.visible = v])))
    /\ UNCHANGED <<owned, src, srv, blocked, faults>>

HandleAccept ==
    /\ b.state = "CYCLING" /\ b.pend = None /\ b.cur # None /\ b.arrived > 0
    /\ b.choices < MaxChoices
    /\ Stays(SaveSession([b EXCEPT !.state = "SAVING", !.pend = b.cur, !.choices = @ + 1,
                                   !.posts = @ \cup {Post("accept", b.cur, "sent")}]))
    /\ UNCHANGED <<owned, src, srv, blocked, faults>>

HandleDiscard ==
    /\ b.state = "CYCLING" /\ b.cur # None
    /\ b.choices < MaxChoices
    /\ Stays([b EXCEPT !.choices = @ + 1, !.posts = @ \cup {Post("discard", b.cur, "sent")}])
    /\ UNCHANGED <<owned, src, srv, blocked, faults>>

----------------------------------------------------------------------------
(* The helper server and the agent behind it (external).                    *)

Broadcast(message) == sse' = IF conn = "up" THEN Append(sse, message) ELSE sse

\* A request is sent when the creation of its session has been answered.
Gated(q) ==
    q.type # "generate" /\ \E g \in b.posts : g.type = "generate" /\ g.s = q.s /\ g.at # "capture"

\* Nobody waits for the answer about a creation or an orphan.
Answered(q, at) ==
    b' = [b EXCEPT !.posts = (@ \ {q}) \cup
              (IF q.type \in {"generate", "orphan"} THEN {} ELSE {[q EXCEPT !.at = at]})]

Record(q) ==
    CASE q.type = "generate" -> "generating"
      [] q.type = "accept"   -> "accepting"
      [] q.type \in {"discard", "orphan"} -> "discarded"

Allowed(q) == q.type = "generate" \/ Active(q.s)

\* A request or its answer may be lost.
ServePost(q) ==
    /\ q.at = "sent" /\ ~Gated(q)
    /\ \/ /\ q.type = "checkpoint"
          /\ IF srv[q.s] = "none" THEN Answered(q, "unknown") ELSE b' = [b EXCEPT !.posts = @ \ {q}]
          /\ UNCHANGED <<srv, faults>>
       \/ /\ q.type # "checkpoint"
          /\ IF Allowed(q)
             THEN srv' = [srv EXCEPT ![q.s] = Record(q)] /\ Answered(q, "ok")
             ELSE Answered(q, "failed") /\ UNCHANGED srv
          /\ UNCHANGED faults
       \/ /\ q.type # "checkpoint" /\ Fault
          /\ Answered(q, "failed")
          /\ srv' \in {srv} \cup (IF Allowed(q) THEN {[srv EXCEPT ![q.s] = Record(q)]} ELSE {})
    /\ UNCHANGED <<owned, src, sse, conn, blocked>>

Write(s) ==
    /\ srv[s] = "generating" /\ src[s] < Variants
    /\ src' = [src EXCEPT ![s] = @ + 1]
    /\ UNCHANGED <<owned, b, srv, sse, conn, blocked, faults>>

Finish(s) ==
    /\ srv[s] = "generating" /\ src[s] = Variants
    /\ srv' = [srv EXCEPT ![s] = "done"] /\ Broadcast(Message("done", s))
    /\ UNCHANGED <<owned, b, src, conn, blocked, faults>>

\* The generation or the accept fails.
AgentFails(s) ==
    /\ srv[s] \in {"generating", "accepting"} /\ Fault
    /\ srv' = [srv EXCEPT ![s] = "failed"] /\ Broadcast(Message("error", s))
    /\ UNCHANGED <<owned, b, src, conn, blocked>>

Promote(s) ==
    /\ srv[s] = "accepting"
    /\ srv' = [srv EXCEPT ![s] = "accepted"] /\ src' = [src EXCEPT ![s] = Absent]
    /\ Broadcast(Message("complete", s))
    /\ UNCHANGED <<owned, b, conn, blocked, faults>>

Undo(s) ==
    /\ srv[s] = "discarded" /\ src[s] # Absent
    /\ src' = [src EXCEPT ![s] = Absent] /\ Broadcast(Message("discarded", s))
    /\ UNCHANGED <<owned, b, srv, conn, blocked, faults>>

\* Somebody edits the wrapper out of the file.
SourceEdited(s) ==
    /\ srv[s] = "done" /\ src[s] # Absent /\ Fault
    /\ src' = [src EXCEPT ![s] = Absent] /\ blocked' = TRUE
    /\ UNCHANGED <<owned, b, srv, sse, conn>>

Connect ==
    /\ conn = "down" /\ conn' = "up" /\ sse' = <<Connected>>
    /\ UNCHANGED <<owned, b, src, srv, blocked, faults>>

Drop ==
    /\ conn = "up" /\ Fault
    /\ conn' = "down" /\ sse' = <<>>
    /\ UNCHANGED <<owned, b, src, srv, blocked>>

\* Too many retries: handleServerLost keeps the session.
ServerLost ==
    /\ conn = "down"
    /\ conn' = "lost" /\ b' = SaveSession([b EXCEPT !.obs = FALSE])
    /\ UNCHANGED <<owned, src, srv, sse, blocked, faults>>

----------------------------------------------------------------------------
(* Answers of the server.                                                   *)

\* The .then and .catch of sendEvent's callers.
AfterPost(p, q) ==
    CASE q.type = "accept" /\ q.at = "ok" ->
             IF p.pend = q.s THEN ConfirmAccept([p EXCEPT !.awaiting = q.s], q.s) ELSE p
      [] q.type = "accept" /\ q.at = "failed" ->
             ShowCycling([p EXCEPT !.pend = IF @ = q.s THEN None ELSE @])
      [] q.type = "discard" /\ q.at = "ok" -> Cleanup(MarkSessionHandled(p))
      [] q.at = "unknown" -> IF p.cur = q.s THEN AbandonForeignSession(p) ELSE p
      [] OTHER -> p

TakeAnswer(q) ==
    /\ q.at \in {"ok", "failed", "unknown"}
    /\ Stays(AfterPost([b EXCEPT !.posts = @ \ {q}], q))
    /\ UNCHANGED <<owned, src, srv, blocked, faults>>

----------------------------------------------------------------------------
(* Events of the server: connectSSE.                                        *)

\* restoreFromActiveSessions; a session without a local record may be adopted.
Adoptable(p, m) == {s \in m.files \ p.handled : TRUE}
Adopted(s, arrived) == [id |-> s, state |-> "GENERATING", arrived |-> arrived, visible |-> 0,
                        file |-> TRUE]

\* The server's count of a session's variants: those it heard of, so no more than were written.
ServerCounts(s, m) == 0..(IF m.written[s] = Absent THEN 0 ELSE m.written[s])

\* A stored session without a variant takes the server's count.
ArrivedBy(saved, m) ==
    IF saved.arrived = 0 /\ saved.id \in m.active THEN ServerCounts(saved.id, m) ELSE {saved.arrived}

Candidates(p, m) ==
    IF Wrappers(p) # {} THEN {}
    ELSE IF p.saved.id # None
    THEN {x \in {[p.saved EXCEPT !.arrived = n] : n \in ArrivedBy(p.saved, m)} :
              Restorable(p, x) /\ (m.active = {} \/ x.id \in m.active)}
    ELSE UNION {{Adopted(s, n) : n \in ServerCounts(s, m)} : s \in Adoptable(p, m)}

\* Without the recovery.
RecoverNothing(p, m) == p

\* recoverMissedGenerationCompletion
RecoverMissed(p, m) ==
    IF p.cur \in m.done /\ p.state = "GENERATING" /\ p.arrived < Variants
    THEN [p EXCEPT !.file = TRUE, !.timers = @ \cup {Timer("inject", p.cur, 0)}]
    ELSE p

OnConnected(m) ==
    \/ Candidates(b, m) = {} /\ b' = RecoverMissed(b, m)
    \/ \E x \in Candidates(b, m) :
           b' = RecoverMissed(RestoreWithoutWrapper(b, x, x.file \/ x.id \in m.files), m)

OnDone(p, s) ==
    LET q == [p EXCEPT !.file = TRUE]
    IN  IF p.arrived >= Variants
        THEN IF p.state = "GENERATING" THEN ShowCycling(q) ELSE q
        ELSE IF p.state = "GENERATING" /\ p.cur = s
        THEN [q EXCEPT !.timers = @ \cup {Timer("inject", s, 0)}]
        ELSE q

\* maybeCompleteAcceptedSession
OnComplete(p, s) ==
    LET q == IF p.awaiting = s THEN [p EXCEPT !.awaiting = None] ELSE p
    IN  IF q.pend # s THEN q
        ELSE IF q.cur \notin {None, s} THEN [q EXCEPT !.pend = None]
        ELSE ConfirmAccept(q, s)

OnDiscarded(p, s) == IF p.cur = s THEN Cleanup(MarkSessionHandled(p)) ELSE p

OnError(p, s) ==
    IF p.pend = s THEN ShowCycling([p EXCEPT !.pend = None, !.awaiting = None])
    ELSE IF p.awaiting = s THEN [p EXCEPT !.awaiting = None]
    ELSE IF p.cur = s THEN Cleanup(MarkSessionHandled(p))
    ELSE [p EXCEPT !.state = "PICKING",
                   !.saved = IF @.id = s THEN NoneSaved ELSE @]

Deliver ==
    /\ sse # <<>>
    /\ LET m == Head(sse)
       IN  \/ m.type = "connected" /\ OnConnected(m)
           \/ m.type = "done" /\ b' = OnDone(b, m.s)
           \/ m.type = "complete" /\ b' = OnComplete(b, m.s)
           \/ m.type = "discarded" /\ b' = OnDiscarded(b, m.s)
           \/ m.type = "error" /\ b' = OnError(b, m.s)
    /\ sse' = Tail(sse)
    /\ UNCHANGED <<owned, src, srv, conn, blocked, faults>>

----------------------------------------------------------------------------

AgentStep == \E s \in Sessions : Write(s) \/ Finish(s) \/ AgentFails(s) \/ Promote(s)
                                  \/ Undo(s) \/ SourceEdited(s)
WireStep == Connect \/ Drop \/ ServerLost \/ Deliver
RequestStep ==
    \/ \E q \in b.posts : Captured(q) \/ ServePost(q) \/ TakeAnswer(q)
    \/ \E r \in b.reads : ServeRead(r) \/ TakeRead(r)
TimerStep == CheckpointTimer \/ \E t \in b.timers : TimerFires(t)
UserStep ==
    \/ Configure \/ ExitConfigure \/ HandleAccept \/ HandleDiscard \/ UserReload
    \/ \E at \in {"capture", "sent"} : Go(at)
    \/ \E v \in 1..Variants : SelectVariant(v)
PageStep == AnchorAppears \/ \E s \in Sessions : HotUpdate(s)

Next == UserStep \/ AgentStep \/ WireStep \/ RequestStep \/ TimerStep \/ PageStep

Spec == Init /\ [][Next]_vars

----------------------------------------------------------------------------
(* Properties.                                                              *)

\* A session the user or the server has decided never becomes the page's session again,
\* and a comparison always shows one of the variants that have arrived, whatever late
\* answer, event or read brought it up (isSessionHandled, ensureCyclingRenderable).
Comparable ==
    /\ TypeOK
    /\ b.cur \notin b.handled
    /\ b.state = "CYCLING" => b.visible \in 1..b.arrived

\* A timer, not the user, loads the page again.
ReloadsItself == b'.page # b.page /\ faults' = faults

\* What an older accept or discard left to do later never reloads the page over a new
\* configuration or over another session (deferredRecoverySuperseded).
ReplacementKept ==
    [][ReloadsItself => /\ b.state # "CONFIGURING"
                        /\ b.cur = None \/ \E t \in b.timers : t.s = b.cur]_vars

\* A generation that has finished is never waited for without something still on its way
\* that ends the wait, even when the event that said so was lost with the stream or with
\* a reload (recoverMissedGenerationCompletion), on a page whose wrapper is not put there by
\* hot updates and whose source can be read.
CompletionPending ==
    \A s \in Sessions :
        ~owned /\ ~blocked /\ b.cur = s /\ b.state = "GENERATING" /\ srv[s] = "done" =>
            \/ conn # "up"
            \/ \E i \in 1..Len(sse) : sse[i].type = "connected" \/ sse[i] = Message("done", s)
            \/ \E t \in b.timers : t.s = s /\ t.kind \in {"inject", "orphan"}
            \/ \E r \in b.reads : r.s = s
=============================================================================
