---------------------------- MODULE LivePreviews ----------------------------
(***************************************************************************)
(* Component previews of the live overlay (live-browser.js).  Variants of  *)
(* a framework component are not written into the page's source: the       *)
(* overlay reads a manifest, replaces the picked element by a wrapper,     *)
(* holds the element and mounts a compiled variant into the wrapper.       *)
(* Every injection runs over several awaits (manifest, parameters, module, *)
(* unmount, probe), and nothing stops a second one, a switch of variants,  *)
(* a discard or a re-rendered page in between.  Source previews, reloads   *)
(* and the choice's way to the server are LiveVariants.                    *)
(***************************************************************************)
EXTENDS Integers, Sequences, FiniteSets

CONSTANTS PreviewSessions,   \* sessions started
          PreviewVariants,   \* variants of a session
          MaxPublished,      \* messages of the agent about a session
          MaxRenders,        \* times the page re-renders the element
          MaxInjections,     \* injections and switches under way at once
          MaxTries           \* retries and switches

VARIABLES pv,      \* the overlay's component preview
          place,   \* what stands where the element was: itself, a wrapper, or nothing
          runs,    \* the asynchronous functions under way
          feed,    \* the agent's messages, and how often bounded things happened
          overlap  \* since the session began, two of the overlay's functions were under way at
                   \* once, or one was when another session became current

previewVars == <<pv, place, runs, feed, overlap>>

Sids == 1..PreviewSessions
NoComp == [id |-> 0, w |-> 0, mounted |-> 0, held |-> "none", n |-> 0]
NoCard == [id |-> 0, v |-> 0, file |-> 0]
NoRun == [kind |-> "none", id |-> 0, path |-> 0, at |-> "none", n |-> 0, v |-> 0, w |-> 0, prev |-> 0]
Element == [is |-> "element", w |-> 0, id |-> 0]
Away == [is |-> "away", w |-> 0, id |-> 0]
Lost == [is |-> "lost", w |-> 0, id |-> 0]

\* comp: svelteComponentSession, with n instances in its mount target; obs: the session of
\* pendingSvelteComponentRetryObserver; file: the session whose manifest is currentPreviewFile.
\* told: the sessions whose last message arrived; closed: the card was dismissed.
InitPreviews ==
    /\ pv = [state |-> "PICKING", cur |-> 0, arrived |-> 0, visible |-> 0, comp |-> NoComp,
             card |-> NoCard, bar |-> "hidden", obs |-> 0, file |-> 0, selecting |-> FALSE,
             saving |-> 0, closed |-> FALSE]
    /\ place = Element
    /\ runs = [k \in 1..MaxInjections |-> NoRun]
    /\ feed = [started |-> 0, msgs |-> <<>>, sent |-> [s \in Sids |-> 0],
               n |-> [s \in Sids |-> 0], told |-> {}, renders |-> 0, tries |-> 0]
    /\ overlap = FALSE

----------------------------------------------------------------------------
(* Parts of the handlers; each maps <<overlay, place>> to what it leaves.  *)

\* Mutant: the element is not put back.
TeardownWithout(p, at) ==
    <<[p EXCEPT !.comp = NoComp], IF at.is = "wrapper" /\ at.w = p.comp.w THEN Lost ELSE at>>

\* teardownSvelteComponentSession(true): the held element replaces its wrapper.
Teardown(p, at) ==
    <<[p EXCEPT !.comp = NoComp], IF at.is = "wrapper" /\ at.w = p.comp.w THEN Element ELSE at>>

\* abortSvelteComponentInjection(), without its card: state and session stay.
Abort(p, at, id) ==
    LET torn == IF p.comp.id = id THEN Teardown(p, at)
                ELSE <<p, IF at.is = "wrapper" /\ at.id = id THEN Lost ELSE at>>
    IN  <<[torn[1] EXCEPT !.obs = 0, !.bar = "hidden"], torn[2]>>

\* cleanup(): it leaves the retry observer armed, and the counts of the session.
CleanUp(p, at) ==
    LET torn == IF p.cur # 0 /\ p.comp.id = p.cur THEN Teardown(p, at) ELSE <<p, at>>
    IN  <<[torn[1] EXCEPT !.card = NoCard, !.bar = "hidden", !.file = 0, !.cur = 0,
                          !.state = "PICKING"], torn[2]>>

\* resetSvelteComponentSession()
Reset(p, at) ==
    LET torn == Teardown(p, at)
    IN  <<[torn[1] EXCEPT !.card = NoCard, !.bar = "hidden", !.file = 0, !.cur = 0, !.obs = 0,
                          !.arrived = 0, !.visible = 0, !.state = "PICKING"], torn[2]>>

\* showOrUpdateCyclingBar(), with ensureCyclingRenderable() and recoverEmptyCycling().
CyclingBar(p, at) ==
    IF p.arrived = 0
    THEN IF p.cur # 0 /\ p.comp.id = p.cur THEN Reset(p, at) ELSE CleanUp(p, at)
    ELSE <<[p EXCEPT !.bar = "cycling",
                     !.visible = IF @ \in 1..p.arrived THEN @ ELSE 1], at>>

\* setLiveState('CYCLING') and the bar of the variants.
Cycle(p, at) == CyclingBar([p EXCEPT !.state = "CYCLING"], at)

\* showMountErrorCard()
ShowCard(p, id, v, file) ==
    [p EXCEPT !.card = [id |-> id, v |-> v, file |-> IF file # 0 THEN file ELSE p.file],
              !.closed = FALSE]

\* injectSvelteComponentsFromManifest() up to its first await, in a free slot.
Inject(path, id) ==
    \E k \in 1..MaxInjections :
       /\ runs[k] = NoRun /\ \A j \in 1..(k - 1) : runs[j] # NoRun
       /\ runs' = [runs EXCEPT ![k] = [NoRun EXCEPT !.kind = "inject", !.id = id,
                                                    !.path = path, !.at = "manifest"]]

Becomes(both) == pv' = both[1] /\ place' = both[2]

Ends(k) == runs' = [runs EXCEPT ![k] = NoRun]

----------------------------------------------------------------------------
(* An injection.                                                           *)

\* The manifest cannot be read: the preview is torn down and the card says so.
ManifestFails(k) ==
    /\ runs[k].at = "manifest"
    /\ LET t == runs[k]
           gone == Abort(pv, place, t.id)
       IN  Becomes(<<ShowCard(gone[1], t.id, pv.visible, t.path), gone[2]>>)
    /\ Ends(k) /\ UNCHANGED feed

\* The manifest is another session's, as it always is at another session's path.
ManifestDiffers(k) ==
    /\ runs[k].at = "manifest"
    /\ pv' = ShowCard(pv, runs[k].id, pv.visible, runs[k].path)
    /\ Ends(k) /\ UNCHANGED <<place, feed>>

ManifestRead(k) ==
    /\ runs[k].at = "manifest" /\ runs[k].path = runs[k].id
    /\ runs' = [runs EXCEPT ![k].at = "params", ![k].n = feed.n[runs[k].id]]
    /\ UNCHANGED <<pv, place, feed>>

\* A wrapper nobody refers to.
NewWrapper == CHOOSE w \in 1..(MaxInjections + 2) :
                 w \notin {pv.comp.w, place.w} \cup {runs[k].w : k \in 1..MaxInjections}

\* The parameters were read, or not: the wrapper is found or made, and the first mount begins.
ParamsRead(k) ==
    /\ runs[k].at = "params"
    /\ LET t == runs[k]
           p == [pv EXCEPT !.cur = t.id, !.file = t.id, !.arrived = t.n,
                           !.visible = IF @ \in 1..t.n THEN @ ELSE 1,
                           !.state = IF @ = "CYCLING" THEN @ ELSE "GENERATING"]
           Mounting(kind, w) ==
             runs' = [runs EXCEPT ![k] = [NoRun EXCEPT !.kind = kind, !.id = t.id, !.at = "import",
                                                       !.v = p.visible, !.w = w]]
       IN  \/ /\ place.is = "wrapper" /\ place.id = t.id /\ pv.comp.id = t.id
              /\ Becomes(<<p, place>>) /\ Mounting("again", pv.comp.w)
           \/ /\ place = Element
              /\ Becomes(<<[p EXCEPT !.comp = [NoComp EXCEPT !.id = t.id, !.w = NewWrapper],
                                     !.obs = 0],
                           [is |-> "wrapper", w |-> NewWrapper, id |-> t.id]>>)
              /\ Mounting("first", NewWrapper)
           \/ /\ place # Element /\ ~(place.is = "wrapper" /\ place.id = t.id /\ pv.comp.id = t.id)
              /\ Becomes(<<[p EXCEPT !.state = "GENERATING", !.bar = "generating", !.obs = t.id], place>>)
              /\ Ends(k)
    /\ UNCHANGED feed

\* The observer of waitForSvelteComponentTargetAndRetry().
ObserverFires ==
    /\ pv.obs # 0
    /\ \/ /\ pv.comp.id = pv.obs
          /\ pv' = [pv EXCEPT !.obs = 0] /\ UNCHANGED runs
       \/ /\ pv.comp.id # pv.obs /\ place = Element
          /\ pv' = [pv EXCEPT !.obs = 0] /\ Inject(pv.obs, pv.obs)
    /\ UNCHANGED <<place, feed>>

----------------------------------------------------------------------------
(* A mount.                                                                *)

\* The catch of mountSvelteComponentVariant(), up to the await in it.
Probing(k) == runs' = [runs EXCEPT ![k].at = "probe"]

\* What runtime.mount() leaves: an instance in the target of the session the mount began with.
Mounted(c, t) ==
    [c EXCEPT !.mounted = t.v, !.held = IF c.w = t.w THEN "own" ELSE "gone",
              !.n = IF c.w = t.w THEN @ + 1 ELSE @]

\* What follows a mount that went well: an injection goes on to comparing, a switch shows it.
Settled(p, at, t) ==
    IF t.kind \in {"first", "again"} THEN Cycle(p, at) ELSE CyclingBar(p, at)

\* runtime.mount() and the rest, when it does not throw; two instances at most are counted.
MountEnds(k, c) ==
    /\ c.n < 2
    /\ LET t == runs[k]
           cleared == IF pv.card.id = t.id /\ pv.card.v = t.v THEN NoCard ELSE pv.card
           p == [pv EXCEPT !.comp = Mounted(c, t), !.card = cleared, !.closed = FALSE,
                           !.selecting = @ /\ t.kind \notin {"switch", "revert"}]
       IN  Becomes(Settled(p, place, t))
    /\ Ends(k)

\* The module was imported, or not; an instance that is held is unmounted first.
Imported(k) ==
    /\ runs[k].at = "import"
    /\ \/ Probing(k) /\ UNCHANGED <<pv, place>>
       \/ /\ pv.comp # NoComp /\ pv.comp.held # "none"
          /\ pv' = [pv EXCEPT !.comp.held = "gone",
                              !.comp.n = IF pv.comp.held = "own" THEN @ - 1 ELSE @]
          /\ runs' = [runs EXCEPT ![k].at = "unmount"]
          /\ UNCHANGED place
       \/ pv.comp # NoComp /\ pv.comp.held = "none" /\ MountEnds(k, pv.comp)
    /\ UNCHANGED feed

\* The instance is unmounted; the mount may throw, as it does when the session is gone.
Unmounted(k) ==
    /\ runs[k].at = "unmount"
    /\ \/ Probing(k) /\ UNCHANGED place
          /\ pv' = IF pv.comp = NoComp THEN pv ELSE [pv EXCEPT !.comp.held = "none"]
       \/ pv.comp # NoComp /\ MountEnds(k, [pv.comp EXCEPT !.held = "none"])
    /\ UNCHANGED feed

\* Mutant: a failed mount shows no card.
CardlessFailure(p, t) == p

\* The card of a failed mount.
MountFailure(p, t) == ShowCard(p, t.id, t.v, 0)

\* describeMountFailure() is over: the card, and what the caller does about the failure.
Probed(k) ==
    /\ runs[k].at = "probe"
    /\ LET t == runs[k]
           p == MountFailure(pv, t)
           back == [p EXCEPT !.visible = t.prev]
           over == [p EXCEPT !.selecting = FALSE]
       IN  \/ t.kind = "first" /\ Becomes(Abort(p, place, t.id)) /\ Ends(k)
           \/ t.kind = "again" /\ Becomes(<<p, place>>) /\ Ends(k)
           \/ /\ t.kind = "switch" /\ pv.cur # 0 /\ pv.comp.id = pv.cur
              /\ Becomes(<<back, place>>)
              /\ runs' = [runs EXCEPT ![k] = [t EXCEPT !.kind = "revert", !.at = "import", !.v = t.prev,
                                                       !.w = pv.comp.w, !.id = pv.comp.id]]
           \/ /\ t.kind = "switch" /\ ~(pv.cur # 0 /\ pv.comp.id = pv.cur)
              /\ Becomes(CyclingBar([back EXCEPT !.selecting = FALSE], place)) /\ Ends(k)
           \/ t.kind = "revert" /\ Becomes(CyclingBar(over, place)) /\ Ends(k)
    /\ UNCHANGED feed

----------------------------------------------------------------------------
(* The user, the agent and the page.                                       *)

\* handleGo()
StartPreview ==
    /\ pv.state = "PICKING" /\ place = Element /\ feed.started < PreviewSessions
    /\ feed' = [feed EXCEPT !.started = @ + 1]
    /\ pv' = [pv EXCEPT !.state = "GENERATING", !.cur = feed'.started, !.arrived = 0,
                        !.visible = 0, !.file = 0, !.card = NoCard, !.bar = "generating",
                        !.saving = 0, !.closed = FALSE]
    /\ UNCHANGED <<place, runs>>

\* selectVariant() up to its first await.
SwitchVariant(v) ==
    /\ pv.state = "CYCLING" /\ ~pv.selecting /\ v # pv.visible
    /\ pv.cur # 0 /\ pv.comp.id = pv.cur /\ feed.tries < MaxTries
    /\ feed' = [feed EXCEPT !.tries = @ + 1]
    /\ pv' = [pv EXCEPT !.selecting = TRUE, !.visible = v, !.bar = "cycling"]
    /\ \E k \in 1..MaxInjections :
         /\ runs[k] = NoRun /\ \A j \in 1..(k - 1) : runs[j] # NoRun
         /\ runs' = [runs EXCEPT ![k] = [NoRun EXCEPT !.kind = "switch", !.id = pv.cur, !.at = "import",
                                                      !.v = v, !.w = pv.comp.w, !.prev = pv.visible]]
    /\ UNCHANGED place

\* retryMountErrorCard()
RetryCard ==
    /\ pv.card # NoCard /\ feed.tries < MaxTries
    /\ feed' = [feed EXCEPT !.tries = @ + 1]
    /\ LET file == IF pv.card.file # 0 THEN pv.card.file ELSE pv.file
           p == [pv EXCEPT !.card = NoCard]
       IN  \/ file = 0 /\ pv' = p /\ UNCHANGED runs
           \/ /\ file # 0
              /\ pv' = [p EXCEPT !.state = IF @ = "CYCLING" THEN @ ELSE "GENERATING"]
              /\ Inject(file, pv.card.id)
    /\ UNCHANGED place

\* The card's dismiss button: only a generating overlay goes back to picking.
DismissCard ==
    /\ pv.card # NoCard
    /\ pv' = [pv EXCEPT !.card = NoCard, !.closed = TRUE,
                        !.state = IF @ = "GENERATING" THEN "PICKING" ELSE @]
    /\ UNCHANGED <<place, runs, feed>>

\* handleAccept(): it waits for a switch, then takes the variant that is mounted.
AcceptPreview ==
    /\ pv.state = "CYCLING" /\ ~pv.selecting /\ pv.cur # 0 /\ pv.comp.id = pv.cur /\ pv.arrived > 0
    /\ pv' = [pv EXCEPT !.state = "SAVING", !.bar = "saving", !.saving = pv.cur,
                        !.visible = IF pv.comp.mounted > 0 THEN pv.comp.mounted ELSE @]
    /\ UNCHANGED <<place, runs, feed>>

\* Its answer: commitAcceptedSvelteComponentToDom() keeps the mounted variant as the element, if
\* there is one, and cleanupAcceptedSession() ends the session; a failure goes on comparing.
AcceptAnswered(ok) ==
    /\ pv.saving # 0
    /\ LET p == [pv EXCEPT !.saving = 0]
           commits == /\ pv.comp.id = pv.saving /\ pv.comp.n > 0
                      /\ place.is = "wrapper" /\ place.w = pv.comp.w
           kept == IF commits THEN [p EXCEPT !.comp = NoComp] ELSE p
       IN  IF ok THEN Becomes(<<[kept EXCEPT !.cur = 0, !.file = 0, !.state = "PICKING", !.bar = "hidden"],
                                IF commits THEN Element ELSE place>>)
           ELSE Becomes(Cycle(p, place))
    /\ UNCHANGED <<runs, feed>>

\* handleDiscard(), confirmed by the server.
DiscardPreview ==
    /\ pv.state = "CYCLING" /\ pv.cur # 0
    /\ Becomes(CleanUp(pv, place)) /\ UNCHANGED <<runs, feed>>

\* The agent publishes one more variant, or all of them again, and says so (external).
Publish(s, type) ==
    /\ s <= feed.started /\ feed.sent[s] < MaxPublished
    /\ type = "progress" => s \notin feed.told
    /\ feed' = [feed EXCEPT !.sent[s] = @ + 1, !.msgs = Append(@, [type |-> type, id |-> s]),
                            !.n[s] = IF type = "done" THEN PreviewVariants ELSE @ + 1]
    /\ feed'.n[s] <= PreviewVariants
    /\ UNCHANGED <<pv, place, runs>>

\* variant_progress and done on the event stream; done remembers its file whoever it is for.
ReceivePublished ==
    /\ feed.msgs # <<>>
    /\ LET m == Head(feed.msgs)
       IN  /\ feed' = [feed EXCEPT !.msgs = Tail(@), !.told = IF m.type = "done" THEN @ \cup {m.id} ELSE @]
           /\ pv' = IF m.id = pv.cur \/ m.type = "done" THEN [pv EXCEPT !.file = m.id] ELSE pv
           /\ IF m.id = pv.cur THEN Inject(m.id, m.id) ELSE UNCHANGED runs
    /\ UNCHANGED place

\* The page renders: the element, or its wrapper, goes away or comes back (external).
PageRenders ==
    /\ \/ place.is # "away" /\ feed.renders < MaxRenders /\ place' = Away
       \/ place.is = "away" /\ place' = Element
    /\ feed' = [feed EXCEPT !.renders = IF place.is = "away" THEN @ ELSE @ + 1]
    /\ UNCHANGED <<pv, runs>>

PreviewStep ==
    \/ \E k \in 1..MaxInjections :
         \/ ManifestFails(k) \/ ManifestDiffers(k) \/ ManifestRead(k) \/ ParamsRead(k)
         \/ Imported(k) \/ Unmounted(k) \/ Probed(k)
    \/ ObserverFires \/ StartPreview \/ RetryCard \/ DismissCard
    \/ \E v \in 1..pv.arrived : SwitchVariant(v)
    \/ AcceptPreview \/ DiscardPreview \/ \E ok \in BOOLEAN : AcceptAnswered(ok)
    \/ \E s \in Sids : \E type \in {"progress", "done"} : Publish(s, type)
    \/ ReceivePublished \/ PageRenders

\* The overlay's functions under way: injections, switches and an accept.
AtWork == Cardinality({k \in 1..MaxInjections : runs[k] # NoRun}) + (IF pv.saving # 0 THEN 1 ELSE 0)

NextPreviews ==
    /\ PreviewStep
    /\ overlap' = IF feed'.started > feed.started /\ AtWork' = 0 THEN FALSE
                  ELSE overlap \/ AtWork' > 1 \/ (AtWork' > 0 /\ pv'.cur # pv.cur)

----------------------------------------------------------------------------

\* Whatever fails or overlaps, the picked element is in the page, held by the session whose wrapper
\* stands in its place, or away because the page took it away itself.
ElementSafe ==
    /\ place # Lost
    /\ place.is = "wrapper" => pv.comp.w = place.w /\ pv.comp.id = place.id

\* A preview whose wrapper left the page with what the page re-rendered: an element that comes back
\* is not taken up again, since the observer takes the session's wrapper for standing.
Stale == pv.comp # NoComp /\ place.w # pv.comp.w

\* A generating overlay whose agent is done waits for something or shows the card, whatever overlapped.
NotStranded ==
    (pv.state = "GENERATING" /\ pv.cur \in feed.told /\ AtWork = 0 /\ ~Stale)
       => pv.card # NoCard \/ pv.obs # 0

\* The bar of the variants stands over a mounted variant, or beside the card, when the functions of
\* the session ran one after another. Overlapping ones mount two variants, or show the bar of a
\* session that was accepted meanwhile.
NothingClaimed ==
    (pv.bar = "cycling" /\ AtWork = 0 /\ ~pv.closed /\ ~overlap)
       => pv.card # NoCard \/ (pv.comp.id = pv.cur /\ pv.comp.n = 1)

\* Component previews hold: the picked element survives every failure and every overlap, no end of
\* the agent leaves the bar "generating" with nothing to wait for (the comment in
\* injectSvelteComponentsFromManifest on a stranded bar), and without overlaps no bar claims
\* variants over a page where nothing is mounted.
PreviewsHold == ElementSafe /\ NotStranded /\ NothingClaimed
=============================================================================
