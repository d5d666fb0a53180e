----------------------------- MODULE LiveEdits -----------------------------
(***************************************************************************)
(* Copy edits of the live overlay (live-browser.js): the text of a picked  *)
(* element is edited in place, saved edits are staged by the helper        *)
(* server, and "Apply" has the agent write all staged edits to the source. *)
(* While an apply runs, every other control of the overlay is frozen: what *)
(* thaws them is an answer, an event of the stream, or a reload that finds *)
(* the apply in sessionStorage.  The helper server and the agent are       *)
(* external.                                                               *)
(***************************************************************************)
EXTENDS Integers, Sequences, FiniteSets

CONSTANTS MaxStaged,    \* staged edits of the page
          MaxVersions,  \* texts the user types
          MaxLosses,    \* lost connections and reloads
          MaxEvents,    \* events on their way
          MaxRequests   \* requests without an answer

VARIABLES edit,    \* the overlay's copy edits
          staged,  \* the helper server: staged edits, its apply, the texts it knows
          events,  \* the events on their way to the page
          used     \* how often a bounded thing has happened, and whether an ending, or a
          \* request to keep fixing, was lost

editVars == <<edit, staged, events, used>>

\* A request of the page: text is the text it carries or the answer brings back.
NoRequest == [at |-> "none", n |-> 0, text |-> 0]
Sent(t) == [at |-> "sent", n |-> 0, text |-> t]

\* The page as it is loaded; kept is the text last loaded, saved or restored.
NoEdits == [state |-> "PICKING", pick |-> TRUE, badge |-> "hidden", up |-> TRUE,
            rows |-> FALSE, draft |-> FALSE, orig |-> 0, shown |-> 0, kept |-> 0, raced |-> FALSE,
            count |-> 0, inFlight |-> FALSE, stored |-> "none", pill |-> TRUE, trash |-> FALSE,
            decision |-> FALSE, fetch |-> NoRequest,
            save |-> NoRequest, commit |-> NoRequest, discard |-> NoRequest,
            keep |-> NoRequest, rollback |-> NoRequest]

InitEdits ==
    /\ edit = [NoEdits EXCEPT !.fetch = Sent(0)]
    /\ staged = [n |-> 0, apply |-> "idle", text |-> 0, source |-> 0]
    /\ events = <<>>
    /\ used = [typed |-> 0, lost |-> 0, missed |-> FALSE]

----------------------------------------------------------------------------
(* The dock of the staged edits.                                           *)

\* renderEditBadge(): the buttons at the picked element.
RenderEditBadge(e, badge) == [e EXCEPT !.badge = badge]

\* refreshLiveControlsForManualApply()
Refreshed(e) ==
    IF e.badge = "hidden" THEN e
    ELSE IF e.inFlight THEN RenderEditBadge(e, "disabled")
    ELSE IF e.state = "CONFIGURING" THEN RenderEditBadge(e, "idle") ELSE e

\* hidePendingApplyDock()
HideDock(e) ==
    Refreshed([e EXCEPT !.inFlight = FALSE, !.stored = "none", !.count = 0, !.pill = TRUE,
                        !.trash = FALSE, !.decision = FALSE])

\* storeManualApplyState(count): what is stored stays, unless nothing is.
StoredOr(e, phase) ==
    IF e.stored # "none" THEN e.stored ELSE IF e.count > 0 THEN phase ELSE "none"

\* setPendingApplyLoading(true)
Loading(e) ==
    Refreshed([e EXCEPT !.inFlight = TRUE, !.stored = StoredOr(e, "applying"), !.pill = FALSE,
                        !.trash = TRUE, !.decision = FALSE])

\* setPendingApplyLoading(false)
NotLoading(e) ==
    Refreshed([e EXCEPT !.inFlight = FALSE, !.stored = "none", !.pill = TRUE])

\* updatePendingCounter(): it resumes an apply that is running or stored.
UpdateCounter(e, n) ==
    LET shown == [e EXCEPT !.count = n, !.trash = TRUE]
    IN  IF n = 0 THEN HideDock(e)
        ELSE IF e.inFlight \/ e.stored # "none" THEN Loading(shown) ELSE shown

\* updateManualApplyRepairState()
Repairing(e) ==
    IF e.count = 0 /\ e.stored = "none" THEN e ELSE Loading([e EXCEPT !.stored = "repairing"])

\* updateManualApplyProgressFromChunk(): n edits of the apply remain.
Progress(e, n) ==
    IF ~e.inFlight THEN e
    ELSE Loading([e EXCEPT !.stored = IF n > 0 THEN "applying" ELSE "verifying"])

\* showManualApplyDecision(), told of n edits: without any nothing is stored.
ShowDecision(e, n) ==
    Refreshed([e EXCEPT !.inFlight = FALSE, !.pill = FALSE, !.trash = FALSE, !.decision = TRUE,
                        !.stored = IF @ # "none" \/ e.count + n > 0 THEN "repair-decision" ELSE @])

\* fetchPendingCount()
FetchCount(e) == [e EXCEPT !.fetch = Sent(0)]

\* Mutant: the counter is updated while the apply still counts as running.
CommitDoneCounting(e, n) == UpdateCounter(e, n)

\* The end of an apply clears the flag before it updates the counter.
CommitDone(e, n) == UpdateCounter(NotLoading(e), n)

\* manual_edit_commit_started, of this page or of somebody else; n = 0 counts nothing.
CommitStarted(e, n, repair) ==
    LET counted == IF n > 0 THEN UpdateCounter(e, n) ELSE e
    IN  Loading(IF repair THEN Repairing(counted)
                ELSE IF n > 0 THEN [counted EXCEPT !.stored = "applying"] ELSE counted)

\* handleManualEditActivity()
HandleActivity(e, m) ==
    CASE m.type = "stashed" -> UpdateCounter(e, m.n)
      [] m.type = "commit_started" -> CommitStarted(e, m.n, FALSE)
      [] m.type = "repair_started" -> CommitStarted(e, m.n, TRUE)
      [] m.type = "chunk" -> Progress(e, m.n)
      [] m.type = "repair" -> Repairing(e)
      [] m.type = "needs_decision" -> ShowDecision(e, m.n)
      [] m.type = "rollback_done" -> FetchCount([e EXCEPT !.stored = "none"])
      [] m.type = "commit_done" -> CommitDone(e, m.n)
      [] m.type = "commit_failed" -> FetchCount(NotLoading(e))
      [] OTHER -> FetchCount(e)

----------------------------------------------------------------------------
(* Editing in place.                                                       *)

\* disableInlineEdit(): the rows are plain text again, and their drafts are gone.
DisableEdit(e) == [e EXCEPT !.rows = FALSE, !.draft = FALSE]

\* restoreInlineEditDrafts(), then disableInlineEdit().
EditsRestored(e) ==
    DisableEdit([e EXCEPT !.shown = IF e.rows /\ e.draft THEN e.orig ELSE @,
                          !.raced = @ \/ e.save.at # "none"])

\* Bound: two requests are on their way at most.
Quiet == Cardinality({r \in {"save", "commit", "discard", "keep", "rollback", "fetch"} :
                        edit[r] # NoRequest}) < MaxRequests

Edits(e) == edit' = e /\ UNCHANGED <<staged, events, used>>

\* A click on an element of the page; handleClick() refuses it during an apply.
PickElement ==
    /\ edit.state = "PICKING" /\ edit.pick /\ ~edit.inFlight
    /\ Edits(RenderEditBadge([edit EXCEPT !.state = "CONFIGURING"], "idle"))

\* The badge's button and enterEditingMode().
EnterEditing ==
    /\ edit.state = "CONFIGURING" /\ edit.badge = "idle" /\ ~edit.inFlight
    /\ Edits([edit EXCEPT !.state = "EDITING", !.badge = "editing",
                          !.rows = TRUE, !.draft = FALSE, !.orig = edit.shown])

\* onInlineInput()
TypeText ==
    /\ edit.rows /\ used.typed < MaxVersions
    /\ used' = [used EXCEPT !.typed = @ + 1]
    /\ edit' = [edit EXCEPT !.shown = used'.typed, !.draft = TRUE,
                            !.raced = @ \/ edit.save.at # "none"]
    /\ UNCHANGED <<staged, events>>

\* Escape in the text itself.
EscapeText ==
    /\ edit.rows /\ edit.draft
    /\ Edits([edit EXCEPT !.shown = edit.orig, !.draft = FALSE,
                          !.raced = @ \/ edit.save.at # "none"])

\* Escape, or "Cancel" while the badge offers it.
CancelEditing ==
    /\ edit.state = "EDITING" /\ ~edit.inFlight
    /\ Edits(RenderEditBadge([EditsRestored(edit) EXCEPT !.state = "CONFIGURING"], "idle"))

\* A click outside the element: cancelEditingToPicking(), exitConfigureToPicking().
ClickOutside ==
    /\ edit.state \in {"EDITING", "CONFIGURING"} /\ ~edit.inFlight
    /\ Edits([EditsRestored(edit) EXCEPT !.state = "PICKING", !.badge = "hidden"])

\* togglePick(): switching off tears everything down but does not leave "EDITING".
TogglePick ==
    /\ ~edit.inFlight
    /\ IF edit.pick
       THEN Edits([EditsRestored(edit) EXCEPT
                     !.pick = FALSE, !.badge = "hidden",
                     !.state = IF @ = "EDITING" THEN @ ELSE "IDLE"])
       ELSE Edits([edit EXCEPT !.pick = TRUE, !.state = IF @ = "IDLE" THEN "PICKING" ELSE @])

\* "Save": applyEditing() up to its request; without a draft it only leaves the mode.
SaveEdits ==
    /\ edit.badge = "editing" /\ edit.rows /\ ~edit.inFlight /\ edit.save = NoRequest /\ Quiet
    /\ Edits(IF edit.draft THEN [edit EXCEPT !.save = Sent(edit.shown)]
             ELSE RenderEditBadge([EditsRestored(edit) EXCEPT !.state = "CONFIGURING"], "idle"))

\* The rest of applyEditing(), whatever the overlay does by now; an error keeps the mode.
SaveAnswered ==
    /\ edit.save.at = "ok"
    /\ Edits([DisableEdit(UpdateCounter(edit, edit.save.n)) EXCEPT
                !.kept = edit.save.text, !.raced = @ \/ edit.state # "EDITING" \/ ~edit.rows,
                !.save = NoRequest, !.state = "CONFIGURING", !.badge = "idle"])

----------------------------------------------------------------------------
(* The buttons of the dock and the answers they wait for.                  *)

\* onPendingPillClick() up to its request.
ClickApply ==
    /\ edit.count > 0 /\ ~edit.inFlight /\ edit.pill /\ edit.commit = NoRequest /\ Quiet
    /\ Edits([Loading([edit EXCEPT !.stored = "applying"]) EXCEPT !.commit = Sent(0)])

\* Its answer: "started" leaves the rest to the events; anything else thaws the controls.
ApplyAnswered ==
    /\ edit.commit.at \in {"started", "ok", "failed"}
    /\ LET e == [edit EXCEPT !.commit = NoRequest]
           counted == IF edit.commit.at = "ok" THEN UpdateCounter(e, edit.commit.n) ELSE e
       IN  Edits(IF edit.commit.at = "started" THEN e
                 ELSE IF counted.count > 0 THEN NotLoading(counted) ELSE HideDock(counted))

\* onPendingTrashClick() up to its request.
ClickDiscard ==
    /\ edit.count > 0 /\ ~edit.inFlight /\ edit.trash /\ edit.discard = NoRequest /\ Quiet
    /\ Edits([edit EXCEPT !.discard = Sent(0)])

\* Its answer: restoreDiscardedManualEdits() leaves a text alone that was changed meanwhile.
DiscardAnswered ==
    /\ edit.discard.at = "ok"
    /\ LET safe == ~edit.rows /\ edit.shown = edit.kept
       IN  Edits([UpdateCounter(edit, 0) EXCEPT
                    !.discard = NoRequest, !.raced = @ \/ ~safe,
                    !.shown = IF safe THEN edit.discard.text ELSE @,
                    !.kept = IF safe THEN edit.discard.text ELSE @])

\* onPendingKeepFixingClick() up to its request.
ClickKeepFixing ==
    /\ edit.decision /\ edit.keep = NoRequest /\ Quiet /\ (edit.count > 0 \/ edit.stored # "none")
    /\ Edits([Repairing(edit) EXCEPT !.keep = Sent(0)])

\* Its answer: a refusal brings the decision back.
KeepFixingAnswered ==
    /\ edit.keep.at \in {"ok", "failed"}
    /\ LET e == [edit EXCEPT !.keep = NoRequest]
       IN  Edits(IF edit.keep.at = "failed" THEN ShowDecision(e, 1)
                 ELSE [e EXCEPT !.decision = FALSE, !.trash = TRUE])

\* onPendingRollbackClick() up to its request.
ClickRollback ==
    /\ edit.decision /\ edit.rollback = NoRequest /\ Quiet
    /\ Edits([edit EXCEPT !.rollback = Sent(0)])

\* Its answer: the edits are still staged.
RollbackAnswered ==
    /\ edit.rollback.at = "ok"
    /\ Edits(UpdateCounter([edit EXCEPT !.stored = "none", !.rollback = NoRequest], edit.rollback.n))

\* The answer of fetchPendingCount(); an error leaves everything as it is.
FetchAnswered ==
    /\ edit.fetch.at = "ok"
    /\ Edits(UpdateCounter([edit EXCEPT !.fetch = NoRequest], edit.fetch.n))

\* readStoredManualApplyState() drops what was stored a quarter of an hour ago.
StoredExpires ==
    /\ edit.stored # "none"
    /\ Edits([edit EXCEPT !.stored = "none"])

----------------------------------------------------------------------------
(* The stream of events, and the page itself.                              *)

Endings == {"commit_done", "commit_failed", "needs_decision"}
EndingIn(evs) == \E i \in 1..Len(evs) : evs[i].type \in Endings

ReceiveEvent ==
    /\ events # <<>>
    /\ edit' = HandleActivity(edit, Head(events))
    /\ events' = Tail(events)
    /\ used' = IF Head(events).type \in {"commit_done", "commit_failed"} /\ edit.keep = NoRequest
               THEN [used EXCEPT !.missed = FALSE] ELSE used
    /\ UNCHANGED staged

\* Nothing is sent again after a lost connection.
DropStream ==
    /\ edit.up /\ used.lost < MaxLosses
    /\ edit' = [edit EXCEPT !.up = FALSE]
    /\ events' = <<>>
    /\ used' = [used EXCEPT !.lost = @ + 1, !.missed = @ \/ EndingIn(events)]
    /\ UNCHANGED staged

ReopenStream == ~edit.up /\ Edits([edit EXCEPT !.up = TRUE])

\* A reload shows the source again; what was stored of the apply stays.
ReloadPage ==
    /\ used.lost < MaxLosses
    /\ edit' = [NoEdits EXCEPT !.fetch = Sent(0), !.stored = edit.stored,
                               !.shown = staged.source, !.kept = staged.source]
    /\ events' = <<>>
    /\ used' = [used EXCEPT !.lost = @ + 1,
                            !.missed = @ \/ EndingIn(events)
                                         \/ edit.commit # NoRequest \/ edit.keep # NoRequest]
    /\ UNCHANGED staged

----------------------------------------------------------------------------
(* The helper server and the agent (external).                             *)

\* What is sent while the stream is down is lost, an ending too.
Announce(e, evs) ==
    /\ edit' = e
    /\ IF e.up THEN events' = events \o evs /\ Len(events') <= MaxEvents /\ UNCHANGED used
       ELSE used' = [used EXCEPT !.missed = @ \/ EndingIn(evs)] /\ UNCHANGED events

Event(type, n) == [type |-> type, n |-> n]
Answer(r, at, n, text) == [r EXCEPT !.at = at, !.n = n, !.text = text]

\* An error reaches a page that then only says so: the request is forgotten at once.
ServeSave ==
    /\ edit.save.at = "sent"
    /\ \/ Edits([edit EXCEPT !.save = NoRequest])
       \/ \E n \in 1..MaxStaged :
            /\ n \in {staged.n, staged.n + 1}
            /\ staged' = [staged EXCEPT !.n = n, !.text = edit.save.text]
            /\ Announce([edit EXCEPT !.save = Answer(@, "ok", n, @.text)], <<Event("stashed", n)>>)

ServeFetch ==
    /\ edit.fetch.at = "sent"
    /\ \/ Edits([edit EXCEPT !.fetch = NoRequest])
       \/ Edits([edit EXCEPT !.fetch = Answer(@, "ok", staged.n, 0)])

StartedEvent(repair) == Event(IF repair THEN "repair_started" ELSE "commit_started", staged.n)

\* No apply runs and none waits for a decision.
Resting == staged.apply \in {"idle", "rolled_back"}

\* An apply begins and its answer may be lost, or it is refused, or nothing was left to do.
ServeApply ==
    /\ edit.commit.at = "sent"
    /\ \/ Edits([edit EXCEPT !.commit.at = "failed"])
       \/ /\ Resting
          /\ Edits([edit EXCEPT !.commit = Answer(@, "ok", staged.n, 0)])
       \/ /\ Resting /\ staged.n > 0
          /\ staged' = [staged EXCEPT !.apply = "applying"]
          /\ \E at \in {"started", "failed"} :
               Announce([edit EXCEPT !.commit.at = at], <<StartedEvent(FALSE)>>)

ServeKeepFixing ==
    /\ edit.keep.at = "sent"
    /\ \/ /\ edit' = [edit EXCEPT !.keep.at = "failed"] /\ used' = [used EXCEPT !.missed = TRUE]
          /\ UNCHANGED <<staged, events>>
       \/ /\ staged.apply = "undecided"
          /\ staged' = [staged EXCEPT !.apply = "applying"]
          /\ Announce([edit EXCEPT !.keep.at = "ok"], <<StartedEvent(TRUE)>>)

ApplyElsewhere ==
    /\ Resting /\ staged.n > 0
    /\ staged' = [staged EXCEPT !.apply = "applying"]
    /\ Announce(edit, <<StartedEvent(FALSE)>>)

\* The agent reports a chunk, or a repair, of what it applies.
AgentReports ==
    /\ staged.apply = "applying"
    /\ events = <<>>
    /\ \E m \in {Event("chunk", 0), Event("chunk", 1), Event("repair", 0)} : Announce(edit, <<m>>)
    /\ UNCHANGED staged

\* The apply ends: n edits could not be written and stay staged.
ApplyEnds ==
    /\ staged.apply = "applying"
    /\ \/ \E n \in 0..staged.n :
            /\ staged' = [staged EXCEPT !.n = n, !.apply = "idle",
                                        !.source = IF n = 0 /\ staged.n > 0 THEN staged.text ELSE @]
            /\ Announce(edit, <<Event("commit_done", n)>>)
       \/ /\ staged' = [staged EXCEPT !.apply = "idle"]
          /\ Announce(edit, <<Event("commit_failed", 0)>>)
       \/ /\ staged' = [staged EXCEPT !.apply = "undecided"]
          /\ Announce(edit, <<Event("needs_decision", staged.n)>>)

ServeDiscard ==
    /\ edit.discard.at = "sent"
    /\ \/ Edits([edit EXCEPT !.discard = NoRequest])
       \/ /\ staged' = [staged EXCEPT !.n = 0, !.text = staged.source]
          /\ Announce([edit EXCEPT !.discard = Answer(@, "ok", 0, staged.source)],
                      <<Event("discarded", 0)>>)

ServeRollback ==
    /\ edit.rollback.at = "sent"
    /\ \/ Edits([edit EXCEPT !.rollback = NoRequest])
       \/ /\ staged.apply = "undecided"
          /\ staged' = [staged EXCEPT !.apply = "rolled_back"]
          /\ Announce([edit EXCEPT !.rollback = Answer(@, "ok", staged.n, 0)],
                      <<Event("rollback_done", 0)>>)

NextEdits ==
    \/ PickElement \/ EnterEditing \/ TypeText \/ EscapeText \/ CancelEditing \/ ClickOutside
    \/ TogglePick \/ SaveEdits \/ SaveAnswered
    \/ ClickApply \/ ApplyAnswered \/ ClickDiscard \/ DiscardAnswered
    \/ ClickKeepFixing \/ KeepFixingAnswered \/ ClickRollback \/ RollbackAnswered
    \/ FetchAnswered \/ StoredExpires
    \/ ReceiveEvent \/ DropStream \/ ReopenStream \/ ReloadPage
    \/ ServeSave \/ ServeFetch \/ ServeApply \/ ServeKeepFixing \/ ApplyElsewhere
    \/ AgentReports \/ ApplyEnds \/ ServeDiscard \/ ServeRollback

----------------------------------------------------------------------------

\* The agent gave up and the user was asked, and no apply has begun since.  Here the code does
\* freeze: an event or an answer that counts the edits hides the buttons of the decision.
Asked == staged.apply \in {"undecided", "rolled_back"}

\* Unless an ending or a request to keep fixing was lost on the way, controls are frozen only while
\* something will thaw them: the apply that runs, its ending, or the answer of the request that
\* freezes them.
NotFrozen ==
    edit.inFlight /\ ~used.missed =>
        \/ staged.apply = "applying" \/ EndingIn(events) \/ Asked
        \/ edit.commit # NoRequest \/ edit.keep # NoRequest

\* A text that is not being edited is the one last saved, restored or loaded.
TextKept == (~edit.rows /\ edit.save = NoRequest /\ ~edit.raced) => edit.shown = edit.kept

\* Copy edits settle: the overlay is frozen by an apply only while the apply runs or its end is on
\* the way (the comment above commit_done in handleManualEditActivity fears a picker "frozen
\* forever"), also when answers, events and applies of somebody else cross each other, and a
\* text left without saving is what it was, whichever way the editing was left.
EditsSettled == NotFrozen /\ TextKept
=============================================================================
