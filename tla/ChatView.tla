------------------------------ MODULE ChatView ------------------------------
(***************************************************************************)
(* A run seen from a browser.  The server appends the events of a run to   *)
(* its log and publishes them to the queue of every observer               *)
(* (src/agent/service.py, the WebSocket listener of src/main.py); the chat *)
(* page folds what arrives into run cards and into the controls of the     *)
(* composer (src/frontend/socket, src/frontend/hooks/chat).                *)
(*                                                                         *)
(* One project and one page.  Other pages of the project appear as runs    *)
(* admitted and stopped elsewhere.  A log only grows, so an event is named *)
(* by its run and its index and a history by the prefixes it read.         *)
(***************************************************************************)
EXTENDS Naturals, Sequences, SequencesExt, FiniteSets

CONSTANTS MaxRuns,      \* bound: runs of the project
          MaxEvents,    \* the activity budget of a run (200 in the code)
          HistoryLimit, \* the runs a history lists, newest first (10 in the code)
          QueueSize,    \* asyncio.Queue(maxsize=64) of an observer
          MaxFlight,    \* bound: messages a socket buffers before send_json waits
          MaxPosts,     \* bound: requests of the page
          MaxFaults     \* bound: sockets lost or refused, pages left, requests lost,
                        \* commits that fail or are not answered and restarts, together

ASSUME ChatAssumption ==
    /\ {MaxRuns, MaxEvents, HistoryLimit, QueueSize, MaxFlight} \subseteq Nat \ {0}
    /\ {MaxPosts, MaxFaults} \subseteq Nat

Runs == 1..MaxRuns
None == 0
Resync == [msg |-> "resync"]
Event(r, i) == [msg |-> "event", run |-> r, index |-> i]

VARIABLES log,       \* run_events rows of a run, by sequence
          status,    \* runs.status
          phase,     \* where admit(), execute() and cancel() stand with it
          cancelling,\* LiveRun.cancelling: the runs somebody has cancelled
          emitted    \* Len(LiveRun.events)
VARIABLES sock,      \* the page's socket
          queue,     \* the observer's asyncio.Queue on the server
          snap,      \* send_snapshot(): idle, due, or the history as far as it got
          down, up   \* in flight to the page; resync requests in flight to the server
VARIABLES cards,     \* messages: the card of each run
          terminal,  \* terminalRuns
          runId, isBuilding,
          post,      \* the POST that starts a run
          stop,      \* the POST that cancels a run
          posts, faults

serverVars == <<log, status, phase, cancelling, emitted>>
wireVars   == <<sock, queue, snap, down, up>>
viewVars   == <<cards, terminal, runId, isBuilding>>
userVars   == <<post, stop, posts>>
vars == <<serverVars, wireVars, viewVars, userVars, faults>>

\* "run_started" stands for every report without a tool, whose only mark is a card.
\* A row run_finished is named by the status in its payload; "stopped" stands for
\* every other outcome finish() is given.
Progress == {"run_started", "tool_started", "tool_completed"}
Outcomes == {"succeeded", "stopped"}
Kinds == Progress \cup Outcomes
Ended == Outcomes \cup {"interrupted"}
Statuses == {"none", "running"} \cup Ended
NoStop == [run |-> None, at |-> "no"]
NoCard == [status |-> "none", tool |-> "none"]
NoPost == [run |-> None, at |-> "no"]
Cards == [status : Statuses, tool : {"none", "running", "success", "error"}]
Events == [msg : {"event"}, run : Runs, index : 1..(MaxEvents + 1)]
Seen == [Runs -> [status : Statuses, rows : 0..(MaxEvents + 1)]]
Histories == [msg : {"history"}, runs : Seen]
Readings == [msg : {"read", "judged"}, runs : [Runs -> Statuses]]
Idle == [msg |-> "none"]
Due == [msg |-> "due"]

\* Phases of a run: "admitted" is committed and not registered; "live" to "stuck" are
\* in self.active (reporting; in finish() after a success or otherwise; past its
\* commit; past its failure; out of execute() by a cancellation; left there by
\* cancel()); "over" has left with a word to the observers, "silent" without one.
Phases == {"none", "admitted", "live", "ending", "stopped", "finished", "failed",
           "cancelled", "stuck", "over", "silent"}

\* The state of the server and of the page has the shape the code gives it.
TypeOK ==
    /\ log \in [Runs -> Seq(Kinds)]
    /\ status \in [Runs -> Statuses]
    /\ phase \in [Runs -> Phases] /\ cancelling \subseteq Runs
    /\ emitted \in [Runs -> 0..MaxEvents]
    /\ sock \in {"off", "authenticating", "live", "closed", "refused"}
    /\ queue \in Seq(Events \cup {Resync}) /\ Len(queue) <= QueueSize
    /\ snap \in {Idle, Due} \cup Readings \cup Histories
    /\ down \in Seq(Events \cup Histories) /\ Len(down) <= MaxFlight
    /\ up \in 0..MaxPosts
    /\ cards \in [Runs -> Cards]
    /\ terminal \subseteq Runs /\ runId \in Runs \cup {None} /\ isBuilding \in BOOLEAN
    /\ post \in [run : Runs \cup {None}, at : {"no", "sent", "admitting", "refused", "admitted"}]
    /\ stop \in {NoStop} \cup [run : Runs, at : {"sent", "waiting", "done"}]
    /\ posts \in 0..MaxPosts /\ faults \in 0..MaxFaults

Init ==
    /\ log = [r \in Runs |-> <<>>]
    /\ status = [r \in Runs |-> "none"]
    /\ phase = [r \in Runs |-> "none"] /\ cancelling = {}
    /\ emitted = [r \in Runs |-> 0]
    /\ sock = "off" /\ queue = <<>> /\ snap = Idle
    /\ down = <<>> /\ up = 0
    /\ cards = [r \in Runs |-> NoCard]
    /\ terminal = {} /\ runId = None /\ isBuilding = FALSE
    /\ post = NoPost /\ stop = NoStop
    /\ posts = 0 /\ faults = 0

----------------------------------------------------------------------------
(* The server: a run and its log.                                          *)

Observed == sock = "live"
wsConnected == sock \in {"authenticating", "live"}
Active(r) == phase[r] \notin {"none", "admitted", "over", "silent"}
Finished(r) == \E i \in 1..Len(log[r]) : log[r][i] \in Outcomes

\* Mutant: an event that does not fit is thrown away.
PublishedOrLost(event) ==
    queue' = IF Observed /\ Len(queue) < QueueSize THEN Append(queue, event) ELSE queue

\* publish(): a full queue is emptied and asks for a history instead.
Published(event) ==
    queue' = IF ~Observed THEN queue
             ELSE IF Len(queue) = QueueSize THEN <<Resync>>
             ELSE Append(queue, event)

\* admit(), up to its commit: one running request per project, behind one lock.
Admitted(r) ==
    /\ status[r] = "none"
    /\ \A q \in Runs : (q < r => status[q] # "none") /\ ~Active(q) /\ phase[q] # "admitted"
    /\ status' = [status EXCEPT ![r] = "running"]
    /\ phase' = [phase EXCEPT ![r] = "admitted"]
    /\ UNCHANGED <<log, cancelling, emitted>>

AdmitElsewhere(r) == Admitted(r) /\ UNCHANGED <<wireVars, viewVars, userVars, faults>>

Answers(r, at) == post' = IF post.run = r THEN [post EXCEPT !.at = at] ELSE post

\* admit() after its commit: self.active and the task.
Register(r) ==
    /\ phase[r] = "admitted"
    /\ phase' = [phase EXCEPT ![r] = "live"]
    /\ Answers(r, "admitted")
    /\ UNCHANGED <<log, status, cancelling, emitted, wireVars, viewVars, stop, posts, faults>>

\* The commit took effect and its answer was lost: nobody executes the row.
AdmitFails(r) ==
    /\ phase[r] = "admitted" /\ faults < MaxFaults
    /\ faults' = faults + 1
    /\ phase' = [phase EXCEPT ![r] = "silent"]
    /\ Answers(r, "refused")
    /\ UNCHANGED <<log, status, cancelling, emitted, wireVars, viewVars, stop, posts>>

\* What run_editor reports next: one tool call stands for all of a run.
MayReport(r, kind) ==
    LET told == Range(log[r])
    IN  CASE kind = "run_started" -> log[r] = <<>>
          [] kind = "tool_started" -> log[r] # <<>> /\ "tool_started" \notin told
          [] kind = "tool_completed" -> "tool_started" \in told /\ "tool_completed" \notin told
          [] OTHER -> FALSE

\* emit(), up to the commit of its row.
EmitCommit(r, kind) ==
    /\ phase[r] = "live" /\ emitted[r] = Len(log[r]) /\ emitted[r] < MaxEvents
    /\ MayReport(r, kind)
    /\ log' = [log EXCEPT ![r] = Append(@, kind)]
    /\ UNCHANGED <<status, phase, cancelling, emitted, wireVars, viewVars, userVars, faults>>

\* emit(), after the commit.
EmitPublish(r) ==
    /\ phase[r] = "live" /\ emitted[r] < Len(log[r])
    /\ emitted' = [emitted EXCEPT ![r] = Len(log[r])]
    /\ Published(Event(r, Len(log[r])))
    /\ UNCHANGED <<log, status, phase, cancelling, sock, snap, down, up, viewVars, userVars,
                   faults>>

\* run_editor returns.
Complete(r) ==
    /\ phase[r] = "live" /\ log[r] # <<>> /\ emitted[r] = Len(log[r])
    /\ phase' = [phase EXCEPT ![r] = "ending"]
    /\ UNCHANGED <<log, status, cancelling, emitted, wireVars, viewVars, userVars, faults>>

\* The time limit or an error of the run: either may land after the commit of emit().
GiveUp(r) ==
    /\ phase[r] = "live"
    /\ phase' = [phase EXCEPT ![r] = "stopped"]
    /\ UNCHANGED <<log, status, cancelling, emitted, wireVars, viewVars, userVars, faults>>

\* cancel(), up to its wait: once per run, wherever the task stands.  execute() ends the
\* run if it is still reporting or collects diagnostics; before its first step and in the
\* rest of its finally block the cancellation goes through and leaves it in self.active.
Cancelled(r) ==
    /\ Active(r) /\ r \notin cancelling
    /\ cancelling' = cancelling \cup {r}
    /\ \/ phase[r] \in {"live", "stopped"} /\ phase' = [phase EXCEPT ![r] = "stopped"]
       \/ /\ phase[r] # "live" \/ log[r] = <<>>
          /\ phase' = [phase EXCEPT ![r] = "cancelled"]
    /\ UNCHANGED <<log, status, emitted>>

CancelElsewhere(r) == Cancelled(r) /\ UNCHANGED <<wireVars, viewVars, userVars, faults>>

\* Mutant: the next number of the events kept in memory.
MemorySequence(r) == emitted[r] + 1

\* finish() takes the terminal sequence from the rows.
TerminalSequence(r) == Len(log[r]) + 1

\* self.active.pop(), and the LiveRun is gone.
Left(r, word) ==
    /\ phase' = [phase EXCEPT ![r] = word]
    /\ cancelling' = cancelling \ {r} /\ emitted' = [emitted EXCEPT ![r] = 0]

\* Who is in finish(), and with which outcome: execute(), or cancel() after it.
Finishing(r) == phase[r] \in {"ending", "stopped", "cancelled"}
Outcome(r) == IF phase[r] = "ending" THEN "succeeded" ELSE "stopped"

\* The transaction of finish(); (run_id, sequence) is the primary key of a row.
FinishCommit(r) ==
    /\ Finishing(r) /\ status[r] = "running"
    /\ TerminalSequence(r) > Len(log[r])
    /\ status' = [status EXCEPT ![r] = Outcome(r)]
    /\ log' = [log EXCEPT ![r] = Append(@, Outcome(r))]

Finish(r) ==
    /\ FinishCommit(r)
    /\ phase' = [phase EXCEPT ![r] = "finished"]
    /\ UNCHANGED <<cancelling, emitted, wireVars, viewVars, userVars, faults>>

\* finish() finds that the run has ended already and returns without a word.
FinishReturns(r) ==
    /\ Finishing(r) /\ status[r] # "running"
    /\ Left(r, "silent")
    /\ UNCHANGED <<log, status, wireVars, viewVars, userVars, faults>>

\* finish() raises: its rows clash, or the database failed before or after the commit.
\* execute() handles that; cancel() does not, and the run stays in self.active.
FinishFails(r) ==
    /\ \/ /\ Finishing(r) /\ status[r] = "running"
          /\ TerminalSequence(r) <= Len(log[r])
          /\ UNCHANGED <<log, status, faults>>
       \/ /\ Finishing(r) /\ faults < MaxFaults
          /\ faults' = faults + 1
          /\ FinishCommit(r) \/ UNCHANGED <<log, status>>
    /\ phase' = [phase EXCEPT ![r] = IF @ = "cancelled" THEN "stuck" ELSE "failed"]
    /\ UNCHANGED <<cancelling, emitted, wireVars, viewVars, userVars>>

\* Tell the observers, leave self.active.
FinishPublish(r) ==
    /\ \/ phase[r] = "finished" /\ Published(Event(r, Len(log[r])))
       \/ phase[r] = "failed" /\ Published(Resync)
    /\ Left(r, "over")
    /\ UNCHANGED <<log, status, sock, snap, down, up, viewVars, userVars, faults>>

\* A snapshot() for somebody else, judging as SnapshotJudge below does.  It may have read
\* the row and missed the run in self.active before the run was registered, so its update
\* can come at any moment after the commit of admit().
SnapshotElsewhere(r) ==
    /\ phase[r] # "none"
    /\ status' = [status EXCEPT ![r] = "interrupted"]
    /\ UNCHANGED <<log, phase, cancelling, emitted, wireVars, viewVars, userVars, faults>>

\* A socket is gone with everything in it, and so is its subscription.
WireDown(s) ==
    /\ sock' = s
    /\ queue' = <<>> /\ snap' = Idle /\ down' = <<>> /\ up' = 0

\* The process restarts: startup() interrupts what was running, and no socket survives.
Restart ==
    /\ faults < MaxFaults
    /\ faults' = faults + 1
    /\ phase' = [r \in Runs |-> IF phase[r] = "none" THEN "none" ELSE "over"]
    /\ status' = [r \in Runs |-> IF status[r] = "running" THEN "interrupted" ELSE status[r]]
    /\ WireDown(IF wsConnected THEN "off" ELSE sock)
    /\ post' = IF post.at = "admitting" THEN [post EXCEPT !.at = "refused"] ELSE post
    /\ cancelling' = {} /\ emitted' = [r \in Runs |-> 0]
    /\ UNCHANGED <<log, viewVars, stop, posts>>

----------------------------------------------------------------------------
(* The WebSocket listener.                                                 *)

\* Mutant: the connection begins with the events to come.
AuthenticateOnly ==
    /\ sock = "authenticating"
    /\ sock' = "live" /\ snap' = Idle
    /\ UNCHANGED <<queue, down, up, serverVars, viewVars, userVars, faults>>

\* The first frame names the owner of the project: subscribe, then send a history.
Authenticate ==
    /\ sock = "authenticating"
    /\ sock' = "live" /\ snap' = Due
    /\ UNCHANGED <<queue, down, up, serverVars, viewVars, userVars, faults>>

\* snapshot() reads the newest rows ...
Listed(r) == \A q \in Runs : q >= r + HistoryLimit => status[q] = "none"

SnapshotRead ==
    /\ snap = Due
    /\ snap' = [msg |-> "read",
                runs |-> [r \in Runs |-> IF Listed(r) THEN status[r] ELSE "none"]]
    /\ UNCHANGED <<sock, queue, down, up, serverVars, viewVars, userVars, faults>>

\* ... takes those that were running and are not in self.active for interrupted ...
SnapshotJudge ==
    /\ snap.msg = "read"
    /\ snap' = [msg |-> "judged",
                runs |-> [r \in Runs |-> IF snap.runs[r] = "running" /\ ~Active(r)
                                         THEN "interrupted" ELSE snap.runs[r]]]
    /\ UNCHANGED <<sock, queue, down, up, serverVars, viewVars, userVars, faults>>

\* ... and writes that over whatever they are by then, before it reads their events.
\* At most one of the rows belongs to a run that has not ended, so the rows are read,
\* judged and written at one moment each.
SnapshotWrite ==
    /\ snap.msg = "judged"
    /\ status' = [r \in Runs |-> IF snap.runs[r] = "interrupted" THEN "interrupted"
                                 ELSE status[r]]
    /\ snap' = [msg |-> "history",
                runs |-> [r \in Runs |->
                    [status |-> snap.runs[r],
                     rows |-> IF snap.runs[r] = "none" THEN 0 ELSE Len(log[r])]]]
    /\ UNCHANGED <<log, phase, cancelling, emitted, sock, queue, down, up, viewVars, userVars,
                   faults>>

SnapshotSend ==
    /\ snap.msg = "history" /\ Len(down) < MaxFlight
    /\ down' = Append(down, snap)
    /\ snap' = Idle
    /\ UNCHANGED <<sock, queue, up, serverVars, viewVars, userVars, faults>>

\* send(): the head of the queue goes out, or orders a history.  One task does
\* both, so nothing overtakes a history that is being read.
SendNext ==
    /\ Observed /\ snap = Idle /\ queue # <<>>
    /\ \/ /\ Head(queue) = Resync
          /\ snap' = Due /\ UNCHANGED down
       \/ /\ Head(queue) # Resync /\ Len(down) < MaxFlight
          /\ down' = Append(down, Head(queue)) /\ UNCHANGED snap
    /\ queue' = Tail(queue)
    /\ UNCHANGED <<sock, up, serverVars, viewVars, userVars, faults>>

\* receive(): a request waits for room in the queue.
ReceiveResync ==
    /\ Observed /\ up > 0 /\ Len(queue) < QueueSize
    /\ up' = up - 1
    /\ queue' = Append(queue, Resync)
    /\ UNCHANGED <<sock, snap, down, serverVars, viewVars, userVars, faults>>

----------------------------------------------------------------------------
(* The page: folding events into cards.                                    *)

Card(card) == IF card.status = "none" THEN [card EXCEPT !.status = "running"] ELSE card

\* The card with a run_finished: a tool without a result fails with its run.
End(card, outcome) ==
    [card EXCEPT !.status = outcome, !.tool = IF @ = "running" THEN "error" ELSE @]

\* Mutant: a replayed start replaces the result of its tool.
ApplyStartAgain(card, kind) ==
    CASE kind = "tool_started" -> [Card(card) EXCEPT !.tool = "running"]
      [] kind = "tool_completed" -> [Card(card) EXCEPT !.tool = "success"]
      [] kind \in Outcomes -> End(card, kind)
      [] OTHER -> Card(card)

\* applyRunEvent(): a replayed start changes nothing.
ApplyRunEvent(card, kind) ==
    CASE kind = "tool_started" ->
            IF card.tool # "none" THEN card ELSE [Card(card) EXCEPT !.tool = "running"]
      [] kind = "tool_completed" -> [Card(card) EXCEPT !.tool = "success"]
      [] kind \in Outcomes -> End(card, kind)
      [] OTHER -> Card(card)

\* restoreRuns(): the card after each of a run's rows, in order ...
Told(r, seen) ==
    LET told[i \in 0..seen.rows] ==
            IF i = 0 THEN NoCard ELSE ApplyRunEvent(told[i - 1], log[r][i])
    IN  told

\* ... and the end of a run that has no row for it.
RestoreRun(r, seen) ==
    LET card == Told(r, seen)[seen.rows]
    IN  IF seen.status \in Ended /\ card.status \notin Ended THEN End(card, seen.status)
        ELSE card

\* handleWebSocketMessage(), a history.
TakeHistory(history) ==
    LET running == {r \in Runs : history[r].status = "running"}
    IN  /\ terminal' = terminal \cup {r \in Runs : history[r].status \in Ended}
        /\ cards' = [r \in Runs |-> RestoreRun(r, history[r])]
        /\ isBuilding' = (running # {})
        /\ runId' = IF running = {} THEN None ELSE CHOOSE r \in running : TRUE

Ignored(r) == r \in terminal

\* handleWebSocketMessage(), an event; an ended run's are ignored.
TakeEvent(r, i) ==
    LET kind == log[r][i]
    IN  IF Ignored(r) THEN UNCHANGED viewVars
        ELSE /\ cards' = [cards EXCEPT ![r] = ApplyRunEvent(@, kind)]
             /\ terminal' = IF kind \in Outcomes THEN terminal \cup {r} ELSE terminal
             /\ runId' = CASE kind \in {"run_started", "tool_started"} -> r
                           [] kind \in Outcomes -> None
                           [] OTHER -> runId
             /\ isBuilding' = CASE kind \in {"run_started", "tool_started"} -> TRUE
                                [] kind \in Outcomes -> FALSE
                                [] OTHER -> isBuilding

\* ws.onmessage of the current socket.
OnMessage ==
    /\ down # <<>>
    /\ down' = Tail(down)
    /\ IF Head(down).msg = "event" THEN TakeEvent(Head(down).run, Head(down).index)
                                    ELSE TakeHistory(Head(down).runs)
    /\ UNCHANGED <<sock, queue, snap, up, serverVars, userVars, faults>>

----------------------------------------------------------------------------
(* The page: its socket.                                                   *)

\* connect(), at once or when the retry timer fires, and ws.onopen.
Connect ==
    /\ sock = "off" /\ sock' = "authenticating"
    /\ UNCHANGED <<queue, snap, down, up, serverVars, viewVars, userVars, faults>>

\* ws.onclose: try again later.
OnClose ==
    /\ wsConnected /\ faults < MaxFaults
    /\ faults' = faults + 1
    /\ WireDown("off")
    /\ UNCHANGED <<serverVars, viewVars, post, stop, posts>>

\* The listener closes with 1008: ask over HTTP, which may renew the token.
OnRefused ==
    /\ sock = "authenticating" /\ faults < MaxFaults
    /\ faults' = faults + 1
    /\ WireDown("closed")
    /\ UNCHANGED <<serverVars, viewVars, post, stop, posts>>

\* The same session has a new token, or there is nothing left to try.
AfterRefusal ==
    /\ sock = "closed"
    /\ \/ sock' = "off" /\ UNCHANGED isBuilding
       \/ sock' = "refused" /\ isBuilding' = FALSE
    /\ UNCHANGED <<queue, snap, down, up, cards, terminal, runId, serverVars, userVars, faults>>

\* The page is left and opened again: the effect's cleanup and its next setup.
Reopen ==
    /\ faults < MaxFaults /\ faults' = faults + 1
    /\ WireDown("off")
    /\ cards' = [r \in Runs |-> NoCard]
    /\ terminal' = {} /\ runId' = None /\ isBuilding' = FALSE
    /\ post' = NoPost /\ stop' = NoStop
    /\ UNCHANGED <<posts, serverVars>>

----------------------------------------------------------------------------
(* The page: its composer.                                                 *)

\* A request of the page asks the open socket for a history.
AskResync == up' = IF wsConnected THEN up + 1 ELSE up

\* ChatInput submits and handleSendMessage posts.
SendMessage ==
    /\ wsConnected /\ ~isBuilding /\ post = NoPost /\ posts < MaxPosts
    /\ posts' = posts + 1
    /\ post' = [NoPost EXCEPT !.at = "sent"] /\ isBuilding' = TRUE
    /\ UNCHANGED <<serverVars, wireVars, cards, terminal, runId, stop, faults>>

\* The server's side of it: admitted or refused.
StartArrives ==
    /\ post.at = "sent"
    /\ \/ \E r \in Runs : Admitted(r) /\ post' = [run |-> r, at |-> "admitting"]
       \/ post' = [NoPost EXCEPT !.at = "refused"] /\ UNCHANGED serverVars
    /\ UNCHANGED <<wireVars, viewVars, stop, posts, faults>>

StartAnswered ==
    /\ post.at = "admitted"
    /\ runId' = post.run /\ post' = NoPost
    /\ AskResync
    /\ UNCHANGED <<serverVars, sock, queue, snap, down, cards, terminal, isBuilding,
                   stop, posts, faults>>

\* The request is refused, or it or its answer is lost.
StartFailed ==
    /\ \/ post.at = "refused" /\ UNCHANGED faults
       \/ post.at # "no" /\ faults < MaxFaults /\ faults' = faults + 1
    /\ post' = NoPost /\ isBuilding' = FALSE
    /\ UNCHANGED <<serverVars, wireVars, cards, terminal, runId, stop, posts>>

\* The Stop button and handleCancel.
CancelRun ==
    /\ isBuilding /\ runId # None /\ stop = NoStop /\ posts < MaxPosts
    /\ posts' = posts + 1
    /\ stop' = [run |-> runId, at |-> "sent"]
    /\ UNCHANGED <<serverVars, wireVars, viewVars, post, faults>>

\* The run is cancelled and waited for, unless it has left self.active or somebody
\* else has cancelled it.
CancelArrives ==
    /\ stop.at = "sent"
    /\ \/ Cancelled(stop.run) /\ stop' = [stop EXCEPT !.at = "waiting"]
       \/ /\ ~Active(stop.run) \/ stop.run \in cancelling
          /\ UNCHANGED serverVars
          /\ stop' = [stop EXCEPT !.at = "done"]
    /\ UNCHANGED <<wireVars, viewVars, post, posts, faults>>

CancelReturns ==
    /\ stop.at = "waiting" /\ ~Active(stop.run)
    /\ stop' = [stop EXCEPT !.at = "done"]
    /\ UNCHANGED <<serverVars, wireVars, viewVars, post, posts, faults>>

CancelAnswered ==
    /\ stop.at = "done"
    /\ stop' = NoStop
    /\ isBuilding' = FALSE /\ runId' = None
    /\ AskResync
    /\ UNCHANGED <<serverVars, sock, queue, snap, down, cards, terminal, post, posts, faults>>

\* The request or its answer is lost: the page only shows an error.
CancelFailed ==
    /\ stop # NoStop /\ faults < MaxFaults
    /\ faults' = faults + 1
    /\ stop' = NoStop
    /\ UNCHANGED <<serverVars, wireVars, viewVars, post, posts>>

----------------------------------------------------------------------------
\* What the task of a run goes through, from admit() to its end ...
RunTask(r) ==
    \/ Register(r) \/ AdmitFails(r) \/ EmitPublish(r) \/ Complete(r) \/ GiveUp(r)
    \/ Finish(r) \/ FinishReturns(r) \/ FinishFails(r) \/ FinishPublish(r)

RunStep(r) ==
    \/ AdmitElsewhere(r) \/ CancelElsewhere(r) \/ SnapshotElsewhere(r)
    \/ \E kind \in Progress : EmitCommit(r, kind)

\* ... the task that sends to the page, the page itself, and its two requests.
SendTask ==
    \/ SnapshotRead \/ SnapshotJudge \/ SnapshotWrite \/ SnapshotSend \/ SendNext

PageTask == OnMessage \/ Connect \/ Authenticate \/ AfterRefusal

StartRequest == StartArrives \/ StartAnswered \/ StartFailed
CancelRequest == CancelArrives \/ CancelReturns \/ CancelAnswered \/ CancelFailed

Next ==
    \/ \E r \in Runs : RunTask(r) \/ RunStep(r)
    \/ SendTask \/ ReceiveResync \/ PageTask
    \/ SendMessage \/ StartRequest \/ CancelRun \/ CancelRequest
    \/ OnClose \/ OnRefused \/ Reopen \/ Restart

\* What every task, connection and request keeps doing: the event loop runs its ready
\* tasks and a run ends, TCP delivers or the socket closes, the retry timer fires, an
\* HTTP request is answered or times out.
Fairness ==
    /\ \A r \in Runs : WF_vars(RunTask(r))
    /\ WF_vars(SendTask) /\ WF_vars(ReceiveResync) /\ WF_vars(PageTask)
    /\ WF_vars(StartRequest) /\ WF_vars(CancelRequest)

Spec == Init /\ [][Next]_vars /\ Fairness

----------------------------------------------------------------------------
(* Properties.                                                             *)

\* Nothing is on its way between the server and the page.
Quiet ==
    /\ sock = "live" /\ snap = Idle /\ queue = <<>> /\ down = <<>> /\ up = 0
    /\ post = NoPost /\ stop = NoStop
    /\ \A r \in Runs : ~Active(r)

\* How a run ended: as its terminal row says, and as its status says without one.
EndedAs(r) == IF Finished(r) THEN log[r][Len(log[r])] ELSE status[r]

\* Once everything has been delivered, an end the page shows is the one on record, the
\* runs whose end was announced are shown ended, and the Stop button stays only for a
\* run that ended unannounced: whatever was lost to a full queue, repeated by a history
\* or judged by an old read has been made up for.
QuietViewAgrees ==
    Quiet => /\ \A r \in Runs :
                  /\ cards[r].status \in Ended => cards[r].status = EndedAs(r)
                  /\ phase[r] = "over" /\ Listed(r) => cards[r].status \in Ended
             /\ isBuilding => /\ runId # None
                              /\ phase[runId] = "over" => ~Listed(runId)

\* finish() fails only with the database: wherever a cancellation lands, in an event
\* that was committed and forgotten, in finish() itself or before it, a run leaves
\* self.active with one terminal row, its last, unless a snapshot interrupted it first.
\* The state keeps its shape meanwhile, the observer's queue its limit.
CutKeepsOutcome ==
    /\ TypeOK
    /\ faults = 0 => \A r \in Runs :
         /\ phase[r] \notin {"failed", "stuck"}
         /\ phase[r] \in {"finished", "over", "silent"} =>
              Finished(r) \/ status[r] = "interrupted"
         /\ Finished(r) => status[r] \in {log[r][Len(log[r])], "interrupted"}
         /\ \A i \in 1..Len(log[r]) : log[r][i] \in Outcomes => i = Len(log[r])

\* An ended run is never shown as running again or with another end, nor a finished
\* tool without its result, by a late event, a replay or a history that was read
\* earlier; only a new visit, or a history without the run, takes its card away.
NeverUntold ==
    [][\A r \in Runs :
        \/ cards'[r] = NoCard /\ (faults' > faults \/ ~Listed(r))
        \/ /\ cards[r].status \in Ended => cards'[r].status = cards[r].status
           /\ cards[r].tool = "success" => cards'[r].tool = "success"]_vars

\* The announced end of a run reaches the page, and so does any other with its next
\* connection, unless the page was left without access.
EndIsTold ==
    \A r \in Runs :
        (phase[r] = "over" \/ (phase[r] = "silent" /\ sock = "authenticating"))
        ~> (cards[r].status = EndedAs(r) \/ sock = "refused" \/ ~Listed(r))

----------------------------------------------------------------------------
(* The inductive invariant.                                                *)

\* A run's rows, its status and its task fit together: a terminal row is the last, comes
\* with its status, and only "interrupted" is ever written over that.
RunSound(r) ==
    /\ phase[r] = "none" <=> status[r] = "none"
    /\ status[r] = "none" => log[r] = <<>>
    /\ phase[r] = "finished" => Finished(r)
    /\ phase[r] \in {"admitted", "live", "ending", "stopped"} \/ status[r] = "running" =>
         ~Finished(r)
    /\ status[r] \in Outcomes => Finished(r) /\ status[r] = EndedAs(r)
    /\ emitted[r] <= Len(log[r]) /\ Len(log[r]) <= MaxEvents + 1
    /\ ~Finished(r) => Len(log[r]) <= MaxEvents
    /\ \A i \in 1..Len(log[r]) : log[r][i] \in Outcomes => i = Len(log[r])

\* Without a fault the end of a run is on record before its task is over.
RunEndsWell(r) ==
    faults = 0 => /\ phase[r] \notin {"failed", "stuck"}
                  /\ phase[r] \in {"finished", "over", "silent"} =>
                       Finished(r) \/ status[r] = "interrupted"

\* Every request for a history is a POST of the page that was answered.
AsksCounted ==
    up + (IF post = NoPost THEN 0 ELSE 1) + (IF stop = NoStop THEN 0 ELSE 1) <= posts

Sent == Range(down)
Waiting == Range(queue)
InFlight == {h \in Sent \cup {snap} : h.msg \in {"read", "judged", "history"}}
Coming == {m \in Sent \cup Waiting : m.msg = "event"}

\* What a history tells of a run, and one that is being read would tell now.
Tells(h, r) ==
    IF h.msg = "history" THEN h.runs[r]
    ELSE [status |-> h.runs[r], rows |-> IF h.runs[r] = "none" THEN 0 ELSE Len(log[r])]

\* How far a message takes the page with run r, and whether to its end.
Reaches(m, r) ==
    IF m.msg # "event" THEN Tells(m, r).rows ELSE IF m.run = r THEN m.index ELSE 0
Ends(m, r) ==
    IF m.msg # "event" THEN Tells(m, r).status \in Ended
    ELSE m.run = r /\ log[r][m.index] \in Outcomes

\* What is in flight is true, though old: an end that a history tells is the end there is.
MessagesSound ==
    /\ \A m \in Coming : m.index <= Len(log[m.run])
    /\ \A h \in InFlight, r \in Runs :
         LET seen == Tells(h, r)
         IN  /\ seen.rows <= Len(log[r]) /\ (seen.status = "none" => seen.rows = 0)
             /\ seen.status # "none" => status[r] # "none"
             /\ seen.status \in Outcomes => Finished(r) /\ seen.status = EndedAs(r)
             /\ h.msg = "history" /\ seen.status \in Ended =>
                  status[r] \in Ended /\ (Finished(r) => seen.rows = Len(log[r]))

\* A history that leaves out a run because of its limit ...
Omits(h, r) == Tells(h, r).status = "none" /\ ~Listed(r)

\* ... and otherwise knows at least what was sent before it ...
Newer(h, m) ==
    \A r \in Runs : ~Omits(h, r) => /\ Reaches(m, r) <= Tells(h, r).rows
                                    /\ Ends(m, r) => Ends(h, r)

\* ... and what the page shows already.
HasRow(h, r, kinds) == \E i \in 1..Tells(h, r).rows : log[r][i] \in kinds
Known(h) ==
    \A r \in Runs : ~Omits(h, r) =>
        /\ r \in terminal => Ends(h, r)
        /\ cards[r].status \in Ended => Ends(h, r) \/ HasRow(h, r, Outcomes)
        /\ cards[r].tool = "success" => HasRow(h, r, {"tool_completed"})

HistoriesInOrder ==
    /\ \A h \in InFlight : Known(h)
    /\ \A i, j \in 1..Len(down) : i < j /\ down[j].msg = "history" => Newer(down[j], down[i])
    /\ snap \in InFlight => \A m \in Sent : Newer(snap, m)

\* The page shows an end only of a run that has it, and keeps it while it is told of the run.
CardSound(r) ==
    /\ cards[r].status \in Ended => status[r] \in Ended /\ cards[r].status = EndedAs(r)
    /\ r \in terminal => status[r] \in Ended /\ (Listed(r) => cards[r].status \in Ended)
    /\ cards[r].tool = "success" => \E i \in 1..Len(log[r]) : log[r][i] = "tool_completed"

\* The server will still read a history for the page.
HistoryOwed == up > 0 \/ snap = Due \/ Resync \in Waiting

\* A page that is owed nothing has been told, or is being told, of every announced end:
\* a run that was read as running and is over by now will be judged ...
EndComes(r) ==
    phase[r] = "over" /\ Listed(r) =>
        r \in terminal \/ \E m \in Coming \cup InFlight :
                              Ends(m, r) \/ (m.msg = "read" /\ m.runs[r] = "running")

\* ... and, once it knows, its composer waits for a run whose end it has not been told.
ComposerFollows ==
    InFlight = {} =>
        /\ isBuilding /\ post = NoPost => runId # None
        /\ runId \notin terminal

\* A socket that is not open has nothing on its way.
Disconnected == sock # "live" => queue = <<>> /\ snap = Idle /\ down = <<>>

\* An open one that is owed no history is up to date, or will be.
LiveFollows == sock = "live" /\ ~HistoryOwed => ComposerFollows /\ \A r \in Runs : EndComes(r)

ChatInv ==
    /\ TypeOK /\ AsksCounted /\ MessagesSound /\ HistoriesInOrder
    /\ \A r \in Runs : RunSound(r) /\ RunEndsWell(r) /\ CardSound(r)
    /\ Disconnected /\ LiveFollows
=============================================================================
