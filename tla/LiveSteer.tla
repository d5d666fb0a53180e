----------------------------- MODULE LiveSteer -----------------------------
(***************************************************************************)
(* The page chat of the live overlay (live-browser.js): a "steer" is a     *)
(* message about the whole page.  One is awaited at a time: the chat is    *)
(* locked from its submission to its end, which is an answer of the agent, *)
(* a failed request or two minutes of silence.  Voice input fills and      *)
(* submits the chat or the bar of a picked element.  The chat also takes   *)
(* the keyboard focus whenever nobody else needs it.  What moves the       *)
(* overlay between its modes is LiveVariants and LiveEdits.                *)
(***************************************************************************)
EXTENDS Integers, Sequences

CONSTANTS MaxSteers   \* steers sent

VARIABLES chat,    \* the page chat
          voice,   \* voice input
          steers   \* the steers on their way: requests, what the server knows, answers

steerVars == <<chat, voice, steers>>

Modes == {"PICKING", "CONFIGURING", "EDITING", "GENERATING"}
Silent == [engine |-> "none", ctx |-> "none", bar |-> FALSE]

\* awaited: the steers whose end the user has not been shown; posts: those whose POST has not
\* returned; taken: those of them the server has; failed: one has failed.
InitSteer ==
    /\ chat = [mode |-> "PICKING", locked |-> FALSE, request |-> 0, pending |-> 0, input |-> 0,
               focus |-> "page", suspended |-> FALSE,
               recover |-> FALSE, blurred |-> FALSE, timer |-> 0, hint |-> FALSE,
               awaited |-> {}]
    /\ voice = Silent
    /\ steers = [last |-> 0, text |-> <<>>, posts |-> {}, taken |-> {}, known |-> {},
                 answers |-> {}, failed |-> FALSE]

----------------------------------------------------------------------------
(* Focus.                                                                  *)

\* shouldFocusSteerChat()
ShouldFocusSteerChat(c) == c.mode \notin {"CONFIGURING", "EDITING"} /\ ~c.locked

\* shouldSteerAutoFocus(); the pause after a click only delays the timers below.
ShouldSteerAutoFocus(c) == ShouldFocusSteerChat(c) /\ ~c.suspended /\ c.focus # "field"

\* focus() on the chat's own input.
FocusPageChatInput(c) == [c EXCEPT !.focus = "steer"]

\* focusSteerChat(): the chat takes the focus by itself.
FocusSteerChat(c) ==
    IF ShouldSteerAutoFocus(c) THEN FocusPageChatInput(c) ELSE c

\* syncPageChatFocus()
SyncPageChatFocus(c) ==
    IF c.mode = "CONFIGURING" THEN [c EXCEPT !.focus = "configure"] ELSE FocusSteerChat(c)

\* The focus goes somewhere else: the input's blur handler arms its timer.
FocusTo(c, f) == [c EXCEPT !.focus = f, !.blurred = @ \/ c.focus = "steer"]

\* notePagePointerDown()
PressPage(f) ==
    /\ chat' = [FocusTo(chat, f) EXCEPT
                  !.suspended = @ \/ ShouldFocusSteerChat(chat)]
    /\ UNCHANGED <<voice, steers>>

\* The mouseup handler: a selection of page text, which is the browser's to know, keeps the focus away.
ReleasePage(selected) ==
    /\ ShouldFocusSteerChat(chat)
    /\ chat' = [chat EXCEPT !.suspended = selected, !.recover = @ \/ ~selected]
    /\ UNCHANGED <<voice, steers>>

\* The selectionchange handler.
SelectionChanges(selected) ==
    /\ ShouldFocusSteerChat(chat)
    /\ chat' = [chat EXCEPT !.suspended = selected, !.recover = @ \/ (chat.suspended /\ ~selected)]
    /\ UNCHANGED <<voice, steers>>

\* The timer of scheduleSteerFocusRecover(); it comes back while text is selected.
RecoverFires ==
    /\ chat.recover
    /\ LET c == [chat EXCEPT !.recover = FALSE]
           idle == chat.mode # "CONFIGURING" /\ ~chat.locked /\ voice.engine # "on" /\ chat.focus # "steer"
       IN  chat' = IF idle /\ ShouldFocusSteerChat(c) THEN SyncPageChatFocus(c) ELSE c
    /\ UNCHANGED <<voice, steers>>

\* The timer of the blur handler.
BlurFires ==
    /\ chat.blurred
    /\ LET c == [chat EXCEPT !.blurred = FALSE]
           idle == chat.mode # "CONFIGURING" /\ ~chat.locked /\ voice.engine # "on" /\ chat.focus # "steer"
       IN  chat' = IF idle THEN [c EXCEPT !.recover = TRUE] ELSE c
    /\ UNCHANGED <<voice, steers>>

----------------------------------------------------------------------------
(* Submitting and awaiting a steer.                                        *)

\* steerQueuedBehindGeneration() and syncSteerQueueHint(): the agent polls, or not (external).
SyncSteerQueueHint(c, polling) == [c EXCEPT !.hint = c.locked /\ ~polling /\ c.mode = "GENERATING"]

\* stopVoice(): the engine is released, so it ends without finishVoiceSession(); this makes the
\* flag voiceSuppressSubmit, which only that function reads, redundant.
StopVoice(v) == [v EXCEPT !.engine = "none", !.ctx = "none"]

\* unlockSteerChat(): an error brings the text back, and takes the focus.
UnlockSteerChat(c, text) ==
    LET open == [c EXCEPT !.timer = 0, !.locked = FALSE, !.request = 0, !.hint = FALSE,
                          !.input = text, !.pending = text]
    IN  IF text # 0 THEN FocusPageChatInput(open) ELSE SyncPageChatFocus(open)

\* lockSteerChat() and scheduleSteerAwaitTimeout()
LockSteerChat(c, i, polling) == SyncSteerQueueHint([c EXCEPT !.locked = TRUE, !.timer = i], polling)

\* submitSteerMessage() up to its request, by Enter, the button or the end of voice input.
Submitted(c, v) ==
    /\ voice' = StopVoice(v)
    /\ IF c.input = 0 \/ c.locked THEN chat' = c /\ UNCHANGED steers
       ELSE LET i == steers.last + 1
            IN  /\ i <= MaxSteers
                /\ \E b \in BOOLEAN :
                     chat' = LockSteerChat([c EXCEPT !.request = i, !.pending = c.input,
                                                     !.awaited = @ \cup {i}], i, b)
                /\ steers' = [steers EXCEPT !.last = i, !.text = Append(@, c.input),
                                            !.posts = @ \cup {i}]

SubmitSteerMessage == chat.focus = "steer" /\ ~chat.locked /\ Submitted(chat, voice)

\* The POST fails, or its answer is lost after the server took the steer, even one that has ended:
\* the chat is unlocked, whoever it is locked for by now.
PostFails(i) ==
    /\ i \in steers.posts
    /\ chat' = UnlockSteerChat([chat EXCEPT !.awaited = @ \ {i}], steers.text[i])
    /\ steers' = [steers EXCEPT !.posts = @ \ {i}, !.taken = @ \ {i}, !.failed = TRUE]
    /\ UNCHANGED voice

PostArrives(i) ==
    /\ i \in steers.posts \ steers.taken
    /\ steers' = [steers EXCEPT !.taken = @ \cup {i}, !.known = @ \cup {i}]
    /\ UNCHANGED <<chat, voice>>

PostAnswered(i) ==
    /\ i \in steers.posts \cap steers.taken
    /\ steers' = [steers EXCEPT !.posts = @ \ {i}, !.taken = @ \ {i}]
    /\ UNCHANGED <<chat, voice>>

\* The agent answers, in any order (external).
AgentAnswers(i, type) ==
    /\ i \in steers.known
    /\ steers' = [steers EXCEPT !.known = @ \ {i}, !.answers = @ \cup {[id |-> i, type |-> type]}]
    /\ UNCHANGED <<chat, voice>>

\* The stream loses an answer.
AnswerLost(m) ==
    /\ m \in steers.answers
    /\ steers' = [steers EXCEPT !.answers = @ \ {m}]
    /\ UNCHANGED <<chat, voice>>

\* Mutant: any answer unlocks the chat.
CompletesAny(c, m) == c.request # 0

\* The test of maybeCompleteSteer().
CompletesSteer(c, m) == c.request # 0 /\ m.id = c.request

\* maybeCompleteSteer()
MaybeCompleteSteer(m) ==
    /\ m \in steers.answers
    /\ steers' = [steers EXCEPT !.answers = @ \ {m}]
    /\ chat' = IF ~CompletesSteer(chat, m) THEN chat
               ELSE UnlockSteerChat([chat EXCEPT !.awaited = @ \ {m.id}],
                                    IF m.type = "error" THEN chat.pending ELSE 0)
    /\ UNCHANGED voice

\* Two minutes of silence.
SteerTimesOut ==
    /\ chat.timer # 0
    /\ chat' = IF ~chat.locked \/ chat.request # chat.timer THEN [chat EXCEPT !.timer = 0]
               ELSE UnlockSteerChat([chat EXCEPT !.awaited = @ \ {chat.timer}], chat.pending)
    /\ UNCHANGED <<voice, steers>>

\* syncAgentPollingUi(), every five seconds.
SyncAgentPolling(b) ==
    /\ chat' = SyncSteerQueueHint(chat, b)
    /\ UNCHANGED <<voice, steers>>

\* armPageChatForTyping(): a click on the chat.
ArmPageChat ==
    /\ ~chat.locked /\ chat' = FocusPageChatInput(chat)
    /\ UNCHANGED <<voice, steers>>

\* A text is named by the steer it is typed or spoken for.
NextText == {steers.last + 1} \cap 1..MaxSteers

TypeSteer(t) ==
    /\ chat.focus = "steer" /\ ~chat.locked /\ chat' = [chat EXCEPT !.input = t]
    /\ UNCHANGED <<voice, steers>>

\* Escape.
EscapeSteer ==
    /\ chat.focus = "steer" /\ ~chat.locked /\ chat' = [chat EXCEPT !.input = 0]
    /\ UNCHANGED <<voice, steers>>

----------------------------------------------------------------------------
(* Voice, and the mode of the overlay.                                     *)

\* startVoice(): an engine that has not begun to listen yet is replaced.
StartVoice(ctx) ==
    /\ voice.engine # "on"
    /\ IF ctx = "steer" THEN ~chat.locked /\ chat.mode # "CONFIGURING" ELSE chat.mode = "CONFIGURING"
    /\ voice' = [voice EXCEPT !.engine = "starting", !.ctx = ctx]
    /\ chat' = IF ctx = "steer" THEN chat ELSE FocusTo(chat, "configure")
    /\ UNCHANGED steers

\* The button again (toggleSteerVoice(), toggleConfigureVoice()), or rec.onerror.
VoiceStopped ==
    /\ voice.engine # "none" /\ voice' = StopVoice(voice)
    /\ UNCHANGED <<chat, steers>>

VoiceListens ==
    /\ voice.engine = "starting" /\ voice' = [voice EXCEPT !.engine = "on"]
    /\ UNCHANGED <<chat, steers>>

\* rec.onresult
VoiceHears(t) ==
    /\ voice.engine = "on"
    /\ IF voice.ctx = "steer" THEN chat' = [chat EXCEPT !.input = t] /\ UNCHANGED voice
       ELSE voice' = [voice EXCEPT !.bar = TRUE] /\ UNCHANGED chat
    /\ UNCHANGED steers

\* Leaving the bar of a picked element stops its voice (hideBar, handleGo).
Leave(mode) ==
    /\ voice' = [StopVoice(voice) EXCEPT !.bar = FALSE]
    /\ chat' = SyncPageChatFocus([FocusTo(chat, "page") EXCEPT !.mode = mode])
    /\ UNCHANGED steers

\* finishVoiceSession(): what was heard is submitted where it was meant for.
VoiceEnds ==
    /\ voice.engine = "on"
    /\ LET silent == [Silent EXCEPT !.bar = voice.bar]
           heard == IF voice.ctx = "steer" THEN chat.input # 0 ELSE voice.bar
       IN  \/ /\ ~heard
              /\ voice' = silent /\ UNCHANGED <<chat, steers>>
           \/ /\ heard /\ voice.ctx = "steer"
              /\ IF chat.locked THEN voice' = silent /\ UNCHANGED <<chat, steers>>
                 ELSE Submitted(chat, silent)
           \/ /\ heard /\ voice.ctx = "configure"
              /\ IF chat.mode = "CONFIGURING" THEN Leave("GENERATING")
                 ELSE voice' = silent /\ UNCHANGED <<chat, steers>>

\* The overlay enters or leaves another mode.
ModeChanges ==
    \/ /\ chat.mode = "PICKING"
       /\ chat' = SyncPageChatFocus([FocusTo(chat, "page") EXCEPT !.mode = "CONFIGURING"])
       /\ UNCHANGED <<voice, steers>>
    \/ chat.mode = "CONFIGURING" /\ \E m \in Modes \ {"CONFIGURING"} : Leave(m)
    \/ chat.mode \in {"EDITING", "GENERATING"} /\ Leave("PICKING")

NextSteer ==
    \/ \E f \in {"page", "field"} : PressPage(f)
    \/ \E b \in BOOLEAN : ReleasePage(b) \/ SelectionChanges(b) \/ SyncAgentPolling(b)
    \/ RecoverFires \/ BlurFires
    \/ ArmPageChat \/ EscapeSteer \/ SubmitSteerMessage \/ SteerTimesOut
    \/ \E t \in NextText : TypeSteer(t) \/ VoiceHears(t)
    \/ \E i \in 1..steers.last :
         \/ PostFails(i) \/ PostArrives(i) \/ PostAnswered(i)
         \/ \E type \in {"steer_done", "error"} : AgentAnswers(i, type)
    \/ \E m \in steers.answers : AnswerLost(m) \/ MaybeCompleteSteer(m)
    \/ \E ctx \in {"steer", "configure"} : StartVoice(ctx)
    \/ VoiceStopped \/ VoiceListens \/ VoiceEnds \/ ModeChanges

----------------------------------------------------------------------------

\* A locked chat has its steer, the timer that ends the waiting for it, and the text that would be
\* brought back, whichever end comes first; an open one has none of them.
LockedForOne ==
    /\ chat.locked => /\ chat.request # 0 /\ chat.timer = chat.request
                      /\ chat.pending = steers.text[chat.request]
                      /\ chat.request \in chat.awaited
    /\ ~chat.locked => chat.request = 0 /\ chat.timer = 0 /\ ~chat.hint

\* While no POST has failed, the user waits for the steer the chat is locked for and for no
\* other.  A POST that fails late unlocks the chat for the steer after it.
AwaitsOne == ~steers.failed => chat.awaited = IF chat.locked THEN {chat.request} ELSE {}

\* Voice never feeds a locked chat, nor a bar that is gone.
VoiceHasItsInput ==
    /\ voice.ctx = "steer" => ~chat.locked
    /\ voice.ctx = "configure" => chat.mode = "CONFIGURING"

\* Steers settle: the lock of the chat, its timer and its text belong to one steer however
\* submitSteerMessage, maybeCompleteSteer, the two-minute timer, the voice that submits and a failing
\* POST race each other, an answer ends no steer but its own, and what is heard goes to an input that
\* can take it.
SteersSettle == LockedForOne /\ AwaitsOne /\ VoiceHasItsInput
=============================================================================
