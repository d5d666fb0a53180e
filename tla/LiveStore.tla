----------------------------- MODULE LiveStore -----------------------------
(***************************************************************************)
(* Which session a page of the live overlay works on (live-browser.js).    *)
(* The browser's storage (live-browser-session.js) keeps the session at    *)
(* work and the ids of the sessions that are finished; it belongs to an    *)
(* origin, so tabs share it, and projects that use one port after another. *)
(* A page takes a session up from the storage, from the markup it finds,   *)
(* at once or when the framework adds it later, and from the list of the   *)
(* server.  Markup can be of any session of the page's project: the agent  *)
(* takes it out some time after the end, and a dev server may answer with  *)
(* what it built before.  The server and the agent are external; a mounted *)
(* component's own wrapper, which changes nothing here, is left out.       *)
(***************************************************************************)
EXTENDS Integers, Sequences, FiniteSets
LOCAL INSTANCE SequencesExt

CONSTANTS Tabs,
          Roots,          \* projects
          HandledLimit,   \* ids of finished sessions that are kept
          MaxStored,      \* sessions ever started
          MaxLoads        \* page loads after the first

ASSUME StoreBounds == HandledLimit > 0 /\ MaxStored > 0 /\ MaxLoads \in Nat

VARIABLES store,    \* the storage: the session, and the ids of finished sessions, oldest first
          pages,    \* the page of each tab
          started,  \* the project of each session that was started
          past      \* the sessions finished since ids were last dropped, in order; page loads

storeVars == <<store, pages, started, past>>

NoSession == 0
Stored(id, root, open) == [id |-> id, appRoot |-> root, open |-> open]
NoneStored == Stored(NoSession, "none", FALSE)
Handled(id) == Contains(store.handled, id)
Project(root) == {s \in DOMAIN started : started[s] = root}

\* A page just loaded. open: its state is GENERATING or CYCLING; scout: it waits for markup; asked: the
\* end it asked of the server; back: it took up a session that was finished, and not long ago.
NewPage(root) == [cur |-> NoSession, root |-> root, up |-> TRUE, open |-> FALSE, scout |-> FALSE,
                  asked |-> "none", back |-> FALSE]

----------------------------------------------------------------------------
(* The storage.                                                            *)

\* saveSession()
SaveSession(st, page) ==
    IF page.cur = NoSession THEN st
    ELSE [st EXCEPT !.session = Stored(page.cur, page.root, page.open)]

ClearSession(st) == [st EXCEPT !.session = NoneStored]

\* Mutant: the oldest ids are kept.
MarkHandledOldest(handled, id) ==
    LET ids == Append(SelectSeq(handled, LAMBDA x : x # id), id)
    IN  IF Len(ids) > HandledLimit THEN SubSeq(ids, 1, HandledLimit) ELSE ids

\* markHandled(): the id moves to the end, and the list is bounded.
MarkHandled(handled, id) ==
    LET ids == Append(SelectSeq(handled, LAMBDA x : x # id), id)
    IN  IF Len(ids) > HandledLimit THEN SubSeq(ids, Len(ids) - HandledLimit + 1, Len(ids)) ELSE ids

\* loadSession(): a session of another project is dropped.
LoadSession(root) ==
    IF store.session.appRoot = root THEN store ELSE ClearSession(store)

----------------------------------------------------------------------------
(* Taking a session up.                                                    *)

\* Finished, and fewer than are remembered were finished after it.
FinishedLately(s) ==
    \E i \in DOMAIN past.finished : past.finished[i] = s /\ Len(past.finished) - i < HandledLimit

Takes(t, page, id) ==
    LET now == [page EXCEPT !.cur = id, !.open = TRUE, !.back = FinishedLately(id)]
    IN  pages' = [pages EXCEPT ![t] = now] /\ store' = SaveSession(store, now)

\* Mutant: the ids of finished sessions are not asked.
RestorableAnyway(root) ==
    LET cached == LoadSession(root).session
    IN  IF cached.open THEN cached.id ELSE NoSession

\* The stored session restoreSessionWithoutWrapper() goes on with, or none.
Restorable(root) ==
    LET cached == LoadSession(root).session
    IN  IF cached.open /\ ~Handled(cached.id) THEN cached.id ELSE NoSession

\* resumeSession(), with the markup w in the page: a stored session supersedes markup that is handled.
ResumeSession(t, page, w) ==
    LET saved == Restorable(page.root)
        Keeps(st) == pages' = [pages EXCEPT ![t] = page] /\ store' = st
    IN  \/ /\ w.is # "none" /\ Handled(w.id)
           /\ IF saved \notin {NoSession, page.cur} THEN Takes(t, page, saved)
              ELSE Keeps(LoadSession(page.root))
        \/ /\ w.is = "variants" /\ ~Handled(w.id)
           /\ Takes(t, page, w.id)
        \/ /\ w.is = "none" \/ (w.is = "carbonize" /\ ~Handled(w.id))
           /\ IF saved # NoSession THEN Takes(t, page, saved)
              ELSE Keeps(ClearSession(store))

NoMarkup == [is |-> "none", id |-> NoSession]
Markup(root) ==
    {[is |-> is, id |-> s] : is \in {"variants", "carbonize"},
                             s \in Project(root)}

\* The page is loaded: init(). The scout stays unless a session was taken up with markup in the page.
LoadPage(t) ==
    /\ past.loads < MaxLoads
    /\ past' = [past EXCEPT !.loads = @ + 1]
    /\ LET root == pages[t].root
       IN  \E w \in Markup(root) \cup {NoMarkup} :
             LET resumed == Restorable(root) # NoSession \/ (w.is = "variants" /\ ~Handled(w.id))
             IN  ResumeSession(t, [NewPage(root) EXCEPT !.scout = ~(resumed /\ w # NoMarkup)], w)
    /\ UNCHANGED started

\* The framework adds markup: the scout resumes with whatever came.
ScoutFires(t) ==
    /\ pages[t].scout
    /\ \E w \in Markup(pages[t].root) : ResumeSession(t, [pages[t] EXCEPT !.scout = FALSE], w)
    /\ UNCHANGED <<started, past>>

\* restoreFromActiveSessions(): markup or a mounted component leaves things as they are; else the
\* stored session, unless a list does without it, or, with none stored, a listed one in a phase of
\* comparison. The list was made some time before: it is any sessions of the project.
Connected(t) ==
    /\ pages[t].up
    /\ LET page == pages[t]
           saved == Restorable(page.root)
       IN  \/ saved # NoSession /\ Takes(t, page, saved)
           \/ /\ LoadSession(page.root).session.id = NoSession
              /\ \/ \E s \in Project(page.root) : ~Handled(s) /\ Takes(t, page, s)
                 \/ UNCHANGED pages /\ store' = LoadSession(page.root)
    /\ UNCHANGED <<started, past>>

----------------------------------------------------------------------------
(* A session's life.                                                       *)

\* handleGo()
StartSession(t) ==
    LET id == Len(started) + 1
        page == [pages[t] EXCEPT !.cur = id, !.open = TRUE, !.back = FALSE]
    IN  /\ pages[t].up /\ pages[t].cur = NoSession /\ id <= MaxStored
        /\ pages' = [pages EXCEPT ![t] = page]
        /\ started' = Append(started, page.root)
        /\ store' = SaveSession(store, page)
        /\ UNCHANGED past

\* saveSession(), whenever something about the session changes.
SaveAgain(t) ==
    /\ pages[t].up /\ pages[t].cur # NoSession
    /\ store' = SaveSession(store, pages[t])
    /\ UNCHANGED <<pages, started, past>>

\* handleAccept() and handleDiscard() ask the server, one at a time; an accept is saved.
AskEnd(t, kind) ==
    LET page == [pages[t] EXCEPT !.asked = kind, !.open = @ /\ kind = "discard"]
    IN  /\ pages[t].up /\ pages[t].cur # NoSession /\ pages[t].open /\ pages[t].asked = "none"
        /\ pages' = [pages EXCEPT ![t] = page]
        /\ store' = IF kind = "accept" THEN SaveSession(store, page) ELSE store
        /\ UNCHANGED <<started, past>>

\* markSessionHandled() and cleanup(): of the session that is current by now, if there is one.
Finishes(t, page) ==
    /\ pages' = [pages EXCEPT ![t] = [page EXCEPT !.cur = NoSession, !.open = FALSE]]
    /\ store' = [session |-> NoneStored,
                 handled |-> IF page.cur = NoSession THEN store.handled
                             ELSE MarkHandled(store.handled, page.cur)]
    /\ past' = IF page.cur = NoSession THEN past
               ELSE [past EXCEPT !.finished = Append(SelectSeq(@, LAMBDA x : x # page.cur), page.cur)]

\* The answer of the accept or the discard, or that of the event stream to an accept.
EndAnswered(t, ok) ==
    LET page == [pages[t] EXCEPT !.asked = "none"]
    IN  /\ pages[t].asked # "none"
        /\ IF ok THEN Finishes(t, page)
           ELSE /\ pages' = [pages EXCEPT ![t] = [page EXCEPT !.open = @ \/ pages[t].asked = "accept"]]
                /\ UNCHANGED <<store, past>>
        /\ UNCHANGED started

\* The session is over for the page: the event 'discarded', the agent's 'error', a server that does
\* not know it (abandonForeignSession), or a source without it (discardOrphanedSession).
SessionOver(t) ==
    /\ pages[t].up /\ pages[t].cur # NoSession
    /\ Finishes(t, pages[t])
    /\ UNCHANGED started

\* The agent's 'error' about a session that is not the current one.
ErrorElsewhere(t, s) ==
    /\ pages[t].up /\ pages[t].cur # s /\ started[s] = pages[t].root
    /\ store' = LET st == LoadSession(pages[t].root) IN IF st.session.id = s THEN ClearSession(st) ELSE st
    /\ pages' = [pages EXCEPT ![t].open = FALSE]
    /\ UNCHANGED <<started, past>>

\* cleanup() of a comparison with no variants, and with it all of teardown(): the scout stays.
CleanUpOnly(t, up) ==
    /\ pages[t].up
    /\ store' = ClearSession(store)
    /\ pages' = [pages EXCEPT ![t].cur = NoSession, ![t].open = FALSE, ![t].up = up]
    /\ UNCHANGED <<started, past>>

\* resetSvelteComponentSession(): all ids of finished sessions are dropped too.
ResetSession(t) ==
    /\ pages[t].up /\ pages[t].cur # NoSession
    /\ store' = [session |-> NoneStored, handled |-> <<>>]
    /\ pages' = [pages EXCEPT ![t].cur = NoSession, ![t].open = FALSE]
    /\ past' = [past EXCEPT !.finished = <<>>]
    /\ UNCHANGED started

InitStore ==
    /\ store = [session |-> NoneStored, handled |-> <<>>]
    /\ \E open \in SUBSET Tabs \ {{}} : \E r \in [open -> Roots] : pages = [t \in open |-> NewPage(r[t])]
    /\ started = <<>>
    /\ past = [finished |-> <<>>, loads |-> 0]

NextStore ==
    \/ \E t \in DOMAIN pages :
         \/ LoadPage(t) \/ ScoutFires(t) \/ Connected(t)
         \/ StartSession(t) \/ SaveAgain(t) \/ \E kind \in {"accept", "discard"} : AskEnd(t, kind)
         \/ \E ok \in BOOLEAN : EndAnswered(t, ok)
         \/ SessionOver(t) \/ \E s \in DOMAIN started : ErrorElsewhere(t, s)
         \/ \E up \in BOOLEAN : CleanUpOnly(t, up)
         \/ ResetSession(t)

----------------------------------------------------------------------------

\* "A later reload must still recognize that wrapper": a page never takes up a session that some tab had
\* finished by then, from the storage, from early or late markup or from an old list of the server,
\* unless as many as are remembered were finished since; and never one of another project, however
\* the projects' pages alternate on the port. A reset of a component session drops every id, so the
\* sessions finished before it may come back with their markup: only those after it are meant.
FinishedStay ==
    \A t \in DOMAIN pages :
      pages[t].cur # NoSession => ~pages[t].back /\ started[pages[t].cur] = pages[t].root

StoreKept == FinishedStay
=============================================================================
