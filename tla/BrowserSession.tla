--------------------------- MODULE BrowserSession ---------------------------
(***************************************************************************)
(* The sign-in session of the browser (src/frontend/lib/auth,              *)
(* src/frontend/lib/http, src/frontend/hooks/auth) and the routes it talks *)
(* to (src/auth).  The tabs of a browser share localStorage and nothing    *)
(* else; requests, renewals and sign-ins of several tabs interleave, and a *)
(* tab may sign in as somebody else while the answers of the previous      *)
(* session are on their way.                                               *)
(*                                                                         *)
(* The server issues tokens in pairs; the pair is a number.  A session is  *)
(* named by the pair that began it (a random UUID in the code), or, in the *)
(* sessions of older versions, by its access token.                        *)
(***************************************************************************)
EXTENDS Naturals, FiniteSets

CONSTANTS Tabs, Requests,       \* tabs and the requests their pages make
          Owner, Newcomer,      \* two accounts; the newcomer's e-mail is not verified yet
          Links,                \* verification links mailed to the newcomer
          MaxPairs,             \* bound: token pairs issued
          MaxLogins             \* bound: sign-ins begun

Users == {Owner, Newcomer}
Pairs == 1..MaxPairs
None == 0
Nobody == "nobody"

ASSUME SessionAssumption ==
    /\ MaxPairs \in Nat \ {0} /\ MaxLogins \in Nat
    /\ Owner # Newcomer /\ Nobody \notin Users \cup Links \cup Tabs

VARIABLES store,     \* localStorage: the two tokens, the session id, user_data
          req,       \* a request of a page, from its interceptor to its answer
          pending,   \* pendingRefresh of a tab
          login,     \* the sign-in form or a verification link of a tab
          logins     \* sign-ins begun so far
VARIABLES owner,     \* the account of an issued pair
          expired,   \* access tokens past their expiry
          verified,  \* users.email_verified
          link,      \* auth_tokens: the state of each verification link
          mailing    \* the link send_verification is inserting, under the user's row lock

serverVars == <<owner, expired, verified, link, mailing>>
vars == <<store, req, pending, login, logins, serverVars>>

NoStore == [access |-> None, refresh |-> None, sid |-> None, data |-> Nobody]
NoReq == [at |-> "idle", tab |-> Nobody, sid |-> None, begun |-> None, access |-> None, retried |-> FALSE,
          served |-> Nobody]
NoRefresh == [sid |-> None, token |-> None]
NoLogin == [at |-> "idle", how |-> "none", link |-> Nobody, pair |-> None]

\* localStorage, the requests and the server's tables have the shape the code gives them.
TypeOK ==
    /\ store \in [access : Pairs \cup {None}, refresh : Pairs \cup {None},
                  sid : Pairs \cup {None}, data : Users \cup {Nobody}]
    /\ req \in [Requests -> [at : {"idle", "sent", "ok", "401", "403", "renewing", "again"},
                             tab : Tabs \cup {Nobody}, sid : Pairs \cup {None}, begun : Pairs \cup {None},
                             access : Pairs \cup {None}, retried : BOOLEAN,
                             served : Users \cup {Nobody}]]
    /\ pending \in [Tabs -> [sid : Pairs \cup {None}, token : Pairs \cup {None}]]
    /\ login \in [Tabs -> [at : {"idle", "sent", "consumed", "ok", "fetching"},
                           how : {"none", "password", "link"},
                           link : Links \cup {Nobody}, pair : Pairs \cup {None}]]
    /\ logins \in 0..MaxLogins
    /\ owner \in [Pairs -> Users \cup {Nobody}]
    /\ expired \subseteq Pairs
    /\ verified \subseteq Users
    /\ link \in [Links -> {"none", "mailed", "consumed"}]
    /\ mailing \in Links \cup {Nobody}

\* A browser that was never used, one with a session, or one with a session of
\* an older version: no session id, no refresh token, no check of the e-mail.
Init ==
    /\ \/ store = NoStore /\ owner = [p \in Pairs |-> Nobody]
       \/ /\ store = [access |-> 1, refresh |-> 1, sid |-> 1, data |-> Owner]
          /\ owner = [p \in Pairs |-> IF p = 1 THEN Owner ELSE Nobody]
       \/ \E u \in Users :
            /\ store = [NoStore EXCEPT !.access = 1, !.data = u]
            /\ owner = [p \in Pairs |-> IF p = 1 THEN u ELSE Nobody]
    /\ req = [r \in Requests |-> NoReq]
    /\ pending = [t \in Tabs |-> NoRefresh]
    /\ login = [t \in Tabs |-> NoLogin] /\ logins = 0
    /\ expired = {}
    /\ verified = {Owner}
    /\ link = [l \in Links |-> "none"] /\ mailing = Nobody

----------------------------------------------------------------------------
(* The server.                                                             *)

Issued == {p \in Pairs : owner[p] # Nobody}

\* create_access_token() and create_refresh_token() for user u.
Issue(p, u) ==
    /\ p = Cardinality(Issued) + 1
    /\ owner' = [owner EXCEPT ![p] = u]

\* get_current_user() and the route behind it.
Serve(r) ==
    /\ req[r].at = "sent"
    /\ LET u == owner[req[r].access]
       IN  req' = [req EXCEPT ![r].at = IF req[r].access \in expired THEN "401"
                                        ELSE IF u \notin verified THEN "403" ELSE "ok",
                              ![r].served = IF req[r].access \in expired \/ u \notin verified
                                            THEN Nobody ELSE u]
    /\ UNCHANGED <<store, pending, login, logins, serverVars>>

ExpireAccess(p) ==
    /\ p \in Issued \ expired
    /\ expired' = expired \cup {p}
    /\ UNCHANGED <<store, req, pending, login, logins, owner, verified, link, mailing>>

\* send_verification(): under the lock of the user's row, and only if still needed.
MailBegin(l) ==
    /\ mailing = Nobody /\ link[l] = "none" /\ Newcomer \notin verified
    /\ mailing' = l
    /\ UNCHANGED <<store, req, pending, login, logins, owner, expired, verified, link>>

\* The transaction commits with the link, or rolls back: the mail was refused.
MailEnd ==
    /\ mailing # Nobody
    /\ link' \in {link, [link EXCEPT ![mailing] = "mailed"]}
    /\ mailing' = Nobody
    /\ UNCHANGED <<store, req, pending, login, logins, owner, expired, verified>>

----------------------------------------------------------------------------
(* localStorage and the interceptors of the HTTP client.                   *)

\* getSessionId().
SessionId == IF store.access = None THEN None
             ELSE IF store.sid # None THEN store.sid ELSE store.access

\* endSession(): only the session it is about, and only while it is current.
EndSession(sid) == store' = IF SessionId = sid THEN NoStore ELSE store

\* The request interceptor: the session and the token of this moment.
Sent(q) == [q EXCEPT !.at = "sent", !.sid = SessionId, !.access = store.access]

\* A page that finds a token asks the API (getCurrentUser, updateProfile, files...).
Ask(r, t) ==
    /\ req[r] = NoReq /\ store.access # None
    /\ req' = [req EXCEPT ![r] = [Sent(NoReq) EXCEPT !.tab = t, !.begun = SessionId]]
    /\ UNCHANGED <<store, pending, login, logins, serverVars>>

\* Mutant: a request is repeated under whatever session is current.
ResentAnyway(q) == IF SessionId = None THEN NoReq ELSE Sent(q)

\* A repeated request, under the session that began it or not at all.
Resent(q) == IF q.sid # SessionId THEN NoReq ELSE Sent(q)

\* The response interceptor, an answer: user_data is what /auth/me returned.
TakeAnswer(r) ==
    /\ req[r].at = "ok"
    /\ store' = IF req[r].sid # SessionId THEN store ELSE [store EXCEPT !.data = req[r].served]
    /\ req' = [req EXCEPT ![r] = NoReq]
    /\ UNCHANGED <<pending, login, logins, serverVars>>

\* The response interceptor, 403 "Verify your email".
TakeUnverified(r) ==
    /\ req[r].at = "403"
    /\ EndSession(req[r].sid)
    /\ req' = [req EXCEPT ![r] = NoReq]
    /\ UNCHANGED <<pending, login, logins, serverVars>>

\* A network error, or a server error: credentials are kept.
RequestFails(r) ==
    /\ req[r].at = "sent"
    /\ req' = [req EXCEPT ![r] = NoReq]
    /\ UNCHANGED <<store, pending, login, logins, serverVars>>

\* Mutant: whatever token the refused request carried.
StillCurrentAlways(q) == TRUE

\* A late 401 may belong to a token that has been renewed since.
StillCurrent(q) == store.access = q.access

Waiting(q) == [q EXCEPT !.at = "renewing", !.retried = TRUE]

\* renewSession(): the renewal this tab already waits for.
Shared(t, sid) == pending[t].sid = sid

\* A renewal takes the place of one for an earlier session, whose answer can
\* only be rejected now.
Rejected(t) ==
    [r \in Requests |-> IF req[r].tab = t /\ req[r].at = "renewing" THEN NoReq ELSE req[r]]

\* The response interceptor, 401: refused twice ends the session; refused once
\* waits for a renewal, joins the one under way, or is repeated at once.
TakeRefusal(r) ==
    LET q == req[r]
        t == q.tab
    IN  /\ q.at = "401"
        /\ \/ /\ q.sid # SessionId
              /\ req' = [req EXCEPT ![r] = NoReq] /\ UNCHANGED <<store, pending>>
           \/ /\ q.sid = SessionId /\ q.retried
              /\ IF StillCurrent(q) THEN EndSession(q.sid) ELSE UNCHANGED store
              /\ req' = [req EXCEPT ![r] = NoReq] /\ UNCHANGED pending
           \/ /\ q.sid = SessionId /\ ~q.retried /\ ~StillCurrent(q)
              /\ req' = [req EXCEPT ![r].at = "again", ![r].retried = TRUE]
              /\ UNCHANGED <<store, pending>>
           \/ /\ q.sid = SessionId /\ ~q.retried /\ StillCurrent(q) /\ Shared(t, q.sid)
              /\ req' = [req EXCEPT ![r] = Waiting(q)] /\ UNCHANGED <<store, pending>>
           \/ /\ q.sid = SessionId /\ ~q.retried /\ StillCurrent(q) /\ ~Shared(t, q.sid)
              /\ store.refresh = None
              /\ EndSession(q.sid)
              /\ req' = [req EXCEPT ![r] = NoReq] /\ UNCHANGED pending
           \/ /\ q.sid = SessionId /\ ~q.retried /\ StillCurrent(q) /\ ~Shared(t, q.sid)
              /\ store.refresh # None
              /\ pending' = [pending EXCEPT ![t] = [sid |-> q.sid, token |-> store.refresh]]
              /\ req' = [Rejected(t) EXCEPT ![r] = Waiting(q)] /\ UNCHANGED store
        /\ UNCHANGED <<login, logins, serverVars>>

\* Mutant: the answer is stored whoever is signed in by now.
RenewableAlways(f) == TRUE

\* The renewed session is still the current one, and no other tab renewed it.
Renewable(f) == SessionId = f.sid /\ store.refresh = f.token

\* The server answers with a new pair, refuses (the refresh token has expired),
\* or cannot be reached.
Outcomes == {"ok", "401", "failed"}

\* The tokens the renewal leaves; refresh_token() issued the pair for the account
\* of the old one, whose pair stays valid until it expires.
Renewed(f, outcome) ==
    IF ~Renewable(f) THEN UNCHANGED <<store, owner>>
    ELSE CASE outcome = "ok" ->
                \E p \in Pairs : /\ Issue(p, owner[f.token])
                                 /\ store' = [store EXCEPT !.access = p, !.refresh = p]
           [] outcome = "401" -> EndSession(f.sid) /\ UNCHANGED owner
           [] OTHER -> UNCHANGED <<store, owner>>

\* A session another tab has renewed is as good as one renewed here.
Resolved(f, outcome) == SessionId = f.sid /\ (store.refresh # f.token \/ outcome = "ok")

\* Mutant: only a renewal that succeeds releases its waiters.
ReleasedOnSuccess(q, ok) == IF ok THEN [q EXCEPT !.at = "again"] ELSE q

Released(q, ok) == IF ok THEN [q EXCEPT !.at = "again"] ELSE NoReq

\* The answer to a renewal; everything in the tab that waited for it goes on.
TakeRenewal(t, outcome) ==
    LET f == pending[t]
    IN  /\ f # NoRefresh
        /\ Renewed(f, outcome)
        /\ pending' = [pending EXCEPT ![t] = NoRefresh]
        /\ req' = [r \in Requests |->
                     IF req[r].tab # t \/ req[r].at # "renewing" THEN req[r]
                     ELSE Released(req[r], Resolved(f, outcome))]
        /\ UNCHANGED <<login, logins, expired, verified, link, mailing>>

\* The request goes out again; another tab may have signed in meanwhile.
Resend(r) ==
    /\ req[r].at = "again"
    /\ req' = [req EXCEPT ![r] = Resent(req[r])]
    /\ UNCHANGED <<store, pending, login, logins, serverVars>>
----------------------------------------------------------------------------
(* Signing in and out.                                                     *)

\* The sign-in form or a verification link of a tab.
Submit(t, how, l) ==
    /\ login[t] = NoLogin /\ logins < MaxLogins /\ logins' = logins + 1
    /\ how = "link" => link[l] # "none"
    /\ login' = [login EXCEPT ![t] = [NoLogin EXCEPT !.at = "sent", !.how = how, !.link = l]]
    /\ UNCHANGED <<store, req, pending, serverVars>>

\* A confirmation that has marked link l and not committed yet.
Held(l) == \E t \in Tabs : login[t].at = "consumed" /\ login[t].link = l

\* A second confirmation waits for the first, and finds the link consumed.
Consumable(l) == ~Held(l) /\ link[l] = "mailed"

\* confirm_verification(), consume_token().
ConsumeLink(t) ==
    /\ login[t].at = "sent" /\ login[t].how = "link" /\ Consumable(login[t].link)
    /\ login' = [login EXCEPT ![t].at = "consumed"]
    /\ UNCHANGED <<store, req, pending, logins, serverVars>>

\* Mutant: the user's row is not written before the other links are consumed.
Unlocked == TRUE

\* The update of users waits for send_verification's row lock.
RowFree == mailing = Nobody

\* confirm_verification(): the account is verified and its other links end with it.
ConfirmVerification(t) ==
    /\ login[t].at = "consumed" /\ RowFree
    /\ verified' = verified \cup {Newcomer}
    /\ link' = [l \in Links |-> IF link[l] = "mailed" THEN "consumed" ELSE link[l]]
    /\ login' = [login EXCEPT ![t].at = "ok"]
    /\ UNCHANGED <<store, req, pending, logins, owner, expired, mailing>>

\* login_user() takes the password of a verified account, confirm_verification() a
\* link; saveSession() then begins a session that has nobody's profile yet.
SaveSession(t) ==
    /\ \E u \in verified, p \in Pairs :
         /\ \/ login[t].at = "sent" /\ login[t].how = "password"
            \/ login[t].at = "ok" /\ u = Newcomer
         /\ Issue(p, u)
         /\ store' = [access |-> p, refresh |-> p, sid |-> p, data |-> Nobody]
         /\ login' = [login EXCEPT ![t].at = "fetching", ![t].pair = p]
    /\ UNCHANGED <<req, pending, logins, expired, verified, link, mailing>>

\* getCurrentUser() after signing in: it answers for this session, fails, or is
\* overtaken by another one; the form then checks that a token is stored.
FetchUser(t) ==
    /\ login[t].at = "fetching"
    /\ \/ /\ SessionId = login[t].pair
          /\ store' = [store EXCEPT !.data = owner[login[t].pair]]
       \/ store' = IF store.access = None THEN NoStore ELSE store
    /\ login' = [login EXCEPT ![t] = NoLogin]
    /\ UNCHANGED <<req, pending, logins, serverVars>>

\* Refused, rolled back or lost.  An error of the sign-in form clears what is
\* stored, an error of a link does not.
LoginFails(t) ==
    /\ login[t].at \in {"sent", "consumed", "ok"}
    /\ store' = IF login[t].how = "password" THEN NoStore ELSE store
    /\ login' = [login EXCEPT ![t] = NoLogin]
    /\ UNCHANGED <<req, pending, logins, serverVars>>

\* clearSession() from a menu.
SignOut ==
    /\ store.access # None
    /\ store' = NoStore
    /\ UNCHANGED <<req, pending, login, logins, serverVars>>

----------------------------------------------------------------------------
RequestStep(r) ==
    \/ Serve(r) \/ TakeAnswer(r) \/ TakeUnverified(r) \/ RequestFails(r)
    \/ TakeRefusal(r) \/ Resend(r)

Renewal(t) == \E outcome \in Outcomes : TakeRenewal(t, outcome)

LoginStep(t) ==
    \/ ConsumeLink(t) \/ ConfirmVerification(t)
    \/ SaveSession(t) \/ FetchUser(t) \/ LoginFails(t)

Submits(t) ==
    \/ Submit(t, "password", Nobody)
    \/ \E l \in Links : Submit(t, "link", l)

Next ==
    \/ \E r \in Requests : RequestStep(r) \/ \E t \in Tabs : Ask(r, t)
    \/ \E t \in Tabs : Renewal(t) \/ Submits(t) \/ LoginStep(t)
    \/ \E p \in Pairs : ExpireAccess(p)
    \/ \E l \in Links : MailBegin(l)
    \/ MailEnd \/ SignOut

Spec == Init /\ [][Next]_vars

----------------------------------------------------------------------------
(* Properties.                                                             *)

\* What is stored belongs to one account: both tokens, the session id and
\* user_data, whatever was on its way when somebody else signed in.
OneIdentity ==
    TypeOK /\ (store.access # None =>
        /\ owner[store.access] = owner[SessionId]
        /\ store.refresh # None => owner[store.refresh] = owner[SessionId]
        /\ store.data # Nobody => store.data = owner[SessionId])

\* The server executes a request for the account that was signed in when the
\* page made it, also when the request is repeated after a renewal.
OwnAccount == \A r \in Requests : req[r].at = "ok" => req[r].served = owner[req[r].begun]

\* The interceptors end a session only when its current credentials were refused:
\* a late 401 for an older token, a failed renewal or an unreachable server keep it.
OnlyRefusedSessionEnds ==
    [][store.access # None /\ store'.access = None /\ login' = login =>
        \/ UNCHANGED <<req, pending>>
        \/ store.access \in expired
        \/ \E r \in Requests : req[r].at = "403" /\ req'[r].at = "idle"]_vars

\* A link signs in one tab, however often it is opened at once; and once the
\* account is verified no link of it can be used any more, also one that was being
\* mailed at that moment.
LinksOnce ==
    /\ Newcomer \in verified => \A l \in Links : link[l] # "mailed"
    /\ \A l \in Links : Cardinality({t \in Tabs : login[t].link = l
                                       /\ login[t].at \in {"consumed", "ok", "fetching"}}) <= 1

\* Whoever waits for a renewal waits for one that is under way, for its own
\* session: no answer and no later renewal leaves a request behind.
NoneStranded ==
    \A r \in Requests : req[r].at = "renewing" => pending[req[r].tab].sid = req[r].sid
----------------------------------------------------------------------------
(* The inductive invariant behind these properties.  What anybody holds is  *)
(* of an issued pair, and an issued pair keeps its account.                *)

\* The pairs are issued one after the other.
PairsInOrder == \E n \in 0..MaxPairs : Issued = 1..n

\* What is stored was issued.
StoredIssued ==
    store.access # None => /\ {store.access, SessionId} \subseteq Issued
                           /\ store.refresh \in Issued \cup {None}

\* A request goes out under the session that began it, with a token of its account.
RequestsFaithful ==
    \A r \in Requests : req[r].at # "idle" =>
        /\ req[r].tab \in Tabs
        /\ req[r].sid = req[r].begun
        /\ {req[r].sid, req[r].access} \subseteq Issued
        /\ owner[req[r].access] = owner[req[r].sid]
        /\ req[r].at = "ok" => req[r].served = owner[req[r].sid]
        /\ req[r].at = "401" => req[r].access \in expired

\* A renewal exchanges a token of its own session; while both are still stored
\* the access token next to it is the one that was refused.
RenewalsFaithful ==
    \A t \in Tabs : pending[t] # NoRefresh =>
        /\ {pending[t].sid, pending[t].token} \subseteq Issued
        /\ owner[pending[t].token] = owner[pending[t].sid]
        /\ Renewable(pending[t]) => store.access \in expired

\* A link that was opened has been mailed, and one that signed in is used up.
LoginsFaithful ==
    \A t \in Tabs :
        /\ login[t].at = "fetching" => login[t].pair \in Issued
        /\ login[t].how = "password" => login[t].link = Nobody
        /\ login[t].link \in Links => link[login[t].link] # "none"
        /\ login[t].link \in Links /\ login[t].at \in {"ok", "fetching"} =>
               link[login[t].link] # "mailed"

\* Under the row lock: nobody confirms while a link is being mailed.
MailingFirst == mailing # Nobody => Newcomer \notin verified /\ link[mailing] = "none"

Uses(t, l) == login[t].link = l /\ login[t].at \in {"consumed", "ok", "fetching"}

NoSecondUse == \A l \in Links, t, u \in Tabs : Uses(t, l) /\ Uses(u, l) => t = u

VerifiedAlone == Newcomer \in verified => \A l \in Links : link[l] # "mailed"

SessionInv ==
    /\ OneIdentity /\ PairsInOrder /\ StoredIssued /\ RequestsFaithful /\ RenewalsFaithful
    /\ LoginsFaithful /\ MailingFirst /\ VerifiedAlone /\ NoSecondUse /\ NoneStranded
=============================================================================
