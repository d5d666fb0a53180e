------------------------ MODULE BrowserSessionProofs ------------------------
(***************************************************************************)
(* Proofs about BrowserSession: what is stored, asked and signed in stays  *)
(* with the account it belongs to, for any number of tabs, requests, links *)
(* and token pairs.                                                        *)
(***************************************************************************)
EXTENDS BrowserSession, FiniteSetTheorems, TLAPS

USE DEF serverVars

----------------------------------------------------------------------------
(* Issued pairs.                                                           *)

\* The pair after the last issued one: create_access_token() and
\* create_refresh_token() never return what was returned before.
LEMMA NextPair ==
    ASSUME NEW n \in Nat, Issued = 1..n
    PROVE  Cardinality(Issued) + 1 = n + 1
  <1>1. Cardinality(1..n) = n
    BY FS_Interval
  <1> QED  BY <1>1

\* A new pair is its account's, and the issued ones keep theirs.
LEMMA IssueFresh ==
    ASSUME TypeOK, PairsInOrder, NEW p \in Pairs, NEW u \in Users, Issue(p, u)
    PROVE  /\ p \notin Issued /\ owner'[p] = u /\ p \in Issued' /\ Issued \subseteq Issued'
           /\ \A q \in Pairs : q # p => owner'[q] = owner[q]
           /\ owner' \in [Pairs -> Users \cup {Nobody}]
           /\ PairsInOrder'
  <1> USE SessionAssumption
  <1>1. PICK n \in 0..MaxPairs : Issued = 1..n
    BY DEF PairsInOrder
  <1>2. n \in Nat /\ p = n + 1
    BY <1>1, NextPair DEF Issue
  <1>3. /\ owner' = [owner EXCEPT ![p] = u] /\ owner \in [Pairs -> Users \cup {Nobody}]
        /\ u # Nobody
    BY DEF TypeOK, Issue, Users
  <1>4. Issued' = Issued \cup {p}
    BY <1>3 DEF Issued
  <1>5. n + 1 \in 0..MaxPairs /\ Issued' = 1..(n + 1)
    BY <1>1, <1>2, <1>4 DEF Pairs
  <1>6. PairsInOrder'
    BY <1>5 DEF PairsInOrder
  <1> QED
    BY <1>1, <1>2, <1>3, <1>4, <1>6

\* What a request of a page carries.
RequestType == [at : {"idle", "sent", "ok", "401", "403", "renewing", "again"},
                tab : Tabs \cup {Nobody}, sid : Pairs \cup {None}, begun : Pairs \cup {None},
                access : Pairs \cup {None}, retried : BOOLEAN, served : Users \cup {Nobody}]

\* localStorage, and the sign-in form of a tab.
StoreType == [access : Pairs \cup {None}, refresh : Pairs \cup {None},
              sid : Pairs \cup {None}, data : Users \cup {Nobody}]
LoginType == [at : {"idle", "sent", "consumed", "ok", "fetching"}, how : {"none", "password", "link"},
              link : Links \cup {Nobody}, pair : Pairs \cup {None}]

\* The tables, localStorage and the locals keep their types.
LEMMA TypeStep == SessionInv /\ [Next]_vars => TypeOK'
<1> SUFFICES ASSUME SessionInv, [Next]_vars PROVE TypeOK'
  OBVIOUS
<1> USE SessionAssumption DEF TypeOK, Pairs, None, Users, NoStore, NoReq, NoRefresh, NoLogin, StoreType, LoginType
<1>0. TypeOK /\ PairsInOrder /\ RequestsFaithful /\ RenewalsFaithful /\ LoginsFaithful
  BY DEF SessionInv, OneIdentity
<1> USE <1>0
<1>1. ASSUME NEW r \in Requests, RequestStep(r) PROVE TypeOK'
  <2>1. CASE Serve(r)
    <3> DEFINE u == owner[req[r].access]
    <3> DEFINE refused == req[r].access \in expired
    <3>1. req[r].access \in Pairs
      BY <2>1 DEF Serve, RequestsFaithful, Issued
    <3>2. req' = [req EXCEPT ![r] = [req[r] EXCEPT
                    !.at = IF refused THEN "401" ELSE IF u \notin verified THEN "403" ELSE "ok",
                    !.served = IF refused \/ u \notin verified THEN Nobody ELSE u]]
      BY <2>1 DEF Serve
    <3>3. u \in Users \cup {Nobody}
      BY <3>1
    <3> HIDE DEF u, refused
    <3>4. req' \in [Requests -> RequestType]
      <4>1. req \in [Requests -> RequestType]
        BY DEF RequestType
      <4> HIDE DEF TypeOK
      <4>2. [req[r] EXCEPT !.at = IF refused THEN "401" ELSE IF u \notin verified THEN "403" ELSE "ok",
                           !.served = IF refused \/ u \notin verified THEN Nobody ELSE u]
                \in RequestType
        BY ZenonT(60), <3>3, <4>1 DEF RequestType
      <4> QED
        BY <3>2, <4>1, <4>2
    <3>5. UNCHANGED <<store, pending, login, logins, owner, expired, verified, link, mailing>>
      BY <2>1 DEF Serve
    <3> QED
      BY <3>4, <3>5 DEF RequestType
  <2>2. CASE TakeAnswer(r)
    BY <2>2 DEF TakeAnswer, SessionId
  <2>3. CASE TakeUnverified(r)
    BY <2>3 DEF TakeUnverified, EndSession, SessionId
  <2>4. CASE RequestFails(r)
    BY <2>4 DEF RequestFails
  <2>5. CASE TakeRefusal(r)
    <3>1. store' \in {store, NoStore}
      BY <2>5 DEF TakeRefusal, EndSession
    <3>2. SessionId \in Pairs \cup {None} /\ req[r].tab \in Tabs
      BY <2>5 DEF TakeRefusal, SessionId, RequestsFaithful
    <3>3. pending' \in [Tabs -> [sid : Pairs \cup {None}, token : Pairs \cup {None}]]
      BY <2>5, <3>2 DEF TakeRefusal
    <3>4. Rejected(req[r].tab) \in [Requests -> RequestType]
      BY DEF Rejected, RequestType
    <3>5. Waiting(req[r]) \in RequestType /\ NoReq \in RequestType
      <4>1. req[r] \in RequestType
        BY DEF RequestType
      <4> HIDE DEF TypeOK
      <4> QED  BY <4>1 DEF Waiting, RequestType
    <3>6. [req[r] EXCEPT !.at = "again", !.retried = TRUE] \in RequestType
      <4>1. req[r] \in RequestType
        BY DEF RequestType
      <4> HIDE DEF TypeOK
      <4> QED  BY <4>1 DEF RequestType
    <3>7. \/ req' = [req EXCEPT ![r] = NoReq]
          \/ req' = [req EXCEPT ![r] = [req[r] EXCEPT !.at = "again", !.retried = TRUE]]
          \/ req' = [req EXCEPT ![r] = Waiting(req[r])]
          \/ req' = [Rejected(req[r].tab) EXCEPT ![r] = Waiting(req[r])]
      BY <2>5 DEF TakeRefusal
    <3>8. req \in [Requests -> RequestType]
      BY DEF RequestType
    <3>9. req' \in [Requests -> RequestType]
      <4> HIDE DEF TypeOK, NoReq
      <4> QED  BY <3>4, <3>5, <3>6, <3>7, <3>8
    <3>10. UNCHANGED <<login, logins, owner, expired, verified, link, mailing>>
      BY <2>5 DEF TakeRefusal
    <3> QED
      BY <3>1, <3>3, <3>9, <3>10 DEF RequestType
  <2>6. CASE Resend(r)
    <3>1. SessionId \in Pairs \cup {None}
      BY DEF SessionId
    <3>2. Sent(req[r]) \in RequestType /\ NoReq \in RequestType
      <4>1. req[r] \in RequestType /\ store.access \in Pairs \cup {None}
        BY DEF RequestType
      <4> HIDE DEF TypeOK
      <4> QED  BY <3>1, <4>1 DEF Sent, RequestType
    <3>3. Resent(req[r]) \in RequestType
      BY <3>2 DEF Resent
    <3>4. req' \in [Requests -> RequestType]
      BY <2>6, <3>3 DEF Resend, RequestType
    <3>5. UNCHANGED <<store, pending, login, logins, owner, expired, verified, link, mailing>>
      BY <2>6 DEF Resend
    <3> QED
      BY <3>4, <3>5 DEF RequestType
  <2>7. QED
    BY <1>1, <2>1, <2>2, <2>3, <2>4, <2>5, <2>6 DEF RequestStep
<1>2. ASSUME NEW r \in Requests, NEW t \in Tabs, Ask(r, t) PROVE TypeOK'
  BY <1>2 DEF Ask, Sent, SessionId
<1>3. ASSUME NEW t \in Tabs, NEW outcome \in Outcomes, TakeRenewal(t, outcome) PROVE TypeOK'
  <2>1. pending' \in [Tabs -> [sid : Pairs \cup {None}, token : Pairs \cup {None}]]
    BY <1>3 DEF TakeRenewal
  <2>2. \A q \in RequestType, ok \in BOOLEAN : Released(q, ok) \in RequestType
    BY DEF Released, RequestType
  <2>3. req' \in [Requests -> RequestType]
    <3>1. req \in [Requests -> RequestType]
      BY DEF RequestType
    <3>2. Resolved(pending[t], outcome) \in BOOLEAN
      BY DEF Resolved
    <3>3. req' = [s \in Requests |->
                    IF req[s].tab # t \/ req[s].at # "renewing" THEN req[s]
                    ELSE Released(req[s], Resolved(pending[t], outcome))]
      BY <1>3 DEF TakeRenewal
    <3> HIDE DEF TypeOK
    <3> QED  BY <2>2, <3>1, <3>2, <3>3
  <2>4. /\ store' \in StoreType
        /\ owner' \in [Pairs -> Users \cup {Nobody}]
    <3>1. CASE UNCHANGED <<store, owner>>
      BY <3>1
    <3>2. CASE EndSession(pending[t].sid) /\ UNCHANGED owner
      BY <3>2 DEF EndSession
    <3>3. ASSUME NEW p \in Pairs, Issue(p, owner[pending[t].token]),
                 store' = [store EXCEPT !.access = p, !.refresh = p]
          PROVE  /\ store' \in StoreType
                 /\ owner' \in [Pairs -> Users \cup {Nobody}]
      <4>1. pending[t].token \in Pairs
        BY <1>3 DEF TakeRenewal, RenewalsFaithful, Issued
      <4> QED  BY <3>3, <4>1 DEF Issue
    <3> QED
      BY <1>3, <3>1, <3>2, <3>3 DEF TakeRenewal, Renewed, Outcomes
  <2>5. UNCHANGED <<login, logins, expired, verified, link, mailing>>
    BY <1>3 DEF TakeRenewal
  <2> QED
    BY <2>1, <2>3, <2>4, <2>5 DEF RequestType
<1>4. ASSUME NEW t \in Tabs, Submits(t) PROVE TypeOK'
  <2>1. \E how \in {"password", "link"}, l \in Links \cup {Nobody} : Submit(t, how, l)
    BY <1>4 DEF Submits
  <2>2. PICK how \in {"password", "link"}, l \in Links \cup {Nobody} : Submit(t, how, l)
    BY <2>1
  <2>3. [NoLogin EXCEPT !.at = "sent", !.how = how, !.link = l] \in
            LoginType
    BY <2>2
  <2>4. logins' \in 0..MaxLogins
    BY <2>2 DEF Submit
  <2> QED
    BY <2>2, <2>3, <2>4 DEF Submit
<1>5. ASSUME NEW t \in Tabs, LoginStep(t) PROVE TypeOK'
  <2>1. CASE ConsumeLink(t)
    BY SMTT(30), <2>1 DEF ConsumeLink, Consumable, Held
  <2>2. CASE ConfirmVerification(t)
    <3>1. link' \in [Links -> {"none", "mailed", "consumed"}]
      BY <2>2 DEF ConfirmVerification
    <3>2. verified' \subseteq Users
      BY <2>2 DEF ConfirmVerification
    <3>3. login' \in [Tabs -> LoginType]
      <4>1. /\ login' = [login EXCEPT ![t] = [login[t] EXCEPT !.at = "ok"]]
            /\ login[t] \in LoginType
        BY <2>2 DEF ConfirmVerification, LoginType
      <4>2. [login[t] EXCEPT !.at = "ok"] \in LoginType
        <5> HIDE DEF TypeOK
        <5> QED  BY <4>1 DEF LoginType
      <4> QED
        BY <4>1, <4>2 DEF LoginType
    <3> QED
      BY <2>2, <3>1, <3>2, <3>3 DEF ConfirmVerification
  <2>3. CASE SaveSession(t)
    <3>1. PICK u \in verified, p \in Pairs :
             /\ Issue(p, u)
             /\ store' = [access |-> p, refresh |-> p, sid |-> p, data |-> Nobody]
             /\ login' = [login EXCEPT ![t].at = "fetching", ![t].pair = p]
      BY <2>3 DEF SaveSession
    <3>2. UNCHANGED <<req, pending, logins, expired, verified, link, mailing>>
      BY <2>3 DEF SaveSession
    <3>3. login' \in [Tabs -> LoginType]
      <4>1. /\ login' = [login EXCEPT ![t] = [login[t] EXCEPT !.at = "fetching", !.pair = p]]
            /\ login[t] \in LoginType
        BY <3>1
      <4>2. [login[t] EXCEPT !.at = "fetching", !.pair = p] \in
                LoginType
        <5> HIDE DEF TypeOK
        <5> QED  BY <4>1
      <4> QED
        BY <4>1, <4>2
    <3>4. owner' \in [Pairs -> Users \cup {Nobody}]
      BY <3>1 DEF Issue
    <3> QED
      BY <3>1, <3>2, <3>3, <3>4
  <2>4. CASE FetchUser(t)
    <3>1. login[t].pair \in Pairs
      BY <2>4 DEF FetchUser, LoginsFaithful, Issued
    <3>2. owner[login[t].pair] \in Users \cup {Nobody}
      BY <3>1
    <3>3. \/ store' = [store EXCEPT !.data = owner[login[t].pair]] \/ store' \in {store, NoStore}
      BY <2>4 DEF FetchUser
    <3>4. store' \in StoreType
      <4>1. store \in StoreType
        OBVIOUS
      <4> HIDE DEF TypeOK
      <4> QED  BY <3>2, <3>3, <4>1
    <3> QED
      BY <2>4, <3>4 DEF FetchUser
  <2>5. CASE LoginFails(t)
    BY <2>5 DEF LoginFails
  <2>6. QED
    BY <1>5, <2>1, <2>2, <2>3, <2>4, <2>5 DEF LoginStep
<1>6. ASSUME NEW p \in Pairs, ExpireAccess(p) PROVE TypeOK'
  BY <1>6 DEF ExpireAccess
<1>7. ASSUME NEW l \in Links, MailBegin(l) PROVE TypeOK'
  BY <1>7 DEF MailBegin
<1>8. CASE MailEnd
  BY <1>8 DEF MailEnd
<1>9. CASE SignOut
  BY <1>9 DEF SignOut
<1>10. CASE UNCHANGED vars
  BY <1>10 DEF vars
<1>11. QED
  BY <1>1, <1>2, <1>3, <1>4, <1>5, <1>6, <1>7, <1>8, <1>9, <1>10 DEF Next, Renewal

\* A renewal stores a new pair of the session's account.
LEMMA RenewedPair ==
    ASSUME SessionInv, NEW t \in Tabs, pending[t] # NoRefresh, NEW p \in Pairs,
           Issue(p, owner[pending[t].token])
    PROVE  /\ {pending[t].sid, pending[t].token} \subseteq Issued
           /\ owner[pending[t].token] = owner[pending[t].sid]
           /\ p \notin Issued /\ owner'[p] = owner[pending[t].sid] /\ p \in Issued'
           /\ Issued \subseteq Issued'
           /\ \A q \in Pairs : q # p => owner'[q] = owner[q]
           /\ PairsInOrder'
<1>1. TypeOK /\ PairsInOrder /\ RenewalsFaithful
  BY DEF SessionInv, OneIdentity
<1>2. /\ {pending[t].sid, pending[t].token} \subseteq Issued
      /\ owner[pending[t].token] = owner[pending[t].sid]
  BY <1>1 DEF RenewalsFaithful
<1>3. owner[pending[t].token] \in Users
  BY <1>1, <1>2 DEF TypeOK, Issued
<1> QED
  BY <1>1, <1>2, <1>3, IssueFresh

\* A sign-in stores a new pair of a verified account.
LEMMA SignedInPair ==
    ASSUME SessionInv, NEW u \in verified, NEW p \in Pairs, Issue(p, u)
    PROVE  /\ p \notin Issued /\ owner'[p] = u /\ p \in Issued' /\ Issued \subseteq Issued'
           /\ \A q \in Pairs : q # p => owner'[q] = owner[q]
           /\ PairsInOrder'
<1>1. TypeOK /\ PairsInOrder /\ u \in Users
  BY DEF SessionInv, OneIdentity, TypeOK
<1> QED
  BY <1>1, IssueFresh

\* The server's answer is entered in the request it answers, and nowhere else.
LEMMA ServeAnswers ==
    ASSUME TypeOK, NEW r \in Requests, Serve(r)
    PROVE  /\ UNCHANGED <<store, pending, login, logins, serverVars>>
           /\ req[r].at = "sent" /\ \A q \in Requests : q # r => req'[q] = req[q]
           /\ req'[r].tab = req[r].tab /\ req'[r].sid = req[r].sid
           /\ req'[r].begun = req[r].begun /\ req'[r].access = req[r].access
           /\ req'[r].at \in {"401", "403", "ok"}
           /\ req'[r].at = "401" => req[r].access \in expired
           /\ req'[r].at = "ok" => req'[r].served = owner[req[r].access]
<1> DEFINE u == owner[req[r].access]
           refused == req[r].access \in expired
           at == IF refused THEN "401" ELSE IF u \notin verified THEN "403" ELSE "ok"
           served == IF refused \/ u \notin verified THEN Nobody ELSE u
<1>1. req' = [req EXCEPT ![r] = [req[r] EXCEPT !.at = at, !.served = served]]
  BY DEF Serve
<1>2. req[r].at = "sent" /\ UNCHANGED <<store, pending, login, logins, serverVars>>
  BY DEF Serve
<1>3. /\ at \in {"401", "403", "ok"}
      /\ at = "401" => refused
      /\ at = "ok" => served = u
  OBVIOUS
<1> HIDE DEF at, served
<1>4. req \in [Requests -> RequestType]
  BY DEF TypeOK, RequestType
<1>5. /\ req'[r] = [req[r] EXCEPT !.at = at, !.served = served]
      /\ \A q \in Requests : q # r => req'[q] = req[q]
  BY <1>1, <1>4
<1>6. req[r] \in RequestType
  BY <1>4
<1>7. /\ req'[r].at = at /\ req'[r].served = served
      /\ req'[r].tab = req[r].tab /\ req'[r].sid = req[r].sid
      /\ req'[r].begun = req[r].begun /\ req'[r].access = req[r].access
  BY <1>5, <1>6 DEF RequestType
<1> QED
  BY <1>2, <1>3, <1>5, <1>7

\* Issued pairs stay issued, to the same account.
OwnersKept == /\ Issued \subseteq Issued' /\ PairsInOrder'
              /\ \A q \in Issued : owner'[q] = owner[q]

\* The server's tokens are never reused.
LEMMA OwnersStep == SessionInv /\ [Next]_vars => OwnersKept
<1> SUFFICES ASSUME SessionInv, [Next]_vars PROVE OwnersKept
  OBVIOUS
<1> USE SessionAssumption DEF None, NoStore, NoReq, NoRefresh, NoLogin
<1>0. TypeOK /\ OneIdentity /\ PairsInOrder /\ StoredIssued /\ RequestsFaithful /\ RenewalsFaithful /\ LoginsFaithful
  BY DEF SessionInv, OneIdentity
<1> USE <1>0
<1>1. ASSUME NEW r \in Requests, RequestStep(r) PROVE OwnersKept
  <2>1. CASE Serve(r)
    BY <2>1 DEF Serve, OwnersKept, Issued, PairsInOrder
  <2>2. CASE TakeAnswer(r)
    BY <2>2 DEF TakeAnswer, OwnersKept, Issued, PairsInOrder
  <2>3. CASE TakeUnverified(r)
    BY <2>3 DEF TakeUnverified, OwnersKept, Issued, PairsInOrder
  <2>4. CASE RequestFails(r)
    BY <2>4 DEF RequestFails, OwnersKept, Issued, PairsInOrder
  <2>5. CASE TakeRefusal(r)
    BY <2>5 DEF TakeRefusal, OwnersKept, Issued, PairsInOrder
  <2>6. CASE Resend(r)
    BY <2>6 DEF Resend, OwnersKept, Issued, PairsInOrder
  <2>7. QED
    BY <1>1, <2>1, <2>2, <2>3, <2>4, <2>5, <2>6 DEF RequestStep
<1>2. ASSUME NEW r \in Requests, NEW t \in Tabs, Ask(r, t) PROVE OwnersKept
  BY <1>2 DEF Ask, OwnersKept, Issued, PairsInOrder
<1>3. ASSUME NEW t \in Tabs, NEW outcome \in Outcomes, TakeRenewal(t, outcome) PROVE OwnersKept
  <2>1. CASE UNCHANGED owner
    BY <2>1 DEF OwnersKept, Issued, PairsInOrder
  <2>2. ASSUME NEW p \in Pairs, Issue(p, owner[pending[t].token])
        PROVE  OwnersKept
    BY <1>3, <2>2, RenewedPair DEF TakeRenewal, Issued, OwnersKept
  <2> QED
    BY <1>3, <2>1, <2>2 DEF TakeRenewal, Renewed, Outcomes, OwnersKept, Issued, PairsInOrder
<1>4. ASSUME NEW t \in Tabs, Submits(t) PROVE OwnersKept
  BY <1>4 DEF Submits, Submit, OwnersKept, Issued, PairsInOrder
<1>5. ASSUME NEW t \in Tabs, LoginStep(t) PROVE OwnersKept
  <2>1. CASE ConsumeLink(t)
    BY <2>1 DEF ConsumeLink, OwnersKept, Issued, PairsInOrder
  <2>2. CASE ConfirmVerification(t)
    BY <2>2 DEF ConfirmVerification, OwnersKept, Issued, PairsInOrder
  <2>3. CASE SaveSession(t)
    BY <2>3, SignedInPair DEF SaveSession, Issued, OwnersKept
  <2>4. CASE FetchUser(t)
    BY <2>4 DEF FetchUser, OwnersKept, Issued, PairsInOrder
  <2>5. CASE LoginFails(t)
    BY <2>5 DEF LoginFails, OwnersKept, Issued, PairsInOrder
  <2>6. QED
    BY <1>5, <2>1, <2>2, <2>3, <2>4, <2>5 DEF LoginStep
<1>6. ASSUME NEW p \in Pairs, ExpireAccess(p) PROVE OwnersKept
  BY <1>6 DEF ExpireAccess, OwnersKept, Issued, PairsInOrder
<1>7. ASSUME NEW l \in Links, MailBegin(l) PROVE OwnersKept
  BY <1>7 DEF MailBegin, OwnersKept, Issued, PairsInOrder
<1>8. CASE MailEnd
  BY <1>8 DEF MailEnd, OwnersKept, Issued, PairsInOrder
<1>9. CASE SignOut
  BY <1>9 DEF SignOut, OwnersKept, Issued, PairsInOrder
<1>10. CASE UNCHANGED vars
  BY <1>10 DEF vars, OwnersKept, Issued, PairsInOrder
<1>11. QED
  BY <1>1, <1>2, <1>3, <1>4, <1>5, <1>6, <1>7, <1>8, <1>9, <1>10 DEF Next, Renewal

----------------------------------------------------------------------------
(* What the larger actions do to requests and to localStorage.             *)

\* A request that goes on: at another stage, and otherwise as before.
GoesOn(q, s) ==
    /\ s.at \in {"again", "renewing"}
    /\ s.tab = q.tab /\ s.sid = q.sid /\ s.begun = q.begun /\ s.access = q.access

\* A refused request is dropped, goes on, or waits; others are dropped or left alone.
LEMMA RefusalRequests ==
    ASSUME TypeOK, NEW r \in Requests, TakeRefusal(r)
    PROVE  /\ \A s \in Requests : s # r => req'[s] \in {req[s], NoReq}
           /\ req'[r] = NoReq \/ GoesOn(req[r], req'[r])
<1>1. req \in [Requests -> RequestType]
  BY DEF TypeOK, RequestType
<1>2. \/ req' = [req EXCEPT ![r] = NoReq]
      \/ req' = [req EXCEPT ![r] = [req[r] EXCEPT !.at = "again", !.retried = TRUE]]
      \/ req' = [req EXCEPT ![r] = Waiting(req[r])]
      \/ req' = [Rejected(req[r].tab) EXCEPT ![r] = Waiting(req[r])]
  BY <1>1 DEF TakeRefusal
<1>3. /\ Rejected(req[r].tab) = [s \in Requests |-> Rejected(req[r].tab)[s]]
      /\ \A s \in Requests : Rejected(req[r].tab)[s] \in {req[s], NoReq}
  BY DEF Rejected
<1>4. GoesOn(req[r], Waiting(req[r]))
  BY <1>1 DEF Waiting, GoesOn, RequestType
<1>5. GoesOn(req[r], [req[r] EXCEPT !.at = "again", !.retried = TRUE])
  BY <1>1 DEF GoesOn, RequestType
<1> QED
  BY <1>1, <1>2, <1>3, <1>4, <1>5

\* A renewal's waiters are dropped or go on.
LEMMA RenewalRequests ==
    ASSUME TypeOK, NEW t \in Tabs, NEW outcome \in Outcomes, TakeRenewal(t, outcome)
    PROVE  \A s \in Requests :
             \/ req'[s] = req[s] /\ (req[s].tab # t \/ req[s].at # "renewing")
             \/ req'[s] = NoReq
             \/ GoesOn(req[s], req'[s]) /\ req'[s].at = "again"
<1>1. req \in [Requests -> RequestType]
  BY DEF TypeOK, RequestType
<1>2. \A s \in Requests : GoesOn(req[s], [req[s] EXCEPT !.at = "again"])
                          /\ [req[s] EXCEPT !.at = "again"].at = "again"
  BY <1>1 DEF GoesOn, RequestType
<1> QED
  BY <1>2 DEF TakeRenewal, Released

\* A renewal leaves localStorage, empties it, or stores a new pair of the account.
LEMMA RenewalStore ==
    ASSUME SessionInv, NEW t \in Tabs, NEW outcome \in Outcomes, TakeRenewal(t, outcome)
    PROVE  \/ UNCHANGED <<store, owner>>
           \/ store' = NoStore /\ UNCHANGED owner /\ Renewable(pending[t])
           \/ /\ Renewable(pending[t])
              /\ \E p \in Pairs :
                   /\ store' = [store EXCEPT !.access = p, !.refresh = p]
                   /\ {pending[t].sid, pending[t].token} \subseteq Issued
                   /\ p \notin Issued /\ p \in Issued' /\ owner'[p] = owner[pending[t].sid]
<1>1. pending[t] # NoRefresh
  BY DEF TakeRenewal
<1>2. \/ UNCHANGED <<store, owner>>
      \/ Renewable(pending[t]) /\ EndSession(pending[t].sid) /\ UNCHANGED owner
      \/ /\ Renewable(pending[t])
         /\ \E p \in Pairs : /\ Issue(p, owner[pending[t].token])
                             /\ store' = [store EXCEPT !.access = p, !.refresh = p]
  BY DEF TakeRenewal, Renewed, Outcomes
<1>3. CASE UNCHANGED <<store, owner>>
  BY <1>3
<1>4. CASE Renewable(pending[t]) /\ EndSession(pending[t].sid) /\ UNCHANGED owner
  BY <1>4 DEF Renewable, EndSession
<1>5. ASSUME NEW p \in Pairs, Issue(p, owner[pending[t].token]), Renewable(pending[t]),
             store' = [store EXCEPT !.access = p, !.refresh = p]
      PROVE  \E q \in Pairs :
                   /\ store' = [store EXCEPT !.access = q, !.refresh = q]
                   /\ {pending[t].sid, pending[t].token} \subseteq Issued
                   /\ q \notin Issued /\ q \in Issued' /\ owner'[q] = owner[pending[t].sid]
  BY <1>1, <1>5, RenewedPair
<1> QED
  BY <1>2, <1>3, <1>4, <1>5

----------------------------------------------------------------------------
(* The parts of the invariant, each preserved by every step.               *)

\* No answer, renewal or sign-in puts together what belongs to two accounts:
\* TakeAnswer and EndSession look at the session they are about.
LEMMA StoredStep == SessionInv /\ [Next]_vars => OneIdentity' /\ StoredIssued'
<1> SUFFICES ASSUME SessionInv, [Next]_vars PROVE OneIdentity' /\ StoredIssued'
  OBVIOUS
<1> USE SessionAssumption DEF None, NoStore, NoReq, NoRefresh, NoLogin, OneIdentity, StoredIssued, SessionId, Pairs
<1>0. /\ TypeOK /\ OneIdentity /\ PairsInOrder /\ StoredIssued /\ RequestsFaithful /\ RenewalsFaithful
      /\ LoginsFaithful /\ MailingFirst /\ VerifiedAlone /\ NoSecondUse /\ NoneStranded
  BY DEF SessionInv, OneIdentity
<1>a. OwnersKept /\ TypeOK'
  BY OwnersStep, TypeStep
<1> USE <1>0, <1>a DEF OwnersKept, TypeOK, Issued, Users
<1>1. ASSUME NEW r \in Requests, RequestStep(r) PROVE OneIdentity' /\ StoredIssued'
  <2>1. CASE Serve(r)
    BY <2>1, ServeAnswers DEF serverVars
  <2>2. CASE TakeAnswer(r)
    <3>1. CASE req[r].sid # SessionId
      BY <2>2, <3>1 DEF TakeAnswer
    <3>2. CASE req[r].sid = SessionId
      <4>1. req[r].served = owner[SessionId] /\ SessionId \in Issued
        BY <2>2, <3>2 DEF TakeAnswer, RequestsFaithful
      <4>2. store' = [store EXCEPT !.data = owner[SessionId]] /\ UNCHANGED owner
        BY <2>2, <3>2, <4>1 DEF TakeAnswer
      <4> QED
        BY <4>1, <4>2
    <3> QED
      BY <3>1, <3>2
  <2>3. CASE TakeUnverified(r)
    BY <2>3 DEF TakeUnverified, EndSession, SessionId
  <2>4. CASE RequestFails(r)
    BY <2>4 DEF RequestFails
  <2>5. CASE TakeRefusal(r)
    BY <2>5 DEF TakeRefusal, EndSession, StillCurrent, Shared, Waiting, Rejected, SessionId
  <2>6. CASE Resend(r)
    BY <2>6 DEF Resend, Resent, Sent, SessionId
  <2>7. QED
    BY <1>1, <2>1, <2>2, <2>3, <2>4, <2>5, <2>6 DEF RequestStep
<1>2. ASSUME NEW r \in Requests, NEW t \in Tabs, Ask(r, t) PROVE OneIdentity' /\ StoredIssued'
  BY <1>2 DEF Ask, Sent, SessionId
<1>3. ASSUME NEW t \in Tabs, NEW outcome \in Outcomes, TakeRenewal(t, outcome) PROVE OneIdentity' /\ StoredIssued'
  <2>1. CASE UNCHANGED <<store, owner>>
    BY <2>1
  <2>2. CASE store' = NoStore /\ UNCHANGED owner
    BY <2>2
  <2>3. ASSUME NEW p \in Pairs, Renewable(pending[t]),
               store' = [store EXCEPT !.access = p, !.refresh = p],
               {pending[t].sid, pending[t].token} \subseteq Issued,
               p \notin Issued, p \in Issued', owner'[p] = owner[pending[t].sid]
        PROVE  OneIdentity' /\ StoredIssued'
    <3>1. store.access # None /\ SessionId = pending[t].sid
      BY <2>3 DEF Renewable
    <3>2. /\ store'.access = p /\ store'.refresh = p /\ store'.sid = store.sid
          /\ store'.data = store.data
      BY <2>3
    <3>3. SessionId' \in {SessionId, p}
      BY <3>1, <3>2
    <3>4. owner'[p] = owner[SessionId] /\ owner'[SessionId] = owner[SessionId] /\ SessionId \in Issued'
      BY <2>3, <3>1
    <3> QED
      BY <2>3, <3>1, <3>2, <3>3, <3>4
  <2> QED
    BY ZenonT(60), <1>3, <2>1, <2>2, <2>3, RenewalStore
<1>4. ASSUME NEW t \in Tabs, Submits(t) PROVE OneIdentity' /\ StoredIssued'
  <2>1. PICK how \in {"password", "link"}, l \in Links \cup {Nobody} : Submit(t, how, l)
    BY <1>4 DEF Submits
  <2> QED
    BY <2>1 DEF Submit
<1>5. ASSUME NEW t \in Tabs, LoginStep(t) PROVE OneIdentity' /\ StoredIssued'
  <2>1. CASE ConsumeLink(t)
    BY <2>1 DEF ConsumeLink, Consumable, Held
  <2>2. CASE ConfirmVerification(t)
    BY <2>2 DEF ConfirmVerification, RowFree
  <2>3. CASE SaveSession(t)
    <3>1. PICK u \in verified, p \in Pairs :
             Issue(p, u) /\ store' = [access |-> p, refresh |-> p, sid |-> p, data |-> Nobody]
      BY <2>3 DEF SaveSession
    <3>2. p \in Issued'
      BY <3>1, SignedInPair
    <3> QED
      BY <3>1, <3>2
  <2>4. CASE FetchUser(t)
    BY <2>4 DEF FetchUser, SessionId
  <2>5. CASE LoginFails(t)
    BY <2>5 DEF LoginFails
  <2>6. QED
    BY <1>5, <2>1, <2>2, <2>3, <2>4, <2>5 DEF LoginStep
<1>6. ASSUME NEW p \in Pairs, ExpireAccess(p) PROVE OneIdentity' /\ StoredIssued'
  BY <1>6 DEF ExpireAccess
<1>7. ASSUME NEW l \in Links, MailBegin(l) PROVE OneIdentity' /\ StoredIssued'
  BY <1>7 DEF MailBegin
<1>8. CASE MailEnd
  BY <1>8 DEF MailEnd
<1>9. CASE SignOut
  BY <1>9 DEF SignOut
<1>10. CASE UNCHANGED vars
  BY <1>10 DEF vars
<1>11. QED
  BY <1>1, <1>2, <1>3, <1>4, <1>5, <1>6, <1>7, <1>8, <1>9, <1>10 DEF Next, Renewal

\* A request is repeated under its own session only (Resent).
LEMMA RequestsStep == SessionInv /\ [Next]_vars => RequestsFaithful'
<1> SUFFICES ASSUME SessionInv, [Next]_vars PROVE RequestsFaithful'
  OBVIOUS
<1> USE SessionAssumption DEF None, NoStore, NoReq, NoRefresh, NoLogin, RequestsFaithful, StoredIssued, OneIdentity
<1>0. /\ TypeOK /\ OneIdentity /\ PairsInOrder /\ StoredIssued /\ RequestsFaithful /\ RenewalsFaithful
      /\ LoginsFaithful /\ MailingFirst /\ VerifiedAlone /\ NoSecondUse /\ NoneStranded
  BY DEF SessionInv, OneIdentity
<1>a. OwnersKept /\ TypeOK'
  BY OwnersStep, TypeStep
<1> USE <1>0, <1>a DEF OwnersKept, TypeOK, Issued, Users
<1>1. ASSUME NEW r \in Requests, RequestStep(r) PROVE RequestsFaithful'
  <2>1. CASE Serve(r)
    BY <2>1, ServeAnswers DEF serverVars
  <2>2. CASE TakeAnswer(r)
    BY <2>2 DEF TakeAnswer, SessionId
  <2>3. CASE TakeUnverified(r)
    BY <2>3 DEF TakeUnverified, EndSession, SessionId
  <2>4. CASE RequestFails(r)
    BY <2>4 DEF RequestFails
  <2>5. CASE TakeRefusal(r)
    <3>1. /\ \A s \in Requests : s # r => req'[s] \in {req[s], NoReq}
          /\ req'[r] = NoReq \/ GoesOn(req[r], req'[r])
      BY <2>5, RefusalRequests
    <3>2. UNCHANGED <<owner, expired>>
      BY <2>5 DEF TakeRefusal
    <3>3. req[r].at = "401"
      BY <2>5 DEF TakeRefusal
    <3> QED
      BY <3>1, <3>2, <3>3 DEF GoesOn
  <2>6. CASE Resend(r)
    BY <2>6 DEF Resend, Resent, Sent, SessionId
  <2>7. QED
    BY <1>1, <2>1, <2>2, <2>3, <2>4, <2>5, <2>6 DEF RequestStep
<1>2. ASSUME NEW r \in Requests, NEW t \in Tabs, Ask(r, t) PROVE RequestsFaithful'
  BY <1>2 DEF Ask, Sent, SessionId
<1>3. ASSUME NEW t \in Tabs, NEW outcome \in Outcomes, TakeRenewal(t, outcome) PROVE RequestsFaithful'
  <2>1. \A s \in Requests :
          req'[s] \in {req[s], NoReq} \/ GoesOn(req[s], req'[s])
    BY <1>3, RenewalRequests
  <2>2. UNCHANGED expired
    BY <1>3 DEF TakeRenewal
  <2>3. ASSUME NEW s \in Requests, req'[s].at # "idle"
        PROVE  /\ req[s].at # "idle"
               /\ req'[s].tab = req[s].tab /\ req'[s].sid = req[s].sid
               /\ req'[s].begun = req[s].begun /\ req'[s].access = req[s].access
               /\ req'[s].at \in {"ok", "401"} => req'[s] = req[s]
    <3>1. req[s].at = "renewing" \/ req'[s] \in {req[s], NoReq}
      BY <1>3 DEF TakeRenewal
    <3> QED  BY <2>1, <2>3, <3>1 DEF GoesOn
  <2> HIDE DEF TypeOK, Issued
  <2> QED
    BY <2>2, <2>3
<1>4. ASSUME NEW t \in Tabs, Submits(t) PROVE RequestsFaithful'
  <2>1. PICK how \in {"password", "link"}, l \in Links \cup {Nobody} : Submit(t, how, l)
    BY <1>4 DEF Submits
  <2> QED
    BY <2>1 DEF Submit
<1>5. ASSUME NEW t \in Tabs, LoginStep(t) PROVE RequestsFaithful'
  <2>1. CASE ConsumeLink(t)
    BY <2>1 DEF ConsumeLink, Consumable, Held
  <2>2. CASE ConfirmVerification(t)
    BY <2>2 DEF ConfirmVerification, RowFree
  <2>3. CASE SaveSession(t)
    BY <2>3 DEF SaveSession
  <2>4. CASE FetchUser(t)
    BY <2>4 DEF FetchUser, SessionId
  <2>5. CASE LoginFails(t)
    BY <2>5 DEF LoginFails
  <2>6. QED
    BY <1>5, <2>1, <2>2, <2>3, <2>4, <2>5 DEF LoginStep
<1>6. ASSUME NEW p \in Pairs, ExpireAccess(p) PROVE RequestsFaithful'
  BY <1>6 DEF ExpireAccess
<1>7. ASSUME NEW l \in Links, MailBegin(l) PROVE RequestsFaithful'
  BY <1>7 DEF MailBegin
<1>8. CASE MailEnd
  BY <1>8 DEF MailEnd
<1>9. CASE SignOut
  BY <1>9 DEF SignOut
<1>10. CASE UNCHANGED vars
  BY <1>10 DEF vars
<1>11. QED
  BY <1>1, <1>2, <1>3, <1>4, <1>5, <1>6, <1>7, <1>8, <1>9, <1>10 DEF Next, Renewal

\* A renewal that was overtaken is recognised by its session and its token.
LEMMA RenewalsStep == SessionInv /\ [Next]_vars => RenewalsFaithful'
<1> SUFFICES ASSUME SessionInv, [Next]_vars PROVE RenewalsFaithful'
  OBVIOUS
<1> USE SessionAssumption DEF None, NoStore, NoReq, NoRefresh, NoLogin, RenewalsFaithful, StoredIssued, OneIdentity, Renewable, SessionId
<1>0. /\ TypeOK /\ OneIdentity /\ PairsInOrder /\ StoredIssued /\ RequestsFaithful /\ RenewalsFaithful
      /\ LoginsFaithful /\ MailingFirst /\ VerifiedAlone /\ NoSecondUse /\ NoneStranded
  BY DEF SessionInv, OneIdentity
<1>a. OwnersKept /\ TypeOK'
  BY OwnersStep, TypeStep
<1> USE <1>0, <1>a DEF OwnersKept, TypeOK, Issued, Users
<1>1. ASSUME NEW r \in Requests, RequestStep(r) PROVE RenewalsFaithful'
  <2>1. CASE Serve(r)
    BY <2>1, ServeAnswers DEF serverVars
  <2>2. CASE TakeAnswer(r)
    BY <2>2 DEF TakeAnswer, SessionId
  <2>3. CASE TakeUnverified(r)
    BY <2>3 DEF TakeUnverified, EndSession, SessionId
  <2>4. CASE RequestFails(r)
    BY <2>4 DEF RequestFails
  <2>5. CASE TakeRefusal(r)
    <3>1. UNCHANGED <<owner, expired>> /\ store' \in {store, NoStore}
      BY <2>5 DEF TakeRefusal, EndSession
    <3>2. CASE UNCHANGED pending
      BY <3>1, <3>2
    <3>3. CASE /\ req[r].at = "401" /\ req[r].sid = SessionId /\ StillCurrent(req[r])
               /\ store.refresh # None /\ UNCHANGED store
               /\ pending' = [pending EXCEPT ![req[r].tab] = [sid |-> req[r].sid, token |-> store.refresh]]
      <4>1. /\ req[r].tab \in Tabs /\ req[r].access \in expired
            /\ store.access = req[r].access /\ store.access # None
        BY <3>3 DEF RequestsFaithful, StillCurrent, Pairs
      <4>2. pending'[req[r].tab] = [sid |-> SessionId, token |-> store.refresh]
        BY <3>3, <4>1
      <4>3. \A s \in Tabs : s # req[r].tab => pending'[s] = pending[s]
        BY <3>3
      <4>4. /\ {SessionId, store.refresh} \subseteq Issued
            /\ owner[store.refresh] = owner[SessionId]
        BY <3>3, <4>1
      <4> QED
        BY <3>1, <3>3, <4>1, <4>2, <4>3, <4>4
    <3> QED
      BY <2>5, <3>2, <3>3 DEF TakeRefusal
  <2>6. CASE Resend(r)
    BY <2>6 DEF Resend, Resent, Sent, SessionId
  <2>7. QED
    BY <1>1, <2>1, <2>2, <2>3, <2>4, <2>5, <2>6 DEF RequestStep
<1>2. ASSUME NEW r \in Requests, NEW t \in Tabs, Ask(r, t) PROVE RenewalsFaithful'
  BY <1>2 DEF Ask, Sent, SessionId
<1>3. ASSUME NEW t \in Tabs, NEW outcome \in Outcomes, TakeRenewal(t, outcome) PROVE RenewalsFaithful'
  <2>1. \A s \in Tabs : pending'[s] \in {pending[s], NoRefresh}
    BY <1>3 DEF TakeRenewal
  <2>2. UNCHANGED expired
    BY <1>3 DEF TakeRenewal
  <2>3. CASE UNCHANGED <<store, owner>>
    BY <2>1, <2>2, <2>3
  <2>4. CASE store' = NoStore /\ UNCHANGED owner
    BY <2>1, <2>2, <2>4
  <2>5. ASSUME NEW p \in Pairs, store' = [store EXCEPT !.access = p, !.refresh = p], p \notin Issued
        PROVE  RenewalsFaithful'
    <3>1. store'.refresh = p
      BY <2>5
    <3> QED  BY <2>1, <2>2, <2>5, <3>1
  <2> QED
    BY <1>3, <2>3, <2>4, <2>5, RenewalStore
<1>4. ASSUME NEW t \in Tabs, Submits(t) PROVE RenewalsFaithful'
  <2>1. PICK how \in {"password", "link"}, l \in Links \cup {Nobody} : Submit(t, how, l)
    BY <1>4 DEF Submits
  <2> QED
    BY <2>1 DEF Submit
<1>5. ASSUME NEW t \in Tabs, LoginStep(t) PROVE RenewalsFaithful'
  <2>1. CASE ConsumeLink(t)
    BY <2>1 DEF ConsumeLink, Consumable, Held
  <2>2. CASE ConfirmVerification(t)
    BY <2>2 DEF ConfirmVerification, RowFree
  <2>3. CASE SaveSession(t)
    <3>1. PICK u \in verified, p \in Pairs :
             Issue(p, u) /\ store' = [access |-> p, refresh |-> p, sid |-> p, data |-> Nobody]
      BY <2>3 DEF SaveSession
    <3>2. p \notin Issued
      BY <3>1, SignedInPair
    <3>3. UNCHANGED <<pending, expired>>
      BY <2>3 DEF SaveSession
    <3> QED
      BY <3>1, <3>2, <3>3
  <2>4. CASE FetchUser(t)
    BY <2>4 DEF FetchUser, SessionId
  <2>5. CASE LoginFails(t)
    BY <2>5 DEF LoginFails
  <2>6. QED
    BY <1>5, <2>1, <2>2, <2>3, <2>4, <2>5 DEF LoginStep
<1>6. ASSUME NEW p \in Pairs, ExpireAccess(p) PROVE RenewalsFaithful'
  BY <1>6 DEF ExpireAccess
<1>7. ASSUME NEW l \in Links, MailBegin(l) PROVE RenewalsFaithful'
  BY <1>7 DEF MailBegin
<1>8. CASE MailEnd
  BY <1>8 DEF MailEnd
<1>9. CASE SignOut
  BY <1>9 DEF SignOut
<1>10. CASE UNCHANGED vars
  BY <1>10 DEF vars
<1>11. QED
  BY <1>1, <1>2, <1>3, <1>4, <1>5, <1>6, <1>7, <1>8, <1>9, <1>10 DEF Next, Renewal

\* A confirmation uses its link up before it signs in.
LEMMA LoginsStep == SessionInv /\ [Next]_vars => LoginsFaithful'
<1> SUFFICES ASSUME SessionInv, [Next]_vars PROVE LoginsFaithful'
  OBVIOUS
<1> USE SessionAssumption DEF None, NoStore, NoReq, NoRefresh, NoLogin, LoginsFaithful
<1>0. /\ TypeOK /\ OneIdentity /\ PairsInOrder /\ StoredIssued /\ RequestsFaithful /\ RenewalsFaithful
      /\ LoginsFaithful /\ MailingFirst /\ VerifiedAlone /\ NoSecondUse /\ NoneStranded
  BY DEF SessionInv, OneIdentity
<1>a. OwnersKept /\ TypeOK'
  BY OwnersStep, TypeStep
<1> USE <1>0, <1>a DEF OwnersKept, TypeOK, Issued, Users
<1>1. ASSUME NEW r \in Requests, RequestStep(r) PROVE LoginsFaithful'
  <2>1. CASE Serve(r)
    BY <2>1 DEF Serve
  <2>2. CASE TakeAnswer(r)
    BY <2>2 DEF TakeAnswer, SessionId
  <2>3. CASE TakeUnverified(r)
    BY <2>3 DEF TakeUnverified, EndSession, SessionId
  <2>4. CASE RequestFails(r)
    BY <2>4 DEF RequestFails
  <2>5. CASE TakeRefusal(r)
    BY <2>5 DEF TakeRefusal, EndSession, StillCurrent, Shared, Waiting, Rejected, SessionId
  <2>6. CASE Resend(r)
    BY <2>6 DEF Resend, Resent, Sent, SessionId
  <2>7. QED
    BY <1>1, <2>1, <2>2, <2>3, <2>4, <2>5, <2>6 DEF RequestStep
<1>2. ASSUME NEW r \in Requests, NEW t \in Tabs, Ask(r, t) PROVE LoginsFaithful'
  BY <1>2 DEF Ask, Sent, SessionId
<1>3. ASSUME NEW t \in Tabs, NEW outcome \in Outcomes, TakeRenewal(t, outcome) PROVE LoginsFaithful'
  BY <1>3 DEF TakeRenewal, Renewed, Renewable, EndSession, SessionId, Resolved, Released, Outcomes
<1>4. ASSUME NEW t \in Tabs, Submits(t) PROVE LoginsFaithful'
  <2>1. PICK how \in {"password", "link"}, l \in Links \cup {Nobody} :
           Submit(t, how, l) /\ (how = "password" => l = Nobody)
    BY <1>4 DEF Submits
  <2>2. /\ login'[t].at = "sent" /\ login'[t].how = how /\ login'[t].link = l
        /\ \A s \in Tabs : s # t => login'[s] = login[s]
    BY <2>1 DEF Submit
  <2> QED
    BY <2>1, <2>2 DEF Submit
<1>5. ASSUME NEW t \in Tabs, LoginStep(t) PROVE LoginsFaithful'
  <2>1. CASE ConsumeLink(t)
    BY <2>1 DEF ConsumeLink, Consumable, Held
  <2>2. CASE ConfirmVerification(t)
    BY <2>2 DEF ConfirmVerification, RowFree
  <2>3. CASE SaveSession(t)
    <3>1. PICK u \in verified, p \in Pairs :
             /\ \/ login[t].at = "sent" /\ login[t].how = "password"
                \/ login[t].at = "ok"
             /\ Issue(p, u)
             /\ login' = [login EXCEPT ![t].at = "fetching", ![t].pair = p]
      BY <2>3 DEF SaveSession
    <3>2. p \in Issued'
      BY <3>1, SignedInPair
    <3>3. UNCHANGED link
      BY <2>3 DEF SaveSession
    <3>4. /\ login'[t].at = "fetching" /\ login'[t].pair = p /\ login'[t].link = login[t].link
          /\ login'[t].how = login[t].how
          /\ \A s \in Tabs : s # t => login'[s] = login[s]
      BY <3>1
    <3> QED
      BY <3>1, <3>2, <3>3, <3>4
  <2>4. CASE FetchUser(t)
    BY <2>4 DEF FetchUser, SessionId
  <2>5. CASE LoginFails(t)
    BY <2>5 DEF LoginFails
  <2>6. QED
    BY <1>5, <2>1, <2>2, <2>3, <2>4, <2>5 DEF LoginStep
<1>6. ASSUME NEW p \in Pairs, ExpireAccess(p) PROVE LoginsFaithful'
  BY <1>6 DEF ExpireAccess
<1>7. ASSUME NEW l \in Links, MailBegin(l) PROVE LoginsFaithful'
  BY <1>7 DEF MailBegin
<1>8. CASE MailEnd
  <2>1. \A l \in Links : link[l] # "none" => link'[l] = link[l]
    BY <1>8 DEF MailEnd, MailingFirst
  <2>2. UNCHANGED login
    BY <1>8 DEF MailEnd
  <2> QED
    BY <2>1, <2>2
<1>9. CASE SignOut
  BY <1>9 DEF SignOut
<1>10. CASE UNCHANGED vars
  BY <1>10 DEF vars
<1>11. QED
  BY <1>1, <1>2, <1>3, <1>4, <1>5, <1>6, <1>7, <1>8, <1>9, <1>10 DEF Next, Renewal

\* The row lock orders mailing and confirming.
LEMMA MailingStep == SessionInv /\ [Next]_vars => MailingFirst' /\ VerifiedAlone'
<1> SUFFICES ASSUME SessionInv, [Next]_vars PROVE MailingFirst' /\ VerifiedAlone'
  OBVIOUS
<1> USE SessionAssumption DEF None, NoStore, NoReq, NoRefresh, NoLogin, MailingFirst, VerifiedAlone
<1>0. /\ TypeOK /\ OneIdentity /\ PairsInOrder /\ StoredIssued /\ RequestsFaithful /\ RenewalsFaithful
      /\ LoginsFaithful /\ MailingFirst /\ VerifiedAlone /\ NoSecondUse /\ NoneStranded
  BY DEF SessionInv, OneIdentity
<1>a. OwnersKept /\ TypeOK'
  BY OwnersStep, TypeStep
<1> USE <1>0, <1>a DEF OwnersKept, TypeOK, Issued, Users
<1>1. ASSUME NEW r \in Requests, RequestStep(r) PROVE MailingFirst' /\ VerifiedAlone'
  <2>1. CASE Serve(r)
    BY <2>1 DEF Serve
  <2>2. CASE TakeAnswer(r)
    BY <2>2 DEF TakeAnswer, SessionId
  <2>3. CASE TakeUnverified(r)
    BY <2>3 DEF TakeUnverified, EndSession, SessionId
  <2>4. CASE RequestFails(r)
    BY <2>4 DEF RequestFails
  <2>5. CASE TakeRefusal(r)
    BY <2>5 DEF TakeRefusal, EndSession, StillCurrent, Shared, Waiting, Rejected, SessionId
  <2>6. CASE Resend(r)
    BY <2>6 DEF Resend, Resent, Sent, SessionId
  <2>7. QED
    BY <1>1, <2>1, <2>2, <2>3, <2>4, <2>5, <2>6 DEF RequestStep
<1>2. ASSUME NEW r \in Requests, NEW t \in Tabs, Ask(r, t) PROVE MailingFirst' /\ VerifiedAlone'
  BY <1>2 DEF Ask, Sent, SessionId
<1>3. ASSUME NEW t \in Tabs, NEW outcome \in Outcomes, TakeRenewal(t, outcome) PROVE MailingFirst' /\ VerifiedAlone'
  BY <1>3 DEF TakeRenewal, Renewed, Renewable, EndSession, SessionId, Resolved, Released, Outcomes
<1>4. ASSUME NEW t \in Tabs, Submits(t) PROVE MailingFirst' /\ VerifiedAlone'
  BY <1>4 DEF Submits, Submit
<1>5. ASSUME NEW t \in Tabs, LoginStep(t) PROVE MailingFirst' /\ VerifiedAlone'
  <2>1. CASE ConsumeLink(t)
    BY <2>1 DEF ConsumeLink, Consumable, Held
  <2>2. CASE ConfirmVerification(t)
    BY <2>2 DEF ConfirmVerification, RowFree
  <2>3. CASE SaveSession(t)
    BY <2>3 DEF SaveSession
  <2>4. CASE FetchUser(t)
    BY <2>4 DEF FetchUser, SessionId
  <2>5. CASE LoginFails(t)
    BY <2>5 DEF LoginFails
  <2>6. QED
    BY <1>5, <2>1, <2>2, <2>3, <2>4, <2>5 DEF LoginStep
<1>6. ASSUME NEW p \in Pairs, ExpireAccess(p) PROVE MailingFirst' /\ VerifiedAlone'
  BY <1>6 DEF ExpireAccess
<1>7. ASSUME NEW l \in Links, MailBegin(l) PROVE MailingFirst' /\ VerifiedAlone'
  BY <1>7 DEF MailBegin
<1>8. CASE MailEnd
  BY <1>8 DEF MailEnd
<1>9. CASE SignOut
  BY <1>9 DEF SignOut
<1>10. CASE UNCHANGED vars
  BY <1>10 DEF vars
<1>11. QED
  BY <1>1, <1>2, <1>3, <1>4, <1>5, <1>6, <1>7, <1>8, <1>9, <1>10 DEF Next, Renewal

\* Of two confirmations of a link the second finds it consumed.
LEMMA UsesStep == SessionInv /\ [Next]_vars => NoSecondUse'
<1> SUFFICES ASSUME SessionInv, [Next]_vars PROVE NoSecondUse'
  OBVIOUS
<1> USE SessionAssumption DEF None, NoStore, NoReq, NoRefresh, NoLogin, NoSecondUse, Uses, LoginsFaithful
<1>0. /\ TypeOK /\ OneIdentity /\ PairsInOrder /\ StoredIssued /\ RequestsFaithful /\ RenewalsFaithful
      /\ LoginsFaithful /\ MailingFirst /\ VerifiedAlone /\ NoSecondUse /\ NoneStranded
  BY DEF SessionInv, OneIdentity
<1>a. OwnersKept /\ TypeOK'
  BY OwnersStep, TypeStep
<1> USE <1>0, <1>a DEF OwnersKept, TypeOK, Issued, Users
<1>1. ASSUME NEW r \in Requests, RequestStep(r) PROVE NoSecondUse'
  <2>1. CASE Serve(r)
    BY <2>1, ServeAnswers DEF serverVars
  <2>2. CASE TakeAnswer(r)
    BY <2>2 DEF TakeAnswer, SessionId
  <2>3. CASE TakeUnverified(r)
    BY <2>3 DEF TakeUnverified, EndSession, SessionId
  <2>4. CASE RequestFails(r)
    BY <2>4 DEF RequestFails
  <2>5. CASE TakeRefusal(r)
    BY <2>5 DEF TakeRefusal, EndSession, StillCurrent, Shared, Waiting, Rejected, SessionId
  <2>6. CASE Resend(r)
    BY <2>6 DEF Resend, Resent, Sent, SessionId
  <2>7. QED
    BY <1>1, <2>1, <2>2, <2>3, <2>4, <2>5, <2>6 DEF RequestStep
<1>2. ASSUME NEW r \in Requests, NEW t \in Tabs, Ask(r, t) PROVE NoSecondUse'
  BY <1>2 DEF Ask, Sent, SessionId
<1>3. ASSUME NEW t \in Tabs, NEW outcome \in Outcomes, TakeRenewal(t, outcome) PROVE NoSecondUse'
  BY <1>3 DEF TakeRenewal
<1>4. ASSUME NEW t \in Tabs, Submits(t) PROVE NoSecondUse'
  <2>1. PICK how \in {"password", "link"}, l \in Links \cup {Nobody} :
           Submit(t, how, l) /\ (how = "password" => l = Nobody)
    BY <1>4 DEF Submits
  <2>2. /\ login'[t].at = "sent" /\ login'[t].how = how /\ login'[t].link = l
        /\ \A s \in Tabs : s # t => login'[s] = login[s]
    BY <2>1 DEF Submit
  <2> QED
    BY <2>1, <2>2 DEF Submit
<1>5. ASSUME NEW t \in Tabs, LoginStep(t) PROVE NoSecondUse'
  <2>1. CASE ConsumeLink(t)
    BY <2>1 DEF ConsumeLink, Consumable, Held
  <2>2. CASE ConfirmVerification(t)
    BY <2>2 DEF ConfirmVerification, RowFree
  <2>3. CASE SaveSession(t)
    BY <2>3 DEF SaveSession
  <2>4. CASE FetchUser(t)
    BY <2>4 DEF FetchUser, SessionId
  <2>5. CASE LoginFails(t)
    BY <2>5 DEF LoginFails
  <2>6. QED
    BY <1>5, <2>1, <2>2, <2>3, <2>4, <2>5 DEF LoginStep
<1>6. ASSUME NEW p \in Pairs, ExpireAccess(p) PROVE NoSecondUse'
  BY <1>6 DEF ExpireAccess
<1>7. ASSUME NEW l \in Links, MailBegin(l) PROVE NoSecondUse'
  BY <1>7 DEF MailBegin
<1>8. CASE MailEnd
  BY <1>8 DEF MailEnd
<1>9. CASE SignOut
  BY <1>9 DEF SignOut
<1>10. CASE UNCHANGED vars
  BY <1>10 DEF vars
<1>11. QED
  BY <1>1, <1>2, <1>3, <1>4, <1>5, <1>6, <1>7, <1>8, <1>9, <1>10 DEF Next, Renewal

\* A renewal that takes the place of another rejects those that waited for it.
LEMMA WaitersStep == SessionInv /\ [Next]_vars => NoneStranded'
<1> SUFFICES ASSUME SessionInv, [Next]_vars PROVE NoneStranded'
  OBVIOUS
<1> USE SessionAssumption DEF None, NoStore, NoReq, NoRefresh, NoLogin, NoneStranded, RequestsFaithful
<1>0. /\ TypeOK /\ OneIdentity /\ PairsInOrder /\ StoredIssued /\ RequestsFaithful /\ RenewalsFaithful
      /\ LoginsFaithful /\ MailingFirst /\ VerifiedAlone /\ NoSecondUse /\ NoneStranded
  BY DEF SessionInv, OneIdentity
<1>a. OwnersKept /\ TypeOK'
  BY OwnersStep, TypeStep
<1> USE <1>0, <1>a DEF OwnersKept, TypeOK, Issued, Users
<1>1. ASSUME NEW r \in Requests, RequestStep(r) PROVE NoneStranded'
  <2>1. CASE Serve(r)
    <3>1. \A q \in Requests : req'[q].at = "renewing" => req'[q] = req[q]
      BY ONLY <1>0, <2>1, ServeAnswers
    <3>2. pending' = pending
      BY ONLY <1>0, <2>1, ServeAnswers
    <3> HIDE DEF TypeOK
    <3> QED
      BY <3>1, <3>2
  <2>2. CASE TakeAnswer(r)
    BY <2>2 DEF TakeAnswer, SessionId
  <2>3. CASE TakeUnverified(r)
    BY <2>3 DEF TakeUnverified, EndSession, SessionId
  <2>4. CASE RequestFails(r)
    BY <2>4 DEF RequestFails
  <2>5. CASE TakeRefusal(r)
    <3> DEFINE t == req[r].tab
    <3>1. /\ \A s \in Requests : s # r => req'[s] \in {req[s], NoReq}
          /\ req'[r] = NoReq \/ GoesOn(req[r], req'[r])
      BY <2>5, RefusalRequests
    <3>2. t \in Tabs
      BY <2>5 DEF TakeRefusal
    <3>3. CASE UNCHANGED pending /\ req'[r].at # "renewing"
      <4> HIDE DEF TypeOK, Issued
      <4> QED  BY <3>1, <3>3
    <3>4. CASE UNCHANGED pending /\ pending[t].sid = req[r].sid
      <4> HIDE DEF TypeOK, Issued
      <4> QED  BY <3>1, <3>4 DEF GoesOn
    <3>5. CASE /\ pending' = [pending EXCEPT ![t] = [sid |-> req[r].sid, token |-> store.refresh]]
               /\ req' = [Rejected(t) EXCEPT ![r] = Waiting(req[r])]
      <4>1. /\ pending'[t].sid = req[r].sid
            /\ \A s \in Tabs : s # t => pending'[s] = pending[s]
        BY <3>2, <3>5
      <4>2. \A s \in Requests : s # r => req'[s] = Rejected(t)[s]
        BY <3>5 DEF Rejected
      <4>3. \A s \in Requests : s # r /\ req'[s].at = "renewing" =>
              req'[s] = req[s] /\ req[s].at = "renewing" /\ req[s].tab # t
        BY <4>2 DEF Rejected
      <4>4. req'[r].tab = t /\ req'[r].sid = req[r].sid
        <5>1. req'[r] = Waiting(req[r])
          BY <3>5 DEF Rejected
        <5> HIDE DEF TypeOK
        <5> QED  BY <5>1 DEF Waiting
      <4> QED
        BY <4>1, <4>3, <4>4
    <3> QED
      BY <2>5, <3>3, <3>4, <3>5 DEF TakeRefusal, Shared, Waiting
  <2>6. CASE Resend(r)
    BY <2>6 DEF Resend, Resent, Sent, SessionId
  <2>7. QED
    BY <1>1, <2>1, <2>2, <2>3, <2>4, <2>5, <2>6 DEF RequestStep
<1>2. ASSUME NEW r \in Requests, NEW t \in Tabs, Ask(r, t) PROVE NoneStranded'
  BY <1>2 DEF Ask, Sent, SessionId
<1>3. ASSUME NEW t \in Tabs, NEW outcome \in Outcomes, TakeRenewal(t, outcome) PROVE NoneStranded'
  <2>1. \A s \in Requests :
          \/ req'[s] = req[s] /\ (req[s].tab # t \/ req[s].at # "renewing")
          \/ req'[s] = NoReq
          \/ GoesOn(req[s], req'[s]) /\ req'[s].at = "again"
    BY <1>3, RenewalRequests
  <2>2. \A s \in Tabs : s # t => pending'[s] = pending[s]
    BY <1>3 DEF TakeRenewal
  <2> HIDE DEF TypeOK, Issued
  <2> QED
    BY <2>1, <2>2 DEF GoesOn
<1>4. ASSUME NEW t \in Tabs, Submits(t) PROVE NoneStranded'
  <2>1. PICK how \in {"password", "link"}, l \in Links \cup {Nobody} : Submit(t, how, l)
    BY <1>4 DEF Submits
  <2> QED
    BY <2>1 DEF Submit
<1>5. ASSUME NEW t \in Tabs, LoginStep(t) PROVE NoneStranded'
  <2>1. CASE ConsumeLink(t)
    BY <2>1 DEF ConsumeLink, Consumable, Held
  <2>2. CASE ConfirmVerification(t)
    BY <2>2 DEF ConfirmVerification, RowFree
  <2>3. CASE SaveSession(t)
    BY <2>3 DEF SaveSession
  <2>4. CASE FetchUser(t)
    BY <2>4 DEF FetchUser, SessionId
  <2>5. CASE LoginFails(t)
    BY <2>5 DEF LoginFails
  <2>6. QED
    BY <1>5, <2>1, <2>2, <2>3, <2>4, <2>5 DEF LoginStep
<1>6. ASSUME NEW p \in Pairs, ExpireAccess(p) PROVE NoneStranded'
  BY <1>6 DEF ExpireAccess
<1>7. ASSUME NEW l \in Links, MailBegin(l) PROVE NoneStranded'
  BY <1>7 DEF MailBegin
<1>8. CASE MailEnd
  BY <1>8 DEF MailEnd
<1>9. CASE SignOut
  BY <1>9 DEF SignOut
<1>10. CASE UNCHANGED vars
  BY <1>10 DEF vars
<1>11. QED
  BY <1>1, <1>2, <1>3, <1>4, <1>5, <1>6, <1>7, <1>8, <1>9, <1>10 DEF Next, Renewal

----------------------------------------------------------------------------
(* The theorems.                                                           *)

\* A browser that was never used, one with a session, one of an older version.
LEMMA InitSession == Init => SessionInv
<1> SUFFICES ASSUME Init PROVE SessionInv
  OBVIOUS
<1> USE SessionAssumption DEF Init, None, NoStore, NoReq, NoRefresh, NoLogin, Pairs, Users
<1>0. \/ store = NoStore /\ owner = [p \in Pairs |-> Nobody]
      \/ \E u \in Users : /\ store.access = 1 /\ store.sid \in {1, 0} /\ store.refresh \in {1, 0}
                          /\ store.data = u /\ store \in StoreType
                          /\ owner = [p \in Pairs |-> IF p = 1 THEN u ELSE Nobody]
  <2> 1 \in Pairs
    OBVIOUS
  <2>1. CASE /\ store = [access |-> 1, refresh |-> 1, sid |-> 1, data |-> Owner]
             /\ owner = [p \in Pairs |-> IF p = 1 THEN Owner ELSE Nobody]
    <3> HIDE DEF Init, Pairs
    <3> QED  BY <2>1 DEF StoreType
  <2>2. ASSUME NEW u \in Users, store = [NoStore EXCEPT !.access = 1, !.data = u],
               owner = [p \in Pairs |-> IF p = 1 THEN u ELSE Nobody]
        PROVE  \E v \in Users : /\ store.access = 1 /\ store.sid \in {1, 0} /\ store.refresh \in {1, 0}
                                /\ store.data = v /\ store \in StoreType
                                /\ owner = [p \in Pairs |-> IF p = 1 THEN v ELSE Nobody]
    <3> HIDE DEF Init, Pairs, Users
    <3> WITNESS u \in Users
    <3> QED  BY <2>2 DEF StoreType
  <2> QED  BY <2>1, <2>2
<1>1. TypeOK
  <2>1. store \in StoreType /\ owner \in [Pairs -> Users \cup {Nobody}]
    <3> HIDE DEF Init, Pairs, Users
    <3> QED  BY <1>0 DEF StoreType
  <2>2. NoReq \in RequestType /\ NoLogin \in LoginType
    BY DEF RequestType, LoginType
  <2>3. req \in [Requests -> RequestType] /\ login \in [Tabs -> LoginType]
    BY <2>2
  <2>4. pending \in [Tabs -> [sid : Pairs \cup {None}, token : Pairs \cup {None}]]
    OBVIOUS
  <2>5. logins \in 0..MaxLogins /\ link \in [Links -> {"none", "mailed", "consumed"}]
    OBVIOUS
  <2>6. expired \subseteq Pairs /\ verified \subseteq Users /\ mailing \in Links \cup {Nobody}
    OBVIOUS
  <2> QED
    BY <2>1, <2>3, <2>4, <2>5, <2>6 DEF TypeOK, StoreType, RequestType, LoginType
<1>2. PairsInOrder
  <2>1. Issued = 1..0 \/ Issued = 1..1
    BY DEF Issued
  <2>2. 0 \in 0..MaxPairs /\ 1 \in 0..MaxPairs
    OBVIOUS
  <2> HIDE DEF Init
  <2> QED  BY <2>1, <2>2 DEF PairsInOrder
<1>3. OneIdentity /\ StoredIssued
  <2> HIDE DEF Users
  <2>1. CASE store = NoStore
    BY <1>1, <2>1 DEF OneIdentity, StoredIssued
  <2>2. ASSUME NEW u \in Users, 1 \in Pairs, store.access = 1, store.sid \in {1, 0}, store.refresh \in {1, 0},
               store.data = u, owner = [p \in Pairs |-> IF p = 1 THEN u ELSE Nobody]
        PROVE  OneIdentity /\ StoredIssued
    <3>1. SessionId = 1 /\ owner[1] = u /\ u # Nobody
      BY <2>2 DEF SessionId
    <3>2. 1 \in Issued
      BY <2>2, <3>1 DEF Issued
    <3> QED
      BY <1>1, <2>2, <3>1, <3>2 DEF OneIdentity, StoredIssued
  <2>3. 1 \in Pairs /\ Owner \in Users
    BY DEF Users
  <2> HIDE DEF Init, Pairs
  <2> QED
    BY <1>0, <2>1, <2>2, <2>3
<1>4. RequestsFaithful /\ RenewalsFaithful /\ NoneStranded
  BY DEF RequestsFaithful, RenewalsFaithful, NoneStranded
<1>5. LoginsFaithful /\ NoSecondUse
  BY DEF LoginsFaithful, NoSecondUse, Uses
<1>6. MailingFirst /\ VerifiedAlone
  BY DEF MailingFirst, VerifiedAlone
<1> QED
  BY <1>2, <1>3, <1>4, <1>5, <1>6 DEF SessionInv

\* The invariant, from its parts.
LEMMA SessionInvStep == SessionInv /\ [Next]_vars => SessionInv'
  BY OwnersStep, StoredStep, RequestsStep, RenewalsStep, LoginsStep, MailingStep, UsesStep, WaitersStep
  DEF SessionInv, OwnersKept

\* What anybody holds is of an issued pair, and pairs keep their accounts.
LEMMA SessionInvariant == Spec => []SessionInv
  BY InitSession, SessionInvStep, PTL DEF Spec

\* For any number of tabs, requests, links and pairs: the two tokens, the session
\* id and user_data in localStorage belong to one account, whatever answers of an
\* earlier session come in (the checks of http/interceptors and session.ts).
THEOREM StoredForOne == Spec => []OneIdentity
<1>1. SessionInv => OneIdentity
  BY DEF SessionInv
<1> QED
  BY <1>1, SessionInvariant, PTL

\* A request is executed for the account that was signed in when the page made it,
\* also when the response interceptor repeats it after a renewal.
THEOREM AskedForOne == Spec => []OwnAccount
<1>1. SessionInv => OwnAccount
  BY DEF SessionInv, RequestsFaithful, OwnAccount
<1> QED
  BY <1>1, SessionInvariant, PTL

\* confirm_verification() under the row lock and consume_token(): a link signs in
\* one tab, and a verified account has no link left that could be used.
THEOREM LinksUsedOnce == Spec => []LinksOnce
<1>1. SessionInv => LinksOnce
  <2> SUFFICES ASSUME SessionInv PROVE LinksOnce
    OBVIOUS
  <2>1. ASSUME NEW l \in Links
        PROVE  Cardinality({t \in Tabs : login[t].link = l
                              /\ login[t].at \in {"consumed", "ok", "fetching"}}) <= 1
    <3> DEFINE S == {t \in Tabs : login[t].link = l /\ login[t].at \in {"consumed", "ok", "fetching"}}
    <3>1. \A t, u \in S : t = u
      BY DEF SessionInv, NoSecondUse, Uses
    <3>2. ASSUME S = {} PROVE Cardinality(S) <= 1
      BY <3>2, FS_EmptySet
    <3>3. ASSUME NEW t \in S PROVE Cardinality(S) <= 1
      <4>1. S = {t}
        BY <3>1, <3>3
      <4>2. Cardinality({t}) = 1
        BY FS_Singleton
      <4> HIDE DEF S
      <4> QED  BY <4>1, <4>2
    <3> HIDE DEF S
    <3>4. Cardinality(S) <= 1
      BY <3>2, <3>3
    <3> QED  BY <3>4 DEF S
  <2> QED
    BY <2>1 DEF LinksOnce, SessionInv, VerifiedAlone
<1> QED
  BY <1>1, SessionInvariant, PTL

\* renewSession(): a request that waits, waits for a renewal of its own session.
THEOREM WaitersServed == Spec => []NoneStranded
<1>1. SessionInv => NoneStranded
  BY DEF SessionInv
<1> QED
  BY <1>1, SessionInvariant, PTL

\* The condition of OnlyRefusedSessionEnds, for one step.
EndJustified ==
    store.access # None /\ store'.access = None /\ login' = login =>
        \/ UNCHANGED <<req, pending>>
        \/ store.access \in expired
        \/ \E r \in Requests : req[r].at = "403" /\ req'[r].at = "idle"

\* The interceptors end a session whose access token was refused, or whose account is not
\* verified; a renewal is answered for the token it was begun with.
LEMMA EndStep == SessionInv /\ [Next]_vars => EndJustified
<1> SUFFICES ASSUME SessionInv, [Next]_vars PROVE EndJustified
  OBVIOUS
<1> USE SessionAssumption DEF None, NoStore, NoReq, NoRefresh, NoLogin
<1>0. TypeOK /\ OneIdentity /\ PairsInOrder /\ StoredIssued /\ RequestsFaithful /\ RenewalsFaithful /\ LoginsFaithful
  BY DEF SessionInv, OneIdentity
<1> USE <1>0
<1>1. ASSUME NEW r \in Requests, RequestStep(r) PROVE EndJustified
  <2>1. CASE Serve(r)
    BY <2>1 DEF Serve, EndJustified
  <2>2. CASE TakeAnswer(r)
    <3>1. store'.access = store.access
      BY <2>2 DEF TakeAnswer, TypeOK
    <3> QED  BY <3>1 DEF EndJustified
  <2>3. CASE TakeUnverified(r)
    <3>1. req[r].at = "403" /\ req'[r] = NoReq
      BY <2>3 DEF TakeUnverified, TypeOK
    <3> QED  BY <3>1 DEF EndJustified
  <2>4. CASE RequestFails(r)
    BY <2>4 DEF RequestFails, EndJustified
  <2>5. CASE TakeRefusal(r)
    <3>1. store' = store \/ StillCurrent(req[r])
      BY <2>5 DEF TakeRefusal
    <3>2. req[r].access \in expired
      BY <2>5 DEF TakeRefusal, RequestsFaithful
    <3> QED  BY <3>1, <3>2 DEF EndJustified, StillCurrent
  <2>6. CASE Resend(r)
    BY <2>6 DEF Resend, EndJustified
  <2>7. QED
    BY <1>1, <2>1, <2>2, <2>3, <2>4, <2>5, <2>6 DEF RequestStep
<1>2. ASSUME NEW r \in Requests, NEW t \in Tabs, Ask(r, t) PROVE EndJustified
  BY <1>2 DEF Ask, EndJustified
<1>3. ASSUME NEW t \in Tabs, NEW outcome \in Outcomes, TakeRenewal(t, outcome) PROVE EndJustified
  <2>1. store' = store \/ Renewable(pending[t])
    BY <1>3, RenewalStore
  <2>2. Renewable(pending[t]) => store.access \in expired
    BY <1>3 DEF TakeRenewal, RenewalsFaithful
  <2> QED  BY <2>1, <2>2 DEF EndJustified
<1>4. ASSUME NEW t \in Tabs, Submits(t) PROVE EndJustified
  <2>1. UNCHANGED store
    BY <1>4 DEF Submits, Submit
  <2> QED  BY <2>1 DEF EndJustified
<1>5. ASSUME NEW t \in Tabs, LoginStep(t) PROVE EndJustified
  <2>1. CASE ConsumeLink(t)
    BY <2>1 DEF ConsumeLink, EndJustified
  <2>2. CASE ConfirmVerification(t)
    BY <2>2 DEF ConfirmVerification, EndJustified
  <2>3. CASE SaveSession(t)
    <3>1. store'.access \in Pairs
      BY <2>3 DEF SaveSession
    <3> QED  BY <3>1 DEF EndJustified, Pairs
  <2>4. CASE FetchUser(t)
    <3>1. store'.access = store.access
      BY <2>4 DEF FetchUser, TypeOK
    <3> QED  BY <3>1 DEF EndJustified
  <2>5. CASE LoginFails(t)
    <3>1. login'[t].at = "idle" /\ login[t].at # "idle"
      BY <2>5 DEF LoginFails, TypeOK
    <3> QED  BY <3>1 DEF EndJustified
  <2>6. QED
    BY <1>5, <2>1, <2>2, <2>3, <2>4, <2>5 DEF LoginStep
<1>6. ASSUME NEW p \in Pairs, ExpireAccess(p) PROVE EndJustified
  BY <1>6 DEF ExpireAccess, EndJustified
<1>7. ASSUME NEW l \in Links, MailBegin(l) PROVE EndJustified
  BY <1>7 DEF MailBegin, EndJustified
<1>8. CASE MailEnd
  BY <1>8 DEF MailEnd, EndJustified
<1>9. CASE SignOut
  BY <1>9 DEF SignOut, EndJustified
<1>10. CASE UNCHANGED vars
  BY <1>10 DEF vars, EndJustified
<1>11. QED
  BY <1>1, <1>2, <1>3, <1>4, <1>5, <1>6, <1>7, <1>8, <1>9, <1>10 DEF Next, Renewal

\* The interceptors end a session only when its current credentials were refused: a
\* late 401 for an older token, a failed renewal or an unreachable server keep it.
THEOREM EndsOnRefusal == Spec => OnlyRefusedSessionEnds
<1>1. SessionInv /\ [Next]_vars => [EndJustified]_vars
  BY EndStep
<1>2. Spec => [][EndJustified]_vars
  BY <1>1, SessionInvariant, PTL DEF Spec
<1> QED
  BY <1>2, PTL DEF OnlyRefusedSessionEnds, EndJustified
=============================================================================
