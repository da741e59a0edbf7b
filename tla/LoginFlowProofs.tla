---------------------------- MODULE LoginFlowProofs ----------------------------
(***************************************************************************)
(* The safety properties of module LoginFlow hold for any number of tabs,  *)
(* requests, attempts, pages and codes.  They are inductive together with  *)
(* what ties the pieces of a login to each other: a code belongs to the    *)
(* attempt of the URL it came with, a request past its checks has the      *)
(* cookie of that attempt, a tab and the request it waits for agree, and   *)
(* every copy of a cookie has the page that the tab of its attempt was     *)
(* asked to return to.                                                     *)
(***************************************************************************)
EXTENDS LoginFlow, TLAPS

\* A cookie that is in the jar, came with a request or is on its way back.
Abroad(c) == \/ c = jar
             \/ \E r \in Request : c = req[r].cookie \/ c \in req[r].set

\* Tab t is in attempt a, or is told so by the answer it waits for.
Attempts(t, a) == \/ tab[t].attempt = a
                  \/ tab[t].waits # None /\ req[tab[t].waits].attempt = a

RequestSound(q) ==
    /\ q.step # "idle" => q.tab \in Tab
    /\ q.code \in Code => q.code.attempt = q.attempt
    /\ q.step = "login" => q.code = None
    /\ q.step = "callback" => q.code # None
    /\ q.step \in {"exchange", "create"} =>
         q.code \in Code /\ q.cookie \in Cookie /\ q.cookie.attempt = q.attempt
    /\ q.step = "create" => q.code \in redeemed /\ sessions[q.code] = 0
    /\ q.step = "answer" /\ q.to = "idp" => q.attempt # None

\* What tab t, in state p, knows of the request q it waits for.
Awaits(t, p, q) ==
    /\ q.tab = t /\ q.code = p.code /\ q.step # "idle"
    /\ q.step = "login" => q.page = p.asked
    /\ q.step \in {"exchange", "create"} \/ (q.step = "answer" /\ q.to = "page")
         => q.page = SafeReturnTo(p.asked)

TabSound(t, p) ==
    /\ p.code \in Code => p.code.attempt = p.attempt
    /\ p.at = "idp" => p.attempt # None
    /\ p.at = "waiting" <=> p.waits # None
    /\ p.landed # None => p.landed = SafeReturnTo(p.asked)

RequestsSound == \A r \in Request : RequestSound(req[r])

TabsSound ==
    \A t \in Tab : /\ TabSound(t, tab[t])
                   /\ tab[t].waits # None => Awaits(t, tab[t], req[tab[t].waits])

OneRedeemer ==
    \A r, s \in Request : /\ req[r].step = "create" /\ req[s].step = "create"
                          /\ req[r].code = req[s].code
                          => r = s

SessionsRedeemed ==
    \A c \in Code : sessions[c] <= 1 /\ (sessions[c] > 0 => c \in redeemed)

PagesAgree ==
    \A t \in Tab, c \in Cookie :
        Abroad(c) /\ Attempts(t, c.attempt) => c.page = SafeReturnTo(tab[t].asked)

Good(c, a) == c \in Cookie /\ c.signed /\ c.attempt = a

\* What is known of a request of the login that nothing interfered with.
OnTrack(q) ==
    /\ q.step = "callback" => q.code # Denied /\ Good(q.cookie, q.attempt)
    /\ q.step = "answer" /\ q.to = "idp" =>
         q.set # {} /\ \A c \in q.set : Good(c, q.attempt)

SoloOnTrack ==
    solo # None => /\ \A r \in Request : /\ req[r].step # "idle" => tab[solo].waits = r
                                         /\ OnTrack(req[r])
                   /\ tab[solo].at = "idp" => Good(jar, tab[solo].attempt)

FlowInv == TypeOK /\ RequestsSound /\ TabsSound /\ OneRedeemer /\ SessionsRedeemed
           /\ OwnVerifierOnly /\ PagesAgree /\ SoloOnTrack

-----------------------------------------------------------------------------
(* The records.                                                             *)

\* A slot that is free is a request that is idle.
LEMMA QuietRequest == Quiet \in RequestState /\ Quiet.step = "idle"
  BY DEF Quiet, RequestState, Step

LoggingIn(t, p) ==
    [Quiet EXCEPT !.step = "login", !.tab = t, !.page = p]

\* The request of AuthState.login.
LEMMA LoginRequest ==
    ASSUME NEW t \in Tab, NEW p \in Page
    PROVE  LET q == LoggingIn(t, p) IN
           /\ q \in RequestState /\ q.step = "login" /\ q.tab = t /\ q.page = p
           /\ q.attempt = None /\ q.code = None /\ q.cookie = None /\ q.set = {}
  BY DEF Quiet, RequestState, Step, LoggingIn

CallingBack(t, a, c, k) ==
    [Quiet EXCEPT !.step = "callback", !.tab = t, !.attempt = a,
                                  !.code = c, !.cookie = k]

\* The request of a callback URL, with the cookie of the moment.
LEMMA CallbackRequest ==
    ASSUME NEW t \in Tab, NEW a \in Attempt \cup {None}, NEW c \in Code \cup {None, Denied},
           NEW k \in Cookie \cup {None}
    PROVE  LET q == CallingBack(t, a, c, k) IN
           /\ q \in RequestState /\ q.step = "callback" /\ q.tab = t
           /\ q.attempt = a /\ q.code = c /\ q.cookie = k /\ q.set = {}
  BY DEF Quiet, RequestState, Step, CallingBack

Answered(q, to, set) == [q EXCEPT !.step = "answer", !.to = to, !.set = set]

\* An answer keeps what the request was.
LEMMA AnswerRequest ==
    ASSUME NEW q \in RequestState, NEW to \in {"idp", "page", "error"},
           NEW set \in SUBSET (Cookie \cup {None})
    PROVE  LET a == Answered(q, to, set) IN
           /\ a \in RequestState /\ a.step = "answer" /\ a.to = to /\ a.set = set
           /\ a.tab = q.tab /\ a.attempt = q.attempt /\ a.code = q.code
           /\ a.cookie = q.cookie /\ a.page = q.page
  BY DEF RequestState, Step, Answered

\* Login gives its request an attempt.
LEMMA AttemptRequest ==
    ASSUME NEW q \in RequestState, NEW a \in Attempt
    PROVE  LET p == [q EXCEPT !.attempt = a] IN
           /\ p \in RequestState /\ p.attempt = a /\ p.tab = q.tab /\ p.code = q.code
           /\ p.cookie = q.cookie /\ p.page = q.page /\ p.step = q.step
  BY DEF RequestState, Step

Checked(q, p) == [q EXCEPT !.step = "exchange", !.page = p]

\* A callback past its checks has the page of its cookie.
LEMMA CheckedRequest ==
    ASSUME NEW q \in RequestState, NEW p \in Page \cup {Home}
    PROVE  LET e == Checked(q, p) IN
           /\ e \in RequestState /\ e.step = "exchange" /\ e.page = p
           /\ e.tab = q.tab /\ e.attempt = q.attempt /\ e.code = q.code
           /\ e.cookie = q.cookie /\ e.set = q.set
  BY DEF RequestState, Step, Checked

Creating(q) == [q EXCEPT !.step = "create"]

\* A callback past the exchange keeps what it was.
LEMMA CreatingRequest ==
    ASSUME NEW q \in RequestState
    PROVE  LET e == Creating(q) IN
           /\ e \in RequestState /\ e.step = "create" /\ e.page = q.page
           /\ e.tab = q.tab /\ e.attempt = q.attempt /\ e.code = q.code
           /\ e.cookie = q.cookie /\ e.set = q.set
  BY DEF RequestState, Step, Creating

\* A cookie that is no longer signed is otherwise the same.
LEMMA Unsigning ==
    ASSUME NEW c \in Cookie \cup {None}
    PROVE  /\ Unsigned(c) \in Cookie \cup {None}
           /\ c = None <=> Unsigned(c) = None
           /\ c # None => Unsigned(c).attempt = c.attempt /\ Unsigned(c).page = c.page
  BY NoneAssumption DEF Unsigned, Cookie

Presenting(q, k, set) == [q EXCEPT !.cookie = k, !.set = set]

\* A change of secret touches the cookies of a request, nothing else.
LEMMA RekeyedRequest ==
    ASSUME NEW q \in RequestState, NEW k \in Cookie \cup {None},
           NEW set \in SUBSET (Cookie \cup {None})
    PROVE  LET p == Presenting(q, k, set) IN
           /\ p \in RequestState /\ p.cookie = k /\ p.set = set
           /\ p.step = q.step /\ p.page = q.page /\ p.to = q.to
           /\ p.tab = q.tab /\ p.attempt = q.attempt /\ p.code = q.code
  BY DEF RequestState, Step, Presenting

\* safeReturnTo gives a local page, and leaves one as it is.
LEMMA ReturnsAreLocal ==
    /\ \A p : SafeReturnTo(p) \in Local \cup {Home}
    /\ \A p : SafeReturnTo(SafeReturnTo(p)) = SafeReturnTo(p)
  BY DEF SafeReturnTo

-----------------------------------------------------------------------------
(* The steps of the server.                                                 *)

\* A handler that is at work goes on.  What it knows stays in agreement with the tab
\* that waits for it, and the cookies it adds to those about are of no attempt that a
\* tab is in, or have that tab's page.
LEMMA ServerStep ==
    ASSUME FlowInv, NEW r \in Request, NEW q \in RequestState,
           req' = [req EXCEPT ![r] = q], tab' = tab, jar' = jar, issued' = issued,
           solo' = solo, req[r].step # "idle",
           redeemed' \subseteq Code, redeemed \subseteq redeemed',
           presented' \subseteq Code \X Attempt, OwnVerifierOnly',
           sessions' \in [Code -> Nat], SessionsRedeemed',
           q.tab = req[r].tab, q.code = req[r].code, q.cookie = req[r].cookie,
           q.step # "idle", RequestSound(q)', OnTrack(q) \/ solo = None,
           \A t \in Tab : tab[t].waits = r => Awaits(t, tab[t], q),
           \A s \in Request \ {r} : req[s].step = "create" =>
               /\ sessions'[req[s].code] = 0
               /\ q.step = "create" => req[s].code # q.code,
           q.attempt = req[r].attempt \/
             \A c \in Cookie : Abroad(c) => c.attempt # q.attempt,
           \A c \in q.set \cap Cookie, t \in Tab :
               \/ tab[t].attempt = c.attempt
               \/ /\ tab[t].waits \notin {None, r}
                  /\ req[tab[t].waits].attempt = c.attempt
               \/ tab[t].waits = r /\ q.attempt = c.attempt
               => c.page = SafeReturnTo(tab[t].asked)
    PROVE  FlowInv'
<1>1. /\ req'[r] = q
      /\ \A s \in Request \ {r} : req'[s] = req[s]
    BY DEF FlowInv, TypeOK
<1>2. TypeOK'
    BY DEF FlowInv, TypeOK
<1>3. RequestsSound'
  <2> SUFFICES ASSUME NEW s \in Request
               PROVE  RequestSound(req[s])'
      BY DEF RequestsSound
  <2>1. CASE s = r
      BY <1>1, <2>1 DEF RequestSound
  <2>2. CASE s # r
      BY <1>1, <2>2 DEF RequestSound, RequestsSound, FlowInv
  <2> QED
      BY <2>1, <2>2
<1>4. TabsSound'
  <2> SUFFICES ASSUME NEW t \in Tab
               PROVE  /\ TabSound(t, tab[t])'
                      /\ tab[t].waits # None => Awaits(t, tab[t], req'[tab[t].waits])
      BY DEF TabsSound, Awaits
  <2>1. tab[t].waits \in Request \cup {None}
      BY DEF FlowInv, TypeOK, TabState
  <2> QED
      BY <1>1, <2>1 DEF FlowInv, TabsSound, TabSound
<1>5. OneRedeemer'
    BY <1>1 DEF FlowInv, OneRedeemer
<1>6. PagesAgree'
  <2> SUFFICES ASSUME NEW t \in Tab, NEW c \in Cookie, Abroad(c)', Attempts(t, c.attempt)'
               PROVE  c.page = SafeReturnTo(tab[t].asked)
      BY DEF PagesAgree
  <2>1. tab[t].waits \in Request \cup {None}
      BY DEF FlowInv, TypeOK, TabState
  <2>2. CASE c \in q.set
    <3>1. \/ tab[t].attempt = c.attempt
          \/ /\ tab[t].waits \notin {None, r}
             /\ req[tab[t].waits].attempt = c.attempt
          \/ tab[t].waits = r /\ q.attempt = c.attempt
        BY <1>1, <2>1 DEF Attempts
    <3> QED
        BY <2>2, <3>1
  <2>3. CASE c \notin q.set
    <3>1. Abroad(c)
        BY <1>1, <2>3 DEF Abroad
    <3>2. Attempts(t, c.attempt)
        BY <1>1, <2>1, <3>1 DEF Attempts
    <3> QED
        BY <3>1, <3>2 DEF FlowInv, PagesAgree
  <2> QED
      BY <2>2, <2>3
<1>7. SoloOnTrack'
    BY <1>1 DEF FlowInv, SoloOnTrack
<1> QED
    BY <1>2, <1>3, <1>4, <1>5, <1>6, <1>7 DEF FlowInv

\* The answer with which a handler that is at work gives up.
LEMMA ErrorAnswer ==
    ASSUME FlowInv, NEW r \in Request, req[r].step # "idle", NEW set \in {{}, {None}},
           Answer(r, "error", set)
    PROVE  \E q \in RequestState :
             /\ req' = [req EXCEPT ![r] = q]
             /\ q.tab = req[r].tab /\ q.code = req[r].code /\ q.cookie = req[r].cookie
             /\ q.attempt = req[r].attempt /\ q.step = "answer" /\ q.to = "error"
             /\ q.set = set /\ RequestSound(q)' /\ OnTrack(q)
             /\ \A t \in Tab : tab[t].waits = r => Awaits(t, tab[t], q)
<1>1. req[r] \in RequestState /\ set \in SUBSET (Cookie \cup {None})
    BY DEF FlowInv, TypeOK
<1>2. PICK q \in RequestState : q = Answered(req[r], "error", set)
    BY <1>1, AnswerRequest
<1> req' = [req EXCEPT ![r] = q]
    BY <1>2 DEF Answer, Answered
<1>3. /\ req' = [req EXCEPT ![r] = q]
      /\ q.step = "answer" /\ q.to = "error" /\ q.set = set
      /\ q.tab = req[r].tab /\ q.attempt = req[r].attempt /\ q.code = req[r].code
      /\ q.cookie = req[r].cookie
    BY <1>1, <1>2, AnswerRequest
<1>4. RequestSound(q)' /\ OnTrack(q)
  <2>1. RequestSound(req[r])
      BY DEF FlowInv, RequestsSound
  <2> QED
      BY <1>3, <2>1 DEF RequestSound, OnTrack
<1>5. ASSUME NEW t \in Tab, tab[t].waits = r
      PROVE  Awaits(t, tab[t], q)
  <2>1. r # None
      BY NoneAssumption
  <2>2. Awaits(t, tab[t], req[r])
      BY <1>5, <2>1 DEF FlowInv, TabsSound
  <2> QED
      BY <1>3, <2>2 DEF Awaits
<1> QED
    BY <1>3, <1>4, <1>5

\* Login sets a cookie of a fresh attempt, with the page of its tab.
LEMMA LoginStep ==
    ASSUME FlowInv, NEW r \in Request, Login(r)
    PROVE  FlowInv'
<1>1. /\ req[r] \in RequestState /\ req[r].step = "login" /\ RequestSound(req[r])
      /\ tab' = tab /\ jar' = jar /\ issued' = issued /\ redeemed' = redeemed
      /\ presented' = presented /\ sessions' = sessions /\ solo' = solo
    BY DEF FlowInv, TypeOK, RequestsSound, Login, provider
<1>2. /\ redeemed \subseteq Code /\ presented \subseteq Code \X Attempt
      /\ sessions \in [Code -> Nat]
    BY DEF FlowInv, TypeOK
<1>3. OwnVerifierOnly' /\ SessionsRedeemed'
    BY <1>1 DEF FlowInv, OwnVerifierOnly, SessionsRedeemed
<1>4. \A s \in Request : req[s].step = "create" => sessions'[req[s].code] = 0
    BY <1>1 DEF FlowInv, RequestsSound, RequestSound
<1>5. CASE Answer(r, "error", {})
  <2>1. PICK q \in RequestState :
             /\ req' = [req EXCEPT ![r] = q]
             /\ q.tab = req[r].tab /\ q.code = req[r].code /\ q.cookie = req[r].cookie
             /\ q.attempt = req[r].attempt /\ q.step = "answer" /\ q.to = "error"
             /\ q.set = {} /\ RequestSound(q)' /\ OnTrack(q)
             /\ \A t \in Tab : tab[t].waits = r => Awaits(t, tab[t], q)
      BY <1>1, <1>5, ErrorAnswer
  <2> QED
      BY <1>1, <1>2, <1>3, <1>4, <2>1, ServerStep
<1>6. ASSUME NEW a \in Attempt \ Used,
             req' = [req EXCEPT ![r] = [@ EXCEPT !.step = "answer", !.to = "idp",
                      !.attempt = a,
                      !.set = {[attempt |-> a, signed |-> TRUE,
                                page |-> SafeReturnTo(req[r].page)]}]]
      PROVE  FlowInv'
  <2>1. PICK c \in Cookie : c = [attempt |-> a, signed |-> TRUE,
                                 page |-> SafeReturnTo(req[r].page)]
      BY ReturnsAreLocal DEF Cookie
  <2>2. PICK p \in RequestState : p = [req[r] EXCEPT !.attempt = a]
      BY <1>1, AttemptRequest
  <2>3. /\ p.attempt = a /\ p.tab = req[r].tab /\ p.code = req[r].code
        /\ p.cookie = req[r].cookie /\ p.page = req[r].page
      BY <1>1, <2>2, AttemptRequest
  <2> {c} \in SUBSET (Cookie \cup {None})
      OBVIOUS
  <2>4. PICK q \in RequestState : q = Answered(p, "idp", {c})
      BY AnswerRequest
  <2>5. /\ q.step = "answer" /\ q.to = "idp" /\ q.set = {c} /\ q.attempt = a
        /\ q.tab = req[r].tab /\ q.code = req[r].code /\ q.cookie = req[r].cookie
        /\ q.page = req[r].page
      BY <2>3, <2>4, AnswerRequest
  <2>6. req' = [req EXCEPT ![r] = q]
      BY <1>6, <2>1, <2>2, <2>4 DEF Answered
  <2>7. c.attempt = a /\ c.signed /\ c.page = SafeReturnTo(req[r].page)
      BY <2>1
  <2>8. /\ \A d \in Cookie : Abroad(d) => d.attempt # a
        /\ \A t \in Tab : tab[t].attempt # a
        /\ \A s \in Request : req[s].attempt # a
      BY NoneAssumption DEF Used, Abroad
  <2>9. a # None
      BY NoneAssumption
  <2>10. q.code \notin Code
      BY <1>1, <2>5, NoneAssumption DEF RequestSound
  <2>11. RequestSound(q)' /\ OnTrack(q)
      BY <1>1, <2>5, <2>7, <2>9, <2>10 DEF RequestSound, OnTrack, Good
  <2>12. ASSUME NEW t \in Tab, tab[t].waits = r
         PROVE  Awaits(t, tab[t], q) /\ req[r].page = tab[t].asked
    <3>1. r # None
        BY NoneAssumption
    <3>2. Awaits(t, tab[t], req[r])
        BY <2>12, <3>1 DEF FlowInv, TabsSound
    <3> QED
        BY <1>1, <2>5, <3>2 DEF Awaits
  <2>13. \A d \in q.set \cap Cookie, t \in Tab :
               \/ tab[t].attempt = d.attempt
               \/ /\ tab[t].waits \notin {None, r}
                  /\ req[tab[t].waits].attempt = d.attempt
               \/ tab[t].waits = r /\ q.attempt = d.attempt
               => d.page = SafeReturnTo(tab[t].asked)
    <3> SUFFICES ASSUME NEW t \in Tab
                 PROVE  \/ tab[t].attempt = a
                        \/ /\ tab[t].waits \notin {None, r}
                           /\ req[tab[t].waits].attempt = a
                        \/ tab[t].waits = r
                        => SafeReturnTo(req[r].page) = SafeReturnTo(tab[t].asked)
        BY <2>5, <2>7
    <3>1. tab[t].waits \in Request \cup {None}
        BY DEF FlowInv, TypeOK, TabState
    <3> QED
        BY <2>8, <2>12, <3>1
  <2>14. \A d \in Cookie : Abroad(d) => d.attempt # q.attempt
      BY <2>5, <2>8
  <2>15. q.step # "idle" /\ q.step # "create" /\ req[r].step # "idle"
      BY <1>1, <2>5
  <2> QED
      BY <1>1, <1>2, <1>3, <1>4, <2>5, <2>6, <2>11, <2>12, <2>13, <2>14, <2>15, ServerStep
<1> QED
    BY <1>5, <1>6 DEF Login

\* Past Check, the attempt of the cookie is that of the URL, and so of the code.
LEMMA CheckStep ==
    ASSUME FlowInv, NEW r \in Request, Check(r)
    PROVE  FlowInv'
<1>1. /\ req[r] \in RequestState /\ req[r].step = "callback" /\ RequestSound(req[r])
      /\ tab' = tab /\ jar' = jar /\ issued' = issued /\ redeemed' = redeemed
      /\ presented' = presented /\ sessions' = sessions /\ solo' = solo
    BY DEF FlowInv, TypeOK, RequestsSound, Check, provider
<1>2. /\ redeemed \subseteq Code /\ presented \subseteq Code \X Attempt
      /\ sessions \in [Code -> Nat]
    BY DEF FlowInv, TypeOK
<1>3. OwnVerifierOnly' /\ SessionsRedeemed'
    BY <1>1 DEF FlowInv, OwnVerifierOnly, SessionsRedeemed
<1>4. \A s \in Request : req[s].step = "create" => sessions'[req[s].code] = 0
    BY <1>1 DEF FlowInv, RequestsSound, RequestSound
<1>5. CASE ~Accepted(r)
  <2>1. PICK q \in RequestState :
             /\ req' = [req EXCEPT ![r] = q]
             /\ q.tab = req[r].tab /\ q.code = req[r].code /\ q.cookie = req[r].cookie
             /\ q.attempt = req[r].attempt /\ q.step = "answer" /\ q.to = "error"
             /\ q.set = {None} /\ RequestSound(q)' /\ OnTrack(q)
             /\ \A t \in Tab : tab[t].waits = r => Awaits(t, tab[t], q)
      BY <1>1, <1>5, ErrorAnswer DEF Check
  <2> q.set \cap Cookie = {}
      BY <2>1, NoneAssumption
  <2> QED
      BY <1>1, <1>2, <1>3, <1>4, <2>1, ServerStep
<1>6. CASE Accepted(r)
  <2>1. /\ req[r].cookie \in Cookie /\ req[r].cookie.attempt = req[r].attempt
        /\ req[r].code \in Code /\ req[r].attempt # None
      BY <1>1, <1>6, NoneAssumption
      DEF Accepted, FlowValid, RequestSound, RequestState, Cookie
  <2>2. PICK p \in Page \cup {Home} : p = SafeReturnTo(req[r].cookie.page)
      BY ReturnsAreLocal, PageAssumption
  <2>3. PICK q \in RequestState : q = Checked(req[r], p)
      BY <1>1, CheckedRequest
  <2>4. /\ q.step = "exchange" /\ q.page = p /\ q.tab = req[r].tab
        /\ q.attempt = req[r].attempt /\ q.code = req[r].code
        /\ q.cookie = req[r].cookie /\ q.set = req[r].set
      BY <1>1, <2>3, CheckedRequest
  <2>5. req' = [req EXCEPT ![r] = q]
      BY <1>1, <1>6, <2>2, <2>3 DEF Check, Checked, FlowInv, TypeOK
  <2>6. RequestSound(q)' /\ OnTrack(q)
      BY <1>1, <2>1, <2>4 DEF RequestSound, OnTrack
  <2>7. ASSUME NEW t \in Tab, tab[t].waits = r
        PROVE  Awaits(t, tab[t], q)
    <3>1. r # None /\ Abroad(req[r].cookie) /\ Attempts(t, req[r].cookie.attempt)
        BY NoneAssumption, <2>1, <2>7 DEF Abroad, Attempts
    <3>2. req[r].cookie.page = SafeReturnTo(tab[t].asked)
        BY <2>1, <3>1 DEF FlowInv, PagesAgree
    <3>3. Awaits(t, tab[t], req[r])
        BY <2>7, <3>1 DEF FlowInv, TabsSound
    <3> QED
        BY <2>2, <2>4, <3>2, <3>3, ReturnsAreLocal DEF Awaits
  <2>8. \A d \in q.set \cap Cookie, t \in Tab :
               \/ tab[t].attempt = d.attempt
               \/ /\ tab[t].waits \notin {None, r}
                  /\ req[tab[t].waits].attempt = d.attempt
               \/ tab[t].waits = r /\ q.attempt = d.attempt
               => d.page = SafeReturnTo(tab[t].asked)
    <3> SUFFICES ASSUME NEW d \in q.set \cap Cookie, NEW t \in Tab, Attempts(t, d.attempt)
                 PROVE  d.page = SafeReturnTo(tab[t].asked)
        BY <2>4, NoneAssumption DEF Attempts
    <3>1. Abroad(d)
        BY <2>4 DEF Abroad
    <3> QED
        BY <3>1 DEF FlowInv, PagesAgree
  <2>9. q.step # "idle" /\ q.step # "create" /\ req[r].step # "idle"
      BY <1>1, <2>4
  <2> QED
      BY <1>1, <1>2, <1>3, <1>4, <2>4, <2>5, <2>6, <2>7, <2>8, <2>9, ServerStep
<1> QED
    BY <1>5, <1>6

\* A code that is redeemed was not before: no other request creates with it.
LEMMA ExchangeStep ==
    ASSUME FlowInv, NEW r \in Request, Exchange(r)
    PROVE  FlowInv'
<1>1. /\ req[r] \in RequestState /\ req[r].step = "exchange" /\ RequestSound(req[r])
      /\ tab' = tab /\ jar' = jar /\ issued' = issued /\ sessions' = sessions
      /\ solo' = solo
    BY DEF FlowInv, TypeOK, RequestsSound, Exchange
<1>2. /\ req[r].code \in Code /\ req[r].cookie \in Cookie
      /\ req[r].cookie.attempt = req[r].attempt
      /\ req[r].code.attempt = req[r].cookie.attempt
      /\ req[r].cookie.attempt \in Attempt
    BY <1>1 DEF RequestSound, Cookie
<1>3. PICK redeem \in BOOLEAN : /\ Present(r, redeem)
                                /\ redeem => Redeemable(r)
    BY DEF Exchange, Redeemable
<1>4. /\ redeemed' \subseteq Code /\ redeemed \subseteq redeemed'
      /\ presented' \subseteq Code \X Attempt /\ OwnVerifierOnly'
    BY <1>2, <1>3 DEF FlowInv, TypeOK, Present, OwnVerifierOnly
<1>5. SessionsRedeemed' /\ sessions' \in [Code -> Nat]
    BY <1>1, <1>4 DEF FlowInv, TypeOK, SessionsRedeemed
<1>6. \A s \in Request : req[s].step = "create" => sessions'[req[s].code] = 0
                                                   /\ req[s].code \in redeemed
    BY <1>1 DEF FlowInv, RequestsSound, RequestSound
<1>7. CASE Answer(r, "error", {None})
  <2>1. PICK q \in RequestState :
             /\ req' = [req EXCEPT ![r] = q]
             /\ q.tab = req[r].tab /\ q.code = req[r].code /\ q.cookie = req[r].cookie
             /\ q.attempt = req[r].attempt /\ q.step = "answer" /\ q.to = "error"
             /\ q.set = {None} /\ RequestSound(q)' /\ OnTrack(q)
             /\ \A t \in Tab : tab[t].waits = r => Awaits(t, tab[t], q)
      BY <1>1, <1>7, ErrorAnswer
  <2> q.set \cap Cookie = {}
      BY <2>1, NoneAssumption
  <2> QED
      BY <1>1, <1>4, <1>5, <1>6, <2>1, ServerStep
<1>8. CASE /\ Redeemable(r) /\ Present(r, TRUE)
           /\ req' = [req EXCEPT ![r].step = "create"]
  <2>1. PICK q \in RequestState : q = Creating(req[r])
      BY <1>1, CreatingRequest
  <2>2. /\ q.step = "create" /\ q.page = req[r].page /\ q.tab = req[r].tab
        /\ q.attempt = req[r].attempt /\ q.code = req[r].code
        /\ q.cookie = req[r].cookie /\ q.set = req[r].set
      BY <1>1, <2>1, CreatingRequest
  <2>3. req' = [req EXCEPT ![r] = q]
      BY <1>8, <2>1 DEF Creating, FlowInv, TypeOK
  <2>4. req[r].code \notin redeemed /\ req[r].code \in redeemed'
      BY <1>8 DEF Redeemable, Present
  <2>5. sessions'[req[r].code] = 0
      BY <1>1, <1>2, <2>4 DEF FlowInv, TypeOK, SessionsRedeemed
  <2>6. RequestSound(q)' /\ OnTrack(q)
      BY <1>1, <1>2, <2>2, <2>4, <2>5 DEF RequestSound, OnTrack
  <2>7. ASSUME NEW t \in Tab, tab[t].waits = r
        PROVE  Awaits(t, tab[t], q)
    <3>1. r # None
        BY NoneAssumption
    <3>2. Awaits(t, tab[t], req[r])
        BY <2>7, <3>1 DEF FlowInv, TabsSound
    <3> QED
        BY <1>1, <2>2, <3>2 DEF Awaits
  <2>8. \A d \in q.set \cap Cookie, t \in Tab :
               \/ tab[t].attempt = d.attempt
               \/ /\ tab[t].waits \notin {None, r}
                  /\ req[tab[t].waits].attempt = d.attempt
               \/ tab[t].waits = r /\ q.attempt = d.attempt
               => d.page = SafeReturnTo(tab[t].asked)
    <3> SUFFICES ASSUME NEW d \in q.set \cap Cookie, NEW t \in Tab, Attempts(t, d.attempt)
                 PROVE  d.page = SafeReturnTo(tab[t].asked)
        BY <2>2, NoneAssumption DEF Attempts
    <3>1. Abroad(d)
        BY <2>2 DEF Abroad
    <3> QED
        BY <3>1 DEF FlowInv, PagesAgree
  <2>9. q.step # "idle" /\ req[r].step # "idle"
      BY <1>1, <2>2
  <2>10. \A s \in Request \ {r} : req[s].step = "create" =>
             sessions'[req[s].code] = 0 /\ req[s].code # q.code
      BY <1>6, <2>2, <2>4
  <2> QED
      BY <1>1, <1>4, <1>5, <2>2, <2>3, <2>6, <2>7, <2>8, <2>9, <2>10, ServerStep
<1> QED
    BY <1>7, <1>8 DEF Exchange

\* The request that redeemed the code is the one that makes its session.
LEMMA CreateStep ==
    ASSUME FlowInv, NEW r \in Request, Create(r)
    PROVE  FlowInv'
<1>1. /\ req[r] \in RequestState /\ req[r].step = "create" /\ RequestSound(req[r])
      /\ tab' = tab /\ jar' = jar /\ issued' = issued /\ redeemed' = redeemed
      /\ presented' = presented /\ solo' = solo
    BY DEF FlowInv, TypeOK, RequestsSound, Create
<1>2. /\ redeemed \subseteq Code /\ presented \subseteq Code \X Attempt
      /\ sessions \in [Code -> Nat] /\ OwnVerifierOnly'
    BY <1>1 DEF FlowInv, TypeOK, OwnVerifierOnly
<1>3. /\ req[r].code \in Code /\ req[r].code \in redeemed /\ sessions[req[r].code] = 0
    BY <1>1 DEF RequestSound
<1>4. /\ sessions' \in [Code -> Nat] /\ SessionsRedeemed'
      /\ \A c \in Code \ {req[r].code} : sessions'[c] = sessions[c]
  <2>1. CASE sessions' = [sessions EXCEPT ![req[r].code] = @ + 1]
      BY <1>1, <1>2, <1>3, <2>1 DEF FlowInv, SessionsRedeemed
  <2>2. CASE sessions' = sessions
      BY <1>1, <1>2, <2>2 DEF FlowInv, SessionsRedeemed
  <2> QED
      BY <2>1, <2>2 DEF Create
<1>5. ASSUME NEW s \in Request \ {r}, req[s].step = "create"
      PROVE  sessions'[req[s].code] = 0
  <2>1. req[s].code \in Code /\ sessions[req[s].code] = 0
      BY <1>5 DEF FlowInv, RequestsSound, RequestSound
  <2>2. req[s].code # req[r].code
      BY <1>1, <1>5 DEF FlowInv, OneRedeemer
  <2> QED
      BY <1>4, <2>1, <2>2
<1>6. PICK to \in {"page", "error"} : Answer(r, to, {None})
    BY DEF Create
<1>7. {None} \in SUBSET (Cookie \cup {None})
    OBVIOUS
<1>8. PICK q \in RequestState : q = Answered(req[r], to, {None})
    BY <1>1, <1>7, AnswerRequest
<1>9. /\ q.step = "answer" /\ q.to = to /\ q.set = {None} /\ q.page = req[r].page
      /\ q.tab = req[r].tab /\ q.attempt = req[r].attempt /\ q.code = req[r].code
      /\ q.cookie = req[r].cookie
    BY <1>1, <1>7, <1>8, AnswerRequest
<1>10. req' = [req EXCEPT ![r] = q]
    BY <1>6, <1>8 DEF Answer, Answered
<1>11. RequestSound(q)' /\ OnTrack(q)
    BY <1>1, <1>9 DEF RequestSound, OnTrack
<1>12. ASSUME NEW t \in Tab, tab[t].waits = r
       PROVE  Awaits(t, tab[t], q)
  <2>1. r # None
      BY NoneAssumption
  <2>2. Awaits(t, tab[t], req[r])
      BY <1>12, <2>1 DEF FlowInv, TabsSound
  <2> QED
      BY <1>1, <1>9, <2>2 DEF Awaits
<1>13. q.set \cap Cookie = {}
    BY <1>9, NoneAssumption
<1>14. q.step # "idle" /\ q.step # "create" /\ req[r].step # "idle"
    BY <1>1, <1>9
<1> QED
    BY <1>1, <1>2, <1>4, <1>5, <1>9, <1>10, <1>11, <1>12, <1>13, <1>14, ServerStep

-----------------------------------------------------------------------------
(* The steps of the browser.                                                *)

Sending(p, r) == [p EXCEPT !.at = "waiting", !.waits = r]

Starting(p, page) ==
    [p EXCEPT !.asked = page, !.attempt = None, !.code = None, !.landed = None]

Calling(p, code) == [p EXCEPT !.code = code]

Returning(p) == [p EXCEPT !.at = "idp", !.code = None, !.landed = None]

Failing(p) == [p EXCEPT !.at = "error", !.waits = None]

Showing(p, at, a, code, landed) ==
    [p EXCEPT !.at = at, !.waits = None, !.attempt = a, !.code = code, !.landed = landed]

\* A tab that sends a request waits for it and keeps its login.
LEMMA SendingTab ==
    ASSUME NEW p \in TabState, NEW r \in Request
    PROVE  LET s == Sending(p, r) IN
           /\ s \in TabState /\ s.at = "waiting" /\ s.waits = r /\ s.attempt = p.attempt
           /\ s.asked = p.asked /\ s.code = p.code /\ s.landed = p.landed
  BY DEF TabState, Sending

\* A tab that starts a login forgets its last.
LEMMA StartingTab ==
    ASSUME NEW p \in TabState, NEW page \in Page
    PROVE  LET s == Starting(p, page) IN
           /\ s \in TabState /\ s.attempt = None /\ s.asked = page
           /\ s.code = None /\ s.landed = None
  BY DEF TabState, Starting

\* A tab that is sent back has the URL of the callback.
LEMMA CallingTab ==
    ASSUME NEW p \in TabState, NEW code \in Code \cup {None, Denied}
    PROVE  LET s == Calling(p, code) IN
           /\ s \in TabState /\ s.at = p.at /\ s.waits = p.waits /\ s.attempt = p.attempt
           /\ s.asked = p.asked /\ s.code = code /\ s.landed = p.landed
  BY DEF TabState, Calling

\* A tab that goes back is at the provider, in the same attempt.
LEMMA ReturningTab ==
    ASSUME NEW p \in TabState
    PROVE  LET s == Returning(p) IN
           /\ s \in TabState /\ s.at = "idp" /\ s.waits = p.waits /\ s.attempt = p.attempt
           /\ s.asked = p.asked /\ s.code = None /\ s.landed = None
  BY DEF TabState, Returning

\* A tab whose answer is lost keeps its login.
LEMMA FailingTab ==
    ASSUME NEW p \in TabState
    PROVE  LET s == Failing(p) IN
           /\ s \in TabState /\ s.at = "error" /\ s.waits = None /\ s.attempt = p.attempt
           /\ s.asked = p.asked /\ s.code = p.code /\ s.landed = p.landed
  BY DEF TabState, Failing

\* A tab takes over what its answer says.
LEMMA ShowingTab ==
    ASSUME NEW p \in TabState, NEW at \in {"idp", "page", "error"},
           NEW a \in Attempt \cup {None}, NEW code \in Code \cup {None, Denied},
           NEW landed \in Local \cup {Home, None}
    PROVE  LET s == Showing(p, at, a, code, landed) IN
           /\ s \in TabState /\ s.at = at /\ s.waits = None /\ s.attempt = a
           /\ s.asked = p.asked /\ s.code = code /\ s.landed = landed
  BY DEF TabState, Showing

\* Tab t sends a request and waits for it.
LEMMA SendStep ==
    ASSUME FlowInv, NEW t \in Tab, NEW r \in Request, NEW p \in TabState,
           NEW q \in RequestState, Free(r),
           req' = [req EXCEPT ![r] = q], tab' = [tab EXCEPT ![t] = p],
           jar' = jar, redeemed' = redeemed, presented' = presented,
           sessions' = sessions, issued' \in [Attempt -> 0 .. MaxCodes],
           p.at = "waiting", p.waits = r, TabSound(t, p), Awaits(t, p, q),
           q.step \in {"login", "callback"}, RequestSound(q), q.set = {},
           q.cookie \in {None, jar},
           \A c \in Cookie : /\ Abroad(c)
                             /\ p.attempt = c.attempt \/ q.attempt = c.attempt
                             => c.page = SafeReturnTo(p.asked),
           solo' \in {t, None},
           solo' = t => /\ \A s \in Request : req[s].step = "idle"
                        /\ OnTrack(q)
    PROVE  FlowInv'
<1>1. /\ req'[r] = q /\ tab'[t] = p
      /\ \A s \in Request \ {r} : req'[s] = req[s]
      /\ \A u \in Tab \ {t} : tab'[u] = tab[u]
    BY DEF FlowInv, TypeOK
<1>2. TypeOK'
    BY DEF FlowInv, TypeOK
<1>3. \A u \in Tab : tab[u].waits # r /\ tab[u].waits \in Request \cup {None}
  <2> SUFFICES ASSUME NEW u \in Tab
               PROVE  tab[u].waits # r /\ tab[u].waits \in Request \cup {None}
      OBVIOUS
  <2>1. tab[u].waits # None => Awaits(u, tab[u], req[tab[u].waits])
      BY DEF FlowInv, TabsSound
  <2>2. tab[u].waits # r
      BY <2>1, NoneAssumption DEF Awaits, Free
  <2> QED
      BY <2>2 DEF FlowInv, TypeOK, TabState
<1>4. RequestsSound'
  <2> SUFFICES ASSUME NEW s \in Request
               PROVE  RequestSound(req[s])'
      BY DEF RequestsSound
  <2>1. CASE s = r
      BY <1>1, <2>1 DEF RequestSound
  <2>2. CASE s # r
      BY <1>1, <2>2 DEF RequestSound, RequestsSound, FlowInv
  <2> QED
      BY <2>1, <2>2
<1>5. TabsSound'
  <2> SUFFICES ASSUME NEW u \in Tab
               PROVE  /\ TabSound(u, tab'[u])
                      /\ tab'[u].waits # None => Awaits(u, tab'[u], req'[tab'[u].waits])
      BY DEF TabsSound, TabSound, Awaits
  <2>1. CASE u = t
      BY <1>1, <2>1
  <2>2. CASE u # t
      BY <1>1, <1>3, <2>2 DEF FlowInv, TabsSound
  <2> QED
      BY <2>1, <2>2
<1>6. OneRedeemer'
    BY <1>1 DEF FlowInv, OneRedeemer
<1>7. SessionsRedeemed' /\ OwnVerifierOnly'
    BY DEF FlowInv, SessionsRedeemed, OwnVerifierOnly
<1>8. PagesAgree'
  <2> SUFFICES ASSUME NEW u \in Tab, NEW c \in Cookie, Abroad(c)', Attempts(u, c.attempt)'
               PROVE  c.page = SafeReturnTo(tab'[u].asked)
      BY DEF PagesAgree
  <2>1. Abroad(c)
      BY <1>1, NoneAssumption DEF Abroad
  <2>2. CASE u = t
    <3>1. p.attempt = c.attempt \/ q.attempt = c.attempt
        BY <1>1, <2>2 DEF Attempts
    <3> QED
        BY <1>1, <2>1, <2>2, <3>1
  <2>3. CASE u # t
    <3>1. Attempts(u, c.attempt)
        BY <1>1, <1>3, <2>3 DEF Attempts
    <3> QED
        BY <1>1, <2>1, <2>3, <3>1 DEF FlowInv, PagesAgree
  <2> QED
      BY <2>2, <2>3
<1>9. SoloOnTrack'
  <2> SUFFICES ASSUME solo' = t
               PROVE  SoloOnTrack'
      BY DEF SoloOnTrack
  <2>1. \A s \in Request : req'[s].step # "idle" => tab'[t].waits = s
      BY <1>1
  <2>2. \A s \in Request : OnTrack(req'[s])
      BY <1>1 DEF OnTrack
  <2>3. tab'[t].at # "idp"
      BY <1>1
  <2> QED
      BY <2>1, <2>2, <2>3 DEF SoloOnTrack, OnTrack, Good
<1> QED
    BY <1>2, <1>4, <1>5, <1>6, <1>7, <1>8, <1>9 DEF FlowInv

\* A login starts: it is in no attempt yet.
LEMMA StartLoginStep ==
    ASSUME FlowInv, NEW t \in Tab, NEW r \in Request, NEW page \in Page,
           StartLogin(t, r, page)
    PROVE  FlowInv'
<1>1. /\ tab[t] \in TabState /\ issued' \in [Attempt -> 0 .. MaxCodes]
      /\ jar' = jar /\ redeemed' = redeemed /\ presented' = presented
      /\ sessions' = sessions /\ Free(r)
    BY DEF FlowInv, TypeOK, StartLogin, Send, provider
<1>2. PICK q \in RequestState : q = LoggingIn(t, page)
    BY LoginRequest
<1>3. /\ q.step = "login" /\ q.tab = t /\ q.page = page /\ q.attempt = None
      /\ q.code = None /\ q.cookie = None /\ q.set = {}
    BY <1>2, LoginRequest
<1>4. PICK shown \in TabState : shown = Starting(tab[t], page)
    BY <1>1, StartingTab
<1>5. /\ shown.attempt = None /\ shown.asked = page /\ shown.code = None
      /\ shown.landed = None
    BY <1>1, <1>4, StartingTab
<1>6. PICK p \in TabState : p = Sending(shown, r)
    BY SendingTab
<1>7. /\ p.at = "waiting" /\ p.waits = r /\ p.attempt = None /\ p.asked = page
      /\ p.code = None /\ p.landed = None
    BY <1>5, <1>6, SendingTab
<1>8. req' = [req EXCEPT ![r] = q] /\ tab' = [tab EXCEPT ![t] = p]
    BY <1>2, <1>4, <1>6 DEF StartLogin, Send, Starting, Sending, LoggingIn
<1>9. TabSound(t, p) /\ Awaits(t, p, q) /\ RequestSound(q) /\ OnTrack(q)
    BY <1>3, <1>7, NoneAssumption DEF TabSound, Awaits, RequestSound, OnTrack
<1>10. \A c \in Cookie : p.attempt # c.attempt /\ q.attempt # c.attempt
    BY <1>3, <1>7, NoneAssumption DEF Cookie
<1>11. /\ solo' \in {t, None}
       /\ solo' = t => \A s \in Request : req[s].step = "idle"
    BY NoneAssumption DEF StartLogin, Free
<1>12. \A c \in Cookie : /\ Abroad(c)
                         /\ p.attempt = c.attempt \/ q.attempt = c.attempt
                         => c.page = SafeReturnTo(p.asked)
    BY <1>10
<1>13. solo' = t => /\ \A s \in Request : req[s].step = "idle"
                    /\ OnTrack(q)
    BY <1>9, <1>11
<1> QED
    BY <1>1, <1>3, <1>7, <1>8, <1>9, <1>11, <1>12, <1>13, SendStep

\* A tab sends its callback, with the cookie there is.
LEMMA CallbackStep ==
    ASSUME FlowInv, NEW t \in Tab, NEW r \in Request,
           NEW code \in Code \cup {Denied}, Callback(t, r, code),
           code \in Code => code.attempt = tab[t].attempt,
           jar' = jar, redeemed' = redeemed, presented' = presented,
           sessions' = sessions, issued' \in [Attempt -> 0 .. MaxCodes],
           solo' \in {t, None},
           solo' = t => solo = t /\ tab[t].at = "idp" /\ code # Denied
    PROVE  FlowInv'
<1> code \in Code \cup {None, Denied}
    OBVIOUS
<1>1. /\ tab[t] \in TabState /\ jar \in Cookie \cup {None} /\ Free(r)
      /\ TabSound(t, tab[t]) /\ tab[t].attempt \in Attempt \cup {None}
    BY DEF FlowInv, TypeOK, TabsSound, TabState, Callback, Send
<1>a. PICK a \in Attempt \cup {None} : a = tab[t].attempt
    BY <1>1
<1>k. PICK k \in Cookie \cup {None} : k = jar
    BY <1>1
<1>2. PICK q \in RequestState : q = CallingBack(t, a, code, k)
    BY CallbackRequest
<1>3. /\ q.step = "callback" /\ q.tab = t /\ q.attempt = tab[t].attempt
      /\ q.code = code /\ q.cookie = jar /\ q.set = {}
    BY <1>2, <1>a, <1>k, CallbackRequest
<1>4. PICK shown \in TabState : shown = Calling(tab[t], code)
    BY <1>1, CallingTab
<1>5. /\ shown.attempt = tab[t].attempt /\ shown.asked = tab[t].asked
      /\ shown.code = code /\ shown.landed = tab[t].landed
    BY <1>1, <1>4, CallingTab
<1>6. PICK p \in TabState : p = Sending(shown, r)
    BY SendingTab
<1>7. /\ p.at = "waiting" /\ p.waits = r /\ p.attempt = tab[t].attempt
      /\ p.asked = tab[t].asked /\ p.code = code /\ p.landed = tab[t].landed
    BY <1>5, <1>6, SendingTab
<1>8. req' = [req EXCEPT ![r] = q] /\ tab' = [tab EXCEPT ![t] = p]
    BY <1>2, <1>4, <1>6, <1>a, <1>k DEF Callback, Send, Calling, Sending, CallingBack
<1>9. TabSound(t, p) /\ Awaits(t, p, q) /\ RequestSound(q)
    BY <1>1, <1>3, <1>7, NoneAssumption DEF TabSound, Awaits, RequestSound
<1>10. \A c \in Cookie : /\ Abroad(c)
                         /\ p.attempt = c.attempt \/ q.attempt = c.attempt
                         => c.page = SafeReturnTo(p.asked)
    BY <1>3, <1>7 DEF FlowInv, PagesAgree, Attempts
<1>11. ASSUME solo' = t
       PROVE  (\A s \in Request : req[s].step = "idle") /\ OnTrack(q)
  <2>1. solo = t /\ solo # None /\ tab[t].at = "idp" /\ code # Denied
      BY <1>11, NoneAssumption
  <2>2. tab[t].waits = None
      BY <1>1, <2>1 DEF TabSound
  <2>3. \A s \in Request : req[s].step = "idle"
      BY <2>1, <2>2, NoneAssumption DEF FlowInv, SoloOnTrack
  <2>4. Good(jar, tab[t].attempt)
      BY <2>1 DEF FlowInv, SoloOnTrack
  <2> QED
      BY <1>3, <2>1, <2>3, <2>4 DEF OnTrack
<1> QED
    BY <1>3, <1>7, <1>8, <1>9, <1>10, <1>1, <1>11, SendStep

\* A request ends; if a tab was waiting for it, that tab is p from now on.
LEMMA EndStep ==
    ASSUME FlowInv, NEW r \in Request, req[r].step = "answer",
           NEW t, t = req[r].tab, NEW p \in TabState,
           req' = [req EXCEPT ![r] = Quiet],
           jar' = jar \/ jar' \in req[r].set,
           UNCHANGED <<issued, redeemed, presented, sessions, solo>>,
           \/ tab[t].waits # r /\ tab' = tab
           \/ /\ tab[t].waits = r /\ tab' = [tab EXCEPT ![t] = p]
              /\ p.waits = None /\ TabSound(t, p) /\ p.asked = tab[t].asked
              /\ p.attempt = tab[t].attempt \/ p.attempt = req[r].attempt
              /\ solo = t /\ p.at = "idp" => Good(jar', p.attempt)
    PROVE  FlowInv'
<1>1. /\ req'[r] = Quiet /\ Quiet \in RequestState /\ Quiet.step = "idle"
      /\ \A s \in Request \ {r} : req'[s] = req[s]
      /\ Quiet.cookie = None /\ Quiet.set = {} /\ Quiet.code = None
    BY QuietRequest DEF FlowInv, TypeOK, Quiet
<1>2. t \in Tab
    BY DEF FlowInv, RequestsSound, RequestSound
<1>3. req[r] \in RequestState /\ req[r].set \subseteq Cookie \cup {None}
    BY DEF FlowInv, TypeOK, RequestState
<1>4. TypeOK'
    BY <1>1, <1>2, <1>3 DEF FlowInv, TypeOK
<1>5. /\ \A u \in Tab \ {t} : tab'[u] = tab[u]
      /\ tab[t].waits = r => tab'[t] = p
    BY <1>2, <1>4 DEF FlowInv, TypeOK
<1>6. ASSUME NEW u \in Tab
      PROVE  /\ tab[u].waits \in Request \cup {None}
             /\ tab'[u].waits # r
             /\ tab'[u].waits = tab[u].waits \/ tab'[u].waits = None
  <2>1. tab[u].waits \in Request \cup {None}
      BY DEF FlowInv, TypeOK, TabState
  <2>2. tab[u].waits # None => Awaits(u, tab[u], req[tab[u].waits])
      BY DEF FlowInv, TabsSound
  <2>3. tab[u].waits = r => u = t
      BY <2>2, NoneAssumption DEF Awaits
  <2> QED
      BY <1>5, <2>1, <2>3, NoneAssumption
<1>7. RequestsSound'
  <2> SUFFICES ASSUME NEW s \in Request
               PROVE  RequestSound(req[s])'
      BY DEF RequestsSound
  <2>1. CASE s = r
      BY <1>1, <2>1, NoneAssumption DEF RequestSound
  <2>2. CASE s # r
      BY <1>1, <2>2 DEF RequestSound, RequestsSound, FlowInv
  <2> QED
      BY <2>1, <2>2
<1>8. TabsSound'
  <2> SUFFICES ASSUME NEW u \in Tab
               PROVE  /\ TabSound(u, tab'[u])
                      /\ tab'[u].waits # None => Awaits(u, tab'[u], req'[tab'[u].waits])
      BY DEF TabsSound, TabSound, Awaits
  <2>1. CASE tab'[u] = tab[u]
      BY <1>1, <1>6, <2>1 DEF FlowInv, TabsSound
  <2>2. CASE u = t /\ tab'[u] = p /\ tab[t].waits = r
      BY <2>2, NoneAssumption
  <2> QED
      BY <1>5, <2>1, <2>2
<1>9. OneRedeemer'
    BY <1>1 DEF FlowInv, OneRedeemer
<1>10. SessionsRedeemed' /\ OwnVerifierOnly'
    BY DEF FlowInv, SessionsRedeemed, OwnVerifierOnly
<1>11. PagesAgree'
  <2> SUFFICES ASSUME NEW u \in Tab, NEW c \in Cookie, Abroad(c)', Attempts(u, c.attempt)'
               PROVE  c.page = SafeReturnTo(tab'[u].asked)
      BY DEF PagesAgree
  <2>1. Abroad(c)
      BY <1>1, NoneAssumption DEF Abroad
  <2>2. Attempts(u, c.attempt) /\ tab'[u].asked = tab[u].asked
    <3>1. CASE tab'[u] = tab[u]
        BY <1>1, <1>6, <3>1 DEF Attempts
    <3>2. CASE u = t /\ tab'[u] = p /\ tab[t].waits = r
        BY <3>2, NoneAssumption DEF Attempts
    <3> QED
        BY <1>5, <3>1, <3>2
  <2> QED
      BY <2>1, <2>2 DEF FlowInv, PagesAgree
<1>12. SoloOnTrack'
  <2> SUFFICES ASSUME solo # None
               PROVE  SoloOnTrack'
      BY DEF SoloOnTrack
  <2>1. solo \in Tab /\ tab[solo].waits = r
      BY DEF FlowInv, TypeOK, SoloOnTrack
  <2>2. solo = t
    <3>1. Awaits(solo, tab[solo], req[r])
        BY <2>1, NoneAssumption DEF FlowInv, TabsSound
    <3> QED
        BY <3>1 DEF Awaits
  <2>3. \A s \in Request : req'[s].step = "idle"
    <3>1. ASSUME NEW s \in Request \ {r}
          PROVE  req[s].step = "idle"
        BY <2>1 DEF FlowInv, SoloOnTrack
    <3> QED
        BY <1>1, <3>1
  <2>4. tab'[t].at = "idp" => Good(jar', tab'[t].attempt)
      BY <1>5, <2>1, <2>2
  <2> QED
      BY <2>2, <2>3, <2>4 DEF SoloOnTrack, OnTrack, Good
<1> QED
    BY <1>4, <1>7, <1>8, <1>9, <1>10, <1>11, <1>12 DEF FlowInv

\* An answer arrives, at a tab that waits for it or at one that has moved on.
LEMMA DeliverStep ==
    ASSUME FlowInv, NEW r \in Request, Deliver(r)
    PROVE  FlowInv'
<1> DEFINE t == req[r].tab
<1>1. /\ req[r].step = "answer" /\ req' = [req EXCEPT ![r] = Quiet]
      /\ UNCHANGED <<issued, redeemed, presented, sessions, solo>>
    BY DEF Deliver, provider
<1>2. req[r] \in RequestState /\ RequestSound(req[r]) /\ t \in Tab
    BY <1>1 DEF FlowInv, TypeOK, RequestsSound, RequestSound
<1>3. tab[t] \in TabState /\ TabSound(t, tab[t])
    BY <1>2 DEF FlowInv, TypeOK, TabsSound
<1>4. /\ jar' = jar \/ jar' \in req[r].set
      /\ req[r].set # {} => jar' \in req[r].set
    BY DEF Deliver
<1>5. CASE tab[t].waits # r
  <2>1. tab' = tab
      BY <1>5 DEF Deliver
  <2> QED
      BY <1>1, <1>3, <1>4, <1>5, <2>1, EndStep
<1>6. CASE tab[t].waits = r
  <2>1. Awaits(t, tab[t], req[r])
      BY <1>2, <1>6, NoneAssumption DEF FlowInv, TabsSound
  <2>2. PICK at \in {"idp", "page", "error"} : at = req[r].to
      BY <1>2 DEF RequestState
  <2>3. PICK a \in Attempt \cup {None} : a = req[r].attempt
      BY <1>2 DEF RequestState
  <2>4. PICK code \in Code \cup {None, Denied} :
          code = IF at = "error" THEN tab[t].code ELSE None
      BY <1>3 DEF TabState
  <2>5. PICK landed \in Local \cup {Home, None} :
          landed = IF at = "page" THEN req[r].page ELSE None
      BY <1>1, <2>1, <2>2, ReturnsAreLocal DEF Awaits
  <2>o. PICK o \in TabState : o = tab[t]
      BY <1>3
  <2>6. PICK p \in TabState :
          /\ p = Showing(o, at, a, code, landed)
          /\ p.at = at /\ p.waits = None /\ p.attempt = a /\ p.asked = o.asked
          /\ p.code = code /\ p.landed = landed
      BY ShowingTab
  <2>7. /\ p.at = at /\ p.waits = None /\ p.attempt = a /\ p.asked = tab[t].asked
        /\ p.code = code /\ p.landed = landed
      BY <2>6, <2>o
  <2>8. tab' = [tab EXCEPT ![t] = p]
    <3>1. tab' = [tab EXCEPT ![t] = Showing(tab[t], req[r].to, req[r].attempt,
                         IF req[r].to = "error" THEN tab[t].code ELSE None,
                         IF req[r].to = "page" THEN req[r].page ELSE None)]
        BY <1>6 DEF Deliver, Showing
    <3>2. p = Showing(tab[t], req[r].to, req[r].attempt,
                         IF req[r].to = "error" THEN tab[t].code ELSE None,
                         IF req[r].to = "page" THEN req[r].page ELSE None)
        BY <2>2, <2>3, <2>4, <2>5, <2>6, <2>o
    <3> QED
        BY <3>1, <3>2
  <2>9. TabSound(t, p)
    <3>1. p.code \in Code => p.code.attempt = p.attempt
        BY <1>2, <2>1, <2>3, <2>4, <2>7, NoneAssumption DEF Awaits, RequestSound
    <3>2. p.at = "idp" => p.attempt # None
        BY <1>1, <1>2, <2>2, <2>3, <2>7 DEF RequestSound
    <3>3. p.landed # None => p.landed = SafeReturnTo(p.asked)
        BY <1>1, <2>1, <2>2, <2>5, <2>7 DEF Awaits
    <3> QED
        BY <2>7, <3>1, <3>2, <3>3 DEF TabSound
  <2>10. solo = t /\ p.at = "idp" => Good(jar', p.attempt)
    <3> SUFFICES ASSUME solo = t, p.at = "idp"
                 PROVE  Good(jar', p.attempt)
        OBVIOUS
    <3>1. solo # None /\ req[r].to = "idp"
        BY <1>2, <2>2, <2>7, NoneAssumption
    <3>2. OnTrack(req[r])
        BY <3>1 DEF FlowInv, SoloOnTrack
    <3>3. Good(jar', req[r].attempt)
        BY <1>1, <1>4, <3>1, <3>2 DEF OnTrack
    <3> QED
        BY <2>3, <2>7, <3>3
  <2>11. p.attempt = req[r].attempt
      BY <2>3, <2>7
  <2> QED
      BY <1>1, <1>4, <1>6, <2>7, <2>8, <2>9, <2>10, <2>11, EndStep
<1> QED
    BY <1>5, <1>6

\* An answer is lost.
LEMMA LoseStep ==
    ASSUME FlowInv, NEW r \in Request, Lose(r)
    PROVE  FlowInv'
<1> DEFINE t == req[r].tab
<1>1. /\ req[r].step = "answer" /\ req' = [req EXCEPT ![r] = Quiet] /\ jar' = jar
      /\ UNCHANGED <<issued, redeemed, presented, sessions, solo>>
    BY DEF Lose, provider
<1>2. t \in Tab
    BY <1>1 DEF FlowInv, RequestsSound, RequestSound
<1>3. tab[t] \in TabState /\ TabSound(t, tab[t])
    BY <1>2 DEF FlowInv, TypeOK, TabsSound
<1>4. CASE tab[t].waits # r
  <2>1. tab' = tab
      BY <1>4 DEF Lose
  <2> QED
      BY <1>1, <1>3, <1>4, <2>1, EndStep
<1>5. CASE tab[t].waits = r
  <2>1. PICK p \in TabState : p = Failing(tab[t])
      BY <1>3, FailingTab
  <2>2. /\ p.at = "error" /\ p.waits = None /\ p.attempt = tab[t].attempt
        /\ p.asked = tab[t].asked /\ p.code = tab[t].code /\ p.landed = tab[t].landed
      BY <1>3, <2>1, FailingTab
  <2>3. tab' = [tab EXCEPT ![t] = p]
      BY <1>2, <1>5, <2>1 DEF Lose, Failing, FlowInv, TypeOK
  <2>4. TabSound(t, p)
      BY <1>3, <2>2 DEF TabSound
  <2> QED
      BY <1>1, <1>5, <2>2, <2>3, <2>4, EndStep
<1> QED
    BY <1>4, <1>5

\* The back button: the attempt is still the one the answer named.
LEMMA BackStep ==
    ASSUME FlowInv, NEW t \in Tab, Back(t)
    PROVE  FlowInv'
<1>1. /\ jar' = jar /\ req' = req /\ issued' = issued /\ redeemed' = redeemed
      /\ presented' = presented /\ sessions' = sessions /\ solo' = None
      /\ tab[t].at \in {"page", "error"} /\ tab[t].attempt # None
    BY DEF Back, provider
<1>2. tab[t] \in TabState /\ TabSound(t, tab[t])
    BY DEF FlowInv, TypeOK, TabsSound
<1>3. PICK p \in TabState : p = Returning(tab[t])
    BY <1>2, ReturningTab
<1>4. /\ p.at = "idp" /\ p.waits = tab[t].waits /\ p.attempt = tab[t].attempt
      /\ p.asked = tab[t].asked /\ p.code = None /\ p.landed = None
    BY <1>2, <1>3, ReturningTab
<1>5. tab' = [tab EXCEPT ![t] = p]
    BY <1>3 DEF Back, Returning
<1>6. tab'[t] = p /\ \A u \in Tab \ {t} : tab'[u] = tab[u]
    BY <1>5 DEF FlowInv, TypeOK
<1>7. TabSound(t, p) /\ p.waits = None
    BY <1>1, <1>2, <1>4, NoneAssumption DEF TabSound
<1>8. TypeOK'
    BY <1>1, <1>5 DEF FlowInv, TypeOK
<1>9. RequestsSound' /\ OneRedeemer' /\ SessionsRedeemed' /\ OwnVerifierOnly'
    BY <1>1 DEF FlowInv, RequestsSound, RequestSound, OneRedeemer, SessionsRedeemed,
                OwnVerifierOnly
<1>10. TabsSound'
  <2> SUFFICES ASSUME NEW u \in Tab
               PROVE  /\ TabSound(u, tab'[u])
                      /\ tab'[u].waits # None => Awaits(u, tab'[u], req[tab'[u].waits])
      BY <1>1 DEF TabsSound, TabSound, Awaits
  <2> QED
      BY <1>6, <1>7 DEF FlowInv, TabsSound
<1>11. PagesAgree'
  <2> SUFFICES ASSUME NEW u \in Tab, NEW c \in Cookie, Abroad(c)', Attempts(u, c.attempt)'
               PROVE  c.page = SafeReturnTo(tab'[u].asked)
      BY DEF PagesAgree
  <2>1. Abroad(c) /\ Attempts(u, c.attempt) /\ tab'[u].asked = tab[u].asked
      BY <1>1, <1>4, <1>6 DEF Abroad, Attempts
  <2> QED
      BY <2>1 DEF FlowInv, PagesAgree
<1> QED
    BY <1>1, <1>8, <1>9, <1>10, <1>11 DEF FlowInv, SoloOnTrack

\* The cookie goes.
LEMMA ExpireStep ==
    ASSUME FlowInv, Expire
    PROVE  FlowInv'
<1>1. /\ jar' = None /\ tab' = tab /\ req' = req /\ issued' = issued
      /\ redeemed' = redeemed /\ presented' = presented /\ sessions' = sessions
      /\ solo' = None
    BY DEF Expire, provider
<1>2. TypeOK'
    BY <1>1 DEF FlowInv, TypeOK
<1>3. RequestsSound' /\ OneRedeemer' /\ SessionsRedeemed' /\ OwnVerifierOnly' /\ TabsSound'
    BY <1>1 DEF FlowInv, RequestsSound, RequestSound, OneRedeemer, SessionsRedeemed,
                OwnVerifierOnly, TabsSound, TabSound, Awaits
<1>4. PagesAgree'
    BY <1>1, NoneAssumption DEF FlowInv, PagesAgree, Abroad, Attempts
<1> QED
    BY <1>1, <1>2, <1>3, <1>4 DEF FlowInv, SoloOnTrack

\* The secret changes: cookies lose their signature only.
LEMMA RekeyStep ==
    ASSUME FlowInv, Rekey
    PROVE  FlowInv'
<1>1. /\ jar' = Unsigned(jar) /\ tab' = tab /\ issued' = issued
      /\ redeemed' = redeemed /\ presented' = presented /\ sessions' = sessions
      /\ solo' = None
    BY DEF Rekey, provider
<1>2. ASSUME NEW r \in Request
      PROVE  /\ req'[r] \in RequestState
             /\ req'[r].cookie = Unsigned(req[r].cookie)
             /\ req'[r].set = {Unsigned(c) : c \in req[r].set}
             /\ req'[r].step = req[r].step /\ req'[r].page = req[r].page
             /\ req'[r].to = req[r].to /\ req'[r].tab = req[r].tab
             /\ req'[r].attempt = req[r].attempt /\ req'[r].code = req[r].code
  <2>1. /\ req[r] \in RequestState /\ req[r].cookie \in Cookie \cup {None}
        /\ req[r].set \subseteq Cookie \cup {None}
      BY DEF FlowInv, TypeOK, RequestState
  <2>2. PICK k \in Cookie \cup {None} : k = Unsigned(req[r].cookie)
      BY <2>1, Unsigning
  <2>3. PICK set \in SUBSET (Cookie \cup {None}) :
          set = {Unsigned(c) : c \in req[r].set}
    <3>1. ASSUME NEW c \in req[r].set
          PROVE  Unsigned(c) \in Cookie \cup {None}
        BY <2>1, Unsigning
    <3> QED
        BY <3>1
  <2>4. PICK q \in RequestState : q = Presenting(req[r], k, set)
      BY <2>1, RekeyedRequest
  <2>5. /\ q.cookie = k /\ q.set = set /\ q.step = req[r].step
        /\ q.page = req[r].page /\ q.to = req[r].to
        /\ q.tab = req[r].tab /\ q.attempt = req[r].attempt /\ q.code = req[r].code
      BY <2>1, <2>4, RekeyedRequest
  <2>6. req'[r] = q
      BY <2>2, <2>3, <2>4 DEF Rekey, Presenting
  <2> QED
      BY <2>2, <2>3, <2>5, <2>6
<1>3. TypeOK'
  <2>1. req' \in [Request -> RequestState]
    <3>1. req' = [r \in Request |-> req'[r]]
        BY DEF Rekey
    <3> QED
        BY <1>2, <3>1
  <2>2. jar' \in Cookie \cup {None}
      BY <1>1, Unsigning DEF FlowInv, TypeOK
  <2> QED
      BY <1>1, <2>1, <2>2 DEF FlowInv, TypeOK
<1>4. RequestsSound'
  <2> SUFFICES ASSUME NEW r \in Request
               PROVE  RequestSound(req[r])'
      BY DEF RequestsSound
  <2>1. RequestSound(req[r])
      BY DEF FlowInv, RequestsSound
  <2>2. req[r].cookie \in Cookie => /\ Unsigned(req[r].cookie) \in Cookie
                                    /\ Unsigned(req[r].cookie).attempt = req[r].cookie.attempt
      BY Unsigning, NoneAssumption
  <2> QED
      BY <1>1, <1>2, <2>1, <2>2 DEF RequestSound
<1>5. TabsSound'
  <2> SUFFICES ASSUME NEW u \in Tab
               PROVE  /\ TabSound(u, tab[u])
                      /\ tab[u].waits # None => Awaits(u, tab[u], req'[tab[u].waits])
      BY <1>1 DEF TabsSound, TabSound, Awaits
  <2>1. tab[u].waits \in Request \cup {None}
      BY DEF FlowInv, TypeOK, TabState
  <2> QED
      BY <1>2, <2>1 DEF FlowInv, TabsSound, Awaits
<1>6. OneRedeemer' /\ SessionsRedeemed' /\ OwnVerifierOnly'
    BY <1>1, <1>2 DEF FlowInv, OneRedeemer, SessionsRedeemed, OwnVerifierOnly
<1>7. PagesAgree'
  <2> SUFFICES ASSUME NEW u \in Tab, NEW c \in Cookie, Abroad(c)', Attempts(u, c.attempt)'
               PROVE  c.page = SafeReturnTo(tab[u].asked)
      BY <1>1 DEF PagesAgree
  <2>1. PICK d \in Cookie \cup {None} : c = Unsigned(d) /\ Abroad(d)
    <3>1. CASE c = Unsigned(jar)
        BY <3>1 DEF FlowInv, TypeOK, Abroad
    <3>2. CASE \E r \in Request : c = Unsigned(req[r].cookie)
        BY <3>2 DEF FlowInv, TypeOK, Abroad, RequestState
    <3>3. CASE \E r \in Request : c \in {Unsigned(d) : d \in req[r].set}
      <4>1. PICK r \in Request : c \in {Unsigned(d) : d \in req[r].set}
          BY <3>3
      <4>2. req[r].set \subseteq Cookie \cup {None}
          BY DEF FlowInv, TypeOK, RequestState
      <4> QED
          BY <4>1, <4>2 DEF Abroad
    <3> QED
        BY <1>1, <1>2, <3>1, <3>2, <3>3 DEF Abroad
  <2>2. d \in Cookie /\ c.attempt = d.attempt /\ c.page = d.page
      BY <2>1, Unsigning, NoneAssumption
  <2>3. tab[u].waits \in Request \cup {None}
      BY DEF FlowInv, TypeOK, TabState
  <2>4. Attempts(u, d.attempt)
      BY <1>1, <1>2, <2>2, <2>3 DEF Attempts
  <2> QED
      BY <2>1, <2>2, <2>4 DEF FlowInv, PagesAgree
<1> QED
    BY <1>1, <1>3, <1>4, <1>5, <1>6, <1>7 DEF FlowInv, SoloOnTrack

-----------------------------------------------------------------------------
(* The invariant and the theorems.                                          *)

\* The provider issues a code of the attempt the tab is in.
LEMMA ApproveStep ==
    ASSUME FlowInv, NEW t \in Tab, NEW r \in Request, Approve(t, r)
    PROVE  FlowInv'
<1>1. tab[t] \in TabState /\ TabSound(t, tab[t]) /\ tab[t].at = "idp"
    BY DEF FlowInv, TypeOK, TabsSound, Approve
<1>2. PICK a \in Attempt : a = tab[t].attempt
    BY <1>1 DEF TabSound, TabState
<1>3. issued[a] \in 0 .. MaxCodes /\ issued[a] < MaxCodes
    BY <1>2 DEF FlowInv, TypeOK, Approve
<1>n. PICK n \in 1 .. MaxCodes : n = issued[a] + 1
    BY <1>3, BoundAssumption
<1>4. PICK code \in Code : code = [attempt |-> a, n |-> n]
    BY DEF Code
<1>5. code.attempt = tab[t].attempt /\ code # Denied /\ code # None
    BY <1>2, <1>4, NoneAssumption
<1>6. Callback(t, r, code) /\ issued' = [issued EXCEPT ![a] = @ + 1]
    BY <1>2, <1>4, <1>n DEF Approve
<1>7. issued' \in [Attempt -> 0 .. MaxCodes]
    BY <1>3, <1>6, BoundAssumption DEF FlowInv, TypeOK
<1>8. /\ jar' = jar /\ redeemed' = redeemed /\ presented' = presented
      /\ sessions' = sessions /\ solo' \in {t, None}
      /\ solo' = t => solo = t
    BY NoneAssumption DEF Approve
<1> QED
    BY <1>1, <1>5, <1>6, <1>7, <1>8, CallbackStep

\* The provider refuses.
LEMMA CancelStep ==
    ASSUME FlowInv, NEW t \in Tab, NEW r \in Request, Cancel(t, r)
    PROVE  FlowInv'
<1>1. /\ jar' = jar /\ redeemed' = redeemed /\ presented' = presented
      /\ sessions' = sessions /\ solo' = None /\ Callback(t, r, Denied)
      /\ issued' \in [Attempt -> 0 .. MaxCodes]
    BY DEF Cancel, provider, FlowInv, TypeOK
<1> QED
    BY <1>1, NoneAssumption, CallbackStep

\* A callback is sent again.
LEMMA ResendStep ==
    ASSUME FlowInv, NEW t \in Tab, NEW r \in Request, Resend(t, r)
    PROVE  FlowInv'
<1>1. PICK code \in Code \cup {Denied} : code = tab[t].code
    BY DEF Resend, FlowInv, TypeOK, TabState
<1>2. /\ jar' = jar /\ redeemed' = redeemed /\ presented' = presented
      /\ sessions' = sessions /\ solo' = None /\ Callback(t, r, code)
      /\ issued' \in [Attempt -> 0 .. MaxCodes]
    BY <1>1 DEF Resend, provider, FlowInv, TypeOK
<1>3. code \in Code => code.attempt = tab[t].attempt
    BY <1>1 DEF FlowInv, TabsSound, TabSound
<1> QED
    BY <1>2, <1>3, NoneAssumption, CallbackStep

\* The invariant holds at first and every step keeps it.
LEMMA FlowInductive ==
    /\ Init => FlowInv
    /\ FlowInv /\ [Next]_vars => FlowInv'
<1>1. ASSUME Init PROVE FlowInv
  <2>1. /\ \A t \in Tab : /\ tab[t].at = "page" /\ tab[t].waits = None
                          /\ tab[t].attempt = None /\ tab[t].asked = Home
                          /\ tab[t].code = None /\ tab[t].landed = None
                          /\ tab[t] \in TabState
        /\ \A r \in Request : req[r] = Quiet
        /\ jar = None /\ redeemed = {} /\ presented = {} /\ solo = None
        /\ \A c \in Code : sessions[c] = 0
      BY <1>1 DEF Init, TabState
  <2>2. TypeOK
      BY <1>1, <2>1, QuietRequest, BoundAssumption DEF Init, TypeOK
  <2>3. RequestsSound
    <3>1. Quiet.step = "idle" /\ Quiet.code = None /\ None \notin Code
        BY NoneAssumption DEF Quiet
    <3>2. RequestSound(Quiet)
        BY <3>1 DEF RequestSound
    <3> QED
        BY <2>1, <3>2 DEF RequestsSound
  <2>4. TabsSound
      BY <2>1, NoneAssumption DEF TabsSound, TabSound
  <2>5. OneRedeemer /\ OwnVerifierOnly
      BY <2>1 DEF OneRedeemer, OwnVerifierOnly, Quiet
  <2>6. SessionsRedeemed
      BY <2>1 DEF SessionsRedeemed
  <2>7. PagesAgree
      BY <2>1, NoneAssumption DEF PagesAgree, Abroad, Quiet
  <2>8. SoloOnTrack
      BY <2>1 DEF SoloOnTrack
  <2> QED
      BY <2>2, <2>3, <2>4, <2>5, <2>6, <2>7, <2>8 DEF FlowInv
<1>2. ASSUME FlowInv, UNCHANGED vars PROVE FlowInv'
  <2>1. /\ jar' = jar /\ tab' = tab /\ req' = req /\ issued' = issued
        /\ redeemed' = redeemed /\ presented' = presented
        /\ sessions' = sessions /\ solo' = solo
      BY <1>2 DEF vars
  <2> QED
      BY <1>2, <2>1 DEF FlowInv, TypeOK, RequestsSound, RequestSound, TabsSound,
         TabSound, Awaits, OneRedeemer, SessionsRedeemed, OwnVerifierOnly, PagesAgree,
         Abroad, Attempts, SoloOnTrack, OnTrack, Good
<1>3. ASSUME FlowInv, Next PROVE FlowInv'
  <2>1. CASE \E t \in Tab, r \in Request :
               \/ \E p \in Page : StartLogin(t, r, p)
               \/ Approve(t, r) \/ Cancel(t, r) \/ Resend(t, r)
      BY <1>3, <2>1, StartLoginStep, ApproveStep, CancelStep, ResendStep
  <2>2. CASE \E r \in Request : \/ Login(r) \/ Check(r) \/ Exchange(r) \/ Create(r)
                                \/ Deliver(r) \/ Lose(r)
      BY <1>3, <2>2, LoginStep, CheckStep, ExchangeStep, CreateStep, DeliverStep,
         LoseStep
  <2>3. CASE (\E t \in Tab : Back(t)) \/ Expire \/ Rekey
      BY <1>3, <2>3, BackStep, ExpireStep, RekeyStep
  <2> QED
      BY <1>3, <2>1, <2>2, <2>3 DEF Next
<1> QED
    BY <1>1, <1>2, <1>3

\* The invariant holds in every reachable state.
THEOREM FlowSound == Spec => []FlowInv
    BY FlowInductive, PTL DEF Spec

\* The variables keep their types: slots, cookies, codes and pages never mix.
THEOREM LoginTypeCorrect == Spec => []TypeOK
<1>1. FlowInv => TypeOK
    BY DEF FlowInv
<1> QED
    BY <1>1, FlowSound, PTL

\* Whatever tabs log in beside each other in one cookie jar, a code is presented to
\* the provider with the verifier of the login that asked for it (Callback's
\* comparison of the states comes before the exchange).
THEOREM CodesMeetTheirVerifier == Spec => []OwnVerifierOnly
<1>1. FlowInv => OwnVerifierOnly
    BY DEF FlowInv
<1> QED
    BY <1>1, FlowSound, PTL

\* However often a callback is sent again, its code makes at most one session.
THEOREM CodesMakeOneSession == Spec => []OneSessionPerCode
<1>1. FlowInv => OneSessionPerCode
    BY DEF FlowInv, SessionsRedeemed, OneSessionPerCode
<1> QED
    BY <1>1, FlowSound, PTL

\* A tab that comes back from the provider lands on the page it was asked to return
\* to, or on Home if that is not a local one: the cookie that decides it is
\* the one of its own attempt.
THEOREM TabsLandWhereAsked == Spec => []LandsWhereAsked
<1>1. FlowInv => LandsWhereAsked
    BY DEF FlowInv, TabsSound, TabSound, LandsWhereAsked
<1> QED
    BY <1>1, FlowSound, PTL

\* A callback is answered without an exchange only when Check does not accept it.
LEMMA RefusedByCheck ==
    ASSUME FlowInv, Next, NEW r \in Request,
           req[r].step = "callback", req'[r].step = "answer"
    PROVE  ~Accepted(r)
<1>1. ASSUME NEW t \in Tab, NEW s \in Request, Free(s), NEW q,
             req' = [req EXCEPT ![s] = q]
      PROVE  req'[r] = req[r]
    BY <1>1 DEF Free, FlowInv, TypeOK
<1>2. CASE \E t \in Tab, s \in Request :
             \/ \E p \in Page : StartLogin(t, s, p)
             \/ Approve(t, s) \/ Cancel(t, s) \/ Resend(t, s)
  <2>1. PICK t \in Tab, s \in Request :
           \/ \E p \in Page : StartLogin(t, s, p)
           \/ Approve(t, s) \/ Cancel(t, s) \/ Resend(t, s)
      BY <1>2
  <2>2. ASSUME NEW code, Callback(t, s, code)
        PROVE  Free(s) /\ \E q : req' = [req EXCEPT ![s] = q]
      BY <2>2 DEF Callback, Send
  <2>3. CASE \E p \in Page : StartLogin(t, s, p)
    <3>1. Free(s) /\ \E q : req' = [req EXCEPT ![s] = q]
        BY <2>3 DEF StartLogin, Send
    <3> QED
        BY <1>1, <3>1
  <2>4. CASE Approve(t, s) \/ Cancel(t, s) \/ Resend(t, s)
    <3>1. \E code : Callback(t, s, code)
        BY <2>4 DEF Approve, Cancel, Resend
    <3>2. Free(s) /\ \E q : req' = [req EXCEPT ![s] = q]
        BY <2>2, <3>1
    <3> QED
        BY <1>1, <3>2
  <2> QED
      BY <2>1, <2>3, <2>4
<1>3. CASE (\E t \in Tab : Back(t)) \/ Expire
    BY <1>3 DEF Back, Expire
<1>4. CASE Rekey
  <2>1. req'[r].step = req[r].step
      BY <1>4 DEF Rekey, FlowInv, TypeOK, RequestState
  <2> QED
      BY <2>1
<1>5. CASE \E s \in Request : Check(s)
  <2>1. PICK s \in Request : Check(s)
      BY <1>5
  <2>2. CASE s = r
    <3>1. CASE Accepted(r)
      <4>1. req'[r].step = "exchange"
          BY <2>1, <2>2, <3>1 DEF Check, FlowInv, TypeOK, RequestState
      <4> QED
          BY <4>1
    <3> QED
        BY <3>1
  <2>3. CASE s # r
    <3>1. req'[r] = req[r]
        BY <2>1, <2>3 DEF Check, Answer, FlowInv, TypeOK
    <3> QED
        BY <3>1
  <2> QED
      BY <2>2, <2>3
<1>6. CASE \E s \in Request : Login(s) \/ Exchange(s) \/ Create(s) \/ Deliver(s) \/ Lose(s)
  <2>1. PICK s \in Request : /\ req[s].step # "callback"
                             /\ \E q : req' = [req EXCEPT ![s] = q]
    <3>1. PICK s \in Request : Login(s) \/ Exchange(s) \/ Create(s) \/ Deliver(s) \/ Lose(s)
        BY <1>6
    <3>2. CASE Login(s)
        BY <3>2 DEF Login, Answer
    <3>3. CASE Exchange(s)
        BY <3>3 DEF Exchange, Answer
    <3>4. CASE Create(s)
        BY <3>4 DEF Create, Answer
    <3>5. CASE Deliver(s) \/ Lose(s)
        BY <3>5 DEF Deliver, Lose
    <3> QED
        BY <3>1, <3>2, <3>3, <3>4, <3>5
  <2>2. req'[r] = req[r]
      BY <2>1 DEF FlowInv, TypeOK
  <2> QED
      BY <2>2
<1> QED
    BY <1>2, <1>3, <1>4, <1>5, <1>6 DEF Next

\* A login that nothing interferes with passes the checks of Callback.
THEOREM SoloLoginsPass == Spec => SoloNotRefused
<1>1. ASSUME FlowInv, [Next]_vars
      PROVE  [\A r \in Request :
                 req[r].step = "callback" /\ req'[r].step = "answer" =>
                    req[r].tab # solo]_vars
  <2> SUFFICES ASSUME Next, NEW r \in Request,
                      req[r].step = "callback", req'[r].step = "answer",
                      req[r].tab = solo
               PROVE  FALSE
      BY <1>1
  <2>1. solo # None
      BY <1>1, NoneAssumption DEF FlowInv, RequestsSound, RequestSound
  <2>2. OnTrack(req[r]) /\ req[r].code # None
      BY <1>1, <2>1 DEF FlowInv, SoloOnTrack, RequestsSound, RequestSound
  <2>3. Accepted(r)
      BY <2>2, NoneAssumption DEF Accepted, FlowValid, OnTrack, Good
  <2> QED
      BY <1>1, <2>3, RefusedByCheck
<1> QED
    BY <1>1, FlowSound, PTL DEF Spec, SoloNotRefused

-----------------------------------------------------------------------------
(* The promise.  Every step of the flow is a step of Consents or leaves it   *)
(* as it is.  That needs, beside FlowInv, that an answer which shows a page  *)
(* is the only one of its session, that codes about were issued, and that    *)
(* an attempt belongs to one tab from its first answer on.                   *)

PageAnswer(q) == q.step = "answer" /\ q.to = "page"
NewAttempt(q) == q.step = "answer" /\ q.to = "idp"

IsIssued(c) == c \in Code => c.n <= issued[c.attempt]

PageAnswers ==
    /\ \A r \in Request : PageAnswer(req[r]) => /\ req[r].code \in Code
                                                /\ sessions[req[r].code] > 0
    /\ \A r, s \in Request : /\ PageAnswer(req[r]) /\ PageAnswer(req[s])
                             /\ req[r].code = req[s].code
                             => r = s

CodesIssued == /\ \A r \in Request : IsIssued(req[r].code)
               /\ \A t \in Tab : IsIssued(tab[t].code)
               /\ \A c \in redeemed : IsIssued(c)

\* Nobody has the attempt of a login whose answer is on its way.
NewAttempts ==
    \A r \in Request : NewAttempt(req[r]) =>
        /\ issued[req[r].attempt] = 0
        /\ \A t \in Tab : tab[t].attempt # req[r].attempt
        /\ \A s \in Request \ {r} : req[s].attempt # req[r].attempt

AttemptsApart ==
    \A t, u \in Tab : tab[t].attempt = tab[u].attempt => t = u \/ tab[t].attempt = None

\* A tab and the request it waits for are in the same attempt, or in none yet.
SameAttempt ==
    /\ \A r \in Request : req[r].step = "login" => req[r].attempt = None
    /\ \A t \in Tab : tab[t].waits # None =>
         \/ req[tab[t].waits].attempt = tab[t].attempt
         \/ tab[t].attempt = None /\ NewAttempt(req[tab[t].waits])

PromiseInv == FlowInv /\ PageAnswers /\ CodesIssued /\ NewAttempts /\ AttemptsApart
              /\ SameAttempt

\* Only request r, or tab t, changes.
Moves(r, q) == req'[r] = q /\ \A s \in Request \ {r} : req'[s] = req[s]
Turns(t, u) == tab'[t] = u /\ \A v \in Tab \ {t} : tab'[v] = tab[v]

\* A login that starts is in no attempt.
LEMMA StartLoginMoves ==
    ASSUME FlowInv, NEW t \in Tab, NEW r \in Request, NEW page \in Page,
           StartLogin(t, r, page)
    PROVE  /\ req[r].step = "idle" /\ UNCHANGED <<issued, redeemed, sessions>>
           /\ \E q, u : /\ Moves(r, q) /\ Turns(t, u)
                        /\ q.step = "login" /\ q.attempt = None /\ q.code = None
                        /\ u.waits = r /\ u.attempt = None /\ u.code = None
                        /\ u.asked = page /\ u.landed = None
<1>1. /\ tab[t] \in TabState /\ UNCHANGED <<issued, redeemed, sessions>>
      /\ req[r].step = "idle"
    BY DEF FlowInv, TypeOK, StartLogin, Send, provider, Free
<1>2. PICK q \in RequestState : q = LoggingIn(t, page)
    BY LoginRequest
<1>3. q.step = "login" /\ q.attempt = None /\ q.code = None
    BY <1>2, LoginRequest
<1>4. PICK shown \in TabState : shown = Starting(tab[t], page)
    BY <1>1, StartingTab
<1>5. /\ shown.attempt = None /\ shown.asked = page /\ shown.code = None
      /\ shown.landed = None
    BY <1>1, <1>4, StartingTab
<1>6. PICK u \in TabState : u = Sending(shown, r)
    BY SendingTab
<1>7. /\ u.waits = r /\ u.attempt = None /\ u.asked = page
      /\ u.code = None /\ u.landed = None
    BY <1>5, <1>6, SendingTab
<1>8. req' = [req EXCEPT ![r] = q] /\ tab' = [tab EXCEPT ![t] = u]
    BY <1>2, <1>4, <1>6 DEF StartLogin, Send, Starting, Sending, LoggingIn
<1>9. Moves(r, q) /\ Turns(t, u)
    BY <1>8 DEF Moves, Turns, FlowInv, TypeOK
<1> QED
    BY <1>1, <1>3, <1>7, <1>9

\* A callback is about the attempt of its tab.
LEMMA CallbackMoves ==
    ASSUME FlowInv, NEW t \in Tab, NEW r \in Request,
           NEW code \in Code \cup {None, Denied}, Callback(t, r, code)
    PROVE  /\ req[r].step = "idle"
           /\ \E q, u : /\ Moves(r, q) /\ Turns(t, u)
                        /\ q.step = "callback" /\ q.attempt = tab[t].attempt
                        /\ q.code = code
                        /\ u.waits = r /\ u.attempt = tab[t].attempt /\ u.code = code
                        /\ u.asked = tab[t].asked /\ u.landed = tab[t].landed
<1>1. /\ tab[t] \in TabState /\ jar \in Cookie \cup {None} /\ req[r].step = "idle"
      /\ tab[t].attempt \in Attempt \cup {None}
    BY DEF FlowInv, TypeOK, TabState, Callback, Send, Free
<1>a. PICK a \in Attempt \cup {None} : a = tab[t].attempt
    BY <1>1
<1>k. PICK k \in Cookie \cup {None} : k = jar
    BY <1>1
<1>2. PICK q \in RequestState : q = CallingBack(t, a, code, k)
    BY CallbackRequest
<1>3. q.step = "callback" /\ q.attempt = a /\ q.code = code
    BY <1>2, CallbackRequest
<1>4. PICK shown \in TabState : shown = Calling(tab[t], code)
    BY <1>1, CallingTab
<1>5. /\ shown.attempt = tab[t].attempt /\ shown.asked = tab[t].asked
      /\ shown.code = code /\ shown.landed = tab[t].landed
    BY <1>1, <1>4, CallingTab
<1>6. PICK u \in TabState : u = Sending(shown, r)
    BY SendingTab
<1>7. /\ u.waits = r /\ u.attempt = tab[t].attempt
      /\ u.asked = tab[t].asked /\ u.code = code /\ u.landed = tab[t].landed
    BY <1>5, <1>6, SendingTab
<1>8. req' = [req EXCEPT ![r] = q] /\ tab' = [tab EXCEPT ![t] = u]
    BY <1>2, <1>4, <1>6, <1>a, <1>k DEF Callback, Send, Calling, Sending, CallingBack
<1>9. Moves(r, q) /\ Turns(t, u)
    BY <1>8 DEF Moves, Turns, FlowInv, TypeOK
<1> QED
    BY <1>1, <1>3, <1>7, <1>9, <1>a

\* A handler goes on: it draws an attempt that is nowhere about, redeems a code that
\* was not, or makes the session of one that was; or none of these.
LEMMA ServerMoves ==
    ASSUME FlowInv, NEW r \in Request, Login(r) \/ Check(r) \/ Exchange(r) \/ Create(r)
    PROVE  /\ req[r].step \in {"login", "callback", "exchange", "create"}
           /\ tab' = tab /\ issued' = issued
           /\ \E q : /\ Moves(r, q)
                     /\ q.code = req[r].code /\ q.step # "login"
                     /\ \/ q.attempt = req[r].attempt /\ ~NewAttempt(q)
                        \/ /\ NewAttempt(q) /\ q.attempt \in Attempt \ Used
                           /\ req[r].step = "login"
                     /\ \/ /\ UNCHANGED <<redeemed, sessions>> /\ ~PageAnswer(q)
                        \/ /\ req[r].code \in Code \ redeemed
                           /\ redeemed' = redeemed \cup {req[r].code}
                           /\ sessions' = sessions /\ ~PageAnswer(q)
                        \/ /\ req[r].code \in redeemed \cap Code
                           /\ sessions[req[r].code] = 0
                           /\ sessions' = [sessions EXCEPT ![req[r].code] = 1]
                           /\ redeemed' = redeemed
<1>1. req[r] \in RequestState /\ RequestSound(req[r]) /\ req[r].step # "idle"
    BY DEF FlowInv, TypeOK, RequestsSound, Login, Check, Exchange, Create
<1>2. tab' = tab /\ issued' = issued
    BY DEF Login, Check, Exchange, Create, provider
<1>e. ASSUME NEW set \in {{}, {None}}, Answer(r, "error", set)
      PROVE  \E q : /\ Moves(r, q) /\ q.code = req[r].code /\ q.step # "login"
                    /\ q.attempt = req[r].attempt /\ ~NewAttempt(q) /\ ~PageAnswer(q)
  <2>1. PICK q \in RequestState :
           /\ req' = [req EXCEPT ![r] = q]
           /\ q.code = req[r].code /\ q.attempt = req[r].attempt
           /\ q.step = "answer" /\ q.to = "error"
      BY <1>1, <1>e, ErrorAnswer
  <2> QED
      BY <2>1 DEF Moves, NewAttempt, PageAnswer, FlowInv, TypeOK
<1>3. CASE Login(r)
  <2>1. UNCHANGED <<redeemed, sessions>> /\ req[r].step = "login"
      BY <1>3 DEF Login, provider
  <2>2. CASE Answer(r, "error", {})
      BY <1>2, <1>e, <2>1, <2>2
  <2>3. ASSUME NEW a \in Attempt \ Used,
               req' = [req EXCEPT ![r] = [@ EXCEPT !.step = "answer", !.to = "idp",
                        !.attempt = a,
                        !.set = {[attempt |-> a, signed |-> TRUE,
                                  page |-> SafeReturnTo(req[r].page)]}]]
        PROVE  \E q : /\ Moves(r, q) /\ q.code = req[r].code /\ q.step = "answer"
                      /\ q.to = "idp" /\ q.attempt = a
    <3>1. PICK c \in Cookie : c = [attempt |-> a, signed |-> TRUE,
                                   page |-> SafeReturnTo(req[r].page)]
        BY ReturnsAreLocal DEF Cookie
    <3>2. PICK p \in RequestState : p = [req[r] EXCEPT !.attempt = a]
        BY <1>1, AttemptRequest
    <3>3. p.attempt = a /\ p.code = req[r].code
        BY <1>1, <3>2, AttemptRequest
    <3> {c} \in SUBSET (Cookie \cup {None})
        OBVIOUS
    <3>4. PICK q \in RequestState : q = Answered(p, "idp", {c})
        BY AnswerRequest
    <3>5. q.step = "answer" /\ q.to = "idp" /\ q.attempt = a /\ q.code = req[r].code
        BY <3>3, <3>4, AnswerRequest
    <3>6. req' = [req EXCEPT ![r] = q]
        BY <2>3, <3>1, <3>2, <3>4 DEF Answered
    <3>7. Moves(r, q)
        BY <3>6 DEF Moves, FlowInv, TypeOK
    <3> QED
        BY <3>5, <3>7
  <2>4. CASE ~Answer(r, "error", {})
    <3>1. PICK a \in Attempt \ Used :
            req' = [req EXCEPT ![r] = [@ EXCEPT !.step = "answer", !.to = "idp",
                     !.attempt = a,
                     !.set = {[attempt |-> a, signed |-> TRUE,
                               page |-> SafeReturnTo(req[r].page)]}]]
        BY <1>3, <2>4 DEF Login
    <3>2. PICK q : /\ Moves(r, q) /\ q.code = req[r].code /\ q.step = "answer"
                   /\ q.to = "idp" /\ q.attempt = a
        BY <2>3, <3>1
    <3>3. NewAttempt(q) /\ ~PageAnswer(q) /\ q.step # "login"
        BY <3>2 DEF NewAttempt, PageAnswer
    <3> QED
        BY <1>2, <2>1, <3>2, <3>3
  <2> QED
      BY <2>2, <2>4
<1>4. CASE Check(r)
  <2>1. UNCHANGED <<redeemed, sessions>> /\ req[r].step = "callback"
      BY <1>4 DEF Check, provider
  <2>2. CASE ~Accepted(r)
      BY <1>2, <1>4, <1>e, <2>1, <2>2 DEF Check
  <2>3. CASE Accepted(r)
    <3>1. PICK p \in Page \cup {Home} : p = SafeReturnTo(req[r].cookie.page)
        BY ReturnsAreLocal, PageAssumption
    <3>2. PICK q \in RequestState : q = Checked(req[r], p)
        BY <1>1, CheckedRequest
    <3>3. q.step = "exchange" /\ q.attempt = req[r].attempt /\ q.code = req[r].code
        BY <1>1, <3>2, CheckedRequest
    <3>4. req' = [req EXCEPT ![r] = q]
        BY <1>4, <2>3, <3>1, <3>2 DEF Check, Checked, FlowInv, TypeOK
    <3>5. Moves(r, q) /\ ~NewAttempt(q) /\ ~PageAnswer(q)
        BY <3>3, <3>4 DEF Moves, NewAttempt, PageAnswer, FlowInv, TypeOK
    <3> QED
        BY <1>2, <2>1, <3>3, <3>5
  <2> QED
      BY <2>2, <2>3
<1>5. CASE Exchange(r)
  <2>1. sessions' = sessions /\ req[r].step = "exchange" /\ req[r].code \in Code
      BY <1>1, <1>5 DEF Exchange, RequestSound
  <2>2. \/ redeemed' = redeemed
        \/ req[r].code \notin redeemed /\ redeemed' = redeemed \cup {req[r].code}
      BY <1>5 DEF Exchange, Present, Redeemable
  <2>3. \E q : /\ Moves(r, q) /\ q.code = req[r].code /\ q.step # "login"
               /\ q.attempt = req[r].attempt /\ ~NewAttempt(q) /\ ~PageAnswer(q)
    <3>1. CASE Answer(r, "error", {None})
        BY <1>e, <3>1
    <3>2. CASE req' = [req EXCEPT ![r].step = "create"]
      <4>1. PICK q \in RequestState : q = Creating(req[r])
          BY <1>1, CreatingRequest
      <4>2. q.step = "create" /\ q.attempt = req[r].attempt /\ q.code = req[r].code
          BY <1>1, <4>1, CreatingRequest
      <4>3. req' = [req EXCEPT ![r] = q]
          BY <3>2, <4>1 DEF Creating, FlowInv, TypeOK
      <4> QED
          BY <4>2, <4>3 DEF Moves, NewAttempt, PageAnswer, FlowInv, TypeOK
    <3> QED
        BY <1>5, <3>1, <3>2 DEF Exchange
  <2> QED
      BY <1>2, <2>1, <2>2, <2>3
<1>6. CASE Create(r)
  <2>1. /\ redeemed' = redeemed /\ req[r].step = "create"
        /\ req[r].code \in redeemed \cap Code /\ sessions[req[r].code] = 0
      BY <1>1, <1>6 DEF Create, RequestSound
  <2>2. CASE Answer(r, "error", {None}) /\ UNCHANGED sessions
      BY <1>2, <1>e, <2>1, <2>2
  <2>4. CASE /\ sessions' = [sessions EXCEPT ![req[r].code] = @ + 1]
             /\ Answer(r, "error", {None})
    <3>1. sessions' = [sessions EXCEPT ![req[r].code] = 1]
        BY <2>1, <2>4
    <3> QED
        BY <1>2, <1>e, <2>1, <2>4, <3>1
  <2>3. CASE /\ sessions' = [sessions EXCEPT ![req[r].code] = @ + 1]
             /\ Answer(r, "page", {None})
    <3> {None} \in SUBSET (Cookie \cup {None})
        OBVIOUS
    <3>1. PICK q \in RequestState : q = Answered(req[r], "page", {None})
        BY <1>1, AnswerRequest
    <3>2. /\ q.step = "answer" /\ q.to = "page" /\ q.attempt = req[r].attempt
          /\ q.code = req[r].code
        BY <1>1, <3>1, AnswerRequest
    <3>3. req' = [req EXCEPT ![r] = q]
        BY <2>3, <3>1 DEF Answer, Answered
    <3>4. Moves(r, q) /\ ~NewAttempt(q) /\ PageAnswer(q) /\ q.step # "login"
        BY <3>2, <3>3 DEF Moves, NewAttempt, PageAnswer, FlowInv, TypeOK
    <3>5. sessions' = [sessions EXCEPT ![req[r].code] = 1]
        BY <2>1, <2>3
    <3> QED
        BY <1>2, <2>1, <3>2, <3>4, <3>5
  <2> QED
      BY <1>6, <2>2, <2>3, <2>4 DEF Create
<1> QED
    BY <1>3, <1>4, <1>5, <1>6

\* A request ends.  A tab that waited for it takes its attempt and shows its page,
\* or keeps what it has if the answer is lost.
LEMMA EndMoves ==
    ASSUME FlowInv, NEW r \in Request, Deliver(r) \/ Lose(r)
    PROVE  /\ req[r].step = "answer" /\ Moves(r, Quiet) /\ req[r].tab \in Tab
           /\ UNCHANGED <<issued, redeemed, sessions>>
           /\ \/ tab' = tab
              \/ \E t \in Tab : \E u :
                    /\ Turns(t, u) /\ tab[t].waits = r /\ u.waits = None
                    /\ u.asked = tab[t].asked /\ u.code \in {tab[t].code, None}
                    /\ \/ u.attempt = tab[t].attempt /\ u.landed = tab[t].landed
                       \/ /\ u.attempt = req[r].attempt
                          /\ u.landed = IF req[r].to = "page"
                                        THEN SafeReturnTo(tab[t].asked) ELSE None
<1> DEFINE t == req[r].tab
<1>1. /\ req[r].step = "answer" /\ req' = [req EXCEPT ![r] = Quiet]
      /\ UNCHANGED <<issued, redeemed, sessions>>
    BY DEF Deliver, Lose, provider
<1>2. req[r] \in RequestState /\ RequestSound(req[r]) /\ t \in Tab
    BY <1>1 DEF FlowInv, TypeOK, RequestsSound, RequestSound
<1>3. Moves(r, Quiet)
    BY <1>1 DEF Moves, FlowInv, TypeOK
<1>4. CASE tab[t].waits # r
    BY <1>1, <1>2, <1>3, <1>4 DEF Deliver, Lose
<1>5. ASSUME tab[t].waits = r, Lose(r)
      PROVE  \E u : /\ Turns(t, u) /\ u.waits = None /\ u.asked = tab[t].asked
                    /\ u.code = tab[t].code
                    /\ u.attempt = tab[t].attempt /\ u.landed = tab[t].landed
  <2>1. PICK u \in TabState : u = Failing(tab[t])
      BY <1>2, FailingTab DEF FlowInv, TypeOK
  <2>2. /\ u.waits = None /\ u.attempt = tab[t].attempt
        /\ u.asked = tab[t].asked /\ u.code = tab[t].code /\ u.landed = tab[t].landed
      BY <1>2, <2>1, FailingTab DEF FlowInv, TypeOK
  <2>3. tab' = [tab EXCEPT ![t] = u]
      BY <1>2, <1>5, <2>1 DEF Lose, Failing, FlowInv, TypeOK
  <2>4. Turns(t, u)
      BY <1>2, <2>3 DEF Turns, FlowInv, TypeOK
  <2> QED
      BY <2>2, <2>4
<1>6. ASSUME tab[t].waits = r, Deliver(r)
      PROVE  \E u : /\ Turns(t, u) /\ u.waits = None /\ u.asked = tab[t].asked
                    /\ u.code \in {tab[t].code, None} /\ u.attempt = req[r].attempt
                    /\ u.landed = IF req[r].to = "page"
                                  THEN SafeReturnTo(tab[t].asked) ELSE None
  <2>1. Awaits(t, tab[t], req[r])
      BY <1>2, <1>6, NoneAssumption DEF FlowInv, TabsSound
  <2>2. PICK at \in {"idp", "page", "error"} : at = req[r].to
      BY <1>2 DEF RequestState
  <2>3. PICK a \in Attempt \cup {None} : a = req[r].attempt
      BY <1>2 DEF RequestState
  <2>o. PICK o \in TabState : o = tab[t]
      BY <1>2 DEF FlowInv, TypeOK
  <2>4. PICK code \in Code \cup {None, Denied} :
          code = IF at = "error" THEN tab[t].code ELSE None
      BY <2>o DEF TabState
  <2>5. PICK landed \in Local \cup {Home, None} :
          landed = IF at = "page" THEN req[r].page ELSE None
      BY <1>1, <2>1, <2>2, ReturnsAreLocal DEF Awaits
  <2>6. PICK u \in TabState :
          /\ u = Showing(o, at, a, code, landed)
          /\ u.waits = None /\ u.attempt = a /\ u.asked = o.asked
          /\ u.code = code /\ u.landed = landed
      BY ShowingTab
  <2>7. tab' = [tab EXCEPT ![t] = u]
    <3>1. tab' = [tab EXCEPT ![t] = Showing(tab[t], req[r].to, req[r].attempt,
                         IF req[r].to = "error" THEN tab[t].code ELSE None,
                         IF req[r].to = "page" THEN req[r].page ELSE None)]
        BY <1>6 DEF Deliver, Showing
    <3>2. u = Showing(tab[t], req[r].to, req[r].attempt,
                         IF req[r].to = "error" THEN tab[t].code ELSE None,
                         IF req[r].to = "page" THEN req[r].page ELSE None)
        BY <2>2, <2>3, <2>4, <2>5, <2>6, <2>o
    <3> QED
        BY <3>1, <3>2
  <2>8. Turns(t, u)
      BY <1>2, <2>7 DEF Turns, FlowInv, TypeOK
  <2>9. landed = IF req[r].to = "page" THEN SafeReturnTo(tab[t].asked) ELSE None
      BY <1>1, <2>1, <2>2, <2>5 DEF Awaits
  <2> QED
      BY <2>3, <2>4, <2>6, <2>8, <2>9, <2>o
<1> QED
    BY <1>1, <1>2, <1>3, <1>4, <1>5, <1>6

\* What else happens to the browser or the secret is no matter of codes or attempts.
LEMMA OtherMoves ==
    ASSUME FlowInv, (\E t \in Tab : Back(t)) \/ Expire \/ Rekey \/ UNCHANGED vars
    PROVE  /\ UNCHANGED <<issued, redeemed, sessions>>
           /\ \A r \in Request :
                /\ req'[r].step = req[r].step /\ req'[r].to = req[r].to
                /\ req'[r].attempt = req[r].attempt /\ req'[r].code = req[r].code
           /\ \/ tab' = tab
              \/ \E t \in Tab : \E u :
                    /\ Turns(t, u) /\ u.waits = tab[t].waits /\ u.asked = tab[t].asked
                    /\ u.attempt = tab[t].attempt /\ u.code = None /\ u.landed = None
<1>1. CASE UNCHANGED vars \/ Expire
    BY <1>1 DEF vars, Expire, provider
<1>2. CASE Rekey
  <2>1. ASSUME NEW r \in Request
        PROVE  /\ req'[r].step = req[r].step /\ req'[r].to = req[r].to
               /\ req'[r].attempt = req[r].attempt /\ req'[r].code = req[r].code
      BY <1>2 DEF Rekey, FlowInv, TypeOK, RequestState
  <2> QED
      BY <1>2, <2>1 DEF Rekey, provider
<1>3. ASSUME NEW t \in Tab, Back(t)
      PROVE  /\ UNCHANGED <<issued, redeemed, sessions>> /\ req' = req
             /\ \E u : /\ Turns(t, u) /\ u.waits = tab[t].waits
                       /\ u.asked = tab[t].asked /\ u.attempt = tab[t].attempt
                       /\ u.code = None /\ u.landed = None
  <2>1. tab[t] \in TabState
      BY DEF FlowInv, TypeOK
  <2>2. PICK u \in TabState : u = Returning(tab[t])
      BY <2>1, ReturningTab
  <2>3. /\ u.waits = tab[t].waits /\ u.attempt = tab[t].attempt
        /\ u.asked = tab[t].asked /\ u.code = None /\ u.landed = None
      BY <2>1, <2>2, ReturningTab
  <2>4. tab' = [tab EXCEPT ![t] = u]
      BY <1>3, <2>2 DEF Back, Returning
  <2>5. Turns(t, u)
      BY <2>4 DEF Turns, FlowInv, TypeOK
  <2> QED
      BY <1>3, <2>3, <2>5 DEF Back, provider
<1> QED
    BY <1>1, <1>2, <1>3

Lasting == PageAnswers /\ CodesIssued /\ NewAttempts /\ AttemptsApart /\ SameAttempt

\* A tab sends a request, in its attempt or in none.
LEMMA SendingLasts ==
    ASSUME PromiseInv, FlowInv', NEW t \in Tab, NEW r \in Request, NEW q, NEW u,
           req[r].step = "idle", Moves(r, q), Turns(t, u),
           q.step \in {"login", "callback"}, q.step = "login" => q.attempt = None,
           q.attempt = u.attempt, u.attempt \in {None, tab[t].attempt},
           u.waits = r, q.code = u.code, IsIssued(u.code)',
           UNCHANGED <<redeemed, sessions>>,
           \A a \in Attempt : issued[a] <= issued'[a],
           \A a \in Attempt : a # u.attempt => issued'[a] = issued[a]
    PROVE  Lasting'
<1>1. PageAnswers'
    BY DEF Moves, PageAnswer, PageAnswers, PromiseInv
<1>2. CodesIssued'
  <2>1. ASSUME NEW c, IsIssued(c) PROVE IsIssued(c)'
      BY <2>1 DEF IsIssued, Code, PromiseInv, FlowInv, TypeOK
  <2>2. \A s \in Request : IsIssued(req[s].code)'
      BY <2>1 DEF Moves, CodesIssued, PromiseInv, IsIssued
  <2>3. \A v \in Tab : IsIssued(tab[v].code)'
      BY <2>1 DEF Turns, CodesIssued, PromiseInv, IsIssued
  <2>4. \A c \in redeemed' : IsIssued(c)'
      BY <2>1 DEF CodesIssued, PromiseInv
  <2> QED
      BY <2>2, <2>3, <2>4 DEF CodesIssued, IsIssued
<1>3. NewAttempts'
  <2> SUFFICES ASSUME NEW s \in Request, NewAttempt(req'[s])
               PROVE  /\ issued'[req'[s].attempt] = 0
                      /\ \A v \in Tab : tab'[v].attempt # req'[s].attempt
                      /\ \A w \in Request \ {s} : req'[w].attempt # req'[s].attempt
      BY DEF NewAttempts, NewAttempt
  <2>1. s # r /\ req'[s] = req[s] /\ NewAttempt(req[s])
      BY DEF Moves, NewAttempt
  <2>2. /\ issued[req[s].attempt] = 0
        /\ \A v \in Tab : tab[v].attempt # req[s].attempt
        /\ \A w \in Request \ {s} : req[w].attempt # req[s].attempt
      BY <2>1 DEF PromiseInv, NewAttempts
  <2>3. req[s].attempt \in Attempt
      BY <2>1 DEF PromiseInv, FlowInv, RequestsSound, RequestSound, NewAttempt, TypeOK,
             RequestState
  <2>4. u.attempt # req[s].attempt
      BY <2>2, <2>3, NoneAssumption
  <2> QED
      BY <2>1, <2>2, <2>3, <2>4 DEF Moves, Turns
<1>4. AttemptsApart'
    BY DEF Turns, PromiseInv, AttemptsApart
<1>5. SameAttempt'
  <2>1. \A s \in Request : req'[s].step = "login" => req'[s].attempt = None
      BY DEF Moves, PromiseInv, SameAttempt
  <2>2. ASSUME NEW v \in Tab, tab'[v].waits # None
        PROVE  \/ req'[tab'[v].waits].attempt = tab'[v].attempt
               \/ tab'[v].attempt = None /\ NewAttempt(req'[tab'[v].waits])
    <3>1. CASE v = t
        BY <3>1 DEF Moves, Turns
    <3>2. CASE v # t
      <4>1. tab'[v] = tab[v] /\ tab[v].waits \in Request
          BY <2>2, <3>2 DEF Turns, PromiseInv, FlowInv, TypeOK, TabState
      <4>2. req[tab[v].waits].step # "idle"
          BY <2>2, <4>1 DEF PromiseInv, FlowInv, TabsSound, Awaits
      <4>3. req'[tab[v].waits] = req[tab[v].waits]
          BY <4>1, <4>2 DEF Moves
      <4> QED
          BY <2>2, <4>1, <4>3 DEF PromiseInv, SameAttempt
    <3> QED
        BY <3>1, <3>2
  <2> QED
      BY <2>1, <2>2 DEF SameAttempt, NewAttempt
<1> QED
    BY <1>1, <1>2, <1>3, <1>4, <1>5 DEF Lasting

\* An attempt that is not about is in no tab and no request, and has no code.
LEMMA UnusedAttempt ==
    ASSUME FlowInv, NEW a \in Attempt \ Used
    PROVE  /\ issued[a] = 0
           /\ \A t \in Tab : tab[t].attempt # a
           /\ \A r \in Request : req[r].attempt # a
  BY BoundAssumption DEF Used, FlowInv, TypeOK

\* A handler goes on, with what ServerMoves says.
LEMMA ServerLasts ==
    ASSUME PromiseInv, FlowInv', NEW r \in Request,
           Login(r) \/ Check(r) \/ Exchange(r) \/ Create(r)
    PROVE  Lasting'
<1>0. FlowInv
    BY DEF PromiseInv
<1>1. PICK q : /\ Moves(r, q)
               /\ q.code = req[r].code /\ q.step # "login"
               /\ \/ q.attempt = req[r].attempt /\ ~NewAttempt(q)
                  \/ /\ NewAttempt(q) /\ q.attempt \in Attempt \ Used
                     /\ req[r].step = "login"
               /\ \/ /\ UNCHANGED <<redeemed, sessions>> /\ ~PageAnswer(q)
                  \/ /\ req[r].code \in Code \ redeemed
                     /\ redeemed' = redeemed \cup {req[r].code}
                     /\ sessions' = sessions /\ ~PageAnswer(q)
                  \/ /\ req[r].code \in redeemed \cap Code
                     /\ sessions[req[r].code] = 0
                     /\ sessions' = [sessions EXCEPT ![req[r].code] = 1]
                     /\ redeemed' = redeemed
    BY <1>0, ServerMoves
<1>2. /\ req[r].step \in {"login", "callback", "exchange", "create"}
      /\ tab' = tab /\ issued' = issued
    BY <1>0, ServerMoves
<1>3. PageAnswers'
  <2>1. \A c \in Code : sessions[c] > 0 => sessions'[c] > 0
      BY <1>0, <1>1 DEF FlowInv, TypeOK
  <2>2. \A s \in Request \ {r} : req'[s] = req[s]
      BY <1>1 DEF Moves
  <2>3. req'[r] = q /\ req'[r].code = req[r].code
      BY <1>1 DEF Moves
  <2>4. PageAnswer(q) => /\ req[r].code \in Code /\ sessions[req[r].code] = 0
                         /\ sessions'[req[r].code] > 0
      BY <1>0, <1>1 DEF FlowInv, TypeOK
  <2>5. \A s \in Request \ {r} :
           PageAnswer(req[s]) => req[s].code \in Code /\ sessions[req[s].code] > 0
      BY DEF PromiseInv, PageAnswers
  <2>6. \A s \in Request : PageAnswer(req'[s]) => /\ req'[s].code \in Code
                                                  /\ sessions'[req'[s].code] > 0
      BY <2>1, <2>2, <2>3, <2>4, <2>5
  <2>7. \A s \in Request \ {r} : PageAnswer(q) /\ PageAnswer(req[s])
                                  => req[s].code # req[r].code
      BY <2>4, <2>5
  <2>8. \A s, w \in Request : /\ PageAnswer(req'[s]) /\ PageAnswer(req'[w])
                              /\ req'[s].code = req'[w].code
                              => s = w
      BY <2>2, <2>3, <2>7 DEF PromiseInv, PageAnswers
  <2> QED
      BY <2>6, <2>8 DEF PageAnswers, PageAnswer
<1>4. CodesIssued'
  <2>1. \A s \in Request : req'[s].code = req[s].code
      BY <1>1 DEF Moves
  <2>2. \A c \in redeemed' : c \in redeemed \/ c = req[r].code
      BY <1>1
  <2> QED
      BY <1>2, <2>1, <2>2 DEF CodesIssued, PromiseInv, IsIssued
<1>5. NewAttempts'
  <2> SUFFICES ASSUME NEW s \in Request, NewAttempt(req'[s])
               PROVE  /\ issued[req'[s].attempt] = 0
                      /\ \A v \in Tab : tab[v].attempt # req'[s].attempt
                      /\ \A w \in Request \ {s} : req'[w].attempt # req'[s].attempt
      BY <1>2 DEF NewAttempts, NewAttempt
  <2>1. CASE s = r
    <3>1. NewAttempt(q) /\ q.attempt \in Attempt \ Used
        BY <1>1, <2>1 DEF Moves
    <3> QED
        BY <1>0, <1>1, <2>1, <3>1, UnusedAttempt DEF Moves
  <2>2. CASE s # r
    <3>1. NewAttempt(req[s]) /\ req'[s] = req[s]
        BY <1>1, <2>2 DEF Moves
    <3>2. /\ issued[req[s].attempt] = 0
          /\ \A v \in Tab : tab[v].attempt # req[s].attempt
          /\ \A w \in Request \ {s} : req[w].attempt # req[s].attempt
        BY <3>1 DEF PromiseInv, NewAttempts
    <3>3. q.attempt # req[s].attempt
      <4>1. CASE q.attempt = req[r].attempt
          BY <2>2, <3>2, <4>1
      <4>2. CASE q.attempt \in Attempt \ Used
          BY <1>0, <4>2, UnusedAttempt
      <4> QED
          BY <1>1, <4>1, <4>2
    <3> QED
        BY <1>1, <3>1, <3>2, <3>3 DEF Moves
  <2> QED
      BY <2>1, <2>2
<1>6. AttemptsApart'
    BY <1>2 DEF PromiseInv, AttemptsApart
<1>7. SameAttempt'
  <2>1. \A s \in Request : req'[s].step = "login" => req'[s].attempt = None
      BY <1>1 DEF Moves, PromiseInv, SameAttempt
  <2>2. ASSUME NEW v \in Tab, tab[v].waits # None
        PROVE  \/ req'[tab[v].waits].attempt = tab[v].attempt
               \/ tab[v].attempt = None /\ NewAttempt(req'[tab[v].waits])
    <3>1. \/ req[tab[v].waits].attempt = tab[v].attempt
          \/ tab[v].attempt = None /\ NewAttempt(req[tab[v].waits])
        BY <2>2 DEF PromiseInv, SameAttempt
    <3>2. CASE tab[v].waits = r
      <4>1. req[r].attempt = tab[v].attempt
          BY <1>2, <3>1, <3>2 DEF NewAttempt
      <4>2. CASE q.attempt = req[r].attempt
          BY <1>1, <3>2, <4>1, <4>2 DEF Moves
      <4>3. CASE NewAttempt(q) /\ req[r].step = "login"
          BY <1>1, <3>2, <4>1, <4>3 DEF Moves, PromiseInv, SameAttempt
      <4> QED
          BY <1>1, <4>2, <4>3
    <3>3. CASE tab[v].waits # r
      <4>1. tab[v].waits \in Request
          BY <1>0, <2>2 DEF FlowInv, TypeOK, TabState
      <4> QED
          BY <1>1, <3>1, <3>3, <4>1 DEF Moves
    <3> QED
        BY <3>2, <3>3
  <2> QED
      BY <1>2, <2>1, <2>2 DEF SameAttempt, NewAttempt
<1> QED
    BY <1>3, <1>4, <1>5, <1>6, <1>7 DEF Lasting

\* A request ends, with what EndMoves says.
LEMMA EndLasts ==
    ASSUME PromiseInv, FlowInv', NEW r \in Request, Deliver(r) \/ Lose(r)
    PROVE  Lasting'
<1>0. FlowInv
    BY DEF PromiseInv
<1>1. /\ req[r].step = "answer" /\ Moves(r, Quiet)
      /\ UNCHANGED <<issued, redeemed, sessions>>
    BY <1>0, EndMoves
<1>2. Quiet.step = "idle" /\ Quiet.attempt = None /\ Quiet.code = None
    BY DEF Quiet
<1>3. \A s \in Request :
         /\ s # r => req'[s] = req[s]
         /\ req'[s].step # "idle" => s # r
    BY <1>1, <1>2 DEF Moves
<1>4. \A v \in Tab :
         /\ tab'[v].waits # None => tab'[v] = tab[v] /\ tab[v].waits \in Request \ {r}
         /\ \/ tab'[v].attempt = tab[v].attempt
            \/ tab[v].waits = r /\ tab'[v].attempt = req[r].attempt
         /\ tab'[v].code \in {tab[v].code, None}
  <2>1. \A v \in Tab : tab'[v].waits # None => req'[tab'[v].waits].step # "idle"
      BY DEF FlowInv, TabsSound, Awaits
  <2>2. \A v \in Tab : tab[v].waits \in Request \cup {None}
      BY <1>0 DEF FlowInv, TypeOK, TabState
  <2>3. \A v \in Tab : tab'[v].waits # r
      BY <1>1, <1>2, <2>1, NoneAssumption DEF Moves
  <2>4. CASE tab' = tab
      BY <2>2, <2>3, <2>4
  <2>5. CASE \E t \in Tab : \E u :
                /\ Turns(t, u) /\ tab[t].waits = r /\ u.waits = None
                /\ u.asked = tab[t].asked /\ u.code \in {tab[t].code, None}
                /\ \/ u.attempt = tab[t].attempt /\ u.landed = tab[t].landed
                   \/ /\ u.attempt = req[r].attempt
                      /\ u.landed = IF req[r].to = "page"
                                    THEN SafeReturnTo(tab[t].asked) ELSE None
      BY <2>2, <2>3, <2>5 DEF Turns
  <2> QED
      BY <1>0, <2>4, <2>5, EndMoves
<1>5. PageAnswers'
    BY <1>1, <1>3 DEF PromiseInv, PageAnswers, PageAnswer
<1>6. CodesIssued'
  <2>1. \A s \in Request : req'[s].code \in {req[s].code, None}
      BY <1>1, <1>2 DEF Moves
  <2> QED
      BY <1>1, <1>4, <2>1, NoneAssumption DEF CodesIssued, PromiseInv, IsIssued
<1>7. NewAttempts'
  <2> SUFFICES ASSUME NEW s \in Request, NewAttempt(req'[s])
               PROVE  /\ issued'[req'[s].attempt] = 0
                      /\ \A v \in Tab : tab'[v].attempt # req'[s].attempt
                      /\ \A w \in Request \ {s} : req'[w].attempt # req'[s].attempt
      BY DEF NewAttempts, NewAttempt
  <2>1. s # r /\ req'[s] = req[s] /\ NewAttempt(req[s])
      BY <1>3 DEF NewAttempt
  <2>2. /\ issued[req[s].attempt] = 0
        /\ \A v \in Tab : tab[v].attempt # req[s].attempt
        /\ \A w \in Request \ {s} : req[w].attempt # req[s].attempt
      BY <2>1 DEF PromiseInv, NewAttempts
  <2>3. req[s].attempt # None
      BY <1>0, <2>1 DEF FlowInv, RequestsSound, RequestSound, NewAttempt
  <2> QED
      BY <1>1, <1>2, <1>4, <2>1, <2>2, <2>3 DEF Moves
<1>8. AttemptsApart'
  <2>1. \A v, w \in Tab : tab[v].waits = r /\ tab[w].waits = r => v = w
      BY <1>0, NoneAssumption DEF FlowInv, TabsSound, Awaits
  <2>2. \A v, w \in Tab : /\ tab[v].waits = r /\ w # v
                          /\ req[r].attempt = tab[w].attempt
                          => req[r].attempt = None
    <3> SUFFICES ASSUME NEW v \in Tab, NEW w \in Tab, tab[v].waits = r, w # v,
                        req[r].attempt = tab[w].attempt
                 PROVE  req[r].attempt = None
        OBVIOUS
    <3>1. ~NewAttempt(req[r])
        BY DEF PromiseInv, NewAttempts
    <3>2. req[r].attempt = tab[v].attempt
        BY <3>1, NoneAssumption DEF PromiseInv, SameAttempt
    <3> QED
        BY <3>2 DEF PromiseInv, AttemptsApart
  <2> QED
      BY <1>4, <2>1, <2>2 DEF PromiseInv, AttemptsApart
<1>9. SameAttempt'
  <2>1. \A s \in Request : req'[s].step = "login" => req'[s].attempt = None
      BY <1>3 DEF PromiseInv, SameAttempt
  <2> QED
      BY <1>3, <1>4, <2>1 DEF PromiseInv, SameAttempt, NewAttempt
<1> QED
    BY <1>5, <1>6, <1>7, <1>8, <1>9 DEF Lasting

\* The browser or the secret changes otherwise, or nothing does.
LEMMA OtherLasts ==
    ASSUME PromiseInv,
           (\E t \in Tab : Back(t)) \/ Expire \/ Rekey \/ UNCHANGED vars
    PROVE  Lasting'
<1>0. FlowInv
    BY DEF PromiseInv
<1>1. /\ UNCHANGED <<issued, redeemed, sessions>>
      /\ \A r \in Request :
            /\ req'[r].step = req[r].step /\ req'[r].to = req[r].to
            /\ req'[r].attempt = req[r].attempt /\ req'[r].code = req[r].code
    BY <1>0, OtherMoves
<1>2. \A v \in Tab : /\ tab'[v].waits = tab[v].waits
                     /\ tab'[v].attempt = tab[v].attempt
                     /\ tab'[v].code \in {tab[v].code, None}
  <2>1. CASE tab' = tab
      BY <2>1
  <2>2. CASE \E t \in Tab : \E u :
                /\ Turns(t, u) /\ u.waits = tab[t].waits /\ u.asked = tab[t].asked
                /\ u.attempt = tab[t].attempt /\ u.code = None /\ u.landed = None
      BY <2>2 DEF Turns
  <2> QED
      BY <1>0, <2>1, <2>2, OtherMoves
<1>3. PageAnswers'
    BY <1>1 DEF PromiseInv, PageAnswers, PageAnswer
<1>4. CodesIssued'
    BY <1>1, <1>2, NoneAssumption DEF PromiseInv, CodesIssued, IsIssued
<1>5. NewAttempts'
    BY <1>1, <1>2 DEF PromiseInv, NewAttempts, NewAttempt
<1>6. AttemptsApart'
    BY <1>2 DEF PromiseInv, AttemptsApart
<1>7. SameAttempt'
  <2>1. \A v \in Tab : tab[v].waits \in Request \cup {None}
      BY <1>0 DEF FlowInv, TypeOK, TabState
  <2> QED
      BY <1>1, <1>2, <2>1 DEF PromiseInv, SameAttempt, NewAttempt
<1> QED
    BY <1>3, <1>4, <1>5, <1>6, <1>7 DEF Lasting

\* Whose callback a tab sends: the code is issued now, or was.
Calls(t, r, code) ==
    /\ Callback(t, r, code) /\ UNCHANGED <<redeemed, sessions>>
    /\ \/ UNCHANGED issued
       \/ /\ code.attempt = tab[t].attempt /\ code.n = issued[tab[t].attempt] + 1
          /\ code \in Code
          /\ issued' = [issued EXCEPT ![tab[t].attempt] = code.n]

\* A tab calls back with a new code at its end of the attempt, with none, or with the
\* one it has.
LEMMA CallbackCodes ==
    ASSUME FlowInv, NEW t \in Tab, NEW r \in Request,
           Approve(t, r) \/ Cancel(t, r) \/ Resend(t, r)
    PROVE  \E code \in Code \cup {None, Denied} :
              /\ Calls(t, r, code)
              /\ UNCHANGED issued => code \in {Denied, tab[t].code}
<1>1. tab[t] \in TabState /\ TabSound(t, tab[t])
    BY DEF FlowInv, TypeOK, TabsSound
<1>2. CASE Approve(t, r)
  <2>1. PICK a \in Attempt : a = tab[t].attempt
      BY <1>1, <1>2 DEF Approve, TabSound, TabState
  <2>2. PICK n \in 1 .. MaxCodes : n = issued[a] + 1
      BY <1>2, <2>1, BoundAssumption DEF Approve, FlowInv, TypeOK
  <2>3. PICK c \in Code : c = [attempt |-> a, n |-> n]
      BY DEF Code
  <2>4. Callback(t, r, c) /\ issued' = [issued EXCEPT ![a] = n]
      BY <1>2, <2>1, <2>2, <2>3 DEF Approve
  <2>5. issued' # issued
      BY <2>2, <2>4, BoundAssumption DEF FlowInv, TypeOK
  <2>6. c.attempt = a /\ c.n = n
      BY <2>3
  <2> QED
      BY <1>2, <2>1, <2>2, <2>4, <2>5, <2>6 DEF Approve, Calls
<1>3. CASE Cancel(t, r)
    BY <1>3 DEF Cancel, Calls, provider
<1>4. CASE Resend(t, r)
  <2>1. tab[t].code \in Code \cup {None, Denied}
      BY <1>1 DEF TabState
  <2> QED
      BY <1>4, <2>1 DEF Resend, Calls, provider
<1> QED
    BY <1>2, <1>3, <1>4

LEMMA PromiseInductive ==
    /\ Init => PromiseInv
    /\ PromiseInv /\ [Next]_vars => PromiseInv'
<1>1. ASSUME Init PROVE PromiseInv
  <2>1. /\ \A t \in Tab : /\ tab[t].waits = None /\ tab[t].attempt = None
                          /\ tab[t].code = None
        /\ \A r \in Request : /\ req[r].step = "idle" /\ req[r].attempt = None
                              /\ req[r].code = None
        /\ redeemed = {}
      BY <1>1 DEF Init, Quiet
  <2>2. PageAnswers /\ CodesIssued /\ NewAttempts /\ AttemptsApart /\ SameAttempt
      BY <2>1, NoneAssumption DEF PageAnswers, PageAnswer, CodesIssued, IsIssued,
         NewAttempts, NewAttempt, AttemptsApart, SameAttempt
  <2> QED
      BY <1>1, <2>2, FlowInductive DEF PromiseInv
<1>2. ASSUME PromiseInv, [Next]_vars PROVE PromiseInv'
  <2>0. FlowInv /\ FlowInv'
      BY <1>2, FlowInductive DEF PromiseInv
  <2>1. ASSUME NEW t \in Tab, NEW r \in Request, NEW p \in Page, StartLogin(t, r, p)
        PROVE  Lasting'
    <3>1. /\ req[r].step = "idle" /\ UNCHANGED <<issued, redeemed, sessions>>
          /\ \E q, u : /\ Moves(r, q) /\ Turns(t, u)
                       /\ q.step = "login" /\ q.attempt = None /\ q.code = None
                       /\ u.waits = r /\ u.attempt = None /\ u.code = None
        BY <2>0, <2>1, StartLoginMoves
    <3>2. PICK q, u : /\ Moves(r, q) /\ Turns(t, u)
                      /\ q.step = "login" /\ q.attempt = None /\ q.code = None
                      /\ u.waits = r /\ u.attempt = None /\ u.code = None
        BY <3>1
    <3>3. IsIssued(u.code)'
        BY <3>2, NoneAssumption DEF IsIssued
    <3>4. \A a \in Attempt : issued[a] <= issued'[a]
        BY <2>0, <3>1 DEF FlowInv, TypeOK
    <3> QED
        BY <1>2, <2>0, <3>1, <3>2, <3>3, <3>4, SendingLasts
  <2>2. ASSUME NEW t \in Tab, NEW r \in Request,
               Approve(t, r) \/ Cancel(t, r) \/ Resend(t, r)
        PROVE  Lasting'
    <3>1. PICK code \in Code \cup {None, Denied} :
             /\ Calls(t, r, code)
             /\ UNCHANGED issued => code \in {Denied, tab[t].code}
        BY <2>0, <2>2, CallbackCodes
    <3>2. req[r].step = "idle"
        BY <2>0, <3>1, CallbackMoves DEF Calls
    <3>3. PICK q, u : /\ Moves(r, q) /\ Turns(t, u)
                      /\ q.step = "callback" /\ q.attempt = tab[t].attempt
                      /\ q.code = code
                      /\ u.waits = r /\ u.attempt = tab[t].attempt /\ u.code = code
        BY <2>0, <3>1, CallbackMoves DEF Calls
    <3>4. /\ \A a \in Attempt : issued[a] <= issued'[a]
          /\ \A a \in Attempt : a # tab[t].attempt => issued'[a] = issued[a]
        BY <2>0, <3>1 DEF Calls, FlowInv, TypeOK, Code
    <3>5. IsIssued(u.code)'
      <4>1. CASE UNCHANGED issued
        <5>1. IsIssued(tab[t].code) /\ code \in {Denied, tab[t].code}
            BY <1>2, <3>1, <4>1 DEF PromiseInv, CodesIssued
        <5> QED
            BY <3>3, <4>1, <5>1, NoneAssumption DEF IsIssued
      <4>2. CASE /\ code.attempt = tab[t].attempt /\ code \in Code
                 /\ issued' = [issued EXCEPT ![tab[t].attempt] = code.n]
          BY <2>0, <3>3, <4>2 DEF IsIssued, Code, FlowInv, TypeOK
      <4> QED
          BY <3>1, <4>1, <4>2 DEF Calls
    <3>6. UNCHANGED <<redeemed, sessions>>
        BY <3>1 DEF Calls
    <3> QED
        BY <1>2, <2>0, <3>2, <3>3, <3>4, <3>5, <3>6, SendingLasts
  <2>3. ASSUME NEW r \in Request, Login(r) \/ Check(r) \/ Exchange(r) \/ Create(r)
        PROVE  Lasting'
      BY <1>2, <2>0, <2>3, ServerLasts
  <2>4. ASSUME NEW r \in Request, Deliver(r) \/ Lose(r)
        PROVE  Lasting'
      BY <1>2, <2>0, <2>4, EndLasts
  <2>5. ASSUME (\E t \in Tab : Back(t)) \/ Expire \/ Rekey \/ vars' = vars
        PROVE  Lasting'
    <3>1. CASE \E t \in Tab : Back(t)
        BY <1>2, <3>1, OtherLasts
    <3>2. CASE Expire
        BY <1>2, <3>2, OtherLasts
    <3>3. CASE Rekey
        BY <1>2, <3>3, OtherLasts
    <3>4. CASE UNCHANGED vars
        BY <1>2, <3>4, OtherLasts
    <3> QED
        BY <2>5, <3>1, <3>2, <3>3, <3>4
  <2>6. Lasting'
      BY <1>2, <2>1, <2>2, <2>3, <2>4, <2>5 DEF Next
  <2> QED
      BY <2>0, <2>6 DEF PromiseInv, Lasting
<1> QED
    BY <1>1, <1>2

Stages == [c \in Code |-> StageOf(c)]
Logins == [t \in Tab |-> tab[t].attempt]
Wishes == [t \in Tab |-> tab[t].asked]
Landings == [t \in Tab |-> tab[t].landed]

\* One tab's turn in the terms of Consents.
LEMMA TurnSeen ==
    ASSUME NEW t \in Tab, NEW u, Turns(t, u)
    PROVE  /\ Logins' = [Logins EXCEPT ![t] = u.attempt]
           /\ Wishes' = [Wishes EXCEPT ![t] = u.asked]
           /\ Landings' = [Landings EXCEPT ![t] = u.landed]
           /\ u.attempt = tab[t].attempt => Logins' = Logins
           /\ u.asked = tab[t].asked => Wishes' = Wishes
           /\ u.landed = tab[t].landed => Landings' = Landings
  BY DEF Turns, Logins, Wishes, Landings

\* A code stays at the stage that it is at, unless something happens to it.
LEMMA StageStays ==
    ASSUME NEW c \in Code,
           c.n > issued[c.attempt] <=> c.n > issued'[c.attempt],
           c.n <= issued[c.attempt] <=> c.n <= issued'[c.attempt],
           sessions'[c] = 0 <=> sessions[c] = 0, c \in redeemed' <=> c \in redeemed,
           Answering(c)' <=> Answering(c)
    PROVE  StageOf(c)' = StageOf(c)
  BY DEF StageOf

\* One code's advance, or none, in the terms of Consents.
LEMMA StagesSeen ==
    /\ (\A c \in Code : StageOf(c)' = StageOf(c)) => Stages' = Stages
    /\ \A c \in Code : (\A d \in Code \ {c} : StageOf(d)' = StageOf(d))
          => Stages' = [Stages EXCEPT ![c] = StageOf(c)']
  BY DEF Stages

\* Answers with no page are not seen.
LEMMA AnsweringStays ==
    ASSUME NEW r \in Request, NEW q, Moves(r, q), ~PageAnswer(req[r]), ~PageAnswer(q),
           NEW c \in Code
    PROVE  Answering(c)' <=> Answering(c)
  BY DEF Moves, PageAnswer, Answering

\* A tab that starts a login asks for one.
LEMMA PromiseAsk ==
    ASSUME PromiseInv, NEW t \in Tab, NEW r \in Request, NEW p \in Page,
           StartLogin(t, r, p)
    PROVE  Promise!Ask(t, p)
<1>1. /\ req[r].step = "idle" /\ UNCHANGED <<issued, redeemed, sessions>>
      /\ \E q, u : /\ Moves(r, q) /\ Turns(t, u) /\ q.step = "login"
                   /\ u.attempt = None /\ u.asked = p /\ u.landed = None
    BY StartLoginMoves DEF PromiseInv
<1>2. PICK q, u : /\ Moves(r, q) /\ Turns(t, u) /\ q.step = "login"
                  /\ u.attempt = None /\ u.asked = p /\ u.landed = None
    BY <1>1
<1>3. ~PageAnswer(req[r]) /\ ~PageAnswer(q)
    BY <1>1, <1>2 DEF PageAnswer
<1>4. ASSUME NEW c \in Code PROVE StageOf(c)' = StageOf(c)
  <2>1. Answering(c)' <=> Answering(c)
      BY <1>2, <1>3, AnsweringStays
  <2> QED
      BY <1>1, <2>1, StageStays
<1>5. Stages' = Stages
    BY <1>4, StagesSeen
<1>6. /\ Logins' = [Logins EXCEPT ![t] = None] /\ Wishes' = [Wishes EXCEPT ![t] = p]
      /\ Landings' = [Landings EXCEPT ![t] = None]
    BY <1>2, TurnSeen
<1> QED
    BY <1>5, <1>6 DEF Promise!Ask, Stages, Logins, Wishes, Landings

\* A callback gives a consent if its code is new, and is no matter if not.
LEMMA PromiseGive ==
    ASSUME PromiseInv, NEW t \in Tab, NEW r \in Request,
           Approve(t, r) \/ Cancel(t, r) \/ Resend(t, r)
    PROVE  (\E c \in Code : Promise!Give(t, c)) \/ UNCHANGED Promise!promiseVars
<1>0. FlowInv
    BY DEF PromiseInv
<1>1. PICK code \in Code \cup {None, Denied} : Calls(t, r, code)
    BY <1>0, CallbackCodes
<1>2. req[r].step = "idle" /\ UNCHANGED <<redeemed, sessions>>
    BY <1>0, <1>1, CallbackMoves DEF Calls
<1>3. PICK q, u : /\ Moves(r, q) /\ Turns(t, u) /\ q.step = "callback"
                  /\ u.attempt = tab[t].attempt
                  /\ u.asked = tab[t].asked /\ u.landed = tab[t].landed
    BY <1>0, <1>1, CallbackMoves DEF Calls
<1>4. \A c \in Code : Answering(c)' <=> Answering(c)
    BY <1>2, <1>3, AnsweringStays DEF PageAnswer
<1>5. Logins' = Logins /\ Wishes' = Wishes /\ Landings' = Landings
    BY <1>3, TurnSeen
<1>6. CASE UNCHANGED issued
  <2>1. Stages' = Stages
      BY <1>2, <1>4, <1>6, StageStays, StagesSeen
  <2> QED
      BY <1>5, <2>1 DEF Promise!promiseVars, Stages, Logins, Wishes, Landings
<1>7. CASE /\ code.attempt = tab[t].attempt /\ code.n = issued[tab[t].attempt] + 1
           /\ code \in Code
           /\ issued' = [issued EXCEPT ![tab[t].attempt] = code.n]
  <2>1. /\ code.attempt \in Attempt /\ code.n \in Nat
        /\ issued[code.attempt] \in Nat
        /\ code.n = issued[code.attempt] + 1
        /\ issued'[code.attempt] = code.n
        /\ \A a \in Attempt : a # code.attempt => issued'[a] = issued[a]
        /\ issued' \in [Attempt -> Nat]
      BY <1>0, <1>7, BoundAssumption DEF FlowInv, TypeOK, Code
  <2>2. code \notin redeemed
      BY <1>7, <2>1 DEF PromiseInv, CodesIssued, IsIssued
  <2>3. sessions[code] = 0
      BY <1>0, <1>7, <2>2 DEF FlowInv, TypeOK, SessionsRedeemed
  <2>4. StageOf(code) = "none"
      BY <2>1 DEF StageOf
  <2>5. StageOf(code)' = "given"
      BY <1>2, <2>1, <2>2, <2>3 DEF StageOf
  <2>6. ASSUME NEW c \in Code \ {code} PROVE StageOf(c)' = StageOf(c)
    <3>1. c.attempt \in Attempt /\ c.n \in Nat /\ issued[c.attempt] \in Nat
        BY <1>0, BoundAssumption DEF Code, FlowInv, TypeOK
    <3>2. c.attempt = code.attempt => c.n # code.n
        BY <1>7 DEF Code
    <3>3. /\ c.n > issued[c.attempt] <=> c.n > issued'[c.attempt]
          /\ c.n <= issued[c.attempt] <=> c.n <= issued'[c.attempt]
        BY <2>1, <3>1, <3>2
    <3> QED
        BY <1>2, <1>4, <3>3, StageStays
  <2>7. Stages' = [Stages EXCEPT ![code] = "given"]
      BY <1>7, <2>5, <2>6, StagesSeen
  <2>8. Stages[code] = "none"
      BY <1>7, <2>4 DEF Stages
  <2>9. Logins[t] = code.attempt
      BY <1>7 DEF Logins
  <2> QED
      BY <1>5, <1>7, <2>7, <2>8, <2>9
         DEF Promise!Give, Promise!Advance, Stages, Logins, Wishes, Landings
<1> QED
    BY <1>1, <1>6, <1>7 DEF Calls

\* The handlers redeem a consent, or open or strand its session, or are not seen.
LEMMA PromiseServe ==
    ASSUME PromiseInv, NEW r \in Request,
           Login(r) \/ Check(r) \/ Exchange(r) \/ Create(r)
    PROVE  \/ \E c \in Code : Promise!Redeem(c) \/ Promise!Open(c) \/ Promise!Strand(c)
           \/ UNCHANGED Promise!promiseVars
<1>0. FlowInv
    BY DEF PromiseInv
<1>1. PICK q : /\ Moves(r, q) /\ q.code = req[r].code
               /\ \/ /\ UNCHANGED <<redeemed, sessions>> /\ ~PageAnswer(q)
                  \/ /\ req[r].code \in Code \ redeemed
                     /\ redeemed' = redeemed \cup {req[r].code}
                     /\ sessions' = sessions /\ ~PageAnswer(q)
                  \/ /\ req[r].code \in redeemed \cap Code
                     /\ sessions[req[r].code] = 0
                     /\ sessions' = [sessions EXCEPT ![req[r].code] = 1]
                     /\ redeemed' = redeemed
    BY <1>0, ServerMoves
<1>2. ~PageAnswer(req[r]) /\ tab' = tab /\ issued' = issued
    BY <1>0, ServerMoves DEF PageAnswer
<1>3. Logins' = Logins /\ Wishes' = Wishes /\ Landings' = Landings
    BY <1>2 DEF Logins, Wishes, Landings
<1>4. CASE UNCHANGED <<redeemed, sessions>> /\ ~PageAnswer(q)
  <2>1. Stages' = Stages
      BY <1>1, <1>2, <1>4, AnsweringStays, StageStays, StagesSeen
  <2> QED
      BY <1>3, <2>1 DEF Promise!promiseVars, Stages, Logins, Wishes, Landings
<1>5. CASE /\ req[r].code \in Code \ redeemed
           /\ redeemed' = redeemed \cup {req[r].code}
           /\ sessions' = sessions /\ ~PageAnswer(q)
  <2>1. PICK code \in Code : code = req[r].code
      BY <1>5
  <2>2. code.n <= issued[code.attempt] /\ code.n \in Int /\ issued[code.attempt] \in Int
      BY <1>0, <2>1 DEF PromiseInv, CodesIssued, IsIssued, Code, FlowInv, TypeOK
  <2>3. sessions[code] = 0
      BY <1>0, <1>5, <2>1 DEF FlowInv, TypeOK, SessionsRedeemed
  <2>4. StageOf(code) = "given" /\ StageOf(code)' = "redeemed"
      BY <1>2, <1>5, <2>1, <2>2, <2>3 DEF StageOf
  <2>5. ASSUME NEW c \in Code \ {code} PROVE StageOf(c)' = StageOf(c)
    <3>1. Answering(c)' <=> Answering(c)
        BY <1>1, <1>2, <1>5, AnsweringStays
    <3> QED
        BY <1>2, <1>5, <2>1, <3>1, StageStays
  <2>6. Stages' = [Stages EXCEPT ![code] = "redeemed"] /\ Stages[code] = "given"
      BY <2>4, <2>5, StagesSeen DEF Stages
  <2>7. Promise!Redeem(code)
      BY <1>3, <2>6 DEF Promise!Redeem, Promise!Advance, Stages, Logins, Wishes, Landings
  <2> QED
      BY <2>7
<1>6. CASE /\ req[r].code \in redeemed \cap Code
           /\ sessions[req[r].code] = 0
           /\ sessions' = [sessions EXCEPT ![req[r].code] = 1]
           /\ redeemed' = redeemed
  <2>1. PICK code \in Code : code = req[r].code
      BY <1>6
  <2>2. code.n <= issued[code.attempt] /\ code.n \in Int /\ issued[code.attempt] \in Int
      BY <1>0, <2>1 DEF PromiseInv, CodesIssued, IsIssued, Code, FlowInv, TypeOK
  <2>3. /\ sessions[code] = 0 /\ sessions'[code] = 1
        /\ \A c \in Code \ {code} : sessions'[c] = sessions[c]
      BY <1>0, <1>6, <2>1 DEF FlowInv, TypeOK
  <2>4. Answering(code)' <=> PageAnswer(q)
    <3>1. \A s \in Request : PageAnswer(req[s]) => req[s].code # code
        BY <2>3 DEF PromiseInv, PageAnswers
    <3> QED
        BY <1>1, <2>1, <3>1 DEF Answering, Moves, PageAnswer
  <2>5. /\ StageOf(code) = "redeemed"
        /\ StageOf(code)' = IF PageAnswer(q) THEN "session" ELSE "over"
      BY <1>2, <1>6, <2>1, <2>2, <2>3, <2>4 DEF StageOf
  <2>6. ASSUME NEW c \in Code \ {code} PROVE StageOf(c)' = StageOf(c)
    <3>1. Answering(c)' <=> Answering(c)
        BY <1>1, <1>2, <2>1 DEF Moves, PageAnswer, Answering
    <3> QED
        BY <1>2, <1>6, <2>3, <3>1, StageStays
  <2>7. CASE PageAnswer(q)
    <3>1. Stages' = [Stages EXCEPT ![code] = "session"] /\ Stages[code] = "redeemed"
        BY <2>5, <2>6, <2>7, StagesSeen DEF Stages
    <3>2. Promise!Open(code)
        BY <1>3, <3>1 DEF Promise!Open, Promise!Advance, Stages, Logins, Wishes, Landings
    <3> QED
        BY <3>2
  <2>8. CASE ~PageAnswer(q)
    <3>1. Stages' = [Stages EXCEPT ![code] = "over"] /\ Stages[code] = "redeemed"
        BY <2>5, <2>6, <2>8, StagesSeen DEF Stages
    <3>2. Promise!Strand(code)
        BY <1>3, <3>1 DEF Promise!Strand, Promise!Advance, Stages, Logins, Wishes, Landings
    <3> QED
        BY <3>2
  <2> QED
      BY <2>7, <2>8
<1> QED
    BY <1>1, <1>4, <1>5, <1>6

\* An answer that is lost, comes to nobody, or shows nothing new, in the terms of
\* Consents; and one that the tab which waits for it takes.
LEMMA PromiseEnd ==
    ASSUME PromiseInv, NEW r \in Request, Deliver(r) \/ Lose(r)
    PROVE  [Promise!Next]_(Promise!promiseVars)
<1>0. FlowInv /\ req[r] \in RequestState /\ RequestSound(req[r])
    BY DEF PromiseInv, FlowInv, TypeOK, RequestsSound
<1>1. /\ req[r].step = "answer" /\ Moves(r, Quiet)
      /\ UNCHANGED <<issued, redeemed, sessions>>
    BY <1>0, EndMoves
<1>2. ~PageAnswer(Quiet)
    BY QuietRequest DEF PageAnswer
<1>3. ASSUME ~PageAnswer(req[r]) PROVE Stages' = Stages
    BY <1>1, <1>2, <1>3, AnsweringStays, StageStays, StagesSeen
<1>4. ASSUME PageAnswer(req[r])
      PROVE  /\ req[r].code \in Code
             /\ Stages[req[r].code] = "session"
             /\ Stages' = [Stages EXCEPT ![req[r].code] = "over"]
  <2>1. PICK code \in Code : code = req[r].code
      BY <1>4 DEF PromiseInv, PageAnswers
  <2>2. code.n <= issued[code.attempt] /\ code.n \in Int /\ issued[code.attempt] \in Int
      BY <1>0, <2>1 DEF PromiseInv, CodesIssued, IsIssued, Code, FlowInv, TypeOK
  <2>3. sessions[code] # 0
      BY <1>0, <1>4, <2>1 DEF PromiseInv, PageAnswers, FlowInv, TypeOK
  <2>4. Answering(code)
      BY <1>4, <2>1 DEF Answering, PageAnswer
  <2>5. ~(Answering(code)')
      BY <1>1, <1>2, <1>4, <2>1 DEF Answering, PageAnswer, Moves, PromiseInv, PageAnswers
  <2>6. StageOf(code) = "session"
      BY <2>2, <2>3, <2>4 DEF StageOf
  <2>7. StageOf(code)' = "over"
      BY <1>1, <2>2, <2>3, <2>5 DEF StageOf
  <2>8. ASSUME NEW c \in Code \ {code} PROVE StageOf(c)' = StageOf(c)
    <3>1. Answering(c)' <=> Answering(c)
        BY <1>1, <1>2, <2>1 DEF Moves, PageAnswer, Answering
    <3> QED
        BY <1>1, <3>1, StageStays
  <2> QED
      BY <2>1, <2>6, <2>7, <2>8, StagesSeen DEF Stages
<1>5. CASE Logins' = Logins /\ Wishes' = Wishes /\ Landings' = Landings
  <2>1. CASE PageAnswer(req[r])
    <3>1. Promise!Miss(req[r].code)
        BY <1>4, <1>5, <2>1
           DEF Promise!Miss, Promise!Advance, Stages, Logins, Wishes, Landings
    <3> QED
        BY <1>4, <2>1, <3>1 DEF Promise!Next
  <2>2. CASE ~PageAnswer(req[r])
      BY <1>3, <1>5, <2>2 DEF Promise!promiseVars, Stages, Logins, Wishes, Landings
  <2> QED
      BY <2>1, <2>2
<1>6. ASSUME NEW t \in Tab, NEW u, Turns(t, u), tab[t].waits = r,
             u.asked = tab[t].asked, u.attempt = req[r].attempt,
             u.landed = IF req[r].to = "page" THEN SafeReturnTo(tab[t].asked) ELSE None
      PROVE  Promise!Next
  <2>1. /\ Logins' = [Logins EXCEPT ![t] = req[r].attempt] /\ Wishes' = Wishes
        /\ Landings' = [Landings EXCEPT ![t] = IF req[r].to = "page"
                              THEN SafeReturnTo(tab[t].asked) ELSE None]
        /\ req[r].attempt = tab[t].attempt => Logins' = Logins
      BY <1>6, TurnSeen
  <2>2. \/ req[r].attempt = tab[t].attempt
        \/ tab[t].attempt = None /\ NewAttempt(req[r])
      BY <1>6, NoneAssumption DEF PromiseInv, SameAttempt
  <2>3. CASE PageAnswer(req[r])
    <3>1. req[r].to = "page" /\ req[r].code \in Code /\ ~NewAttempt(req[r])
        BY <1>4, <2>3 DEF PageAnswer, NewAttempt
    <3>2. Logins' = Logins /\ Logins[t] = req[r].code.attempt
        BY <1>0, <2>1, <2>2, <3>1 DEF RequestSound, Logins
    <3>3. Landings' = [Landings EXCEPT ![t] = Promise!Landing(Wishes[t])]
        BY <2>1, <3>1 DEF Promise!Landing, SafeReturnTo, Wishes
    <3>4. PICK c \in Code : c = req[r].code
        BY <3>1
    <3>5. Promise!Land(t, c)
        BY <1>4, <2>1, <2>3, <3>2, <3>3, <3>4
           DEF Promise!Land, Promise!Advance, Stages, Logins, Wishes, Landings
    <3> QED
        BY <3>5 DEF Promise!Next
  <2>4. CASE NewAttempt(req[r])
    <3>1. ~PageAnswer(req[r]) /\ req[r].to # "page"
        BY <2>4 DEF PageAnswer, NewAttempt
    <3>2. PICK a \in Attempt : a = req[r].attempt
        BY <1>0, <2>4 DEF RequestSound, RequestState, NewAttempt
    <3>3. issued[a] = 0 /\ \A v \in Tab : tab[v].attempt # a
        BY <2>4, <3>2 DEF PromiseInv, NewAttempts
    <3>4. tab[t].attempt = None
        BY <2>2, <3>2, <3>3
    <3>5. \A c \in Code : c.attempt = a => Stages[c] = "none"
      <4> SUFFICES ASSUME NEW c \in Code, c.attempt = a PROVE StageOf(c) = "none"
          BY DEF Stages
      <4>1. c.n > issued[c.attempt] /\ ~(c.n <= issued[c.attempt])
          BY <3>3 DEF Code
      <4> QED
          BY <4>1 DEF StageOf
    <3>6. Promise!Enter(t, a)
        BY <1>3, <2>1, <3>1, <3>2, <3>3, <3>4, <3>5
           DEF Promise!Enter, Stages, Logins, Wishes, Landings
    <3> QED
        BY <3>6 DEF Promise!Next
  <2>5. CASE ~PageAnswer(req[r]) /\ ~NewAttempt(req[r])
    <3>1. req[r].to # "page" /\ Logins' = Logins
        BY <1>1, <2>1, <2>2, <2>5 DEF PageAnswer
    <3>2. Promise!Leave(t)
        BY <1>3, <2>1, <2>5, <3>1
           DEF Promise!Leave, Stages, Logins, Wishes, Landings
    <3> QED
        BY <3>2 DEF Promise!Next
  <2> QED
      BY <2>3, <2>4, <2>5
<1>7. ASSUME NEW t \in Tab, NEW u, Turns(t, u), u.asked = tab[t].asked,
             u.attempt = tab[t].attempt, u.landed = tab[t].landed
      PROVE  Logins' = Logins /\ Wishes' = Wishes /\ Landings' = Landings
    BY <1>7, TurnSeen
<1>8. CASE tab' = tab
    BY <1>5, <1>8 DEF Logins, Wishes, Landings
<1> QED
    BY <1>0, <1>5, <1>6, <1>7, <1>8, EndMoves

\* The back button leaves the page that was shown; the rest is not seen.
LEMMA PromiseOther ==
    ASSUME PromiseInv,
           (\E t \in Tab : Back(t)) \/ Expire \/ Rekey \/ UNCHANGED vars
    PROVE  (\E t \in Tab : Promise!Leave(t)) \/ UNCHANGED Promise!promiseVars
<1>0. FlowInv
    BY DEF PromiseInv
<1>1. Stages' = Stages
  <2>1. /\ UNCHANGED <<issued, redeemed, sessions>>
        /\ \A r \in Request :
              /\ req'[r].step = req[r].step /\ req'[r].to = req[r].to
              /\ req'[r].code = req[r].code
      BY <1>0, OtherMoves
  <2>2. \A c \in Code : Answering(c)' <=> Answering(c)
      BY <2>1 DEF Answering
  <2> QED
      BY <2>1, <2>2, StageStays, StagesSeen
<1>2. CASE tab' = tab
    BY <1>1, <1>2 DEF Promise!promiseVars, Stages
<1>3. ASSUME NEW t \in Tab, NEW u, Turns(t, u), u.asked = tab[t].asked,
             u.attempt = tab[t].attempt, u.landed = None
      PROVE  Promise!Leave(t)
  <2>1. /\ Logins' = Logins /\ Wishes' = Wishes
        /\ Landings' = [Landings EXCEPT ![t] = None]
      BY <1>3, TurnSeen
  <2> QED
      BY <1>1, <2>1 DEF Promise!Leave, Stages, Logins, Wishes, Landings
<1> QED
    BY <1>0, <1>2, <1>3, OtherMoves

\* However many tabs log in beside each other in one cookie jar, reload, go back,
\* lose answers and outlive their cookies, a tab enters an attempt of its own; each
\* consent in it is redeemed once, for one session; and the tab shows the page that
\* it asked for last, once for each session of its attempt (Login, Callback).
THEOREM LoginImplementsConsents == Spec => ImplementsConsents
<1>1. Init => Promise!Init
  <2> SUFFICES ASSUME Init PROVE Promise!Init
      OBVIOUS
  <2>1. \A c \in Code : c.n > issued[c.attempt] /\ ~(c.n <= issued[c.attempt])
      BY DEF Init, Code
  <2>2. \A c \in Code : StageOf(c) = "none"
      BY <2>1 DEF StageOf
  <2>3. /\ Logins = [t \in Tab |-> None] /\ Wishes = [t \in Tab |-> Home]
        /\ Landings = [t \in Tab |-> None]
      BY DEF Init, Logins, Wishes, Landings
  <2> QED
      BY <2>2, <2>3 DEF Promise!Init, Stages, Logins, Wishes, Landings
<1>2. PromiseInv /\ [Next]_vars => [Promise!Next]_(Promise!promiseVars)
  <2> SUFFICES ASSUME PromiseInv, [Next]_vars
               PROVE  [Promise!Next]_(Promise!promiseVars)
      OBVIOUS
  <2>1. ASSUME NEW t \in Tab, NEW r \in Request, NEW p \in Page, StartLogin(t, r, p)
        PROVE  Promise!Next
      BY <2>1, PromiseAsk DEF Promise!Next
  <2>2. ASSUME NEW t \in Tab, NEW r \in Request,
               Approve(t, r) \/ Cancel(t, r) \/ Resend(t, r)
        PROVE  [Promise!Next]_(Promise!promiseVars)
      BY <2>2, PromiseGive DEF Promise!Next
  <2>3. ASSUME NEW r \in Request, Login(r) \/ Check(r) \/ Exchange(r) \/ Create(r)
        PROVE  [Promise!Next]_(Promise!promiseVars)
      BY <2>3, PromiseServe DEF Promise!Next
  <2>4. ASSUME NEW r \in Request, Deliver(r) \/ Lose(r)
        PROVE  [Promise!Next]_(Promise!promiseVars)
      BY <2>4, PromiseEnd
  <2>5. ASSUME (\E t \in Tab : Back(t)) \/ Expire \/ Rekey \/ UNCHANGED vars
        PROVE  [Promise!Next]_(Promise!promiseVars)
      BY <2>5, PromiseOther DEF Promise!Next
  <2> QED
      BY <2>1, <2>2, <2>3, <2>4, <2>5 DEF Next
<1> QED
    BY <1>1, <1>2, PromiseInductive, PTL DEF Spec, ImplementsConsents, Promise!Spec
=============================================================================
