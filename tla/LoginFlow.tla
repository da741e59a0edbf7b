------------------------------ MODULE LoginFlow ------------------------------
(***************************************************************************)
(* The authorization-code login (internal/auth/handlers.go) of one browser *)
(* with several tabs.  What a login must remember until its callback (the  *)
(* state, the nonce, the PKCE verifier and the page to return to) travels  *)
(* in one signed cookie, which all tabs share: the last answer to arrive   *)
(* decides what it holds.  State, nonce and verifier are fresh for every   *)
(* login and stand or fall together, so an attempt stands for all three.   *)
(*                                                                         *)
(* The provider is external: it binds a code to the attempt that asked for *)
(* it, redeems a code once, and only with that attempt's verifier.         *)
(***************************************************************************)
EXTENDS Integers

CONSTANTS Request,     \* slots for requests in flight
          Tab,
          Attempt,     \* values randomToken can return; bounds the logins
          Page,        \* values of return_to
          Local,       \* those that are a local, absolute path
          Home,        \* "/", and no return_to at all
          None, Denied,
          MaxCodes     \* bound on the codes per attempt

ASSUME PageAssumption == Local \subseteq Page
ASSUME BoundAssumption == MaxCodes \in Nat

VARIABLES jar,       \* the flow cookie
          tab, req,
          issued,    \* per attempt: codes the provider has issued
          redeemed,  \* the codes it has redeemed
          presented, \* history: codes presented, with whose verifier
          sessions,  \* history: per code, the sessions created for it
          solo       \* history: the tab that logs in with nothing beside it

vars == <<jar, tab, req, issued, redeemed, presented, sessions, solo>>

provider == <<issued, redeemed, presented, sessions>>

Code == [attempt : Attempt, n : 1 .. MaxCodes]

\* setFlowCookie: the parameters, signed with CSRF_SECRET; a signature made with
\* another secret is no longer one.
Cookie == [attempt : Attempt, page : Local \cup {Home}, signed : BOOLEAN]

(* A tab: what it shows, the request it waits for, the login it is in (its  *)
(* state parameter), the return_to it asked for, the callback URL it has    *)
(* (Denied: the provider's refusal), and the page it landed on.             *)
TabState == [at : {"page", "waiting", "idp", "error"},
             waits : Request \cup {None}, attempt : Attempt \cup {None},
             asked : Page \cup {Home}, code : Code \cup {None, Denied},
             landed : Local \cup {Home, None}]

Step == {"idle", "login", "callback", "exchange", "create", "answer"}

(* A request: its tab, the state and code of its URL, the cookie it brings, *)
(* and its answer: where it sends the browser and what it does to the jar   *)
(* ({}: nothing, {None}: clears it).                                        *)
RequestState == [step : Step, tab : Tab \cup {None}, page : Page \cup {Home},
                 attempt : Attempt \cup {None},
                 code : Code \cup {None, Denied}, cookie : Cookie \cup {None},
                 to : {"idp", "page", "error"},
                 set : SUBSET (Cookie \cup {None})]

ASSUME NoneAssumption ==
    /\ None \notin Request \cup Tab \cup Attempt \cup Page \cup {Home} \cup Code
                      \cup Cookie
    /\ Denied \notin Code \cup {None}

Quiet == [step |-> "idle", tab |-> None, page |-> Home, attempt |-> None,
          code |-> None, cookie |-> None, to |-> "error", set |-> {}]

SafeReturnTo(p) == IF p \in Local THEN p ELSE Home

Answer(r, to, set) ==
    req' = [req EXCEPT ![r] = [@ EXCEPT !.step = "answer", !.to = to,
                                        !.set = set]]

\* Attempts whose parameters are about.
Used == {a \in Attempt : \/ \E t \in Tab : tab[t].attempt = a
                         \/ \E r \in Request : req[r].attempt = a
                         \/ \E r \in Request, c \in Cookie :
                               /\ c \in req[r].set \/ c = req[r].cookie
                               /\ c.attempt = a
                         \/ jar # None /\ jar.attempt = a
                         \/ issued[a] > 0}

Free(r) == req[r].step = "idle"

-----------------------------------------------------------------------------
(* The browser sends a request with the cookie of the moment (Login does    *)
(* not read it); what the tab was waiting for goes on without it.           *)

Send(t, r, request, shown) ==
    /\ Free(r)
    /\ req' = [req EXCEPT ![r] = request]
    /\ tab' = [tab EXCEPT ![t] = [shown EXCEPT !.at = "waiting", !.waits = r]]

StartLogin(t, r, p) ==
    /\ Send(t, r, [Quiet EXCEPT !.step = "login", !.tab = t, !.page = p],
            [tab[t] EXCEPT !.asked = p, !.attempt = None, !.code = None,
                           !.landed = None])
    /\ solo' = IF \A q \in Request : Free(q) THEN t ELSE None
    /\ UNCHANGED <<jar, provider>>

Callback(t, r, code) ==
    Send(t, r, [Quiet EXCEPT !.step = "callback", !.tab = t,
                             !.attempt = tab[t].attempt, !.code = code,
                             !.cookie = jar],
         [tab[t] EXCEPT !.code = code])

\* The user signs in at the provider, which sends the browser back.
Approve(t, r) ==
    /\ tab[t].at = "idp"
    /\ LET a == tab[t].attempt IN
         /\ issued[a] < MaxCodes
         /\ issued' = [issued EXCEPT ![a] = @ + 1]
         /\ Callback(t, r, [attempt |-> a, n |-> issued[a] + 1])
    /\ solo' = IF solo = t THEN t ELSE None
    /\ UNCHANGED <<jar, redeemed, presented, sessions>>

\* The user cancels there: the callback comes with an error and no code.
Cancel(t, r) ==
    /\ tab[t].at = "idp"
    /\ Callback(t, r, Denied)
    /\ solo' = None
    /\ UNCHANGED <<jar, provider>>

\* Reload, or the browser's own retry after a lost connection.
Resend(t, r) ==
    /\ tab[t].at \in {"waiting", "error"} /\ tab[t].code # None
    /\ Callback(t, r, tab[t].code)
    /\ solo' = None
    /\ UNCHANGED <<jar, provider>>

\* The back button.
Back(t) ==
    /\ tab[t].at \in {"page", "error"} /\ tab[t].attempt # None
    /\ tab' = [tab EXCEPT ![t] =
                  [@ EXCEPT !.at = "idp", !.code = None, !.landed = None]]
    /\ solo' = None
    /\ UNCHANGED <<jar, req, provider>>

\* Max-Age, or the user clears the cookies.
Expire == /\ jar # None
          /\ jar' = None
          /\ solo' = None
          /\ UNCHANGED <<tab, req, provider>>

\* The answer arrives; a tab that has moved on leaves it the cookie only.
Deliver(r) ==
    /\ req[r].step = "answer"
    /\ jar' = IF req[r].set = {} THEN jar ELSE CHOOSE c \in req[r].set : TRUE
    /\ LET t == req[r].tab IN
         tab' = IF tab[t].waits # r THEN tab
                ELSE [tab EXCEPT ![t] =
                        [@ EXCEPT !.at = req[r].to, !.waits = None,
                            !.attempt = req[r].attempt,
                            !.code = IF req[r].to = "error" THEN tab[t].code
                                     ELSE None,
                            !.landed = IF req[r].to = "page" THEN req[r].page
                                       ELSE None]]
    /\ req' = [req EXCEPT ![r] = Quiet]
    /\ UNCHANGED <<provider, solo>>

\* The answer is lost.
Lose(r) ==
    /\ req[r].step = "answer"
    /\ LET t == req[r].tab IN
         tab' = IF tab[t].waits # r THEN tab
                ELSE [tab EXCEPT ![t].at = "error", ![t].waits = None]
    /\ req' = [req EXCEPT ![r] = Quiet]
    /\ UNCHANGED <<jar, provider, solo>>

-----------------------------------------------------------------------------
(* The server.                                                              *)

\* Mutant: an earlier login's cookie is kept if it is still good.
LoginKeepingFlow(r) ==
    /\ req[r].step = "login"
    /\ \/ Answer(r, "error", {})
       \/ \E a \in Attempt \ Used :
            req' = [req EXCEPT ![r] = [@ EXCEPT !.step = "answer", !.to = "idp",
                      !.attempt = a,
                      !.set = IF jar # None /\ jar.signed
                              THEN {jar}
                              ELSE {[attempt |-> a, signed |-> TRUE,
                                     page |-> SafeReturnTo(req[r].page)]}]]
    /\ UNCHANGED <<jar, tab, provider, solo>>

\* Mutant: the page of an earlier login's cookie is kept.
LoginKeepingPage(r) ==
    /\ req[r].step = "login"
    /\ \/ Answer(r, "error", {})
       \/ \E a \in Attempt \ Used :
            req' = [req EXCEPT ![r] = [@ EXCEPT !.step = "answer", !.to = "idp",
                      !.attempt = a,
                      !.set = {[attempt |-> a, signed |-> TRUE,
                                page |-> IF jar # None THEN jar.page
                                         ELSE SafeReturnTo(req[r].page)]}]]
    /\ UNCHANGED <<jar, tab, provider, solo>>

\* Login: the provider is not reachable, or the cookie is set and the browser
\* sent there.
Login(r) ==
    /\ req[r].step = "login"
    /\ \/ Answer(r, "error", {})
       \/ \E a \in Attempt \ Used :
            req' = [req EXCEPT ![r] = [@ EXCEPT !.step = "answer", !.to = "idp",
                      !.attempt = a,
                      !.set = {[attempt |-> a, signed |-> TRUE,
                                page |-> SafeReturnTo(req[r].page)]}]]
    /\ UNCHANGED <<jar, tab, provider, solo>>

\* readFlowCookie: there is a cookie and its signature is good.
FlowValid(r) == req[r].cookie # None /\ req[r].cookie.signed

\* Callback up to the exchange passes on these conditions.
Accepted(r) == /\ FlowValid(r)
               /\ req[r].code # Denied
               /\ req[r].attempt = req[r].cookie.attempt

\* Mutant: the state parameter is not compared with the cookie's.
CheckStateless(r) ==
    /\ req[r].step = "callback"
    /\ IF FlowValid(r) /\ req[r].code # Denied
       THEN req' = [req EXCEPT ![r].step = "exchange",
                               ![r].page = SafeReturnTo(req[r].cookie.page)]
       ELSE Answer(r, "error", {None})
    /\ UNCHANGED <<jar, tab, provider, solo>>

\* The checks of Callback; it clears the cookie whatever comes of it.
Check(r) ==
    /\ req[r].step = "callback"
    /\ IF Accepted(r)
       THEN req' = [req EXCEPT ![r].step = "exchange",
                               ![r].page = SafeReturnTo(req[r].cookie.page)]
       ELSE Answer(r, "error", {None})
    /\ UNCHANGED <<jar, tab, provider, solo>>

\* The provider accepts a code once, with the verifier of its login.
Redeemable(r) == /\ req[r].code \notin redeemed
                 /\ req[r].code.attempt = req[r].cookie.attempt

Present(r, redeem) ==
    /\ presented' = presented \cup {<<req[r].code, req[r].cookie.attempt>>}
    /\ redeemed' = IF redeem THEN redeemed \cup {req[r].code} ELSE redeemed

\* Mutant: the error of the exchange is not looked at.
ExchangeUnchecked(r) ==
    /\ req[r].step = "exchange"
    /\ Present(r, Redeemable(r))
    /\ req' = [req EXCEPT ![r].step = "create"]
    /\ UNCHANGED <<jar, tab, issued, sessions, solo>>

\* Exchange and VerifyIDToken: the tokens arrive and hold, or something fails
\* before or after the provider redeemed the code.
Exchange(r) ==
    /\ req[r].step = "exchange"
    /\ \/ /\ Redeemable(r)
          /\ Present(r, TRUE)
          /\ req' = [req EXCEPT ![r].step = "create"]
       \/ /\ \E redeem \in {FALSE, Redeemable(r)} : Present(r, redeem)
          /\ Answer(r, "error", {None})
    /\ UNCHANGED <<jar, tab, issued, sessions, solo>>

\* Mutant: the error of the session's creation is not looked at.
CreateUnchecked(r) ==
    /\ req[r].step = "create"
    /\ \/ sessions' = [sessions EXCEPT ![req[r].code] = @ + 1]
       \/ UNCHANGED sessions
    /\ Answer(r, "page", {None})
    /\ UNCHANGED <<jar, tab, issued, redeemed, presented, solo>>

\* Create (module Sessions): the session is inserted, or the database fails, perhaps
\* after the insert committed: then it is there, in no cookie, and Callback answers 500.
Create(r) ==
    /\ req[r].step = "create"
    /\ \/ /\ sessions' = [sessions EXCEPT ![req[r].code] = @ + 1]
          /\ \E to \in {"page", "error"} : Answer(r, to, {None})
       \/ /\ Answer(r, "error", {None})
          /\ UNCHANGED sessions
    /\ UNCHANGED <<jar, tab, issued, redeemed, presented, solo>>

Unsigned(c) == IF c = None THEN None ELSE [c EXCEPT !.signed = FALSE]

\* A deployment changes the secret.
Rekey == /\ jar' = Unsigned(jar)
         /\ req' = [r \in Request |->
                [req[r] EXCEPT !.cookie = Unsigned(@),
                               !.set = {Unsigned(c) : c \in @}]]
         /\ solo' = None
         /\ UNCHANGED <<tab, provider>>

Init == /\ jar = None
        /\ tab = [t \in Tab |->
               [at |-> "page", waits |-> None, attempt |-> None, asked |-> Home,
                code |-> None, landed |-> None]]
        /\ req = [r \in Request |-> Quiet]
        /\ issued = [a \in Attempt |-> 0]
        /\ redeemed = {} /\ presented = {}
        /\ sessions = [c \in Code |-> 0]
        /\ solo = None

Next == \/ \E t \in Tab, r \in Request : \/ \E p \in Page : StartLogin(t, r, p)
                                         \/ Approve(t, r) \/ Cancel(t, r)
                                         \/ Resend(t, r)
        \/ \E t \in Tab : Back(t)
        \/ \E r \in Request : \/ Login(r) \/ Check(r) \/ Exchange(r)
                              \/ Create(r)
                              \/ Deliver(r) \/ Lose(r)
        \/ Expire \/ Rekey

Spec == Init /\ [][Next]_vars

-----------------------------------------------------------------------------

TypeOK == /\ jar \in Cookie \cup {None}
          /\ tab \in [Tab -> TabState]
          /\ req \in [Request -> RequestState]
          /\ issued \in [Attempt -> 0 .. MaxCodes]
          /\ redeemed \subseteq Code
          /\ presented \subseteq Code \X Attempt
          /\ sessions \in [Code -> Nat]
          /\ solo \in Tab \cup {None}

\* However tabs overwrite each other's cookie, a code goes to the provider only
\* with the verifier of the login that asked for it: none is spoilt.
OwnVerifierOnly == \A x \in presented : x[1].attempt = x[2]

\* A code makes one session, however often its callback is sent, even if the session's
\* creation was reported as failed and the user tries the callback again.
OneSessionPerCode == \A c \in Code : sessions[c] <= 1

\* A tab that comes back from the provider shows the page it was asked to
\* return to, if that is a local one.
LandsWhereAsked ==
    \A t \in Tab : tab[t].landed # None =>
                      tab[t].landed = SafeReturnTo(tab[t].asked)

\* A login during which no other tab does anything, nothing of the time before
\* is under way, the user goes forward, the cookie lives and the secret stays,
\* is not refused for its state.
SoloNotRefused ==
    [][\A r \in Request :
          req[r].step = "callback" /\ req'[r].step = "answer" =>
             req[r].tab # solo]_vars

-----------------------------------------------------------------------------
(* What a code is to the promise of module Consents.                        *)

\* The session's answer is on its way to the browser.
Answering(c) == \E r \in Request : /\ req[r].step = "answer" /\ req[r].to = "page"
                                   /\ req[r].code = c

StageOf(c) == CASE c.n > issued[c.attempt] -> "none"
                [] c.n <= issued[c.attempt] /\ sessions[c] = 0 ->
                     IF c \in redeemed THEN "redeemed" ELSE "given"
                [] OTHER -> IF Answering(c) THEN "session" ELSE "over"

Promise == INSTANCE Consents WITH
    Consent <- Code,
    stage <- [c \in Code |-> StageOf(c)],
    login <- [t \in Tab |-> tab[t].attempt],
    asked <- [t \in Tab |-> tab[t].asked],
    landed <- [t \in Tab |-> tab[t].landed]

\* LoginFlow keeps the promise of Consents.
ImplementsConsents == Promise!Spec
=============================================================================
