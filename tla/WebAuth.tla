------------------------------- MODULE WebAuth -------------------------------
(***************************************************************************)
(* One browser with several tabs: the single-page application's store of   *)
(* who is signed in (web/src/lib/auth, web/src/lib/api) and the CSRF       *)
(* middleware it talks to (internal/auth/csrf.go).  Script builds a fetch  *)
(* and reads the CSRF cookie for its header; the browser attaches the      *)
(* cookies when the request leaves; the server answers; the answer changes *)
(* the cookies all tabs share and then resumes the script that waits.      *)
(*                                                                         *)
(* Whether there is a session is left open: an answer says yes or no, as a *)
(* logout, a timeout or a failing database would have it at that moment.   *)
(* Tokens that nothing refers to any more are issued again.                *)
(***************************************************************************)
EXTENDS Naturals

CONSTANTS Tab, Call,   \* tabs, and slots for requests of the browser
          Serial,      \* values csrf.issue can draw, numbers
          MaxKey,      \* bound on the secrets CSRF_SECRET is set to
          None, Keep

VARIABLES jar,   \* the CSRF cookie
          page,  \* the document in each tab
          call,  \* requests, from fetch to the resumption of the script
          key    \* CSRF_SECRET

vars == <<jar, page, call, key>>

ASSUME SerialAssumption == Serial \subseteq Nat
ASSUME KeyAssumption == MaxKey \in Nat \ {0}

\* A token is signed with the key of its time.
Token == [n : Serial, key : 1 .. MaxKey]

ASSUME SentinelAssumption == /\ None \notin Token \cup Tab \cup {Keep}
                             /\ Keep \notin Token

\* A document: its auth.status, if there is one.
Page == {"closed", "unknown", "authenticated", "anonymous"}

(* A request: its X-CSRF-Token header and the CSRF cookie it left with; its *)
(* answer, and the token that Set-Cookie brings with it.  quiet is history: *)
(* nothing was afoot that changes the cookie when the header was read.      *)
CallState == [kind : {"none", "load", "guard", "logout", "login"},
              step : {"built", "sent", "answered"}, tab : Tab \cup {None},
              header : Token \cup {None}, cookie : Token \cup {None},
              status : {0, 200, 401, 403}, set : Token \cup {Keep},
              quiet : BOOLEAN]

Fetch(kind, t, header, quiet) ==
    [kind |-> kind, step |-> "built", tab |-> t, header |-> header,
     cookie |-> None, status |-> 0, set |-> Keep, quiet |-> quiet]

Leaving(r, cookie) ==
    [kind |-> r.kind, step |-> "sent", tab |-> r.tab, header |-> r.header,
     cookie |-> cookie, status |-> 0, set |-> Keep, quiet |-> r.quiet]

Answered(r, status, set) ==
    [kind |-> r.kind, step |-> "answered", tab |-> r.tab, header |-> None,
     cookie |-> None, status |-> status, set |-> set, quiet |-> r.quiet]

Disturbed(r) ==
    [kind |-> r.kind, step |-> r.step, tab |-> r.tab, header |-> r.header,
     cookie |-> r.cookie, status |-> r.status, set |-> r.set, quiet |-> FALSE]

NoCall == Fetch("none", None, None, FALSE)

Free(c) == call[c].kind = "none"

\* csrf.valid: the signature is the present key's.
Valid(tok) == tok # None /\ tok.key = key

\* The request cannot bring another CSRF cookie.
Settled(c) == /\ call[c].step = "sent" => Valid(call[c].cookie)
              /\ call[c].step = "answered" => call[c].set = Keep

\* apiFetch reads document.cookie while nothing is afoot.
Undisturbed == Valid(jar) /\ \A c \in Call : Settled(c)

\* The document of tab t goes, and the browser cancels what it has asked for.
Dropped(t) == [c \in Call |-> IF call[c].tab = t THEN NoCall ELSE call[c]]

\* window.location.assign: the browser goes for the new location, and not for one that
\* it went for before.  The document runs on until another takes its place.
Assigned(t) ==
    [c \in Call |-> IF call[c].tab = t /\ call[c].kind = "login"
                    THEN NoCall ELSE call[c]]

\* Serials that are in nobody's hands.
UnusedSerial ==
    LET held == UNION {{call[c].header, call[c].cookie, call[c].set} : c \in Call}
    IN Serial \ {tok.n : tok \in (held \cup {jar}) \ {None, Keep}}

Least(S) == {n \in S : \A k \in S : n <= k}

-----------------------------------------------------------------------------
(* The documents.                                                           *)

\* The root layout's onMount: theme.init, and auth.load with nobody waiting.
OpenPublic(t, c) ==
    /\ Free(c)
    /\ page' = [page EXCEPT ![t] = "unknown"]
    /\ call' = [Dropped(t) EXCEPT ![c] = Fetch("load", t, None, FALSE)]
    /\ UNCHANGED <<jar, key>>

\* A protected page's onMount comes before the layout's: its requireAuth finds
\* the status unknown and loads as well.
OpenProtected(t, c, d) ==
    /\ c # d /\ Free(c) /\ Free(d)
    /\ page' = [page EXCEPT ![t] = "unknown"]
    /\ call' = [Dropped(t) EXCEPT ![c] = Fetch("guard", t, None, FALSE),
                                   ![d] = Fetch("load", t, None, FALSE)]
    /\ UNCHANGED <<jar, key>>

\* auth.login.  The login is the browser's request, up to the redirect back into the
\* application.
GoToLogin(t, c) == call' = [Assigned(t) EXCEPT ![c] = Fetch("login", t, None, FALSE)]

\* A Log in button, and a guard that finds the status anonymous already.
ClickLogin(t, c) ==
    /\ Free(c) /\ page[t] \in {"unknown", "anonymous"}
    /\ GoToLogin(t, c)
    /\ UNCHANGED <<jar, page, key>>

\* The document goes: a new location has come, or the tab is closed.
Unload(t) ==
    /\ page[t] # "closed"
    /\ page' = [page EXCEPT ![t] = "closed"]
    /\ call' = Dropped(t)
    /\ UNCHANGED <<jar, key>>

\* Navigation within the document to a page whose guard finds the status unknown,
\* earlier loads being on their way still or having failed, and loads again.
GotoProtected(t, c) ==
    /\ Free(c) /\ page[t] = "unknown"
    /\ call' = [call EXCEPT ![c] = Fetch("guard", t, None, FALSE)]
    /\ UNCHANGED <<jar, page, key>>

\* The menu offers Log out to the authenticated, and again until it is answered.
ClickLogout(t, c) ==
    /\ Free(c) /\ page[t] = "authenticated"
    /\ call' = [call EXCEPT ![c] = Fetch("logout", t, jar, Undisturbed)]
    /\ UNCHANGED <<jar, page, key>>

-----------------------------------------------------------------------------
(* The requests.                                                            *)

\* The browser sends the request with the cookies of the moment.
Attach(c) ==
    /\ ~Free(c) /\ call[c].step = "built"
    /\ call' = [call EXCEPT ![c] = Leaving(@, jar)]
    /\ UNCHANGED <<jar, page, key>>

Answer(c, status, set) ==
    /\ call' = [call EXCEPT ![c] = Answered(@, status, set)]
    /\ UNCHANGED <<jar, page, key>>

Sent(c, kinds) == call[c].kind \in kinds /\ call[c].step = "sent"

\* csrf.issue: a fresh serial, signed.
Issued == {[n |-> n, key |-> key] : n \in Least(UnusedSerial)}

\* Mutant: issues a token on every safe request.
EnsureCookieAlways(c) == Issued

\* csrf.ensureCookie: a fresh token for one that is missing or not valid.
EnsureCookie(c) == IF Valid(call[c].cookie) THEN {Keep} ELSE Issued

\* Mutant: requests that find their session are not given a token.
MeAnonymous(c) ==
    /\ Sent(c, {"load", "guard"})
    /\ \/ \E set \in EnsureCookie(c) : Answer(c, 401, set)
       \/ Answer(c, 200, Keep)

\* GET /auth/me, behind the CSRF middleware: with a session or without.
Me(c) ==
    /\ Sent(c, {"load", "guard"})
    /\ \E set \in EnsureCookie(c), status \in {200, 401} : Answer(c, status, set)

\* GET /auth/login, the provider, and GET /auth/callback.
Login(c) ==
    /\ Sent(c, {"login"})
    /\ \E set \in EnsureCookie(c) : Answer(c, 200, set)

\* POST /auth/logout: refused unless the header is the cookie and that is valid.
Logout(c) ==
    /\ Sent(c, {"logout"})
    /\ \/ /\ call[c].header = call[c].cookie /\ Valid(call[c].cookie)
          /\ Answer(c, 200, Keep)
       \/ /\ call[c].header # call[c].cookie \/ ~Valid(call[c].cookie)
          /\ Answer(c, 403, Keep)

\* What the script makes of an answer: auth.load and auth.logout.
Resumed(c) ==
    IF call[c].status = 200 /\ call[c].kind \in {"load", "guard"}
    THEN "authenticated" ELSE "anonymous"

\* Set-Cookie comes first, then the script goes on: requireAuth without a session and
\* auth.logout change the location; the login's redirect is the next document.
Deliver(c) ==
    /\ ~Free(c) /\ call[c].step = "answered"
    /\ jar' = IF call[c].set = Keep THEN jar ELSE call[c].set
    /\ LET t == call[c].tab IN
         \/ /\ call[c].kind = "login"
            /\ page' = [page EXCEPT ![t] = "closed"]
            /\ call' = Dropped(t)
         \/ /\ call[c].kind = "guard" /\ call[c].status = 401
            /\ page' = [page EXCEPT ![t] = Resumed(c)]
            /\ GoToLogin(t, c)
         \/ /\ call[c].kind = "logout" /\ call[c].status = 200
            /\ page' = [page EXCEPT ![t] = Resumed(c)]
            /\ call' = [Assigned(t) EXCEPT ![c] = NoCall]
         \/ /\ \/ call[c].kind = "load"
               \/ call[c].kind = "guard" /\ call[c].status = 200
               \/ call[c].kind = "logout" /\ call[c].status = 403
            /\ page' = [page EXCEPT ![t] = Resumed(c)]
            /\ call' = [call EXCEPT ![c] = NoCall]
    /\ UNCHANGED key

\* fetch throws or the answer is an error: auth.load, and requireAuth with it, throws and
\* leaves the status alone; auth.logout is anonymous whatever happened.
Failed(p, kind) == IF kind = "logout" THEN "anonymous" ELSE p

\* The request or its answer is lost, before or after the server has acted on it,
\* or refused ahead of the CSRF middleware.
Lose(c) ==
    /\ ~Free(c)
    /\ page' = [page EXCEPT ![call[c].tab] = Failed(@, call[c].kind)]
    /\ call' = [call EXCEPT ![c] = NoCall]
    /\ UNCHANGED <<jar, key>>

-----------------------------------------------------------------------------

\* The process is replaced by one with another CSRF_SECRET.
Rekey ==
    /\ key < MaxKey
    /\ key' = key + 1
    /\ call' = [c \in Call |-> Disturbed(call[c])]
    /\ UNCHANGED <<jar, page>>

\* The browser starts.  It may have kept the session cookie, which has a Max-Age;
\* the CSRF cookie has none.
Init == /\ jar = None
        /\ page = [t \in Tab |-> "closed"]
        /\ call = [c \in Call |-> NoCall]
        /\ key = 1

Next == \/ \E t \in Tab, c \in Call :
              \/ OpenPublic(t, c) \/ \E d \in Call : OpenProtected(t, c, d)
              \/ GotoProtected(t, c) \/ ClickLogin(t, c) \/ ClickLogout(t, c)
        \/ \E t \in Tab : Unload(t)
        \/ \E c \in Call : \/ Attach(c) \/ Me(c) \/ Login(c) \/ Logout(c)
                           \/ Deliver(c) \/ Lose(c)
        \/ Rekey

Spec == Init /\ [][Next]_vars

-----------------------------------------------------------------------------

TypeOK == /\ jar \in Token \cup {None}
          /\ page \in [Tab -> Page]
          /\ call \in [Call -> CallState]
          /\ key \in 1 .. MaxKey

\* Log out is offered only where the store says authenticated, and wherever it
\* does the browser has a CSRF cookie: no logout is refused for want of one.
LogoutHasToken ==
    /\ \A t \in Tab : page[t] = "authenticated" => jar # None
    /\ \A c \in Call : call[c].kind = "logout" =>
          /\ call[c].step # "answered" => call[c].header # None
          /\ call[c].step = "sent" => call[c].cookie # None

\* The token is read by script and the cookie attached later, and other tabs
\* have requests of their own meanwhile: a logout is refused only when a request
\* that left without a valid token was still out, or the secret has changed.
QuietLogoutAccepted ==
    \A c \in Call :
       call[c].kind = "logout" /\ call[c].step = "answered" /\ call[c].quiet
          => call[c].status = 200
=============================================================================
