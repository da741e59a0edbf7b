------------------------------- MODULE SignOut -------------------------------
(***************************************************************************)
(* Signing in and out across the whole way: the store of who is signed in, *)
(* in each tab (web/src/lib/auth), the session cookie its tabs share, and  *)
(* the handlers and their rows at the server (internal/auth).  The browser *)
(* may lose a request or its answer, an answer may be overtaken by others, *)
(* the database may fail in the middle of a handler, and the storage of    *)
(* the theme may be refused while the document starts.  A document that    *)
(* changes its location runs on until another takes its place.             *)
(*                                                                         *)
(* Handlers are one step here; Sessions has their round trips.  The CSRF   *)
(* token is left to WebAuth: a logout may be refused for want of one.      *)
(***************************************************************************)
EXTENDS Naturals

CONSTANTS Tab, Call, Session, None, Keep

VARIABLES row,      \* the sessions in the database
          cookie,   \* the session cookie
          tab,      \* the document in each tab
          call,     \* requests
          maker,    \* history: the tab that each session was made for
          excused   \* history: sessions that something has cut off from the cookie

vars == <<row, cookie, tab, call, maker, excused>>

ASSUME SentinelAssumption == /\ None \notin Session \cup Tab \cup {Keep}
                             /\ Keep \notin Session \cup Tab

(* A document: auth.status; as history the session its last answer was for, *)
(* whether what it last asked failed, the sessions its tab was told are over, *)
(* and whether it is leaving after a logout.                                *)
Document(status, seen, failed, over, leaving) ==
    [status |-> status, seen |-> seen, failed |-> failed, over |-> over,
     leaving |-> leaving]

Blank(over, failed) == Document("unknown", None, failed, over, FALSE)

Closed(over) == Document("closed", None, FALSE, over, FALSE)

(* A request: the tab that waits for it, if any; the cookie it carries, which *)
(* a login does not look at; its answer, the cookie that comes with it, and  *)
(* as history whether a check's answer is due to a failure.                  *)
Request(kind, t) == [kind |-> kind, step |-> "sent", tab |-> t,
                     cookie |-> IF kind = "login" THEN None ELSE cookie,
                     status |-> 0, set |-> Keep, fault |-> FALSE]

NoCall == [kind |-> "none", step |-> "sent", tab |-> None, cookie |-> None,
           status |-> 0, set |-> Keep, fault |-> FALSE]

Free(c) == call[c].kind = "none"

\* GET /auth/me, for the layout or for requireAuth.
Check == {"load", "guard"}

(* The document of tab t goes and nobody waits for its requests any more:   *)
(* a check is of no consequence, a logout or a login may still be served.   *)
Left(t) ==
    [c \in Call |-> CASE call[c].tab = t /\ call[c].kind \in Check -> NoCall
                      [] call[c].tab = t /\ call[c].kind \notin Check ->
                           [call[c] EXCEPT !.tab = None]
                      [] OTHER -> call[c]]

(* location.assign in tab t: the browser goes for the new location instead of *)
(* a login that it went for before; the document is there until it arrives.  *)
Assigned(t) ==
    [c \in Call |-> IF call[c].tab = t /\ call[c].kind = "login"
                    THEN [call[c] EXCEPT !.tab = None] ELSE call[c]]

-----------------------------------------------------------------------------
(* The documents.                                                           *)

\* Mutant: the layout leaves the session to the guarded pages.
OpenUnloaded(t, c) ==
    /\ tab' = [tab EXCEPT ![t] = Blank(@.over, FALSE)]
    /\ call' = Left(t)
    /\ UNCHANGED <<row, cookie, maker, excused>>

\* A document starts: its layout's onMount calls auth.load, unless theme.init before
\* it throws because storage is refused.
Open(t, c) ==
    /\ Free(c)
    /\ \/ /\ tab' = [tab EXCEPT ![t] = Blank(@.over, FALSE)]
          /\ call' = [Left(t) EXCEPT ![c] = Request("load", t)]
       \/ /\ tab' = [tab EXCEPT ![t] = Blank(@.over, TRUE)]
          /\ call' = Left(t)
    /\ UNCHANGED <<row, cookie, maker, excused>>

\* requireAuth on the way to a guarded page, with the status still unknown: the layout
\* and the page do not know of each other's checks.
Guard(t, c) ==
    /\ Free(c) /\ tab[t].status = "unknown"
    /\ call' = [call EXCEPT ![c] = Request("guard", t)]
    /\ UNCHANGED <<row, cookie, tab, maker, excused>>

\* auth.login, from a button or from requireAuth that finds the status anonymous.
ClickLogin(t, c) ==
    /\ Free(c) /\ tab[t].status \in {"unknown", "anonymous"}
    /\ call' = [Assigned(t) EXCEPT ![c] = Request("login", t)]
    /\ UNCHANGED <<row, cookie, tab, maker, excused>>

\* auth.logout, up to its request.
ClickLogout(t, c) ==
    /\ Free(c) /\ tab[t].status = "authenticated"
    /\ call' = [call EXCEPT ![c] = Request("logout", t)]
    /\ UNCHANGED <<row, cookie, tab, maker, excused>>

\* The document goes: a new location has come, or the tab is closed.
Unload(t) ==
    /\ tab[t].status # "closed"
    /\ tab' = [tab EXCEPT ![t] = Closed(@.over)]
    /\ call' = Left(t)
    /\ UNCHANGED <<row, cookie, maker, excused>>

-----------------------------------------------------------------------------
(* The server.                                                              *)

Sent(c, kinds) == call[c].kind \in kinds /\ call[c].step = "sent"

Answer(c, status, set, fault) ==
    call' = [call EXCEPT ![c] = [@ EXCEPT !.step = "answered", !.status = status,
                                          !.set = set, !.fault = fault]]

\* Me: Resolve finds the row, or does not, or the database fails, which is 401 too.
Me(c) ==
    /\ Sent(c, Check)
    /\ \/ call[c].cookie \in row /\ Answer(c, 200, Keep, FALSE)
       \/ call[c].cookie \notin row /\ Answer(c, 401, Keep, FALSE)
       \/ Answer(c, 401, Keep, TRUE)
    /\ UNCHANGED <<row, cookie, tab, maker, excused>>

\* Mutant: clears the cookie and forgets the row.
LogoutCookieOnly(c) ==
    /\ Sent(c, {"logout"})
    /\ Answer(c, 200, None, FALSE)
    /\ UNCHANGED <<row, cookie, tab, maker, excused>>

\* Mutant: a logout whose delete fails says so to the log only, and goes no further.
LogoutStopping(c) ==
    /\ Sent(c, {"logout"})
    /\ \/ row' = row \ {call[c].cookie} /\ Answer(c, 200, None, FALSE)
       \/ UNCHANGED row /\ Answer(c, 200, Keep, FALSE)
    /\ UNCHANGED <<cookie, tab, maker, excused>>

\* Logout and Destroy: the error of a delete is dropped, and the cookie goes in any
\* case.  A request without a matching CSRF token gets neither that far.
Logout(c) ==
    /\ Sent(c, {"logout"})
    /\ \/ /\ Answer(c, 403, Keep, FALSE)
          /\ UNCHANGED <<row, excused>>
       \/ /\ Answer(c, 200, None, FALSE)
          /\ row' = row \ {call[c].cookie}
          /\ excused' = excused \ {call[c].cookie}
       \/ /\ Answer(c, 200, None, FALSE)
          /\ excused' = excused \cup ({call[c].cookie} \cap row)
          /\ UNCHANGED row
    /\ UNCHANGED <<cookie, tab, maker>>

\* Login at the provider and Callback: Create inserts a session, beside the one the
\* browser may have already; or a step fails, the insert perhaps after it committed.
Login(c) ==
    /\ Sent(c, {"login"})
    /\ \/ /\ Answer(c, 500, Keep, FALSE)
          /\ UNCHANGED <<row, maker, excused>>
       \/ \E s \in Session :
            /\ maker[s] = Keep
            /\ row' = row \cup {s}
            /\ maker' = [maker EXCEPT ![s] = call[c].tab]
            /\ \/ Answer(c, 302, s, FALSE) /\ UNCHANGED excused
               \/ Answer(c, 500, Keep, FALSE) /\ excused' = excused \cup {s}
    /\ UNCHANGED <<cookie, tab>>

\* A session runs out.
Expire(s) ==
    /\ s \in row /\ row' = row \ {s} /\ excused' = excused \ {s}
    /\ UNCHANGED <<cookie, tab, call, maker>>

-----------------------------------------------------------------------------
(* The answers.                                                             *)

\* Set-Cookie.  It cuts off a session when a login follows another, or when it comes
\* so late that another tab's login is already there.
SetCookie(t, a) ==
    /\ cookie' = IF a.set = Keep THEN cookie ELSE a.set
    /\ excused' = excused \cup
         {s \in {cookie} \cap row :
            a.set \in Session \/ (a.set = None /\ a.cookie # s /\ maker[s] # t)}

\* The document goes on: auth.load and what requireAuth makes of it, auth.logout with
\* its change of location; a login's redirect, or its error, is the next document.
Deliver(c) ==
    LET a == call[c] t == a.tab IN
    /\ a.step = "answered" /\ t # None
    /\ SetCookie(t, a)
    /\ tab' = [tab EXCEPT ![t] =
         CASE a.kind \in Check ->
                Document(IF a.status = 200 THEN "authenticated" ELSE "anonymous",
                         a.cookie, a.fault, @.over, @.leaving)
           [] a.kind = "logout" /\ a.status = 200 ->
                Document("anonymous", None, FALSE, @.over \cup ({a.cookie} \cap Session), TRUE)
           [] a.kind = "logout" /\ a.status # 200 ->
                Document("anonymous", None, TRUE, @.over, @.leaving)
           [] OTHER -> Closed(@.over)]
    /\ call' =
         CASE a.kind = "guard" /\ a.status # 200 ->
                [Assigned(t) EXCEPT ![c] = Request("login", t)]
           [] a.kind = "logout" /\ a.status = 200 -> [Assigned(t) EXCEPT ![c] = NoCall]
           [] a.kind = "login" -> [Left(t) EXCEPT ![c] = NoCall]
           [] OTHER -> [call EXCEPT ![c] = NoCall]
    /\ UNCHANGED <<row, maker>>

\* A request or its answer is lost: auth.load throws and leaves the status as it is,
\* auth.logout is anonymous all the same, and a login leaves the document in place.
Lose(c) ==
    LET a == call[c] t == a.tab IN
    /\ ~Free(c)
    /\ call' = [call EXCEPT ![c] = NoCall]
    /\ excused' = excused \cup ({a.set} \cap row)
    /\ tab' = IF t = None THEN tab ELSE [tab EXCEPT ![t] =
         CASE a.kind \in Check -> [@ EXCEPT !.failed = TRUE]
           [] a.kind = "logout" -> Document("anonymous", None, TRUE, @.over, @.leaving)
           [] OTHER -> @]
    /\ UNCHANGED <<row, cookie, maker>>

Init == /\ row = {} /\ cookie = None
        /\ tab = [t \in Tab |-> Closed({})]
        /\ call = [c \in Call |-> NoCall]
        /\ maker = [s \in Session |-> Keep]
        /\ excused = {}

Next == \/ \E c \in Call :
             \/ \E t \in Tab : Open(t, c) \/ Guard(t, c) \/ ClickLogin(t, c) \/ ClickLogout(t, c)
             \/ Me(c) \/ Logout(c) \/ Login(c) \/ Deliver(c) \/ Lose(c)
        \/ \E t \in Tab : Unload(t)
        \/ \E s \in Session : Expire(s)

Spec == Init /\ [][Next]_vars

-----------------------------------------------------------------------------
\* A session in the database is the one in the browser's cookie, or on its way there,
\* unless a delete failed, an insert was reported as failed, an answer was lost, a login
\* came on top of another, or another tab's logout was answered late: within one tab a
\* logout, however late its answer, never costs a later login its cookie
\* (session.go 77-91 and 128-136, handlers.go 127).
LiveIsHeld ==
    \A s \in row : \/ s \in excused \cup {cookie}
                   \/ \E c \in Call : call[c].set = s

\* What a document says of the session has a reason, though its layout and its page check
\* side by side.  It knows nothing only while it asks, or when asking failed or theme.init
\* threw; it is anonymous over a live session only if its last request failed or the
\* cookie has come since (auth.svelte.ts 22-36).
StatusExplained ==
    \A t \in Tab : LET d == tab[t] IN
        /\ d.status = "unknown" =>
             \/ d.failed
             \/ \E c \in Call : call[c].tab = t /\ call[c].kind \in Check
        /\ d.status = "anonymous" /\ cookie \in row => d.failed \/ d.seen # cookie

\* After an acknowledged logout no later document of the tab shows that session as signed
\* in, whatever other tabs and late answers do, and even if the delete failed: if it is
\* seen at all, then in the document that logged out and is about to go, which still takes
\* the answer to a check it sent before (handlers.go 127-129, auth.svelte.ts 24 and 60).
SignedOutAfresh ==
    \A t \in Tab : tab[t].status = "authenticated" /\ tab[t].seen \in tab[t].over
                     => tab[t].leaving
=============================================================================
