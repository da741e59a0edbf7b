------------------------------- MODULE Sessions -------------------------------
(***************************************************************************)
(* The server-side sessions (internal/auth/session.go over the generated   *)
(* queries of internal/store/sessions.sql.go) as the shipped router uses   *)
(* them: a login inserts a row, every authenticated request resolves its   *)
(* cookie to one, a logout deletes it.  A handler is one goroutine per     *)
(* request; between two of its round trips to the database any other       *)
(* handler may run and time may pass, so each round trip is an action.     *)
(*                                                                         *)
(* The row's created and seen columns are written with the database's      *)
(* clock, `now'; expires is computed, and every deadline is checked, with  *)
(* the clock of the replica that serves the request, now + Skew[r].        *)
(***************************************************************************)
EXTENDS Integers

CONSTANTS Request,     \* slots for requests being served (goroutines)
          Browser,     \* cookie jars
          User,
          SessionId,   \* ids randomToken can return; bounds the logins
          None,        \* no row, no cookie, no user
          Absolute,    \* SESSION_ABSOLUTE_TIMEOUT
          Idle,        \* SESSION_IDLE_TIMEOUT
          Skew,        \* per slot: its replica's clock minus the database's
          Drift,       \* the most two replicas' clocks differ by
          MaxTime,     \* bound on the clock
          Faults       \* may queries fail, answers be lost, handlers die?

ASSUME TimeoutsAssumption ==
    /\ Absolute \in Nat \ {0} /\ Idle \in Nat \ {0}
    /\ Idle <= Absolute

ASSUME ClockAssumption ==
    /\ MaxTime \in Nat
    /\ Skew \in [Request -> Int]
    /\ Drift \in Nat
    /\ \A r, s \in Request : Skew[r] - Skew[s] <= Drift

ASSUME FaultsAssumption == Faults \in BOOLEAN

VARIABLES rows,    \* the sessions table, by primary key
          owner,   \* history: whom an id was issued for, None if never
          jar,     \* the session cookie each browser holds
          req,     \* the local state of each handler
          now      \* the database's clock

vars == <<rows, owner, jar, req, now>>

-----------------------------------------------------------------------------

\* A row of the table; claims, e-mail and name go with the user.
Row == [user : User, created : Int, seen : Int, expires : Int]

ASSUME NoneAssumption == None \notin SessionId \cup User \cup Row

Op == {"login", "resolve", "logout"}
Pc == {"idle", "insert", "get", "check", "delete", "touch", "destroy", "reply"}

(* A handler: what it serves, the browser and the cookie it came with, the  *)
(* row it read (a login: the row it will insert), the user it answers with  *)
(* (None: 401), the session cookie its answer sets (at most one; {None}     *)
(* clears it), and, as history, whether its session was over on arrival.    *)
Handler == [op : Op, pc : Pc, browser : Browser \cup {None},
            cookie : SessionId \cup {None}, row : Row \cup {None},
            user : User \cup {None}, set : SUBSET (SessionId \cup {None}),
            late : BOOLEAN]

Quiet == [op |-> "resolve", pc |-> "idle", browser |-> None, cookie |-> None,
          row |-> None, user |-> None, set |-> {}, late |-> FALSE]

Clock(r) == now + Skew[r]

\* The deadlines of Resolve: strictly after either one the session is over.
Expired(row, t) == t > row.expires \/ t > row.seen + Idle

\* Issued, and its row is gone again.
Over(i) == owner[i] # None /\ rows[i] = None

\* A statement succeeds, or fails before or after it took effect.
Outcome == {o \in [ok : BOOLEAN, done : BOOLEAN] :
              (o.ok => o.done) /\ (o.ok \/ Faults)}

Reply(r, user, set) ==
    req' = [req EXCEPT ![r] = [@ EXCEPT !.pc = "reply", !.row = None,
                                        !.user = user, !.set = set]]

-----------------------------------------------------------------------------
(* Create, called once the identity is verified.                            *)

StartLogin(r, b, u) ==
    /\ req[r].pc = "idle"
    /\ req' = [req EXCEPT ![r] =
                 [Quiet EXCEPT !.op = "login", !.pc = "insert", !.browser = b,
                    !.row = [user |-> u, created |-> 0, seen |-> 0,
                             expires |-> Clock(r) + Absolute]]]
    /\ UNCHANGED <<rows, owner, jar, now>>

\* Mutant: setCookie without looking at the query's error.
InsertIgnoringError(r) ==
    /\ req[r].pc = "insert"
    /\ \E i \in SessionId, o \in Outcome :
         /\ owner[i] = None
         /\ rows' = IF o.done
                    THEN [rows EXCEPT ![i] = [req[r].row EXCEPT !.created = now,
                                                                !.seen = now]]
                    ELSE rows
         /\ owner' = IF o.done THEN [owner EXCEPT ![i] = req[r].row.user]
                               ELSE owner
         /\ Reply(r, None, {i})
    /\ UNCHANGED <<jar, now>>

\* Mutant: the id is not a fresh one, and the row it names is replaced.
InsertReusingId(r) ==
    /\ req[r].pc = "insert"
    /\ \E i \in SessionId :
         /\ rows' = [rows EXCEPT ![i] = [req[r].row EXCEPT !.created = now,
                                                          !.seen = now]]
         /\ owner' = [owner EXCEPT ![i] = req[r].row.user]
         /\ Reply(r, None, {i})
    /\ UNCHANGED <<jar, now>>

\* INSERT: the id is a fresh random one, the two clock columns default to
\* the database's now(), and the cookie is set only when the query succeeded.
Insert(r) ==
    /\ req[r].pc = "insert"
    /\ \E i \in SessionId, o \in Outcome :
         /\ owner[i] = None
         /\ rows' = IF o.done
                    THEN [rows EXCEPT ![i] = [req[r].row EXCEPT !.created = now,
                                                                !.seen = now]]
                    ELSE rows
         /\ owner' = IF o.done THEN [owner EXCEPT ![i] = req[r].row.user]
                               ELSE owner
         /\ Reply(r, None, IF o.ok THEN {i} ELSE {})
    /\ UNCHANGED <<jar, now>>

-----------------------------------------------------------------------------
(* Resolve, called by /auth/me and by the RequireAuth middleware.           *)

StartResolve(r, b) ==
    /\ req[r].pc = "idle"
    /\ req' = [req EXCEPT ![r] =
                 [Quiet EXCEPT !.pc = IF jar[b] = None THEN "reply" ELSE "get",
                    !.browser = b, !.cookie = jar[b],
                    !.late = jar[b] # None /\ Over(jar[b])]]
    /\ UNCHANGED <<rows, owner, jar, now>>

\* SELECT: a missing row and a failed query are the same to the caller.
Get(r) ==
    /\ req[r].pc = "get"
    /\ LET row == rows[req[r].cookie] IN
         \/ /\ row # None
            /\ req' = [req EXCEPT ![r] = [@ EXCEPT !.pc = "check", !.row = row]]
         \/ (row = None \/ Faults) /\ Reply(r, None, {})
    /\ UNCHANGED <<rows, owner, jar, now>>

\* The clock is read only now, against the row as it was when it was read.
Check(r) ==
    /\ req[r].pc = "check"
    /\ req' = [req EXCEPT ![r] =
                 IF Expired(req[r].row, Clock(r))
                 THEN [@ EXCEPT !.pc = "delete", !.row = None]
                 ELSE [@ EXCEPT !.pc = "touch", !.row = None,
                                !.user = req[r].row.user]]
    /\ UNCHANGED <<rows, owner, jar, now>>

\* DELETE of an expired session; its error is ignored.
DeleteExpired(r) ==
    /\ req[r].pc = "delete"
    /\ \E o \in Outcome :
         rows' = IF o.done THEN [rows EXCEPT ![req[r].cookie] = None] ELSE rows
    /\ Reply(r, None, {})
    /\ UNCHANGED <<owner, jar, now>>

\* Mutant: INSERT ... ON CONFLICT UPDATE instead of UPDATE.
TouchUpserting(r) ==
    /\ req[r].pc = "touch"
    /\ rows' = [rows EXCEPT ![req[r].cookie] =
                  IF @ # None THEN [@ EXCEPT !.seen = now]
                  ELSE [user |-> req[r].user, created |-> now, seen |-> now,
                        expires |-> Clock(r) + Absolute]]
    /\ Reply(r, req[r].user, {})
    /\ UNCHANGED <<owner, jar, now>>

\* Mutant: the touch slides expires_at too.
TouchSliding(r) ==
    /\ req[r].pc = "touch"
    /\ rows' = [rows EXCEPT ![req[r].cookie] =
                  IF @ = None THEN None
                  ELSE [@ EXCEPT !.seen = now, !.expires = Clock(r) + Absolute]]
    /\ Reply(r, req[r].user, {})
    /\ UNCHANGED <<owner, jar, now>>

\* Mutant: last_seen_at is written with the replica's clock.
TouchOnReplicaClock(r) ==
    /\ req[r].pc = "touch"
    /\ rows' = [rows EXCEPT ![req[r].cookie] =
                  IF @ = None THEN None ELSE [@ EXCEPT !.seen = Clock(r)]]
    /\ Reply(r, req[r].user, {})
    /\ UNCHANGED <<owner, jar, now>>

\* UPDATE: changes nothing when the row is gone, and its error is not fatal;
\* the answer is the user of the row that was read.
Touch(r) ==
    /\ req[r].pc = "touch"
    /\ \E o \in Outcome :
         rows' = IF o.done /\ rows[req[r].cookie] # None
                 THEN [rows EXCEPT ![req[r].cookie].seen = now] ELSE rows
    /\ Reply(r, req[r].user, {})
    /\ UNCHANGED <<owner, jar, now>>

-----------------------------------------------------------------------------
(* Destroy, called by /auth/logout.                                         *)

StartLogout(r, b) ==
    /\ req[r].pc = "idle"
    /\ req' = [req EXCEPT ![r] =
                 [Quiet EXCEPT !.op = "logout", !.pc = "destroy",
                    !.browser = b, !.cookie = jar[b]]]
    /\ UNCHANGED <<rows, owner, jar, now>>

\* DELETE, when a cookie came with the request; whatever becomes of it the
\* answer clears the cookie.
Destroy(r) ==
    /\ req[r].pc = "destroy"
    /\ \E o \in Outcome :
         rows' = IF o.done /\ req[r].cookie # None
                 THEN [rows EXCEPT ![req[r].cookie] = None] ELSE rows
    /\ Reply(r, None, {None})
    /\ UNCHANGED <<owner, jar, now>>

-----------------------------------------------------------------------------
(* The answer travels back; the rest of the environment.                    *)

Deliver(r) ==
    /\ req[r].pc = "reply"
    /\ \E c \in IF req[r].set = {} THEN {jar[req[r].browser]} ELSE req[r].set :
         jar' = [jar EXCEPT ![req[r].browser] = c]
    /\ req' = [req EXCEPT ![r] = Quiet]
    /\ UNCHANGED <<rows, owner, now>>

\* The answer is lost, or the process dies under the handler: the goroutine's
\* state is gone, what it wrote stays.
Abandon(r) ==
    /\ Faults /\ req[r].pc # "idle"
    /\ req' = [req EXCEPT ![r] = Quiet]
    /\ UNCHANGED <<rows, owner, jar, now>>

\* The cookie's Max-Age passes on the browser's own clock, or it is cleared.
Forget(b) ==
    /\ jar[b] # None
    /\ jar' = [jar EXCEPT ![b] = None]
    /\ UNCHANGED <<rows, owner, req, now>>

Tick == /\ now < MaxTime
        /\ now' = now + 1
        /\ UNCHANGED <<rows, owner, jar, req>>

-----------------------------------------------------------------------------

Init == /\ rows = [i \in SessionId |-> None]
        /\ owner = [i \in SessionId |-> None]
        /\ jar = [b \in Browser |-> None]
        /\ req = [r \in Request |-> Quiet]
        /\ now = 0

\* The steps of the code serving slot r.
Serve(r) == \/ Insert(r) \/ Get(r) \/ Check(r) \/ DeleteExpired(r)
            \/ Touch(r) \/ Destroy(r)

Arrive(r) == \E b \in Browser :
    \/ StartResolve(r, b)
    \/ StartLogout(r, b)
    \/ \E u \in User : StartLogin(r, b, u)

Next == \/ \E r \in Request : Arrive(r) \/ Serve(r) \/ Deliver(r) \/ Abandon(r)
        \/ \E b \in Browser : Forget(b)
        \/ Tick

Spec == Init /\ [][Next]_vars

-----------------------------------------------------------------------------

\* Every variable stays in its type.
TypeOK == /\ rows \in [SessionId -> Row \cup {None}]
          /\ owner \in [SessionId -> User \cup {None}]
          /\ jar \in [Browser -> SessionId \cup {None}]
          /\ req \in [Request -> Handler]
          /\ now \in Int

\* The ids a browser holds or is about to be handed.
Issued == {jar[b] : b \in Browser} \cup {req[r].cookie : r \in Request}
            \cup UNION {req[r].set : r \in Request}

\* A cookie never runs ahead of its row: setCookie comes after a successful
\* INSERT, so an id on its way to a browser names a session that exists or
\* that existed and is over, even when inserts fail, commit unnoticed, or
\* their answers overtake each other.
CookieBacked == \A i \in Issued \ {None} : rows[i] # None \/ Over(i)

\* A request that arrives after its session is over is denied, whatever the
\* handlers that were already under way then still write to the table.
EndedMeansDenied == \A r \in Request : req[r].late => req[r].user = None

\* A deleted session stays deleted: the touch of a request that read the row
\* before a logout or an expiry removed it does not bring it back.
NoResurrection == [][\A i \in SessionId : Over(i) => rows'[i] = None]_vars

\* Check lets the request through.
Accepts(r) == req[r].pc = "check" /\ req'[r].pc = "touch"

\* However busy a session is, no request is let through later than Absolute
\* after its creation, give or take the difference between the clock that
\* set the deadline and the clock that checks it.
AbsoluteLifetime ==
    [][\A r \in Request :
         Accepts(r) => now <= req[r].row.created + Absolute + Drift]_vars

\* A request is let through only if the session was used, by any request,
\* within Idle on the replica's clock: checking a copy of the row can make
\* Resolve too strict about a session that is still there, never too lenient.
IdleLifetime ==
    [][\A r \in Request :
         Accepts(r) /\ rows[req[r].cookie] # None
           => Clock(r) <= rows[req[r].cookie].seen + Idle]_vars

\* session.go:95 "Expired/unknown sessions are deleted", config.go:84 "expires
\* a session after this much inactivity": Resolve deletes no session that is
\* still within both limits at that moment.
DeletesOnlyExpired ==
    [][\A r \in Request :
         req[r].pc = "delete" /\ req'[r].pc # "delete"
           /\ rows[req[r].cookie] # None /\ rows'[req[r].cookie] = None
           => Expired(rows[req[r].cookie], Clock(r))]_vars

-----------------------------------------------------------------------------

\* What makes the properties inductive: who owns the rows, which ids travel,
\* and what each stage of a handler knows.

RowsOwned == \A i \in SessionId : rows[i] # None => owner[i] = rows[i].user

CookiesIssued == \A i \in Issued \ {None} : owner[i] # None

LateMeansOver ==
    \A r \in Request : req[r].late => req[r].cookie # None /\ Over(req[r].cookie)

Stage(r) ==
    LET q == req[r] IN
    /\ q.pc = "insert" => q.op = "login" /\ q.row # None
    /\ q.pc = "destroy" => q.op = "logout"
    /\ q.pc \in {"get", "check", "delete", "touch"}
         => q.op = "resolve" /\ q.cookie # None
    /\ q.pc = "check" => q.row # None /\ q.row.user = owner[q.cookie] /\ ~q.late
    /\ q.pc = "touch" => q.user # None
    /\ q.user # None => /\ q.pc \in {"touch", "reply"}
                        /\ q.op = "resolve" /\ q.cookie # None
                        /\ q.user = owner[q.cookie] /\ ~q.late

Stages == \A r \in Request : Stage(r)

\* Every deadline was set by some replica, Absolute after the row's creation
\* or later; nothing was used after now; a copy of a row is never newer.
Dated(row) ==
    \E s \in Request : row.expires <= row.created + Skew[s] + Absolute

RowsDated == \A i \in SessionId :
    rows[i] # None => rows[i].seen <= now /\ Dated(rows[i])

HandlerDated(r) ==
    /\ req[r].pc = "insert" => req[r].row.expires <= Clock(r) + Absolute
    /\ req[r].pc = "check" =>
         /\ Dated(req[r].row)
         /\ rows[req[r].cookie] # None
              => req[r].row.seen <= rows[req[r].cookie].seen

HandlersDated == \A r \in Request : HandlerDated(r)

OwnershipInv == TypeOK /\ RowsOwned /\ CookiesIssued /\ LateMeansOver /\ Stages

DeadlineInv == OwnershipInv /\ RowsDated /\ HandlersDated

-----------------------------------------------------------------------------

\* The request as the ledger sees it: one that presents a session id.
Asked(r) ==
    IF req[r].op # "resolve" \/ req[r].pc = "idle" \/ req[r].cookie = None
    THEN None
    ELSE [id |-> req[r].cookie,
          may |-> IF req[r].late THEN {} ELSE {owner[req[r].cookie]},
          said |-> IF req[r].pc = "reply" THEN {req[r].user} ELSE {}]

Ledger == INSTANCE SessionLedger WITH
            holder <- owner,
            live <- {i \in SessionId : rows[i] # None},
            ask <- [r \in Request |-> Asked(r)]

ASSUME NoAskAssumption == None \notin Ledger!Ask

\* Resolve's four separate steps over a table that others change behave like
\* one look at a ledger of sessions: an answer names the owner of a session
\* that was open at some instant while the request was being served.
ImplementsLedger == Ledger!Spec
=============================================================================
