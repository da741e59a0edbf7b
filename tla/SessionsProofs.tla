---------------------------- MODULE SessionsProofs ----------------------------
(* Theorems about modules Sessions and SessionRefresh, for any number of    *)
(* handlers, browsers, users and sessions, any timeouts and any clock skew. *)
EXTENDS SessionRefresh, TLAPS

-----------------------------------------------------------------------------
(* The ownership invariant.                                                 *)

\* A step of handler r preserves the invariant if it leaves issued ids their
\* owner and ended sessions ended, and what r knows afterwards is consistent:
\* the other handlers' knowledge is about owners and ended sessions only.
LEMMA HandlerStep ==
    ASSUME OwnershipInv, NEW r \in Request, NEW q \in Handler,
           req' = [req EXCEPT ![r] = q], jar' = jar, now' = now,
           rows' \in [SessionId -> Row \cup {None}],
           owner' \in [SessionId -> User \cup {None}],
           RowsOwned',
           \A i \in SessionId : owner[i] # None => owner'[i] = owner[i],
           \A i \in SessionId : Over(i) => Over(i)',
           \A i \in ({q.cookie} \cup q.set) \ {None} : owner'[i] # None,
           q.late => q.cookie # None /\ Over(q.cookie)',
           Stage(r)'
    PROVE  OwnershipInv'
<1>1. /\ req'[r] = q
      /\ \A s \in Request \ {r} : req'[s] = req[s]
    BY DEF OwnershipInv, TypeOK
<1>2. TypeOK'
    BY DEF OwnershipInv, TypeOK
<1>3. CookiesIssued'
  <2> SUFFICES ASSUME NEW i \in Issued', i # None
               PROVE  owner'[i] # None
      BY DEF CookiesIssued
  <2>1. i \in SessionId
      BY <1>2 DEF Issued, TypeOK, Handler
  <2>2. CASE i \in {q.cookie} \cup q.set
      BY <2>2
  <2>3. CASE i \notin {q.cookie} \cup q.set
    <3>1. i \in Issued
        BY <1>1, <2>3 DEF Issued
    <3> QED
        BY <2>1, <3>1 DEF OwnershipInv, CookiesIssued
  <2> QED
      BY <2>2, <2>3
<1>4. LateMeansOver'
    BY <1>1 DEF OwnershipInv, TypeOK, Handler, LateMeansOver
<1>5. ASSUME NEW s \in Request \ {r}
      PROVE  Stage(s)'
  <2>1. Stage(s) /\ req[s] \in Handler
      BY DEF OwnershipInv, TypeOK, Stages
  <2>2. req[s].cookie # None => owner'[req[s].cookie] = owner[req[s].cookie]
      BY <2>1 DEF OwnershipInv, CookiesIssued, Issued, Handler
  <2> QED
      BY <1>1, <2>1, <2>2 DEF Stage
<1> QED
    BY <1>2, <1>3, <1>4, <1>5 DEF OwnershipInv, Stages

\* An arriving request of any kind.
LEMMA ArriveStep ==
    ASSUME OwnershipInv, NEW r \in Request, Arrive(r)
    PROVE  OwnershipInv'
<1>1. PICK b \in Browser : \/ StartResolve(r, b) \/ StartLogout(r, b)
                           \/ \E u \in User : StartLogin(r, b, u)
    BY DEF Arrive
<1>2. rows' = rows /\ owner' = owner /\ jar' = jar /\ now' = now
    BY <1>1 DEF StartResolve, StartLogout, StartLogin
<1> DEFINE Known(q) ==
        /\ req' = [req EXCEPT ![r] = q]
        /\ q.cookie \in {None, jar[b]} /\ q.set = {} /\ q.user = None
        /\ q.late => jar[b] # None /\ q.cookie = jar[b] /\ Over(jar[b])
        /\ \/ q.pc = "insert" /\ q.op = "login" /\ q.row # None
           \/ q.pc = "destroy" /\ q.op = "logout"
           \/ q.pc = "reply"
           \/ q.pc = "get" /\ q.op = "resolve" /\ q.cookie # None
<1>3. \E q \in Handler : Known(q)
  <2>1. CASE StartResolve(r, b)
    <3> DEFINE q == [Quiet EXCEPT !.pc = IF jar[b] = None THEN "reply" ELSE "get",
                       !.browser = b, !.cookie = jar[b],
                       !.late = jar[b] # None /\ Over(jar[b])]
    <3>1. q \in Handler
        BY DEF OwnershipInv, TypeOK, Quiet, Handler, Op, Pc
    <3>2. Known(q)
        BY <2>1 DEF StartResolve, Quiet
    <3> QED
        BY <3>1, <3>2
  <2>2. CASE StartLogout(r, b)
    <3> DEFINE q == [Quiet EXCEPT !.op = "logout", !.pc = "destroy",
                       !.browser = b, !.cookie = jar[b]]
    <3>1. q \in Handler
        BY DEF OwnershipInv, TypeOK, Quiet, Handler, Op, Pc
    <3>2. Known(q)
        BY <2>2 DEF StartLogout, Quiet
    <3> QED
        BY <3>1, <3>2
  <2>3. ASSUME NEW u \in User, StartLogin(r, b, u)
        PROVE  \E q \in Handler : Known(q)
    <3> DEFINE row == [user |-> u, created |-> 0, seen |-> 0,
                       expires |-> Clock(r) + Absolute]
               q == [Quiet EXCEPT !.op = "login", !.pc = "insert",
                       !.browser = b, !.row = row]
    <3>1. row \in Row /\ row # None
        BY NoneAssumption, TimeoutsAssumption, ClockAssumption
        DEF OwnershipInv, TypeOK, Row, Clock
    <3>2. q \in Handler
        BY <3>1 DEF Quiet, Handler, Op, Pc
    <3>3. Known(q)
        BY <2>3, <3>1 DEF StartLogin, Quiet
    <3> QED
        BY <3>2, <3>3
  <2> QED
      BY <1>1, <2>1, <2>2, <2>3
<1> PICK q \in Handler : Known(q)
    BY <1>3
<1>4. \A i \in ({q.cookie} \cup q.set) \ {None} : owner'[i] # None
    BY <1>2 DEF OwnershipInv, CookiesIssued, Issued
<1>5. Stage(r)'
    BY <1>2 DEF Stage, OwnershipInv, TypeOK
<1> QED
    BY <1>2, <1>4, <1>5, HandlerStep
    DEF OwnershipInv, TypeOK, RowsOwned, Over

\* The steps of Create, Resolve and Destroy.  Of the table each changes at
\* most one row: an unissued id gets one, a row is deleted, or it is touched.
LEMMA InsertStep ==
    ASSUME OwnershipInv, NEW r \in Request, Insert(r)
    PROVE  OwnershipInv'
<1>1. PICK i \in SessionId, o \in Outcome :
        /\ owner[i] = None
        /\ rows' = IF o.done
                   THEN [rows EXCEPT ![i] = [req[r].row EXCEPT !.created = now,
                                                               !.seen = now]]
                   ELSE rows
        /\ owner' = IF o.done THEN [owner EXCEPT ![i] = req[r].row.user]
                              ELSE owner
        /\ Reply(r, None, IF o.ok THEN {i} ELSE {})
    BY DEF Insert
<1> DEFINE row == [req[r].row EXCEPT !.created = now, !.seen = now]
<1>2. /\ req[r] \in Handler /\ req[r].pc = "insert"
      /\ req[r].row \in Row /\ Stage(r)
    BY DEF Insert, OwnershipInv, TypeOK, Handler, Stages, Stage
<1>3. row \in Row /\ row # None /\ row.user = req[r].row.user /\ row.user # None
    BY <1>2, NoneAssumption DEF Row, OwnershipInv, TypeOK
<1>4. PICK q \in Handler :
        /\ q = [req[r] EXCEPT !.pc = "reply", !.row = None, !.user = None,
                              !.set = IF o.ok THEN {i} ELSE {}]
        /\ req' = [req EXCEPT ![r] = q]
  <2> DEFINE z == [req[r] EXCEPT !.pc = "reply", !.row = None, !.user = None,
                                 !.set = IF o.ok THEN {i} ELSE {}]
  <2>1. z \in Handler
      BY <1>2 DEF Handler, Pc
  <2>2. req' = [req EXCEPT ![r] = z]
      BY <1>1 DEF Reply
  <2> QED
      BY <2>1, <2>2
<1>5. /\ rows' \in [SessionId -> Row \cup {None}]
      /\ owner' \in [SessionId -> User \cup {None}]
      /\ jar' = jar /\ now' = now
    BY <1>1, <1>3 DEF OwnershipInv, TypeOK, Insert, Row
<1>6. RowsOwned'
    BY <1>1, <1>3, <1>5 DEF OwnershipInv, TypeOK, RowsOwned
<1>7. /\ \A j \in SessionId : owner[j] # None => owner'[j] = owner[j]
      /\ \A j \in SessionId : Over(j) => Over(j)'
    BY <1>1 DEF OwnershipInv, TypeOK, Over
<1>8. \A j \in ({q.cookie} \cup q.set) \ {None} : owner'[j] # None
  <2>1. req[r].cookie # None => owner'[req[r].cookie] # None
      BY <1>2, <1>7 DEF OwnershipInv, CookiesIssued, Issued, Handler
  <2>2. o.ok => owner'[i] # None
      BY <1>1, <1>3 DEF Outcome, OwnershipInv, TypeOK
  <2> QED
      BY <1>2, <1>4, <2>1, <2>2 DEF Handler
<1>9. q.late => q.cookie # None /\ Over(q.cookie)'
    BY <1>2, <1>4, <1>7 DEF OwnershipInv, LateMeansOver, Handler
<1>10. Stage(r)'
    BY <1>2, <1>4 DEF Stage, OwnershipInv, TypeOK, Handler
<1> QED
    BY <1>4, <1>5, <1>6, <1>7, <1>8, <1>9, <1>10, HandlerStep

\* A step of handler r that only looks at the table.
LEMMA LookStep ==
    ASSUME OwnershipInv, NEW r \in Request, NEW q \in Handler,
           req' = [req EXCEPT ![r] = q], UNCHANGED <<rows, owner, jar, now>>,
           q.cookie \in {req[r].cookie, None}, q.set \subseteq req[r].set,
           q.late => req[r].late /\ q.cookie = req[r].cookie,
           Stage(r)'
    PROVE  OwnershipInv'
<1>1. \A j \in ({q.cookie} \cup q.set) \ {None} : owner'[j] # None
    BY DEF OwnershipInv, CookiesIssued, Issued
<1>2. q.late => q.cookie # None /\ Over(q.cookie)'
    BY DEF OwnershipInv, LateMeansOver, Over
<1>3. /\ rows' \in [SessionId -> Row \cup {None}]
      /\ owner' \in [SessionId -> User \cup {None}]
      /\ RowsOwned'
      /\ \A i \in SessionId : owner[i] # None => owner'[i] = owner[i]
      /\ \A i \in SessionId : Over(i) => Over(i)'
    BY DEF OwnershipInv, TypeOK, RowsOwned, Over
<1> QED
    BY <1>1, <1>2, <1>3, HandlerStep

\* The store's read keeps owners and cookies as they are.
LEMMA GetStep ==
    ASSUME OwnershipInv, NEW r \in Request, Get(r)
    PROVE  OwnershipInv'
<1> DEFINE row == rows[req[r].cookie]
<1>1. /\ req[r] \in Handler /\ req[r].pc = "get" /\ Stage(r)
      /\ req[r].cookie \in SessionId /\ req[r].op = "resolve"
      /\ row \in Row \cup {None}
    BY DEF Get, OwnershipInv, TypeOK, Handler, Stages, Stage
<1>2. CASE row # None /\ req' = [req EXCEPT ![r] = [@ EXCEPT !.pc = "check",
                                                            !.row = row]]
  <2> DEFINE q == [req[r] EXCEPT !.pc = "check", !.row = row]
  <2>1. q \in Handler /\ req' = [req EXCEPT ![r] = q]
      BY <1>1, <1>2 DEF Handler, Pc
  <2>2. row.user = owner[req[r].cookie] /\ ~req[r].late
      BY <1>1, <1>2 DEF OwnershipInv, RowsOwned, LateMeansOver, Over
  <2>3. Stage(r)'
      BY <1>1, <1>2, <2>1, <2>2 DEF Stage, OwnershipInv, TypeOK, Get, Handler
  <2>4. q.cookie = req[r].cookie /\ q.set = req[r].set /\ q.late = req[r].late
      BY <1>1 DEF Handler
  <2> QED
      BY <1>1, <2>1, <2>3, <2>4, LookStep DEF Get
<1>3. CASE Reply(r, None, {})
  <2> DEFINE q == [req[r] EXCEPT !.pc = "reply", !.row = None, !.user = None,
                                 !.set = {}]
  <2>1. q \in Handler /\ req' = [req EXCEPT ![r] = q]
      BY <1>1, <1>3 DEF Handler, Pc, Reply
  <2>2. Stage(r)'
      BY <1>1, <2>1 DEF Stage, OwnershipInv, TypeOK, Get, Handler
  <2>3. q.cookie = req[r].cookie /\ q.set = {} /\ q.late = req[r].late
      BY <1>1 DEF Handler
  <2> QED
      BY <2>1, <2>2, <2>3, LookStep DEF Get
<1> QED
    BY <1>2, <1>3 DEF Get

\* So does the check of what was read, which may go on to a write.
LEMMA CheckStep ==
    ASSUME OwnershipInv, NEW r \in Request, Check(r)
    PROVE  OwnershipInv'
<1>1. /\ req[r] \in Handler /\ req[r].pc = "check" /\ Stage(r)
      /\ req[r].cookie # None /\ req[r].op = "resolve"
      /\ req[r].row \in Row /\ req[r].row.user = owner[req[r].cookie]
      /\ ~req[r].late /\ req[r].row.user \in User /\ req[r].row.user # None
    BY NoneAssumption
    DEF Check, OwnershipInv, TypeOK, Handler, Stages, Stage, Row
<1>2. PICK q \in Handler :
        /\ \/ q = [req[r] EXCEPT !.pc = "delete", !.row = None]
           \/ q = [req[r] EXCEPT !.pc = "touch", !.row = None,
                                 !.user = req[r].row.user]
        /\ req' = [req EXCEPT ![r] = q]
    BY <1>1 DEF Check, Handler, Pc
<1>3. Stage(r)'
    BY <1>1, <1>2 DEF Stage, OwnershipInv, TypeOK, Check, Handler
<1>4. q.cookie = req[r].cookie /\ q.set = req[r].set /\ q.late = req[r].late
    BY <1>1, <1>2 DEF Handler
<1> QED
    BY <1>2, <1>3, <1>4, LookStep DEF Check

\* The row of the handler's cookie is deleted, touched or left alone, and the
\* handler replies: with the user it had decided on, or with no user.
LEMMA ReplyStep ==
    ASSUME OwnershipInv, NEW r \in Request, req[r].pc # "idle",
           NEW u \in User \cup {None}, u \in {req[r].user, None},
           NEW set \in SUBSET {None}, Reply(r, u, set),
           UNCHANGED <<owner, jar, now>>,
           rows' \in [SessionId -> Row \cup {None}],
           \A i \in SessionId :
              \/ rows'[i] \in {rows[i], None}
              \/ rows[i] # None /\ rows'[i].user = rows[i].user
    PROVE  OwnershipInv'
<1>1. req[r] \in Handler /\ Stage(r)
    BY DEF OwnershipInv, TypeOK, Stages
<1>2. PICK q \in Handler :
        /\ q = [req[r] EXCEPT !.pc = "reply", !.row = None, !.user = u,
                              !.set = set]
        /\ req' = [req EXCEPT ![r] = q]
    BY <1>1 DEF Reply, Handler, Pc
<1>3. /\ RowsOwned'
      /\ \A i \in SessionId : Over(i) => Over(i)'
      /\ owner' \in [SessionId -> User \cup {None}]
    BY DEF OwnershipInv, TypeOK, RowsOwned, Over
<1>4. \A i \in ({q.cookie} \cup q.set) \ {None} : owner'[i] # None
    BY <1>1, <1>2 DEF OwnershipInv, CookiesIssued, Issued, Handler
<1>5. q.late => q.cookie # None /\ Over(q.cookie)'
    BY <1>1, <1>2, <1>3 DEF OwnershipInv, LateMeansOver, Handler
<1>6. Stage(r)'
    BY <1>1, <1>2 DEF Stage, OwnershipInv, TypeOK, Handler
<1> QED
    BY <1>2, <1>3, <1>4, <1>5, <1>6, HandlerStep

\* So do the guard's and the handlers' writes.
LEMMA WriteStep ==
    ASSUME OwnershipInv, NEW r \in Request,
           DeleteExpired(r) \/ Touch(r) \/ Destroy(r)
    PROVE  OwnershipInv'
<1>1. /\ req[r] \in Handler /\ Stage(r) /\ req[r].user \in User \cup {None}
      /\ req[r].pc # "idle"
    BY DEF OwnershipInv, TypeOK, Handler, Stages, DeleteExpired, Touch, Destroy
<1>2. CASE DeleteExpired(r)
    BY <1>1, <1>2, ReplyStep DEF DeleteExpired, OwnershipInv, TypeOK
<1>3. CASE Destroy(r)
    BY <1>1, <1>3, ReplyStep DEF Destroy, OwnershipInv, TypeOK
<1>4. CASE Touch(r)
  <2>1. /\ rows' \in [SessionId -> Row \cup {None}]
        /\ \A i \in SessionId :
             \/ rows'[i] \in {rows[i], None}
             \/ rows[i] # None /\ rows'[i].user = rows[i].user
    <3>1. \/ rows' = rows
          \/ /\ rows[req[r].cookie] # None
             /\ rows' = [rows EXCEPT ![req[r].cookie].seen = now]
        BY <1>4 DEF Touch
    <3>2. req[r].cookie \in SessionId /\ now \in Int
        BY <1>1, <1>4 DEF Touch, Stage, Handler, OwnershipInv, TypeOK
    <3> QED
        BY <3>1, <3>2 DEF OwnershipInv, TypeOK, Row
  <2> QED
      BY <1>1, <1>4, <2>1, ReplyStep DEF Touch
<1> QED
    BY <1>2, <1>3, <1>4

\* The slot falls idle, and the jar takes a cookie that was issued, or none.
LEMMA AnswerStep ==
    ASSUME OwnershipInv, UNCHANGED <<rows, owner>>, now' \in Int,
           req' = req \/ \E r \in Request : req' = [req EXCEPT ![r] = Quiet],
           jar' = jar \/ \E b \in Browser, c \in Issued \cup {None} :
                           jar' = [jar EXCEPT ![b] = c]
    PROVE  OwnershipInv'
<1>1. Quiet \in Handler
    BY DEF Quiet, Handler, Op, Pc
<1>2. \A r \in Request : req'[r] \in {req[r], Quiet}
    BY DEF OwnershipInv, TypeOK
<1>3. \A b \in Browser : jar'[b] \in Issued \cup {None}
    BY DEF OwnershipInv, TypeOK, Issued
<1>4. Issued \cup {None} \subseteq SessionId \cup {None}
    BY DEF OwnershipInv, TypeOK, Issued, Handler
<1>5. TypeOK'
    BY <1>1, <1>4 DEF OwnershipInv, TypeOK
<1>6. CookiesIssued'
  <2>1. Issued' \subseteq Issued \cup {None}
      BY <1>2, <1>3 DEF Issued, Quiet
  <2> QED
      BY <2>1 DEF OwnershipInv, CookiesIssued
<1>7. RowsOwned' /\ LateMeansOver' /\ Stages'
    BY <1>2 DEF OwnershipInv, RowsOwned, LateMeansOver, Stages, Stage, Over, Quiet
<1> QED
    BY <1>5, <1>6, <1>7 DEF OwnershipInv

\* So do answers on their way, browsers and the clock.
LEMMA EnvironmentStep ==
    ASSUME OwnershipInv,
           \/ \E r \in Request : Deliver(r) \/ Abandon(r)
           \/ \E b \in Browser : Forget(b)
           \/ Tick
    PROVE  OwnershipInv'
<1>1. now \in Int
    BY DEF OwnershipInv, TypeOK
<1>2. ASSUME NEW r \in Request, Deliver(r)
      PROVE  OwnershipInv'
  <2>1. PICK c \in IF req[r].set = {} THEN {jar[req[r].browser]}
                                     ELSE req[r].set :
          jar' = [jar EXCEPT ![req[r].browser] = c]
      BY <1>2 DEF Deliver
  <2>2. \/ jar' = jar
        \/ req[r].browser \in Browser /\ c \in Issued \cup {None}
      BY <2>1 DEF Issued, OwnershipInv, TypeOK, Handler
  <2> QED
      BY <1>1, <1>2, <2>1, <2>2, AnswerStep DEF Deliver
<1>3. ASSUME NEW r \in Request, Abandon(r)
      PROVE  OwnershipInv'
    BY <1>1, <1>3, AnswerStep DEF Abandon
<1>4. ASSUME NEW b \in Browser, Forget(b)
      PROVE  OwnershipInv'
    BY <1>1, <1>4, AnswerStep DEF Forget
<1>5. CASE Tick
    BY <1>1, <1>5, AnswerStep DEF Tick
<1> QED
    BY <1>2, <1>3, <1>4, <1>5

\* OwnershipInv is kept by every step.
LEMMA OwnershipInductive ==
    /\ Init => OwnershipInv
    /\ OwnershipInv /\ [Next]_vars => OwnershipInv'
<1>1. ASSUME Init
      PROVE  OwnershipInv
    BY <1>1
    DEF Init, OwnershipInv, TypeOK, RowsOwned, CookiesIssued, Issued, Quiet,
        LateMeansOver, Stages, Stage, Handler, Op, Pc
<1>2. ASSUME OwnershipInv, UNCHANGED vars
      PROVE  OwnershipInv'
    BY <1>2
    DEF vars, OwnershipInv, TypeOK, RowsOwned, CookiesIssued, Issued,
        LateMeansOver, Over, Stages, Stage
<1>3. ASSUME OwnershipInv, Next
      PROVE  OwnershipInv'
    BY <1>3, ArriveStep, InsertStep, GetStep, CheckStep, WriteStep,
       EnvironmentStep
    DEF Next, Serve
<1> QED
    BY <1>1, <1>2, <1>3

\* The ownership invariant holds in every reachable state.
THEOREM Ownership == Spec => []OwnershipInv
    BY OwnershipInductive, PTL DEF Spec

\* Every variable stays in its type.
THEOREM TypeCorrect == Spec => []TypeOK
<1>1. OwnershipInv => TypeOK
    BY DEF OwnershipInv
<1> QED
    BY <1>1, Ownership, PTL

\* setCookie comes after a successful INSERT: every id a browser holds, or is
\* about to be handed, names a session that exists or is over.
THEOREM CookiesAreBacked == Spec => []CookieBacked
<1>1. OwnershipInv => CookieBacked
    BY DEF OwnershipInv, CookiesIssued, CookieBacked, Over
<1> QED
    BY <1>1, Ownership, PTL

\* A request that arrives after its session is over is denied.
THEOREM EndedIsDenied == Spec => []EndedMeansDenied
<1>1. OwnershipInv => EndedMeansDenied
    BY DEF OwnershipInv, Stages, Stage, EndedMeansDenied
<1> QED
    BY <1>1, Ownership, PTL

-----------------------------------------------------------------------------
(* Deleted sessions stay deleted.                                           *)

LEMMA OverStep ==
    ASSUME OwnershipInv, [Next]_vars, NEW i \in SessionId, Over(i)
    PROVE  Over(i)'
<1>1. CASE rows' = rows /\ owner' = owner
    BY <1>1 DEF Over
<1>2. ASSUME NEW r \in Request, Insert(r)
      PROVE  Over(i)'
    BY <1>2 DEF Insert, Over, OwnershipInv, TypeOK
<1>3. ASSUME NEW r \in Request, DeleteExpired(r) \/ Destroy(r)
      PROVE  Over(i)'
    BY <1>3 DEF DeleteExpired, Destroy, Over, OwnershipInv, TypeOK
<1>4. ASSUME NEW r \in Request, Touch(r)
      PROVE  Over(i)'
  <2>1. rows' = rows \/ rows'[i] = rows[i]
      BY <1>4 DEF Touch, Over, OwnershipInv, TypeOK
  <2> QED
      BY <1>4, <2>1 DEF Touch, Over
<1> QED
    BY <1>1, <1>2, <1>3, <1>4
    DEF Next, Serve, vars, Arrive, StartResolve, StartLogout, StartLogin, Get,
        Check, Deliver, Abandon, Forget, Tick

\* No late touch brings a deleted session back.
THEOREM DeletedStaysDeleted == Spec => NoResurrection
<1>1. OwnershipInv /\ [Next]_vars
        => [\A i \in SessionId : Over(i) => rows'[i] = None]_vars
    BY OverStep DEF Over
<1> QED
    BY <1>1, Ownership, PTL DEF Spec, NoResurrection

-----------------------------------------------------------------------------
(* The deadlines.                                                           *)

\* A step of handler r preserves the dates if what r knows afterwards is
\* dated, so are the rows, and no row that was there was used later before.
LEMMA DatedStep ==
    ASSUME DeadlineInv, OwnershipInv', [Next]_vars, NEW r \in Request,
           \A s \in Request \ {r} : req'[s] = req[s], now' = now,
           \A i \in SessionId : rows'[i] # None =>
              /\ rows'[i].seen <= now /\ Dated(rows'[i])
              /\ rows[i] # None => rows[i].seen <= rows'[i].seen,
           HandlerDated(r)'
    PROVE  DeadlineInv'
<1>1. RowsDated'
    BY DEF RowsDated, Dated
<1>2. ASSUME NEW s \in Request \ {r}
      PROVE  HandlerDated(s)'
  <2>1. HandlerDated(s) /\ req[s] \in Handler /\ Stage(s)
      BY DEF DeadlineInv, HandlersDated, OwnershipInv, TypeOK, Stages
  <2>2. CASE req[s].pc = "check"
    <3> DEFINE c == req[s].cookie
    <3>1. c \in SessionId /\ owner[c] # None /\ req[s].row \in Row
        BY <2>1, <2>2
        DEF Stage, Handler, DeadlineInv, OwnershipInv, CookiesIssued, Issued
    <3>2. rows'[c] # None => rows[c] # None
        BY <3>1, OverStep DEF DeadlineInv, Over
    <3>3. /\ rows[c] # None => rows[c] \in Row
          /\ rows'[c] # None => rows'[c] \in Row
        BY <3>1 DEF DeadlineInv, OwnershipInv, TypeOK
    <3>4. /\ Dated(req[s].row)
          /\ rows[c] # None => req[s].row.seen <= rows[c].seen
        BY <2>1, <2>2 DEF HandlerDated
    <3>5. rows'[c] # None => req[s].row.seen <= rows'[c].seen
        BY <3>1, <3>2, <3>3, <3>4 DEF Row
    <3> QED
        BY <2>2, <3>4, <3>5 DEF HandlerDated, Dated
  <2>3. CASE req[s].pc # "check"
      BY <2>1, <2>3 DEF HandlerDated, Clock
  <2> QED
      BY <2>2, <2>3
<1> QED
    BY <1>1, <1>2 DEF DeadlineInv, HandlersDated

\* DeadlineInv holds at the start and is kept by every step.
LEMMA DeadlineInductive ==
    /\ Init => DeadlineInv
    /\ DeadlineInv /\ [Next]_vars => DeadlineInv'
<1>1. ASSUME Init
      PROVE  DeadlineInv
    BY <1>1, OwnershipInductive
    DEF Init, DeadlineInv, RowsDated, HandlersDated, HandlerDated, Quiet
<1> SUFFICES ASSUME DeadlineInv, [Next]_vars
             PROVE  DeadlineInv'
    BY <1>1
<1>2. /\ OwnershipInv /\ OwnershipInv' /\ now \in Int
      /\ \A r \in Request : req[r] \in Handler
      /\ \A i \in SessionId : rows[i] # None =>
           rows[i] \in Row /\ rows[i].seen <= now /\ Dated(rows[i])
    BY OwnershipInductive DEF DeadlineInv, OwnershipInv, TypeOK, RowsDated
<1>3. CASE UNCHANGED vars
    BY <1>2, <1>3
    DEF vars, DeadlineInv, RowsDated, HandlersDated, HandlerDated, Dated, Clock
<1>4. ASSUME NEW r \in Request, Arrive(r)
      PROVE  DeadlineInv'
  <2>1. UNCHANGED <<rows, owner, jar, now>>
      BY <1>4 DEF Arrive, StartResolve, StartLogout, StartLogin
  <2>2. HandlerDated(r)' /\ \A s \in Request \ {r} : req'[s] = req[s]
    <3>1. /\ \A s \in Request \ {r} : req'[s] = req[s]
          /\ req'[r].pc # "check"
          /\ req'[r].pc = "insert" => req'[r].row.expires = Clock(r) + Absolute
      <4>1. PICK b \in Browser :
              \/ StartResolve(r, b) \/ StartLogout(r, b)
              \/ \E u \in User : StartLogin(r, b, u)
          BY <1>4 DEF Arrive
      <4>2. CASE StartResolve(r, b)
          BY <1>2, <4>2 DEF StartResolve, Quiet, OwnershipInv, TypeOK
      <4>3. CASE StartLogout(r, b)
          BY <1>2, <4>3 DEF StartLogout, Quiet, OwnershipInv, TypeOK
      <4>4. ASSUME NEW u \in User, StartLogin(r, b, u)
            PROVE  /\ \A s \in Request \ {r} : req'[s] = req[s]
                   /\ req'[r].pc # "check"
                   /\ req'[r].pc = "insert"
                        => req'[r].row.expires = Clock(r) + Absolute
          BY <1>2, <4>4 DEF StartLogin, Quiet, OwnershipInv, TypeOK
      <4> QED
          BY <4>1, <4>2, <4>3, <4>4
    <3>2. Clock(r)' = Clock(r) /\ Clock(r) + Absolute \in Int
        BY <1>2, <2>1, ClockAssumption, TimeoutsAssumption DEF Clock
    <3> QED
        BY <3>1, <3>2 DEF HandlerDated
  <2> QED
      BY <1>2, <2>1, <2>2, DatedStep DEF Row
<1>5. ASSUME NEW r \in Request, Insert(r)
      PROVE  DeadlineInv'
  <2>1. PICK i \in SessionId, o \in Outcome :
          /\ owner[i] = None
          /\ rows' = IF o.done
                     THEN [rows EXCEPT ![i] = [req[r].row EXCEPT !.created = now,
                                                                 !.seen = now]]
                     ELSE rows
          /\ Reply(r, None, IF o.ok THEN {i} ELSE {})
      BY <1>5 DEF Insert
  <2> DEFINE row == [req[r].row EXCEPT !.created = now, !.seen = now]
  <2>2. /\ req[r].row \in Row
        /\ req[r].row.expires <= Clock(r) + Absolute
      BY <1>2, <1>5
      DEF Insert, DeadlineInv, HandlersDated, HandlerDated, Handler,
          OwnershipInv, Stages, Stage
  <2>3. row.seen = now /\ row.created = now /\ row.expires <= now + Skew[r] + Absolute
      BY <2>2 DEF Row, Clock
  <2>4. Dated(row) /\ row.seen <= now
      BY <1>2, <2>3 DEF Dated
  <2>5. rows[i] = None
      BY <1>2, <2>1, NoneAssumption DEF OwnershipInv, RowsOwned, TypeOK, Row
  <2>6. HandlerDated(r)' /\ \A s \in Request \ {r} : req'[s] = req[s]
      BY <1>2, <2>1 DEF Reply, HandlerDated, OwnershipInv, TypeOK, Handler
  <2>7. \A j \in SessionId : rows'[j] # None =>
           /\ rows'[j].seen <= now /\ Dated(rows'[j])
           /\ rows[j] # None => rows[j].seen <= rows'[j].seen
    <3> SUFFICES ASSUME NEW j \in SessionId, rows'[j] # None
                 PROVE  /\ rows'[j].seen <= now /\ Dated(rows'[j])
                        /\ rows[j] # None => rows[j].seen <= rows'[j].seen
        OBVIOUS
    <3>1. CASE rows'[j] = rows[j]
        BY <1>2, <3>1 DEF Row
    <3>2. CASE j = i /\ rows'[i] = row
        BY <2>4, <2>5, <3>2
    <3> HIDE DEF row
    <3> QED
        BY <1>2, <2>1, <3>1, <3>2 DEF OwnershipInv, TypeOK, row
  <2> QED
      BY <1>2, <1>5, <2>6, <2>7, DatedStep DEF Insert
<1>6. ASSUME NEW r \in Request, Get(r) \/ Check(r)
      PROVE  DeadlineInv'
  <2>1. UNCHANGED <<rows, owner, jar, now>>
      BY <1>6 DEF Get, Check
  <2>2. \A s \in Request \ {r} : req'[s] = req[s]
      BY <1>2, <1>6 DEF Get, Check, Reply, OwnershipInv, TypeOK
  <2>3. \A i \in SessionId : rows[i] # None => rows[i].seen <= rows[i].seen
      BY <1>2 DEF Row
  <2>4. HandlerDated(r)'
    <3>1. CASE req'[r].pc \notin {"insert", "check"}
        BY <3>1 DEF HandlerDated
    <3>2. CASE req'[r].pc \in {"insert", "check"}
      <4>1. req[r].cookie \in SessionId
          BY <1>2, <1>6 DEF Get, Check, OwnershipInv, Stages, Stage, Handler
      <4>2. /\ req'[r].pc = "check" /\ req'[r].cookie = req[r].cookie
            /\ req'[r].row = rows[req[r].cookie] /\ rows[req[r].cookie] # None
        <5>1. CASE Get(r)
          <6> DEFINE row == rows[req[r].cookie]
          <6>1. CASE Reply(r, None, {})
              BY <1>2, <3>2, <6>1 DEF Reply, OwnershipInv, TypeOK, Handler
          <6>2. CASE row # None /\ req' = [req EXCEPT ![r] =
                         [@ EXCEPT !.pc = "check", !.row = row]]
              BY <1>2, <6>2 DEF OwnershipInv, TypeOK, Handler
          <6> QED
              BY <5>1, <6>1, <6>2 DEF Get
        <5>2. CASE Check(r)
          <6>1. req'[r].pc \in {"delete", "touch"}
              BY <1>2, <5>2 DEF Check, OwnershipInv, TypeOK, Handler
          <6> QED
              BY <3>2, <6>1
        <5> QED
            BY <1>6, <5>1, <5>2
      <4> QED
          BY <1>2, <2>1, <2>3, <4>1, <4>2 DEF HandlerDated, Dated
    <3> QED
        BY <3>1, <3>2
  <2> QED
      BY <1>2, <2>1, <2>2, <2>3, <2>4, DatedStep
<1>7. ASSUME NEW r \in Request, DeleteExpired(r) \/ Touch(r) \/ Destroy(r)
      PROVE  DeadlineInv'
  <2>1. /\ now' = now
        /\ req'[r].pc = "reply" /\ \A s \in Request \ {r} : req'[s] = req[s]
    <3>1. req \in [Request -> Handler]
        BY <1>2 DEF OwnershipInv, TypeOK
    <3>2. ASSUME NEW u, NEW set, Reply(r, u, set)
          PROVE  req'[r].pc = "reply" /\ \A s \in Request \ {r} : req'[s] = req[s]
        BY <3>1, <3>2 DEF Reply, Handler
    <3>3. now' = now
        BY <1>7 DEF DeleteExpired, Touch, Destroy
    <3>4. \/ Reply(r, None, {})
          \/ Reply(r, req[r].user, {})
          \/ Reply(r, None, {None})
        BY <1>7 DEF DeleteExpired, Touch, Destroy
    <3> QED
        BY <3>2, <3>3, <3>4
  <2>2. HandlerDated(r)'
      BY <2>1 DEF HandlerDated
  <2>3. ASSUME NEW i \in SessionId, rows'[i] # None
        PROVE  /\ rows'[i].seen <= now /\ Dated(rows'[i])
               /\ rows[i] # None => rows[i].seen <= rows'[i].seen
    <3>1. \/ rows'[i] = rows[i]
          \/ rows[i] # None /\ rows'[i] = [rows[i] EXCEPT !.seen = now]
        BY <1>2, <1>7, <2>3
        DEF DeleteExpired, Touch, Destroy, OwnershipInv, TypeOK
    <3> QED
        BY <1>2, <2>3, <3>1 DEF Dated, Row
  <2> QED
      BY <1>2, <1>7, <2>1, <2>2, <2>3, DatedStep
<1>8. ASSUME NEW r \in Request, Deliver(r) \/ Abandon(r)
      PROVE  DeadlineInv'
  <2>1. /\ rows' = rows /\ now' = now /\ req'[r] = Quiet
        /\ \A s \in Request \ {r} : req'[s] = req[s]
      BY <1>8 DEF Deliver, Abandon, DeadlineInv, OwnershipInv, TypeOK
  <2>2. HandlerDated(r)'
      BY <2>1 DEF HandlerDated, Quiet
  <2>3. \A i \in SessionId : rows[i] # None => rows[i].seen <= rows[i].seen
      BY <1>2 DEF Row
  <2> QED
      BY <1>2, <1>8, <2>1, <2>2, <2>3, DatedStep
<1>9. ASSUME NEW b \in Browser, Forget(b)
      PROVE  DeadlineInv'
    BY <1>2, <1>9
    DEF Forget, DeadlineInv, RowsDated, HandlersDated, HandlerDated, Dated, Clock
<1>10. CASE Tick
  <2>1. now' = now + 1 /\ rows' = rows /\ req' = req
      BY <1>10 DEF Tick
  <2>2. RowsDated'
      BY <1>2, <2>1 DEF RowsDated, Dated, Row
  <2>3. ASSUME NEW r \in Request
        PROVE  HandlerDated(r)'
    <3>1. HandlerDated(r) /\ Skew[r] \in Int /\ Absolute \in Nat
        BY ClockAssumption, TimeoutsAssumption DEF DeadlineInv, HandlersDated
    <3>2. req[r].pc = "insert" => req[r].row \in Row
        BY <1>2 DEF OwnershipInv, Stages, Stage, Handler
    <3> QED
        BY <1>2, <2>1, <3>1, <3>2 DEF HandlerDated, Dated, Clock, Row
  <2> QED
      BY <1>2, <2>2, <2>3 DEF DeadlineInv, HandlersDated
<1> QED
    BY <1>3, <1>4, <1>5, <1>6, <1>7, <1>8, <1>9, <1>10 DEF Next, Serve

\* Every deadline descends from a creation, every copy from a row.
THEOREM Deadlines == Spec => []DeadlineInv
    BY DeadlineInductive, PTL DEF Spec

\* What Check knows when it lets a request through.
LEMMA AcceptStep ==
    ASSUME DeadlineInv, [Next]_vars, NEW r \in Request, Accepts(r)
    PROVE  /\ req[r].row \in Row /\ Dated(req[r].row) /\ now \in Int
           /\ Clock(r) <= req[r].row.expires
           /\ Clock(r) <= req[r].row.seen + Idle
           /\ req[r].cookie \in SessionId
           /\ rows[req[r].cookie] # None
                => /\ rows[req[r].cookie] \in Row
                   /\ req[r].row.seen <= rows[req[r].cookie].seen
<1>1. /\ req[r].pc = "check" /\ req'[r].pc = "touch"
      /\ req[r] \in Handler /\ Stage(r) /\ HandlerDated(r) /\ now \in Int
    BY DEF Accepts, DeadlineInv, OwnershipInv, TypeOK, Stages, HandlersDated
<1>2. Check(r)
  <2>1. ASSUME NEW s \in Request, s # r,
               Arrive(s) \/ Serve(s) \/ Deliver(s) \/ Abandon(s)
        PROVE  req'[r] = req[r]
      BY <2>1
      DEF Arrive, StartResolve, StartLogout, StartLogin, Serve, Insert, Get,
          Check, DeleteExpired, Touch, Destroy, Reply, Deliver, Abandon,
          DeadlineInv, OwnershipInv, TypeOK
  <2>2. Arrive(r) \/ Serve(r) \/ Deliver(r) \/ Abandon(r)
      BY <1>1, <2>1 DEF Next, vars, Forget, Tick
  <2>3. ~Arrive(r) /\ ~Deliver(r)
      BY <1>1 DEF Arrive, StartResolve, StartLogout, StartLogin, Deliver
  <2>4. ~Abandon(r)
      BY <1>1 DEF Abandon, Quiet, DeadlineInv, OwnershipInv, TypeOK
  <2> QED
      BY <1>1, <2>2, <2>3, <2>4
      DEF Serve, Insert, Get, DeleteExpired, Touch, Destroy
<1>3. ~Expired(req[r].row, Clock(r))
    BY <1>1, <1>2 DEF Check, DeadlineInv, OwnershipInv, TypeOK, Handler
<1>4. req[r].row \in Row /\ req[r].cookie \in SessionId
    BY <1>1 DEF Stage, Handler
<1>5. Clock(r) \in Int /\ Idle \in Nat
    BY <1>1, ClockAssumption, TimeoutsAssumption DEF Clock
<1> QED
    BY <1>1, <1>3, <1>4, <1>5
    DEF Expired, HandlerDated, Row, DeadlineInv, OwnershipInv, TypeOK

\* No request is let through later than Absolute after the session's creation,
\* give or take the difference of two replicas' clocks.
THEOREM AbsoluteHolds == Spec => AbsoluteLifetime
<1>1. ASSUME DeadlineInv, [Next]_vars, NEW r \in Request, Accepts(r)
      PROVE  now <= req[r].row.created + Absolute + Drift
  <2>1. PICK s \in Request :
          req[r].row.expires <= req[r].row.created + Skew[s] + Absolute
      BY <1>1, AcceptStep DEF Dated
  <2>2. /\ req[r].row \in Row /\ now \in Int
        /\ now + Skew[r] <= req[r].row.expires
      BY <1>1, AcceptStep DEF Clock
  <2>3. /\ Skew[s] - Skew[r] <= Drift
        /\ Skew[s] \in Int /\ Skew[r] \in Int /\ Drift \in Nat /\ Absolute \in Nat
      BY ClockAssumption, TimeoutsAssumption
  <2> QED
      BY <2>1, <2>2, <2>3 DEF Row
<1>2. DeadlineInv /\ [Next]_vars
        => [\A r \in Request : Accepts(r) =>
              now <= req[r].row.created + Absolute + Drift]_vars
    BY <1>1
<1> QED
    BY <1>2, Deadlines, PTL DEF Spec, AbsoluteLifetime

\* No request is let through unless some request used the session within Idle.
THEOREM IdleHolds == Spec => IdleLifetime
<1>1. ASSUME DeadlineInv, [Next]_vars, NEW r \in Request, Accepts(r),
             rows[req[r].cookie] # None
      PROVE  Clock(r) <= rows[req[r].cookie].seen + Idle
  <2>1. Clock(r) \in Int /\ Idle \in Nat
      BY <1>1, AcceptStep, ClockAssumption, TimeoutsAssumption DEF Clock
  <2> QED
      BY <1>1, <2>1, AcceptStep DEF Row
<1>2. DeadlineInv /\ [Next]_vars
        => [\A r \in Request : Accepts(r) /\ rows[req[r].cookie] # None =>
              Clock(r) <= rows[req[r].cookie].seen + Idle]_vars
    BY <1>1
<1> QED
    BY <1>2, Deadlines, PTL DEF Spec, IdleLifetime

-----------------------------------------------------------------------------
(* The refinement: Sessions implements SessionLedger.  Every step of a      *)
(* handler is a step of the ledger or leaves the ledger unchanged.          *)

\* The ledger's open sessions and the requests it sees.
Live == {i \in SessionId : rows[i] # None}
Asks == [r \in Request |-> Asked(r)]

\* The ledger sees a handler's request, and what it may be answered with, in
\* the same way as long as that handler does not move.
LEMMA SameAsk ==
    ASSUME OwnershipInv, [Next]_vars, NEW s \in Request, req'[s] = req[s]
    PROVE  Asked(s)' = Asked(s)
<1>1. req[s].cookie # None => owner'[req[s].cookie] = owner[req[s].cookie]
  <2>1. req[s] \in Handler
      BY DEF OwnershipInv, TypeOK
  <2>2. req[s].cookie # None => owner[req[s].cookie] # None
      BY <2>1 DEF OwnershipInv, CookiesIssued, Issued, Handler
  <2>3. \/ owner' = owner
        \/ \E i \in SessionId : \E u : /\ owner[i] = None
                                       /\ owner' = [owner EXCEPT ![i] = u]
      BY DEF Next, Serve, vars, Arrive, StartResolve, StartLogout, StartLogin,
         Insert, Get, Check, DeleteExpired, Touch, Destroy, Deliver, Abandon,
         Forget, Tick
  <2> QED
      BY <2>1, <2>2, <2>3 DEF OwnershipInv, TypeOK, Handler
<1> QED
    BY <1>1 DEF Asked

\* Only handler r moves, and the ledger sees its request change from None or
\* a record to x.
LEMMA OneAsk ==
    ASSUME OwnershipInv, [Next]_vars, NEW r \in Request,
           \A s \in Request \ {r} : req'[s] = req[s],
           NEW x, Asked(r)' = x
    PROVE  Asks' = [Asks EXCEPT ![r] = x]
<1>1. \A s \in Request \ {r} : Asked(s)' = Asked(s)
    BY SameAsk
<1> QED
    BY <1>1 DEF Asks

\* What the ledger sees of a request that presents a session id.
LEMMA AskOf ==
    ASSUME OwnershipInv, NEW r \in Request,
           req[r].op = "resolve", req[r].pc # "idle", req[r].cookie # None
    PROVE  /\ Asked(r) = [id |-> req[r].cookie,
                          may |-> IF req[r].late THEN {}
                                  ELSE {owner[req[r].cookie]},
                          said |-> IF req[r].pc = "reply" THEN {req[r].user}
                                   ELSE {}]
           /\ Asked(r) # None
<1>1. /\ req[r] \in Handler /\ req[r].cookie \in SessionId
      /\ owner[req[r].cookie] \in User
    BY DEF OwnershipInv, TypeOK, Handler, CookiesIssued, Issued
<1>2. req[r].user \in User \cup {None}
    BY <1>1 DEF Handler
<1>3. Asked(r) = [id |-> req[r].cookie,
                  may |-> IF req[r].late THEN {} ELSE {owner[req[r].cookie]},
                  said |-> IF req[r].pc = "reply" THEN {req[r].user} ELSE {}]
    BY DEF Asked
<1>4. Asked(r) \in Ledger!Ask
    BY <1>1, <1>2, <1>3 DEF Ledger!Ask
<1> QED
    BY <1>3, <1>4, NoAskAssumption

-----------------------------------------------------------------------------

\* A request that presents a cookie for Resolve begins at the ledger; others are no
\* step of it.
LEMMA LedgerArrive ==
    ASSUME OwnershipInv, [Next]_vars, NEW r \in Request, Arrive(r)
    PROVE  [Ledger!Next]_(Ledger!ledgerVars)
<1>1. PICK b \in Browser : \/ StartResolve(r, b) \/ StartLogout(r, b)
                           \/ \E u \in User : StartLogin(r, b, u)
    BY DEF Arrive
<1>2. /\ rows' = rows /\ owner' = owner /\ req[r].pc = "idle"
      /\ \A s \in Request \ {r} : req'[s] = req[s]
    BY <1>1 DEF StartResolve, StartLogout, StartLogin, OwnershipInv, TypeOK
<1>3. Asked(r) = None /\ Asks[r] = None
    BY <1>2 DEF Asked, Asks
<1>4. CASE StartResolve(r, b) /\ jar[b] # None
  <2> DEFINE i == jar[b]
             x == [id |-> i, may |-> IF i \in Live THEN {owner[i]} ELSE {},
                   said |-> {}]
  <2>1. i \in SessionId /\ owner[i] # None
      BY <1>4 DEF OwnershipInv, TypeOK, CookiesIssued, Issued
  <2>2. /\ req'[r].op = "resolve" /\ req'[r].pc = "get" /\ req'[r].cookie = i
        /\ req'[r].late <=> Over(i)
    <3>1. req'[r] = [Quiet EXCEPT
                       !.pc = IF jar[b] = None THEN "reply" ELSE "get",
                       !.browser = b, !.cookie = jar[b],
                       !.late = jar[b] # None /\ Over(jar[b])]
        BY <1>4 DEF StartResolve, OwnershipInv, TypeOK
    <3>2. req'[r].late = (jar[b] # None /\ Over(jar[b]))
        BY <3>1 DEF Quiet
    <3>3. req'[r].late <=> Over(i)
        BY <1>4, <3>2
    <3>4. /\ req'[r].op = "resolve" /\ req'[r].pc = "get"
          /\ req'[r].cookie = i
        BY <1>4, <3>1 DEF Quiet
    <3> QED
        BY <3>3, <3>4
  <2>3. Asked(r)' = x
    <3>1. owner'[i] = owner[i] /\ (Over(i) <=> i \notin Live)
        BY <1>2, <2>1 DEF Over, Live
    <3> QED
        BY <1>4, <2>2, <3>1 DEF Asked
  <2>4. Asks' = [Asks EXCEPT ![r] = x]
      BY <1>2, <2>3, OneAsk
  <2>5. Ledger!Begin(r, i)
      BY <1>2, <1>3, <2>1, <2>4 DEF Ledger!Begin, Asks, Live
  <2> QED
      BY <2>1, <2>5 DEF Ledger!Next
<1>5. CASE ~(StartResolve(r, b) /\ jar[b] # None)
  <2>1. req'[r].op # "resolve" \/ req'[r].cookie = None
    <3>1. CASE StartResolve(r, b)
        BY <1>5, <3>1 DEF StartResolve, Quiet, OwnershipInv, TypeOK
    <3>2. CASE StartLogout(r, b)
        BY <3>2 DEF StartLogout, Quiet, OwnershipInv, TypeOK
    <3>3. ASSUME NEW u \in User, StartLogin(r, b, u)
          PROVE  req'[r].op # "resolve"
        BY <3>3 DEF StartLogin, Quiet, OwnershipInv, TypeOK
    <3> QED
        BY <1>1, <3>1, <3>2, <3>3
  <2>2. Asked(r)' = None
      BY <2>1 DEF Asked
  <2>3. Asks' = Asks
      BY <1>2, <1>3, <2>2, OneAsk DEF Asks
  <2> QED
      BY <1>2, <2>3 DEF Ledger!ledgerVars, Asks
<1> QED
    BY <1>4, <1>5

\* An insert that is done opens a session; one that fails is no step.
LEMMA LedgerInsert ==
    ASSUME OwnershipInv, [Next]_vars, NEW r \in Request, Insert(r)
    PROVE  [Ledger!Next]_(Ledger!ledgerVars)
<1>1. /\ req[r] \in Handler /\ req[r].op = "login" /\ req[r].pc = "insert"
      /\ req[r].row \in Row /\ req[r].row.user \in User
    BY DEF Insert, OwnershipInv, TypeOK, Handler, Stages, Stage, Row
<1>2. PICK i \in SessionId, o \in Outcome :
        /\ owner[i] = None
        /\ rows' = IF o.done
                   THEN [rows EXCEPT ![i] = [req[r].row EXCEPT !.created = now,
                                                               !.seen = now]]
                   ELSE rows
        /\ owner' = IF o.done THEN [owner EXCEPT ![i] = req[r].row.user]
                              ELSE owner
        /\ Reply(r, None, IF o.ok THEN {i} ELSE {})
    BY DEF Insert
<1>3. /\ \A s \in Request \ {r} : req'[s] = req[s]
      /\ req'[r].op = "login"
    BY <1>1, <1>2 DEF Reply, OwnershipInv, TypeOK, Handler
<1>4. Asked(r) = None /\ Asked(r)' = None
    BY <1>1, <1>3 DEF Asked
<1>5. Asks' = Asks
    BY <1>3, <1>4, OneAsk DEF Asks
<1>6. CASE o.done
  <2>1. rows'[i] # None
    <3>1. [req[r].row EXCEPT !.created = now, !.seen = now] \in Row
        BY <1>1 DEF Row, OwnershipInv, TypeOK
    <3> QED
        BY <1>2, <1>6, <3>1, NoneAssumption DEF OwnershipInv, TypeOK
  <2>2. Live' = Live \cup {i}
      BY <1>2, <1>6, <2>1 DEF Live, OwnershipInv, TypeOK
  <2>3. PICK u \in User : u = req[r].row.user
      BY <1>1
  <2>4. Ledger!Open(i, u)
      BY <1>2, <1>5, <1>6, <2>2, <2>3 DEF Ledger!Open, Live, Asks
  <2> QED
      BY <2>4 DEF Ledger!Next
<1>7. CASE ~o.done
    BY <1>2, <1>5, <1>7 DEF Ledger!ledgerVars, Asks
<1> QED
    BY <1>6, <1>7

\* Resolve gives its answer: a step that leaves the table alone as far as the
\* ledger can tell, or deletes the row of the cookie and denies.
LEMMA LedgerAnswer ==
    ASSUME OwnershipInv, [Next]_vars, NEW r \in Request, owner' = owner,
           req[r].pc \in {"get", "delete", "touch"},
           NEW u \in {req[r].user, None}, Reply(r, u, {}),
           \/ Live' = Live
           \/ u = None /\ Live' = Live \ {req[r].cookie}
    PROVE  [Ledger!Next]_(Ledger!ledgerVars)
<1>1. /\ req[r] \in Handler /\ req[r].op = "resolve" /\ req[r].cookie # None
      /\ req[r].pc \notin {"idle", "reply"} /\ u \in User \cup {None}
      /\ u # None => u = owner[req[r].cookie] /\ ~req[r].late
    BY DEF OwnershipInv, TypeOK, Handler, Stages, Stage
<1>2. /\ req'[r] = [req[r] EXCEPT !.pc = "reply", !.row = None, !.user = u,
                                  !.set = {}]
      /\ \A s \in Request \ {r} : req'[s] = req[s]
    BY DEF Reply, OwnershipInv, TypeOK
<1> DEFINE may == IF req[r].late THEN {} ELSE {owner[req[r].cookie]}
<1>3. /\ Asked(r) = [id |-> req[r].cookie, may |-> may, said |-> {}]
      /\ Asked(r) # None
    BY <1>1, AskOf
<1>4. Asked(r)' = [id |-> req[r].cookie, may |-> may, said |-> {u}]
  <2>1. /\ req'[r].op = "resolve" /\ req'[r].pc = "reply"
        /\ req'[r].cookie = req[r].cookie /\ req'[r].late = req[r].late
        /\ req'[r].user = u
      BY <1>1, <1>2 DEF Handler
  <2> QED
      BY <1>1, <2>1 DEF Asked
<1>5. Asks' = [Asks EXCEPT ![r] =
                 [id |-> req[r].cookie, may |-> may, said |-> {u}]]
    BY <1>2, <1>4, OneAsk
<1>6. u \in may \cup {None}
    BY <1>1
<1>7. /\ Asks[r] = [id |-> req[r].cookie, may |-> may, said |-> {}]
      /\ Asks[r] # None
    BY <1>3 DEF Asks
<1> HIDE DEF may
<1>8. Asks' = [Asks EXCEPT ![r].said = {u}]
  <2>1. [Asks[r] EXCEPT !.said = {u}]
          = [id |-> req[r].cookie, may |-> may, said |-> {u}]
      BY <1>7
  <2> QED
      BY <1>5, <2>1
<1>9. Ledger!Answer(r, u)
    BY <1>6, <1>7, <1>8 DEF Ledger!Answer, Asks
<1>10. CASE Live' = Live
  <2>1. Ledger!Serve(r, u)
      BY <1>9, <1>10 DEF Ledger!Serve, Live
  <2> QED
      BY <1>1, <2>1 DEF Ledger!Next
<1>11. CASE u = None /\ Live' = Live \ {req[r].cookie}
  <2>1. Ledger!Expire(r)
      BY <1>7, <1>9, <1>11 DEF Ledger!Expire, Live, Asks
  <2> QED
      BY <2>1 DEF Ledger!Next
<1> QED
    BY <1>10, <1>11

\* Resolve's steps are unseen until it answers; a failed or expired one is denied, and
\* the deletion of an expired row closes the session.
LEMMA LedgerResolve ==
    ASSUME OwnershipInv, [Next]_vars, NEW r \in Request,
           Get(r) \/ Check(r) \/ DeleteExpired(r) \/ Touch(r)
    PROVE  [Ledger!Next]_(Ledger!ledgerVars)
<1>1. /\ req[r] \in Handler /\ req[r].op = "resolve" /\ req[r].cookie # None
      /\ req[r].cookie \in SessionId /\ owner' = owner
      /\ req[r].user \in User \cup {None}
    BY DEF Get, Check, DeleteExpired, Touch, OwnershipInv, TypeOK, Handler,
           Stages, Stage
\* The row was found, or the clock was read: nothing the ledger sees.
<1>2. ASSUME rows' = rows, \A s \in Request \ {r} : req'[s] = req[s],
             req[r].pc \in {"get", "check"},
             req'[r].pc \in {"check", "delete", "touch"},
             req'[r].op = req[r].op, req'[r].cookie = req[r].cookie,
             req'[r].late = req[r].late
      PROVE  [Ledger!Next]_(Ledger!ledgerVars)
  <2>1. Asked(r)' = Asked(r)
      BY <1>1, <1>2 DEF Asked
  <2>2. Asks' = Asks
      BY <1>2, <2>1, OneAsk DEF Asks
  <2> QED
      BY <1>1, <1>2, <2>2 DEF Ledger!ledgerVars, Asks
<1>3. CASE Get(r)
  <2>1. CASE Reply(r, None, {})
      BY <1>1, <1>3, <2>1, LedgerAnswer DEF Get, Live
  <2>2. CASE req' = [req EXCEPT ![r] = [@ EXCEPT !.pc = "check",
                                                 !.row = rows[req[r].cookie]]]
      BY <1>1, <1>2, <1>3, <2>2 DEF Get, OwnershipInv, TypeOK, Handler
  <2> QED
      BY <1>3, <2>1, <2>2 DEF Get
<1>4. CASE Check(r)
    BY <1>1, <1>2, <1>4 DEF Check, OwnershipInv, TypeOK, Handler
<1>5. CASE DeleteExpired(r)
  <2>1. Live' = Live \/ Live' = Live \ {req[r].cookie}
      BY <1>1, <1>5 DEF DeleteExpired, Live, OwnershipInv, TypeOK
  <2> QED
      BY <1>1, <1>5, <2>1, LedgerAnswer DEF DeleteExpired
<1>6. CASE Touch(r)
  <2>1. \/ rows' = rows
        \/ /\ rows[req[r].cookie] # None
           /\ rows' = [rows EXCEPT ![req[r].cookie].seen = now]
      BY <1>6 DEF Touch
  <2>2. rows' \in [SessionId -> Row \cup {None}]
      BY <1>6, OwnershipInductive DEF OwnershipInv, TypeOK
  <2>3. \A i \in SessionId : rows'[i] = None <=> rows[i] = None
    <3>1. CASE rows' = rows
        BY <3>1
    <3>2. CASE /\ rows[req[r].cookie] # None
               /\ rows' = [rows EXCEPT ![req[r].cookie].seen = now]
      <4>1. rows'[req[r].cookie] \in Row
          BY <1>1, <3>2 DEF OwnershipInv, TypeOK, Row
      <4>2. rows'[req[r].cookie] # None
          BY <4>1, NoneAssumption
      <4> QED
          BY <1>1, <3>2, <4>2 DEF OwnershipInv, TypeOK
    <3> QED
        BY <2>1, <3>1, <3>2
  <2>4. Live' = Live
      BY <2>3 DEF Live
  <2> QED
      BY <1>1, <1>6, <2>4, LedgerAnswer DEF Touch
<1> QED
    BY <1>3, <1>4, <1>5, <1>6

\* Destroy's delete closes the session it names, if it gets so far.
LEMMA LedgerDestroy ==
    ASSUME OwnershipInv, [Next]_vars, NEW r \in Request, Destroy(r)
    PROVE  [Ledger!Next]_(Ledger!ledgerVars)
<1>1. /\ req[r] \in Handler /\ req[r].op = "logout" /\ owner' = owner
      /\ \A s \in Request \ {r} : req'[s] = req[s]
      /\ req'[r].op = "logout"
    BY DEF Destroy, Reply, OwnershipInv, TypeOK, Handler, Stages, Stage
<1>2. Asked(r) = None /\ Asked(r)' = None
    BY <1>1 DEF Asked
<1>3. Asks' = Asks
    BY <1>1, <1>2, OneAsk DEF Asks
<1>4. CASE rows' = rows
    BY <1>1, <1>3, <1>4 DEF Ledger!ledgerVars, Asks
<1>5. CASE /\ req[r].cookie # None
           /\ rows' = [rows EXCEPT ![req[r].cookie] = None]
  <2>1. PICK i \in SessionId : i = req[r].cookie
      BY <1>1, <1>5 DEF Handler
  <2>2. Live' = Live \ {i}
      BY <1>5, <2>1 DEF Live, OwnershipInv, TypeOK
  <2>3. Ledger!Close(i)
      BY <1>1, <1>3, <2>2 DEF Ledger!Close, Live, Asks
  <2> QED
      BY <2>3 DEF Ledger!Next
<1> QED
    BY <1>4, <1>5 DEF Destroy

\* A delivered answer or an abandoned request ends there.
LEMMA LedgerEnd ==
    ASSUME OwnershipInv, [Next]_vars, NEW r \in Request, Deliver(r) \/ Abandon(r)
    PROVE  [Ledger!Next]_(Ledger!ledgerVars)
<1>1. /\ rows' = rows /\ owner' = owner /\ req'[r] = Quiet
      /\ \A s \in Request \ {r} : req'[s] = req[s]
    BY DEF Deliver, Abandon, OwnershipInv, TypeOK
<1>2. Asked(r)' = None
    BY <1>1 DEF Asked, Quiet
<1>3. Asks' = [Asks EXCEPT ![r] = None]
    BY <1>1, <1>2, OneAsk
<1>4. CASE Asks[r] = None
  <2>1. Asks' = Asks
      BY <1>3, <1>4 DEF Asks
  <2> QED
      BY <1>1, <2>1 DEF Ledger!ledgerVars, Asks
<1>5. CASE Asks[r] # None
  <2>1. Ledger!End(r)
      BY <1>1, <1>3, <1>5 DEF Ledger!End, Asks
  <2> QED
      BY <2>1 DEF Ledger!Next
<1> QED
    BY <1>4, <1>5

\* Every step of the store is a step of the ledger or a stutter.
LEMMA LedgerStep ==
    OwnershipInv /\ [Next]_vars => [Ledger!Next]_(Ledger!ledgerVars)
<1> SUFFICES ASSUME OwnershipInv, [Next]_vars
             PROVE  [Ledger!Next]_(Ledger!ledgerVars)
    OBVIOUS
<1>1. CASE rows' = rows /\ owner' = owner /\ req' = req
  <2>1. \A r \in Request : Asked(r)' = Asked(r)
      BY <1>1, SameAsk
  <2> QED
      BY <1>1, <2>1 DEF Ledger!ledgerVars
<1> QED
    BY <1>1, LedgerArrive, LedgerInsert, LedgerResolve, LedgerDestroy, LedgerEnd
    DEF Next, Serve, vars, Forget, Tick

\* Resolve, Create and Destroy over a shared table, with faults and in any
\* interleaving, behave like a ledger of sessions that are opened and closed
\* once and consulted at one instant.
THEOREM SessionsImplementLedger == Spec => ImplementsLedger
<1>1. Init => Ledger!Init
    BY DEF Init, Ledger!Init, Asked, Quiet
<1> QED
    BY <1>1, LedgerStep, Ownership, PTL DEF Spec, ImplementsLedger, Ledger!Spec

-----------------------------------------------------------------------------
(* RefreshSession.  However refreshes, their retries, logouts and expiries *)
(* interleave, a login has one row and its newest token one holder.  That   *)
(* needs that an id descends from the login its row came from, that no      *)
(* token is ahead of the provider's, and what each stage of RefreshSession  *)
(* knows; and that its steps leave OwnershipInv of the other handlers       *)
(* standing.                                                                *)

\* Ids that were issued, and no others, descend from a login, whose id was issued.
Rooted ==
    \A i \in SessionId : /\ owner[i] # None <=> root[i] # None
                         /\ root[i] # None => owner[root[i]] # None

\* No stored token is ahead of the provider.
TokensIssued ==
    \A i \in SessionId :
        grant[i] # None => root[i] # None /\ grant[i] <= idp[root[i]]

\* What a stage of RefreshSession knows, in local state q.
RefSound(q) ==
    /\ q.pc # "idle" => /\ q.browser \in Browser /\ q.cookie \in SessionId
                        /\ owner[q.cookie] # None
    /\ q.pc \in {"exchange", "rotate"} =>
         q.token \in Nat /\ q.token <= idp[root[q.cookie]]
    /\ \A i \in q.set : owner[i] # None

RefsSound == \A r \in Request : RefSound(ref[r])

\* Row i, or handler r on its way to store it, has the newest token of its login.
Holds(i) == rows[i] # None /\ grant[i] = idp[root[i]]
Carries(r) == ref[r].pc = "rotate" /\ ref[r].token = idp[root[ref[r].cookie]]

OneHolder ==
    /\ \A i \in SessionId, r \in Request :
         Holds(i) /\ Carries(r) => root[i] # root[ref[r].cookie]
    /\ \A r, s \in Request :
         Carries(r) /\ Carries(s) /\ root[ref[r].cookie] = root[ref[s].cookie]
           => r = s

RefreshInv == /\ OwnershipInv /\ RefreshTypeOK
              /\ Rooted /\ TokensIssued /\ RefsSound
              /\ OneRowPerLogin /\ OneHolder

-----------------------------------------------------------------------------
(* The steps of RefreshSession.                                             *)

\* The invariant of Sessions asks of a step of RefreshSession only that ids keep
\* their owners, ended sessions stay ended, and the jars get issued ids.
LEMMA OwnershipKept ==
    ASSUME OwnershipInv, req' = req, now' = now,
           rows' \in [SessionId -> Row \cup {None}],
           owner' \in [SessionId -> User \cup {None}],
           RowsOwned',
           \A i \in SessionId : owner[i] # None => owner'[i] = owner[i],
           \A i \in SessionId : Over(i) => Over(i)',
           jar' \in [Browser -> SessionId \cup {None}],
           \A b \in Browser : jar'[b] = jar[b] \/ jar'[b] = None \/ owner'[jar'[b]] # None
    PROVE  OwnershipInv'
<1>1. TypeOK'
    BY DEF OwnershipInv, TypeOK
<1>2. CookiesIssued'
  <2> SUFFICES ASSUME NEW i \in Issued', i # None
               PROVE  owner'[i] # None
      BY DEF CookiesIssued
  <2>1. i \in SessionId
      BY <1>1 DEF Issued, TypeOK, Handler
  <2>2. CASE i \in Issued
      BY <2>1, <2>2 DEF OwnershipInv, CookiesIssued
  <2>3. CASE i \notin Issued
      BY <2>3 DEF Issued
  <2> QED
      BY <2>2, <2>3
<1>3. LateMeansOver'
    BY DEF OwnershipInv, TypeOK, Handler, LateMeansOver
<1>4. ASSUME NEW s \in Request
      PROVE  Stage(s)'
  <2>1. Stage(s) /\ req[s] \in Handler
      BY DEF OwnershipInv, TypeOK, Stages
  <2>2. req[s].cookie # None => owner'[req[s].cookie] = owner[req[s].cookie]
      BY <2>1 DEF OwnershipInv, CookiesIssued, Issued, Handler
  <2> QED
      BY <2>1, <2>2 DEF Stage
<1> QED
    BY <1>1, <1>2, <1>3, <1>4 DEF OwnershipInv, Stages

\* A step that changes what handler r knows and a jar at most.
LEMMA LocalStep ==
    ASSUME RefreshInv, OwnershipInv', NEW r \in Request, NEW q \in Refresher,
           ref' = [ref EXCEPT ![r] = q], RefSound(q), q.pc # "rotate",
           UNCHANGED <<rows, owner, root, grant, idp>>
    PROVE  RefreshInv'
<1>1. /\ ref'[r] = q
      /\ \A s \in Request \ {r} : ref'[s] = ref[s]
    BY DEF RefreshInv, RefreshTypeOK
<1>2. RefreshTypeOK'
    BY DEF RefreshInv, RefreshTypeOK, OwnershipInv
<1>3. Rooted' /\ TokensIssued' /\ OneRowPerLogin'
    BY DEF RefreshInv, Rooted, TokensIssued, OneRowPerLogin
<1>4. RefsSound'
    BY <1>1 DEF RefreshInv, RefsSound, RefSound
<1>5. OneHolder'
    BY <1>1 DEF RefreshInv, OneHolder, Holds, Carries
<1> QED
    BY <1>2, <1>3, <1>4, <1>5 DEF RefreshInv

\* The records of a RefreshSession.
LEMMA QuietIsSound ==
    QuietRefresh \in Refresher /\ RefSound(QuietRefresh) /\ QuietRefresh.pc = "idle"
  BY DEF QuietRefresh, Refresher, RefreshPc, RefSound

Starting(b, c) == [QuietRefresh EXCEPT !.pc = "get", !.browser = b, !.cookie = c]

\* A request as it arrives.
LEMMA StartingRefresh ==
    ASSUME NEW b \in Browser, NEW c \in SessionId
    PROVE  LET q == Starting(b, c) IN
           /\ q \in Refresher /\ q.pc = "get" /\ q.browser = b /\ q.cookie = c
           /\ q.set = {}
<1>1. Starting(b, c) \in Refresher
    BY QuietIsSound DEF Refresher, RefreshPc, Starting
<1> QED
    BY <1>1 DEF Starting, QuietRefresh

Replying(q, set) ==
    [q EXCEPT !.pc = "reply", !.token = None, !.expires = 0, !.set = set]

\* A reply keeps the browser and the cookie.
LEMMA ReplyingRefresh ==
    ASSUME NEW q \in Refresher, NEW set \in SUBSET SessionId
    PROVE  LET p == Replying(q, set) IN
           /\ p \in Refresher /\ p.pc = "reply" /\ p.set = set
           /\ p.browser = q.browser /\ p.cookie = q.cookie
<1>1. PICK z \in Int : z = 0
    OBVIOUS
<1>2. Replying(q, set) = [q EXCEPT !.pc = "reply", !.token = None, !.expires = z,
                                   !.set = set]
    BY <1>1 DEF Replying
<1>3. [q EXCEPT !.pc = "reply", !.token = None, !.expires = z, !.set = set] \in Refresher
    BY DEF Refresher, RefreshPc
<1> QED
    BY <1>2, <1>3 DEF Refresher, RefreshPc

\* A handler replies without having written anything.
LEMMA ReplyUnwritten ==
    ASSUME RefreshInv, NEW r \in Request, ref[r].pc # "idle", RefreshReply(r, {}),
           UNCHANGED <<vars, root, grant, idp>>
    PROVE  RefreshInv'
<1>1. ref[r] \in Refresher /\ RefSound(ref[r])
    BY DEF RefreshInv, RefreshTypeOK, RefsSound
<1>2. PICK q \in Refresher : q = Replying(ref[r], {})
    BY <1>1, ReplyingRefresh
<1>3. ref' = [ref EXCEPT ![r] = q]
    BY <1>2 DEF RefreshReply, Replying
<1>4. /\ q.pc = "reply" /\ q.set = {} /\ q.browser = ref[r].browser
      /\ q.cookie = ref[r].cookie
    BY <1>1, <1>2, ReplyingRefresh
<1>5. RefSound(q)
    BY <1>1, <1>4 DEF RefSound
<1>6. OwnershipInv'
    BY OwnershipInductive DEF RefreshInv
<1> QED
    BY <1>3, <1>4, <1>5, <1>6, LocalStep DEF vars

\* A refresh begins with the browser's own cookie.
LEMMA StartRefreshStep ==
    ASSUME RefreshInv, NEW r \in Request, NEW b \in Browser, StartRefresh(r, b)
    PROVE  RefreshInv'
<1>1. jar[b] \in SessionId /\ owner[jar[b]] # None
    BY DEF StartRefresh, RefreshInv, OwnershipInv, TypeOK, CookiesIssued, Issued
<1>c. PICK c \in SessionId : c = jar[b]
    BY <1>1
<1>2. PICK q \in Refresher : q = Starting(b, c)
    BY StartingRefresh
<1>3. q.pc = "get" /\ q.browser = b /\ q.cookie = jar[b] /\ q.set = {}
    BY <1>2, <1>c, StartingRefresh
<1>4. RefSound(q)
    BY <1>1, <1>3 DEF RefSound
<1>5. OwnershipInv'
    BY OwnershipInductive DEF RefreshInv, StartRefresh
<1> QED
    BY <1>2, <1>3, <1>4, <1>5, <1>c, LocalStep DEF StartRefresh, Starting, vars

\* Refresh takes the token from the row that it reads.
LEMMA GetForRefreshStep ==
    ASSUME RefreshInv, NEW r \in Request, GetForRefresh(r)
    PROVE  RefreshInv'
<1>1. /\ ref[r] \in Refresher /\ RefSound(ref[r]) /\ ref[r].pc = "get"
      /\ ref[r].cookie \in SessionId
    BY DEF RefreshInv, RefreshTypeOK, RefsSound, RefSound, GetForRefresh
<1>c. PICK c \in SessionId : c = ref[r].cookie
    BY <1>1
<1>2. CASE RefreshReply(r, {})
    BY <1>1, <1>2, ReplyUnwritten DEF GetForRefresh
<1>3. CASE /\ grant[c] # None
           /\ ref' = [ref EXCEPT ![r] = [@ EXCEPT !.pc = "exchange", !.token = grant[c]]]
  <2>1. grant[c] \in Nat /\ grant[c] <= idp[root[c]]
      BY <1>3 DEF RefreshInv, RefreshTypeOK, TokensIssued
  <2>2. PICK q \in Refresher : q = [ref[r] EXCEPT !.pc = "exchange", !.token = grant[c]]
      BY <1>1, <2>1 DEF Refresher, RefreshPc
  <2>3. /\ q.pc = "exchange" /\ q.token = grant[c] /\ q.set = ref[r].set
        /\ q.browser = ref[r].browser /\ q.cookie = c
      BY <1>1, <1>c, <2>2 DEF Refresher
  <2>4. RefSound(q)
      BY <1>1, <1>c, <2>1, <2>3 DEF RefSound
  <2>5. OwnershipInv'
      BY OwnershipInductive DEF RefreshInv, GetForRefresh
  <2> QED
      BY <1>3, <2>2, <2>3, <2>4, <2>5, LocalStep DEF GetForRefresh, vars
<1> QED
    BY <1>2, <1>3, <1>c DEF GetForRefresh

\* The provider takes a token and from now on accepts its successor only, which
\* handler r has, or nobody when the answer is lost.
LEMMA RotatedStep ==
    ASSUME RefreshInv, NEW r \in Request, NEW q \in Refresher,
           ref[r].pc = "exchange", NEW o \in SessionId, o = root[ref[r].cookie],
           ref[r].token = idp[o], idp' = [idp EXCEPT ![o] = idp[o] + 1],
           ref' = [ref EXCEPT ![r] = q], q.cookie = ref[r].cookie,
           q.browser = ref[r].browser, q.set \subseteq ref[r].set,
           \/ q.pc = "reply"
           \/ q.pc = "rotate" /\ q.token = ref[r].token + 1,
           UNCHANGED <<vars, root, grant>>
    PROVE  RefreshInv'
<1>1. /\ RefSound(ref[r]) /\ ref[r].cookie \in SessionId /\ owner[ref[r].cookie] # None
      /\ ref[r].token \in Nat
    BY DEF RefreshInv, RefreshTypeOK, RefsSound, RefSound
<1>3. /\ idp[o] \in Nat /\ idp'[o] = idp[o] + 1
      /\ \A p \in SessionId \ {o} : idp'[p] = idp[p]
    BY DEF RefreshInv, RefreshTypeOK
<1>4. /\ ref'[r] = q
      /\ \A s \in Request \ {r} : ref'[s] = ref[s]
    BY DEF RefreshInv, RefreshTypeOK
<1>5. OwnershipInv'
    BY OwnershipInductive DEF RefreshInv
<1>6. RefreshTypeOK'
    BY <1>3, <1>5 DEF RefreshInv, RefreshTypeOK, OwnershipInv
<1>7. /\ rows' = rows /\ owner' = owner /\ root' = root /\ grant' = grant
      /\ \A i \in SessionId : idp[i] \in Nat /\ idp'[i] \in Nat /\ idp[i] <= idp'[i]
    BY <1>3 DEF RefreshInv, RefreshTypeOK, vars
<1>8. \A i \in SessionId : /\ root[i] \in SessionId \cup {None}
                           /\ grant[i] \in Nat \cup {None}
                           /\ rows[i] # None => root[i] \in SessionId
  <2>1. \A i \in SessionId : rows[i] # None => owner[i] # None
      BY NoneAssumption DEF RefreshInv, OwnershipInv, RowsOwned, TypeOK, Row
  <2> QED
      BY <2>1 DEF RefreshInv, RefreshTypeOK, Rooted
<1>9. Rooted' /\ OneRowPerLogin'
    BY <1>7 DEF RefreshInv, Rooted, OneRowPerLogin
<1>10. TokensIssued'
  <2> SUFFICES ASSUME NEW i \in SessionId, grant[i] # None
               PROVE  root[i] # None /\ grant[i] <= idp'[root[i]]
      BY <1>7 DEF TokensIssued
  <2>1. root[i] # None /\ grant[i] <= idp[root[i]]
      BY DEF RefreshInv, TokensIssued
  <2> QED
      BY <1>7, <1>8, <2>1
<1>11. ASSUME NEW s \in Request, s # r, ref[s].pc \in {"exchange", "rotate"}
       PROVE  /\ ref[s].token \in Nat /\ root[ref[s].cookie] \in SessionId
              /\ ref[s].token <= idp[root[ref[s].cookie]]
  <2>1. RefSound(ref[s])
      BY DEF RefreshInv, RefsSound
  <2> QED
      BY <1>8, <1>11, <2>1 DEF RefSound, RefreshInv, Rooted
<1>12. RefsSound'
  <2> SUFFICES ASSUME NEW s \in Request
               PROVE  RefSound(ref[s])'
      BY DEF RefsSound
  <2>1. RefSound(ref[s])
      BY DEF RefreshInv, RefsSound
  <2>2. CASE s = r
      BY <1>1, <1>3, <1>4, <1>7, <2>2 DEF RefSound
  <2>3. CASE s # r
    <3>1. ref[s].pc \in {"exchange", "rotate"} => ref[s].token <= idp'[root[ref[s].cookie]]
        BY <1>7, <1>11, <2>3
    <3> QED
        BY <1>4, <1>7, <2>1, <2>3, <3>1 DEF RefSound
  <2> QED
      BY <2>2, <2>3
<1>13. \A i \in SessionId : Holds(i)' => Holds(i) /\ root[i] # o
  <2> SUFFICES ASSUME NEW i \in SessionId, Holds(i)'
               PROVE  Holds(i) /\ root[i] # o
      OBVIOUS
  <2>1. rows[i] # None /\ grant[i] = idp'[root[i]] /\ root[i] \in SessionId
      BY <1>7, <1>8 DEF Holds
  <2>2. grant[i] # None /\ grant[i] \in Nat
      BY <1>7, <2>1, TokenAssumption
  <2>3. grant[i] <= idp[root[i]]
      BY <2>2 DEF RefreshInv, TokensIssued
  <2>4. root[i] # o
      BY <1>3, <2>1, <2>2, <2>3
  <2> QED
      BY <1>3, <2>1, <2>4 DEF Holds
<1>14. \A s \in Request \ {r} : Carries(s)' => Carries(s) /\ root[ref[s].cookie] # o
  <2> SUFFICES ASSUME NEW s \in Request \ {r}, Carries(s)'
               PROVE  Carries(s) /\ root[ref[s].cookie] # o
      OBVIOUS
  <2>1. ref[s].pc = "rotate" /\ ref[s].token = idp'[root[ref[s].cookie]]
      BY <1>4, <1>7 DEF Carries
  <2>2. /\ ref[s].token \in Nat /\ root[ref[s].cookie] \in SessionId
        /\ ref[s].token <= idp[root[ref[s].cookie]]
      BY <1>11, <2>1
  <2> QED
      BY <1>3, <2>1, <2>2 DEF Carries
<1>15. OneHolder'
    BY <1>4, <1>7, <1>13, <1>14 DEF RefreshInv, OneHolder
<1> QED
    BY <1>5, <1>6, <1>9, <1>10, <1>12, <1>15 DEF RefreshInv

\* The exchange: refused, or taken and the successor received or lost.
LEMMA ExchangeStep ==
    ASSUME RefreshInv, NEW r \in Request, Exchange(r)
    PROVE  RefreshInv'
<1>1. ref[r] \in Refresher /\ RefSound(ref[r]) /\ ref[r].pc = "exchange"
      /\ ref[r].token \in Nat /\ UNCHANGED <<vars, root, grant>>
    BY DEF RefreshInv, RefreshTypeOK, RefsSound, RefSound, Exchange
<1>o. PICK o \in SessionId : o = root[ref[r].cookie]
    BY <1>1 DEF RefSound, RefreshInv, RefreshTypeOK, Rooted
<1>2. CASE RefreshReply(r, {}) /\ UNCHANGED idp
    BY <1>1, <1>2, ReplyUnwritten
<1>3. CASE ref[r].token = idp[o] /\ idp' = [idp EXCEPT ![o] = idp[o] + 1]
           /\ ref' = [ref EXCEPT ![r] = [@ EXCEPT !.pc = "rotate",
                                    !.token = ref[r].token + 1, !.expires = Clock(r) + Absolute]]
  <2>1. PICK e \in Int : e = Clock(r) + Absolute
      BY ClockAssumption, TimeoutsAssumption DEF Clock, RefreshInv, OwnershipInv, TypeOK
  <2>2. PICK t \in Nat : t = ref[r].token + 1
      BY <1>1
  <2>3. PICK q \in Refresher : q = [ref[r] EXCEPT !.pc = "rotate", !.token = t, !.expires = e]
      BY <1>1 DEF Refresher, RefreshPc
  <2>4. /\ q.pc = "rotate" /\ q.token = t /\ q.set = ref[r].set
        /\ q.browser = ref[r].browser /\ q.cookie = ref[r].cookie
      BY <1>1, <2>3 DEF Refresher
  <2>5. ref' = [ref EXCEPT ![r] = q]
      BY <1>3, <2>1, <2>2, <2>3
  <2>6. q.set \subseteq ref[r].set
      BY <2>4
  <2>7. q.pc = "rotate" /\ q.token = ref[r].token + 1
      BY <2>2, <2>4
  <2>8. UNCHANGED <<vars, root, grant>>
      BY <1>1
  <2>9. /\ ref[r].pc = "exchange" /\ o = root[ref[r].cookie] /\ ref[r].token = idp[o]
        /\ idp' = [idp EXCEPT ![o] = idp[o] + 1]
      BY <1>1, <1>3, <1>o
  <2>a. q.cookie = ref[r].cookie /\ q.browser = ref[r].browser
      BY <2>4
  <2> QED
      BY <2>5, <2>6, <2>7, <2>8, <2>9, <2>a, RotatedStep
<1>4. CASE ref[r].token = idp[o] /\ idp' = [idp EXCEPT ![o] = idp[o] + 1]
           /\ RefreshReply(r, {})
  <2>1. PICK q \in Refresher : q = Replying(ref[r], {})
      BY <1>1, ReplyingRefresh
  <2>2. /\ q.pc = "reply" /\ q.set = {} /\ q.browser = ref[r].browser
        /\ q.cookie = ref[r].cookie
      BY <1>1, <2>1, ReplyingRefresh
  <2>3. ref' = [ref EXCEPT ![r] = q]
      BY <1>4, <2>1 DEF RefreshReply, Replying
  <2>4. q.set \subseteq ref[r].set
      BY <2>2
  <2>5. UNCHANGED <<vars, root, grant>>
      BY <1>1
  <2>6. /\ ref[r].pc = "exchange" /\ o = root[ref[r].cookie] /\ ref[r].token = idp[o]
        /\ idp' = [idp EXCEPT ![o] = idp[o] + 1]
      BY <1>1, <1>4, <1>o
  <2>7. q.cookie = ref[r].cookie /\ q.browser = ref[r].browser
      BY <2>2
  <2> QED
      BY <2>2, <2>3, <2>4, <2>5, <2>6, <2>7, RotatedStep
<1> QED
    BY <1>2, <1>3, <1>4, <1>o DEF Exchange

\* The row moves: the old id is over, the new one has its login and the token.
LEMMA MovedStep ==
    ASSUME RefreshInv, NEW r \in Request, NEW c \in SessionId, c = ref[r].cookie,
           NEW i \in SessionId, owner[i] = None, rows[c] # None,
           ref[r].pc = "rotate", Moved(r, c, i), NEW q \in Refresher,
           ref' = [ref EXCEPT ![r] = q], q.pc = "reply", q.set \subseteq {i},
           q.browser = ref[r].browser, q.cookie = c,
           UNCHANGED <<jar, req, now, idp>>
    PROVE  RefreshInv'
<1>1. /\ ref[r] \in Refresher /\ RefSound(ref[r]) /\ owner[c] # None /\ c # i
      /\ rows[c] \in Row /\ owner[c] = rows[c].user
      /\ ref[r].token \in Nat /\ ref[r].token <= idp[root[c]]
    BY DEF RefreshInv, RefreshTypeOK, RefsSound, RefSound, OwnershipInv, TypeOK, RowsOwned
<1>e. ref[r].expires \in Int /\ now \in Int
    BY <1>1 DEF Refresher, RefreshInv, OwnershipInv, TypeOK
<1>2. PICK row \in Row : /\ row = [rows[c] EXCEPT !.expires = ref[r].expires, !.seen = now]
                         /\ row.user = owner[c] /\ row # None
  <2> DEFINE z == [rows[c] EXCEPT !.expires = ref[r].expires, !.seen = now]
  <2>1. z \in Row /\ z.user = owner[c]
      BY <1>1, <1>e DEF Row
  <2> QED
      BY <2>1, NoneAssumption
<1>3. /\ rows' \in [SessionId -> Row \cup {None}]
      /\ rows'[c] = None /\ rows'[i] = row
      /\ \A j \in SessionId \ {c, i} : rows'[j] = rows[j]
    BY <1>1, <1>2 DEF Moved, RefreshInv, OwnershipInv, TypeOK
<1>4. /\ owner' \in [SessionId -> User \cup {None}]
      /\ owner'[i] = owner[c]
      /\ \A j \in SessionId \ {i} : owner'[j] = owner[j]
    BY <1>1 DEF Moved, RefreshInv, OwnershipInv, TypeOK
<1>5. /\ root' \in [SessionId -> SessionId \cup {None}]
      /\ root'[i] = root[c] /\ root[c] \in SessionId
      /\ \A j \in SessionId \ {i} : root'[j] = root[j]
    BY <1>1 DEF Moved, RefreshInv, RefreshTypeOK, Rooted
<1>6. /\ grant' \in [SessionId -> Nat \cup {None}]
      /\ grant'[i] = ref[r].token /\ grant'[c] = None
      /\ \A j \in SessionId \ {c, i} : grant'[j] = grant[j]
    BY <1>1 DEF Moved, RefreshInv, RefreshTypeOK
<1>7. /\ ref'[r] = q
      /\ \A s \in Request \ {r} : ref'[s] = ref[s]
    BY DEF RefreshInv, RefreshTypeOK
<1>8. OwnershipInv'
  <2>1. RowsOwned'
      BY <1>2, <1>3, <1>4 DEF RefreshInv, OwnershipInv, RowsOwned
  <2>2. \A j \in SessionId : Over(j) => Over(j)'
      BY <1>3, <1>4 DEF Over
  <2> QED
      BY <1>3, <1>4, <2>1, <2>2, OwnershipKept DEF RefreshInv, OwnershipInv, TypeOK
<1>9. RefreshTypeOK'
    BY <1>5, <1>6, <1>8 DEF RefreshInv, RefreshTypeOK, OwnershipInv
<1>10. Rooted'
    BY <1>1, <1>4, <1>5 DEF RefreshInv, Rooted
<1>11. TokensIssued'
  <2> SUFFICES ASSUME NEW j \in SessionId, grant'[j] # None
               PROVE  root'[j] # None /\ grant'[j] <= idp[root'[j]]
      BY DEF TokensIssued
  <2>1. CASE j = i
      BY <1>1, <1>5, <1>6, <1>10, <2>1, <1>4 DEF Rooted
  <2>2. CASE j # i
      BY <1>5, <1>6, <2>2 DEF RefreshInv, TokensIssued
  <2> QED
      BY <2>1, <2>2
<1>12. ASSUME NEW s \in Request
       PROVE  /\ RefSound(ref[s])
              /\ ref[s].pc # "idle" => /\ ref[s].cookie \in SessionId \ {i}
                                       /\ root'[ref[s].cookie] = root[ref[s].cookie]
    BY <1>5 DEF RefreshInv, RefsSound, RefSound
<1>13. RefsSound'
  <2> SUFFICES ASSUME NEW s \in Request
               PROVE  RefSound(ref[s])'
      BY DEF RefsSound
  <2>1. CASE s = r
      BY <1>1, <1>4, <1>7, <2>1 DEF RefSound
  <2>2. CASE s # r
    <3>1. \A j \in SessionId : owner[j] # None => owner'[j] # None
        BY <1>4
    <3>2. \A j \in ref[s].set : j \in SessionId
        BY DEF RefreshInv, RefreshTypeOK, Refresher
    <3> QED
        BY <1>7, <1>12, <2>2, <3>1, <3>2 DEF RefSound
  <2> QED
      BY <2>1, <2>2
<1>14. OneRowPerLogin'
    BY <1>3, <1>5 DEF RefreshInv, OneRowPerLogin
<1>15. \A s \in Request : Carries(s)' => s # r /\ Carries(s) /\ root'[ref'[s].cookie] = root[ref[s].cookie]
    BY <1>7, <1>12 DEF Carries
<1>16. \A j \in SessionId :
          Holds(j)' => \/ j # i /\ Holds(j) /\ root'[j] = root[j]
                       \/ j = i /\ Carries(r) /\ root'[j] = root[c]
    BY <1>3, <1>5, <1>6 DEF Holds, Carries
<1>17. OneHolder'
    BY <1>7, <1>15, <1>16 DEF RefreshInv, OneHolder
<1> QED
    BY <1>8, <1>9, <1>10, <1>11, <1>13, <1>14, <1>17 DEF RefreshInv

\* The UPDATE: the row moves, or nothing changes.
LEMMA RotateStep ==
    ASSUME RefreshInv, NEW r \in Request, Rotate(r)
    PROVE  RefreshInv'
<1>1. ref[r] \in Refresher /\ RefSound(ref[r]) /\ ref[r].pc = "rotate"
      /\ ref[r].cookie \in SessionId /\ UNCHANGED <<jar, req, now, idp>>
    BY DEF RefreshInv, RefreshTypeOK, RefsSound, RefSound, Rotate
<1>c. PICK c \in SessionId : c = ref[r].cookie
    BY <1>1
<1>2. CASE RefreshReply(r, {}) /\ UNCHANGED <<rows, owner, root, grant>>
    BY <1>1, <1>2, ReplyUnwritten DEF vars
<1>3. ASSUME NEW i \in SessionId, owner[i] = None, NEW set \in SUBSET {i},
             RefreshReply(r, set), rows[c] # None,
             \/ Moved(r, c, i)
             \/ set = {} /\ UNCHANGED <<rows, owner, root, grant>>
      PROVE  RefreshInv'
  <2>0. set \in SUBSET SessionId
      BY <1>3
  <2>1. PICK q \in Refresher : q = Replying(ref[r], set)
      BY <1>1, <2>0, ReplyingRefresh
  <2>2. /\ q.pc = "reply" /\ q.set = set /\ q.browser = ref[r].browser
        /\ q.cookie = ref[r].cookie
      BY <1>1, <2>0, <2>1, ReplyingRefresh
  <2>3. ref' = [ref EXCEPT ![r] = q]
      BY <1>3, <2>1 DEF RefreshReply, Replying
  <2>4. CASE Moved(r, c, i)
      BY <1>1, <1>c, <1>3, <2>2, <2>3, <2>4, MovedStep
  <2>5. CASE set = {} /\ UNCHANGED <<rows, owner, root, grant>>
      BY <1>1, <1>2, <1>3, <2>5
  <2> QED
      BY <1>3, <2>4, <2>5
<1>4. CASE /\ rows[c] # None
           /\ \E i \in SessionId, o \in Outcome :
                /\ owner[i] = None
                /\ IF o.done THEN Moved(r, c, i) ELSE UNCHANGED <<rows, owner, root, grant>>
                /\ RefreshReply(r, IF o.ok THEN {i} ELSE {})
  <2>1. PICK i \in SessionId, o \in Outcome :
               /\ owner[i] = None
               /\ IF o.done THEN Moved(r, c, i) ELSE UNCHANGED <<rows, owner, root, grant>>
               /\ RefreshReply(r, IF o.ok THEN {i} ELSE {})
      BY <1>4
  <2>2. o.ok => o.done
      BY DEF Outcome
  <2>3. PICK set \in SUBSET {i} : set = IF o.ok THEN {i} ELSE {}
      OBVIOUS
  <2>4. Moved(r, c, i) \/ (set = {} /\ UNCHANGED <<rows, owner, root, grant>>)
      BY <2>1, <2>2, <2>3
  <2> QED
      BY <1>3, <1>4, <2>1, <2>3, <2>4
<1> QED
    BY <1>2, <1>4, <1>c DEF Rotate

\* The answer arrives, or is lost.
LEMMA EndRefreshStep ==
    ASSUME RefreshInv, NEW r \in Request, DeliverRefresh(r) \/ AbandonRefresh(r)
    PROVE  RefreshInv'
<1>1. /\ ref[r] \in Refresher /\ RefSound(ref[r])
      /\ ref' = [ref EXCEPT ![r] = QuietRefresh]
      /\ UNCHANGED <<rows, owner, req, now, root, grant, idp>>
    BY DEF RefreshInv, RefreshTypeOK, RefsSound, DeliverRefresh, AbandonRefresh, vars
<1>2. CASE jar' = jar
  <2>1. OwnershipInv'
      BY <1>1, <1>2, OwnershipInductive DEF RefreshInv, vars
  <2> QED
      BY <1>1, <2>1, LocalStep, QuietIsSound
<1>3. CASE jar' # jar
  <2>1. DeliverRefresh(r)
      BY <1>3 DEF AbandonRefresh, vars
  <2>2. ref[r].browser \in Browser /\ ref[r].set \subseteq SessionId
      BY <1>1, <2>1 DEF DeliverRefresh, RefSound, Refresher
  <2>3. PICK x : /\ jar' = [jar EXCEPT ![ref[r].browser] = x]
                 /\ x = jar[ref[r].browser] \/ x \in ref[r].set
      BY <2>1 DEF DeliverRefresh
  <2>4. x \in SessionId /\ owner[x] # None
      BY <1>1, <1>3, <2>2, <2>3 DEF RefSound, RefreshInv, OwnershipInv, TypeOK
  <2>5. /\ jar' \in [Browser -> SessionId \cup {None}]
        /\ \A b \in Browser : jar'[b] = jar[b] \/ owner[jar'[b]] # None
      BY <2>2, <2>3, <2>4 DEF RefreshInv, OwnershipInv, TypeOK
  <2>6. OwnershipInv'
      BY <1>1, <2>5, OwnershipKept DEF RefreshInv, OwnershipInv, TypeOK, RowsOwned, Over
  <2> QED
      BY <1>1, <2>6, LocalStep, QuietIsSound
<1> QED
    BY <1>2, <1>3

-----------------------------------------------------------------------------
(* The other handlers, and the theorems.                                    *)

\* What a step of the other handlers does to the table: an id that was issued keeps
\* its owner, and has a row only if it had one.
LEMMA OthersTable ==
    ASSUME OwnershipInv, [Next]_vars, NEW i \in SessionId
    PROVE  /\ owner[i] # None => owner'[i] = owner[i]
           /\ rows'[i] # None => owner'[i] # None
           /\ rows'[i] # None /\ owner[i] # None => rows[i] # None
<1>1. OwnershipInv'
    BY OwnershipInductive
<1>2. rows'[i] # None => owner'[i] # None
    BY <1>1, NoneAssumption DEF OwnershipInv, RowsOwned, TypeOK, Row
<1>3. \/ owner' = owner
      \/ \E j \in SessionId : \E u : /\ owner[j] = None
                                     /\ owner' = [owner EXCEPT ![j] = u]
    BY DEF Next, Serve, vars, Arrive, StartResolve, StartLogout, StartLogin,
       Insert, Get, Check, DeleteExpired, Touch, Destroy, Deliver, Abandon, Forget, Tick
<1>4. owner[i] # None => owner'[i] = owner[i]
    BY <1>3 DEF OwnershipInv, TypeOK
<1>5. Over(i) => rows'[i] = None
    BY OverStep DEF Over
<1> QED
    BY <1>2, <1>4, <1>5 DEF Over

\* A step of the other handlers, and the login it may complete.
LEMMA OthersStep ==
    ASSUME RefreshInv, Others, Enroll
    PROVE  RefreshInv'
<1>1. [Next]_vars
    BY DEF Others, Next
<1>2. OwnershipInv'
    BY <1>1, OwnershipInductive DEF RefreshInv
<1>3. PICK g \in {0, None} :
        grant' = [i \in SessionId |-> IF owner'[i] # owner[i] THEN g ELSE grant[i]]
  <2>1. PICK g \in IF \E i \in SessionId : owner'[i] # owner[i] THEN {0, None} ELSE {None} :
          grant' = [i \in SessionId |-> IF owner'[i] # owner[i] THEN g ELSE grant[i]]
      BY DEF Enroll
  <2> QED
      BY <2>1
<1>4. /\ root' = [i \in SessionId |-> IF owner'[i] # owner[i] THEN i ELSE root[i]]
      /\ idp' = idp /\ ref' = ref
    BY DEF Enroll
<1>5. \A i \in SessionId : /\ owner[i] # None => owner'[i] = owner[i]
                           /\ rows'[i] # None => owner'[i] # None
                           /\ rows'[i] # None /\ owner[i] # None => rows[i] # None
    BY <1>1, OthersTable DEF RefreshInv
<1>6. ASSUME NEW i \in SessionId
      PROVE  \/ /\ root'[i] = root[i] /\ grant'[i] = grant[i]
                /\ owner'[i] = owner[i]
                /\ rows'[i] # None => owner[i] # None /\ rows[i] # None
             \/ /\ root'[i] = i /\ grant'[i] = g
                /\ owner[i] = None /\ owner'[i] # None
    BY <1>3, <1>4, <1>5
<1>7. RefreshTypeOK'
  <2>1. g \in Nat \cup {None}
      BY <1>3
  <2> QED
      BY <1>2, <1>3, <1>4, <2>1 DEF RefreshInv, RefreshTypeOK, OwnershipInv
<1>8. Rooted'
  <2> SUFFICES ASSUME NEW i \in SessionId
               PROVE  /\ owner'[i] # None <=> root'[i] # None
                      /\ root'[i] # None => owner'[root'[i]] # None
      BY DEF Rooted
  <2>1. i # None /\ root[i] \in SessionId \cup {None}
      BY NoneAssumption DEF RefreshInv, RefreshTypeOK
  <2>2. /\ owner[i] # None <=> root[i] # None
        /\ root[i] # None => owner'[root[i]] # None
      BY <1>5, <2>1 DEF RefreshInv, Rooted
  <2> QED
      BY <1>6, <2>1, <2>2
<1>9. TokensIssued'
  <2> SUFFICES ASSUME NEW i \in SessionId, grant'[i] # None
               PROVE  root'[i] # None /\ grant'[i] <= idp[root'[i]]
      BY <1>4 DEF TokensIssued
  <2>1. CASE root'[i] = root[i] /\ grant'[i] = grant[i]
      BY <2>1 DEF RefreshInv, TokensIssued
  <2>2. CASE root'[i] = i /\ grant'[i] = g
    <3>1. g = 0 /\ idp[i] \in Nat /\ i # None
        BY <1>3, <2>2, NoneAssumption DEF RefreshInv, RefreshTypeOK
    <3> QED
        BY <2>2, <3>1
  <2> QED
      BY <1>6, <2>1, <2>2
<1>10. ASSUME NEW s \in Request, ref[s].pc # "idle"
       PROVE  /\ ref[s].cookie \in SessionId /\ root'[ref[s].cookie] = root[ref[s].cookie]
              /\ owner'[ref[s].cookie] # None /\ owner[root[ref[s].cookie]] # None
  <2>1. ref[s].cookie \in SessionId /\ owner[ref[s].cookie] # None
      BY <1>10 DEF RefreshInv, RefsSound, RefSound
  <2> QED
      BY <1>6, <2>1 DEF RefreshInv, Rooted
<1>11. RefsSound'
  <2> SUFFICES ASSUME NEW s \in Request
               PROVE  RefSound(ref[s])'
      BY DEF RefsSound
  <2>1. RefSound(ref[s]) /\ ref[s].set \subseteq SessionId
      BY DEF RefreshInv, RefsSound, RefreshTypeOK, Refresher
  <2>2. \A i \in ref[s].set : owner'[i] # None
      BY <1>5, <2>1 DEF RefSound
  <2> QED
      BY <1>4, <1>10, <2>1, <2>2 DEF RefSound
<1>12. OneRowPerLogin'
  <2> SUFFICES ASSUME NEW i \in SessionId, NEW j \in SessionId, rows'[i] # None,
                      rows'[j] # None, root'[i] = root'[j]
               PROVE  i = j
      BY DEF OneRowPerLogin
  <2>1. ASSUME NEW k \in SessionId, root[k] # None PROVE owner[root[k]] # None
      BY <2>1 DEF RefreshInv, Rooted
  <2>2. \A k \in SessionId : k # None
      BY NoneAssumption
  <2> QED
      BY <1>6, <2>1, <2>2 DEF RefreshInv, OneRowPerLogin
<1>13. \A s \in Request :
          Carries(s)' => Carries(s) /\ root'[ref[s].cookie] = root[ref[s].cookie]
    BY <1>4, <1>10 DEF Carries
<1>14. OneHolder'
  <2>1. ASSUME NEW i \in SessionId, NEW s \in Request, Holds(i)', Carries(s)'
        PROVE  root'[i] # root'[ref'[s].cookie]
    <3>1. Carries(s) /\ root'[ref[s].cookie] = root[ref[s].cookie] /\ ref' = ref
        BY <1>4, <1>13, <2>1
    <3>2. owner[root[ref[s].cookie]] # None
        BY <1>10, <3>1 DEF Carries
    <3>3. CASE root'[i] = i /\ owner[i] = None
        BY <3>1, <3>2, <3>3
    <3>4. CASE /\ root'[i] = root[i] /\ grant'[i] = grant[i]
               /\ rows'[i] # None => rows[i] # None
      <4>1. idp' = idp /\ rows[i] # None
          BY <1>4, <2>1, <3>4 DEF Holds
      <4>2. Holds(i)
          BY <2>1, <3>4, <4>1 DEF Holds
      <4>3. root[i] # root[ref[s].cookie]
          BY <3>1, <4>2 DEF RefreshInv, OneHolder
      <4> QED
          BY <3>1, <3>4, <4>3
    <3> QED
        BY <1>6, <3>3, <3>4
  <2>2. ASSUME NEW r \in Request, NEW s \in Request, Carries(r)', Carries(s)',
               root'[ref'[r].cookie] = root'[ref'[s].cookie]
        PROVE  r = s
      BY <1>4, <1>13, <2>2 DEF RefreshInv, OneHolder
  <2> QED
      BY <2>1, <2>2 DEF OneHolder
<1> QED
    BY <1>2, <1>7, <1>8, <1>9, <1>11, <1>12, <1>14 DEF RefreshInv

\* The invariant holds at first and every step keeps it.
LEMMA RefreshInductive ==
    /\ RefreshInit => RefreshInv
    /\ RefreshInv /\ [RefreshNext]_allVars => RefreshInv'
<1>1. ASSUME RefreshInit PROVE RefreshInv
  <2>1. OwnershipInv
      BY <1>1, OwnershipInductive DEF RefreshInit
  <2>2. RefreshTypeOK
    <3>1. 0 \in Nat
        OBVIOUS
    <3> QED
        BY <1>1, <2>1, <3>1, QuietIsSound DEF RefreshInit, RefreshTypeOK, OwnershipInv
  <2>3. Rooted /\ TokensIssued /\ OneRowPerLogin
      BY <1>1 DEF RefreshInit, Init, Rooted, TokensIssued, OneRowPerLogin
  <2>4. RefsSound
      BY <1>1, QuietIsSound DEF RefreshInit, RefsSound
  <2>5. OneHolder
      BY <1>1, QuietIsSound DEF RefreshInit, OneHolder, Carries
  <2> QED
      BY <2>1, <2>2, <2>3, <2>4, <2>5 DEF RefreshInv
<1>2. ASSUME RefreshInv, UNCHANGED allVars PROVE RefreshInv'
  <2>1. OwnershipInv'
      BY <1>2, OwnershipInductive DEF RefreshInv, allVars
  <2>2. /\ rows' = rows /\ owner' = owner /\ root' = root /\ grant' = grant
        /\ idp' = idp /\ ref' = ref
      BY <1>2 DEF allVars, vars, refreshVars
  <2> QED
      BY <1>2, <2>1, <2>2 DEF RefreshInv, RefreshTypeOK, OwnershipInv, Rooted, TokensIssued,
         RefsSound, RefSound, OneRowPerLogin, OneHolder, Holds, Carries
<1>3. ASSUME RefreshInv, RefreshNext PROVE RefreshInv'
  <2>1. CASE Others /\ Enroll
      BY <1>3, <2>1, OthersStep
  <2>2. CASE \E r \in Request : Refresh(r)
      BY <1>3, <2>2, StartRefreshStep, GetForRefreshStep, ExchangeStep, RotateStep,
         EndRefreshStep DEF Refresh
  <2> QED
      BY <1>3, <2>1, <2>2 DEF RefreshNext
<1> QED
    BY <1>1, <1>2, <1>3

\* The invariant holds in every reachable state.
THEOREM RefreshSound == RefreshSpec => []RefreshInv
    BY RefreshInductive, PTL DEF RefreshSpec

\* Refreshes, their retries and lost answers, logouts and expiries leave a login
\* with one row at most (RotateSession moves the row in one UPDATE).
THEOREM LoginsHaveOneRow == RefreshSpec => []OneRowPerLogin
<1>1. RefreshInv => OneRowPerLogin
    BY DEF RefreshInv
<1> QED
    BY <1>1, RefreshSound, PTL

\* The newest refresh token of a login is in its row or with one handler that is
\* about to store it: two handlers never both store a rotation.
THEOREM TokensHaveOneHolder == RefreshSpec => []OneHolderOfToken
<1>1. ASSUME RefreshInv PROVE OneHolderOfToken
  <2>1. OneHolder
      BY <1>1 DEF RefreshInv
  <2> QED
      BY <2>1 DEF OneHolder, Holds, Carries, OneHolderOfToken
<1> QED
    BY <1>1, RefreshSound, PTL

\* Every variable stays in its type.
THEOREM RefreshTypeCorrect == RefreshSpec => []RefreshTypeOK
<1>1. RefreshInv => RefreshTypeOK
    BY DEF RefreshInv
<1> QED
    BY <1>1, RefreshSound, PTL

\* Beside refreshes too, a request that arrives after its session is over is denied.
THEOREM EndedIsDeniedUnderRefresh == RefreshSpec => []EndedMeansDenied
<1>1. RefreshInv => EndedMeansDenied
    BY DEF RefreshInv, OwnershipInv, Stages, Stage, EndedMeansDenied
<1> QED
    BY <1>1, RefreshSound, PTL

\* An id whose session was deleted or rotated away never names a session again.
THEOREM RotatedStaysGone == RefreshSpec => NoReturn
<1>1. ASSUME RefreshInv, [RefreshNext]_allVars, NEW i \in SessionId, Over(i)
      PROVE  rows'[i] = None
  <2>1. CASE UNCHANGED rows
      BY <1>1, <2>1 DEF Over
  <2>2. CASE Others
    <3>1. [Next]_vars
        BY <2>2 DEF Others, Next
    <3> QED
        BY <1>1, <3>1, OverStep DEF RefreshInv, Over
  <2>3. ASSUME NEW r \in Request, Rotate(r)
        PROVE  rows'[i] = None
    <3>1. \/ rows' = rows
          \/ \E j \in SessionId : /\ owner[j] = None
                                  /\ Moved(r, ref[r].cookie, j)
        BY <2>3 DEF Rotate
    <3>2. ASSUME NEW j \in SessionId, owner[j] = None, Moved(r, ref[r].cookie, j)
          PROVE  rows'[i] = None
        BY <1>1, <3>2 DEF Moved, Over, RefreshInv, OwnershipInv, TypeOK
    <3> QED
        BY <1>1, <3>1, <3>2 DEF Over
  <2> QED
      BY <1>1, <2>1, <2>2, <2>3
      DEF RefreshNext, Refresh, StartRefresh, GetForRefresh, Exchange, DeliverRefresh,
          AbandonRefresh, vars, allVars
<1>2. RefreshInv /\ [RefreshNext]_allVars
        => [\A i \in SessionId : Over(i) => rows'[i] = None]_allVars
    BY <1>1
<1> QED
    BY <1>2, RefreshSound, PTL DEF RefreshSpec, NoReturn
=============================================================================
