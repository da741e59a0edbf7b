----------------------------- MODULE ServerProofs -----------------------------
(***************************************************************************)
(* The safety properties of module Server hold for any number of           *)
(* connections and any size of the pool.  They are inductive together with *)
(* Ordered: whatever a request does, a request exists, so that the process *)
(* has not come to its clean end; and a pool that is not open belongs to a *)
(* process that has no request yet or has returned from Run.  The last     *)
(* section is about the limit of the pool.                                 *)
(***************************************************************************)
EXTENDS Server, FiniteSetTheorems, TLAPS

\* What LoggedAsSent says of one request.
Reported(q) == q.at = "done" =>
    q.log # 0 /\ q.sent # 0 /\ (q.log # q.sent => q.late)

\* A record with a field replaced, for the fields that the actions replace.
LEMMA FieldUpdates ==
    ASSUME NEW q \in Request
    PROVE  /\ \A x \in {"none", "open", "running", "done"} :
                LET p == [q EXCEPT !.at = x] IN
                p \in Request /\ p.at = x /\ (p.refused => q.refused)
                /\ p.sent = q.sent /\ p.log = q.log
           /\ \A x \in {"app", "live", "ready"} :
                LET p == [q EXCEPT !.kind = x] IN
                p \in Request /\ p.at = q.at /\ (p.refused => q.refused)
           /\ \A x \in {"none", "waiting", "held"} :
                LET p == [q EXCEPT !.db = x] IN
                p \in Request /\ p.at = q.at /\ (p.refused => q.refused)
  <1>1. ASSUME NEW x \in {"none", "open", "running", "done"}
        PROVE  LET p == [q EXCEPT !.at = x] IN
               p \in Request /\ p.at = x /\ (p.refused => q.refused)
               /\ p.sent = q.sent /\ p.log = q.log
    BY DEF Request
  <1>2. ASSUME NEW x \in {"app", "live", "ready"}
        PROVE  LET p == [q EXCEPT !.kind = x] IN
               p \in Request /\ p.at = q.at /\ (p.refused => q.refused)
    BY DEF Request
  <1>3. ASSUME NEW x \in {"none", "waiting", "held"}
        PROVE  LET p == [q EXCEPT !.db = x] IN
               p \in Request /\ p.at = q.at /\ (p.refused => q.refused)
    BY DEF Request
  <1> QED
    BY <1>1, <1>2, <1>3

\* The status a handler sends changes nothing else of its request.
LEMMA SentUpdate ==
    ASSUME NEW q \in Request, NEW v \in Status
    PROVE  LET p == [q EXCEPT !.sent = v] IN
           p \in Request /\ p.at = q.at /\ (p.refused => q.refused)
           /\ p.sent = v /\ p.log = q.log
  BY DEF Request

\* Nor does the status the log line takes.
LEMMA LogUpdate ==
    ASSUME NEW q \in Request, NEW v \in Status
    PROVE  LET p == [q EXCEPT !.log = v] IN
           p \in Request /\ p.at = q.at /\ (p.refused => q.refused)
           /\ p.sent = q.sent /\ p.log = v
  BY DEF Request

\* Nor do the marks for a refusal, a cut and a late answer.
LEMMA FlagUpdates ==
    ASSUME NEW q \in Request, NEW v \in BOOLEAN
    PROVE  /\ LET p == [q EXCEPT !.refused = v] IN p \in Request /\ p.at = q.at
           /\ LET p == [q EXCEPT !.cut = v] IN
              p \in Request /\ p.at = q.at /\ (p.refused => q.refused)
           /\ LET p == [q EXCEPT !.late = v] IN
              p \in Request /\ p.at = q.at /\ (p.refused => q.refused)
              /\ p.sent = q.sent /\ p.log = q.log /\ p.late = v
  BY DEF Request, Status

\* A request begins unrefused, wherever its connection stands.
LEMMA FreshRequest ==
    ASSUME NEW at \in {"none", "open", "running", "done"}
    PROVE  Fresh(at) \in Request /\ Fresh(at).at = at /\ ~Fresh(at).refused
  BY DEF Fresh, Request, Status

\* An answered query leaves the request where it was.
LEMMA QueriedRequest ==
    ASSUME NEW q \in Request, NEW v \in Status
    PROVE  LET p == Queried(q, v) IN
           p \in Request /\ p.at = q.at /\ (p.refused => q.refused)
  <1>1. PICK w \in Status : w = IF q.kind = "ready" THEN v ELSE 0
    BY DEF Status
  <1>2. PICK p \in Request : p = [q EXCEPT !.db = "none"]
    BY FieldUpdates
  <1>3. p.at = q.at /\ (p.refused => q.refused)
    BY <1>2, FieldUpdates
  <1>4. Queried(q, v) = [p EXCEPT !.sent = w]
    BY <1>1, <1>2 DEF Queried
  <1> QED
    BY <1>3, <1>4, SentUpdate

\* A finished request has the statuses it finished with.
LEMMA DoneRequest ==
    ASSUME NEW q \in Request, NEW v \in Status, NEW w \in Status
    PROVE  LET p == Done(q, v, w) IN
           p \in Request /\ p.at = "done" /\ (p.refused => q.refused)
           /\ p.sent = v /\ p.log = w
  <1>1. PICK p1 \in Request : p1 = [q EXCEPT !.at = "done"]
    BY FieldUpdates
  <1>2. p1.at = "done" /\ (p1.refused => q.refused)
    BY <1>1, FieldUpdates
  <1>3. PICK p2 \in Request : p2 = [p1 EXCEPT !.sent = v]
    BY SentUpdate
  <1>4. p2.at = "done" /\ (p2.refused => q.refused) /\ p2.sent = v
    BY <1>2, <1>3, SentUpdate
  <1>5. Done(q, v, w) = [p2 EXCEPT !.log = w]
    BY <1>1, <1>3 DEF Done
  <1> QED
    BY <1>4, <1>5, LogUpdate

\* A request the process abandons is not thereby finished or refused.
LEMMA CutRequest ==
    ASSUME NEW q \in Request
    PROVE  /\ Cut(q) \in Request
           /\ Cut(q).refused => q.refused
           /\ Cut(q).at # "done"
  BY FlagUpdates, FreshRequest DEF Cut

-----------------------------------------------------------------------------

\* A step of one request that leaves the process alone.
LEMMA RequestStep ==
    ASSUME LifeInv, NEW r \in Req, NEW q \in Request, Frame,
           req' = [req EXCEPT ![r] = q],
           req[r].at # "none" \/ phase = "select",
           \/ q.refused => req[r].refused
           \/ phase \in {"close", "exited"} /\ code # 0,
           Reported(q)
    PROVE  LifeInv'
  <1>1. req' \in [Req -> Request] /\ \A s \in Req : req'[s] = IF s = r THEN q
                                                               ELSE req[s]
    BY DEF LifeInv
  <1>2. phase' = phase /\ code' = code /\ pool' = pool
    BY DEF Frame
  <1>3. Ordered'
    BY <1>1, <1>2 DEF LifeInv, Ordered
  <1>4. CleanExit'
    BY <1>1, <1>2 DEF LifeInv, CleanExit
  <1>5. RefusedOnlyAfterFailure'
    BY <1>1, <1>2 DEF LifeInv, RefusedOnlyAfterFailure
  <1>6. LoggedAsSent'
    BY <1>1 DEF LifeInv, LoggedAsSent, Reported
  <1> QED
    BY <1>1, <1>2, <1>3, <1>4, <1>5, <1>6 DEF LifeInv

\* The request's own steps before it is done.
LEMMA HandlerStep ==
    ASSUME LifeInv, NEW r \in Req,
           \/ Ask(r) \/ Acquire(r) \/ Refuse(r) \/ Release(r) \/ Cancel(r)
           \/ PingTimeout(r) \/ Write(r)
    PROVE  LifeInv'
  <1>1. req[r] \in Request /\ req[r].at = "running" /\ Frame /\ phase # "exited"
    BY DEF LifeInv, Ask, Acquire, Refuse, Release, Cancel, PingTimeout, Write,
           InHandler
  <1>2. ASSUME NEW v \in Status PROVE
          /\ Queried(req[r], v) \in Request
          /\ Queried(req[r], v).at = "running"
          /\ (Queried(req[r], v).refused => req[r].refused)
    BY <1>1, QueriedRequest
  <1>3. 200 \in Status /\ 503 \in Status
    BY DEF Status
  <1>4. CASE Refuse(r)
    <2>1. PICK p \in Request : p = Queried(req[r], 503)
      BY <1>2, <1>3
    <2>2. p.at = "running"
      BY <2>1, <1>2, <1>3
    <2>3. PICK q \in Request : q = [p EXCEPT !.refused = TRUE]
      BY FlagUpdates
    <2>4. q.at = "running"
      BY <2>2, <2>3, FlagUpdates
    <2>5. req' = [req EXCEPT ![r] = q]
      BY <1>4, <2>1, <2>3 DEF Refuse
    <2>6. phase \in {"close", "exited"} /\ code # 0
      BY <1>1, <1>4 DEF Refuse, LifeInv, Ordered, CleanExit
    <2> QED
      BY <1>1, <2>4, <2>5, <2>6, RequestStep DEF Reported
  <1>5. CASE Release(r) \/ Cancel(r) \/ PingTimeout(r)
    <2>1. PICK v \in Status : req' = [req EXCEPT ![r] = Queried(req[r], v)]
      BY <1>3, <1>5 DEF Release, Cancel, PingTimeout
    <2>2. PICK q \in Request : q = Queried(req[r], v)
      BY <1>2
    <2>3. q.at = "running" /\ (q.refused => req[r].refused)
      BY <1>2, <2>2
    <2> QED
      BY <1>1, <2>1, <2>2, <2>3, RequestStep DEF Reported
  <1>6. CASE Ask(r) \/ Acquire(r)
    <2>1. PICK x \in {"waiting", "held"} : req' = [req EXCEPT ![r].db = x]
      BY <1>6 DEF Ask, Acquire
    <2>2. PICK q \in Request : q = [req[r] EXCEPT !.db = x]
      BY <1>1, FieldUpdates
    <2>3. q.at = "running" /\ (q.refused => req[r].refused)
      BY <1>1, <2>2, FieldUpdates
    <2>4. req' = [req EXCEPT ![r] = q]
      BY <2>1, <2>2
    <2> QED
      BY <1>1, <2>3, <2>4, RequestStep DEF Reported
  <1>7. CASE Write(r)
    <2>1. PICK v \in {200, 401, 500} :
            req' = [req EXCEPT ![r] = [req[r] EXCEPT !.sent = v]]
      BY <1>1, <1>7 DEF Write, LifeInv
    <2> v \in Status
      BY DEF Status
    <2>2. PICK q \in Request : q = [req[r] EXCEPT !.sent = v]
      BY <1>1, SentUpdate
    <2>3. q.at = "running" /\ (q.refused => req[r].refused)
      BY <1>1, <2>2, SentUpdate
    <2>4. req' = [req EXCEPT ![r] = q]
      BY <2>1, <2>2
    <2> QED
      BY <1>1, <2>3, <2>4, RequestStep DEF Reported
  <1> QED
    BY <1>4, <1>5, <1>6, <1>7

\* The end of a handler, by return or by panic.
LEMMA EndStep ==
    ASSUME LifeInv, NEW r \in Req, Return(r) \/ Panic(r)
    PROVE  LifeInv'
  <1>1. req[r] \in Request /\ req[r].at = "running" /\ Frame
    BY DEF LifeInv, Return, Panic, InHandler
  <1>2. req[r].sent \in Status /\ 200 \in Status /\ 500 \in Status
    BY <1>1 DEF Request, Status
  <1>3. CASE Return(r)
    <2>1. PICK v \in Status : v = IF req[r].sent = 0 THEN 200 ELSE req[r].sent
      BY <1>2
    <2>2. PICK q \in Request : q = Done(req[r], v, v)
      BY <1>1, DoneRequest
    <2>3. q.sent = v /\ q.log = v /\ (q.refused => req[r].refused)
      BY <1>1, <2>2, DoneRequest
    <2>4. req' = [req EXCEPT ![r] = q]
      BY <1>3, <2>1, <2>2 DEF Return
    <2>5. v # 0
      BY <2>1
    <2> QED
      BY <1>1, <2>3, <2>4, <2>5, RequestStep DEF Reported
  <1>4. CASE Panic(r)
    <2>1. PICK v \in Status : v = IF req[r].sent = 0 THEN 500 ELSE req[r].sent
      BY <1>2
    <2>2. PICK w \in Status : w = 500
      BY <1>2
    <2>3. PICK p \in Request : p = Done(req[r], v, w)
      BY <1>1, DoneRequest
    <2>4. p.sent = v /\ p.log = w /\ (p.refused => req[r].refused)
      BY <1>1, <2>3, DoneRequest
    <2>5. PICK late \in BOOLEAN : late = (req[r].sent # 0)
      OBVIOUS
    <2>6. PICK q \in Request : q = [p EXCEPT !.late = late]
      BY FlagUpdates
    <2>7. q.sent = v /\ q.log = w /\ (q.refused => req[r].refused) /\ q.late = late
      BY <2>4, <2>6, FlagUpdates
    <2>8. req' = [req EXCEPT ![r] = q]
      BY <1>4, <2>1, <2>2, <2>3, <2>5, <2>6 DEF Panic
    <2>9. CASE req[r].sent = 0
      <3>1. v = w
        BY <2>1, <2>2, <2>9
      <3>2. w # 0
        BY <2>2
      <3> QED
        BY <1>1, <2>7, <2>8, <3>1, <3>2, RequestStep DEF Reported
    <2>10. CASE req[r].sent # 0
      <3>1. q.late
        BY <2>5, <2>7, <2>10
      <3>2. v # 0 /\ w # 0
        BY <2>1, <2>2, <2>10
      <3> QED
        BY <1>1, <2>7, <2>8, <3>1, <3>2, RequestStep DEF Reported
    <2> QED
      BY <2>9, <2>10
  <1> QED
    BY <1>3, <1>4

\* Connections come and go, and requests begin.
LEMMA ConnectionStep ==
    ASSUME LifeInv, NEW r \in Req,
           CloseIdle(r) \/ Accept(r) \/ Gone(r) \/ Finish(r) \/ Begin(r)
    PROVE  LifeInv'
  <1>1. req[r] \in Request /\ Frame
    BY DEF LifeInv, CloseIdle, Accept, Gone, Finish, Begin, Frame
  <1>2. CASE CloseIdle(r) \/ Accept(r) \/ Finish(r)
    <2>1. PICK at \in {"none", "open"} : req' = [req EXCEPT ![r] = Fresh(at)]
      BY <1>2 DEF CloseIdle, Accept, Finish
    <2>2. req[r].at # "none" \/ phase = "select"
      BY <1>2 DEF CloseIdle, Accept, Finish
    <2>3. Fresh(at) \in Request /\ Fresh(at).at = at /\ ~Fresh(at).refused
      BY FreshRequest
    <2> QED
      BY <1>1, <2>1, <2>2, <2>3, RequestStep DEF Reported
  <1>3. CASE Gone(r)
    <2>1. req' = [req EXCEPT ![r] = Cut(req[r])] /\ req[r].at # "none"
      BY <1>3 DEF Gone
    <2>2. PICK q \in Request : q = Cut(req[r])
      BY <1>1, CutRequest
    <2>3. q.at # "done" /\ (q.refused => req[r].refused)
      BY <1>1, <2>2, CutRequest
    <2> QED
      BY <1>1, <2>1, <2>2, <2>3, RequestStep DEF Reported
  <1>4. CASE Begin(r)
    <2>1. PICK kind \in {"app", "live", "ready"} :
            LET q == [req[r] EXCEPT !.kind = kind] IN
            \/ req' = [req EXCEPT ![r] = Done(q, 429, 429)]
            \/ req' = [req EXCEPT ![r] = [q EXCEPT !.at = "running"]]
      BY <1>4 DEF Begin
    <2>2. PICK q \in Request : q = [req[r] EXCEPT !.kind = kind]
      BY <1>1, FieldUpdates
    <2>3. (q.refused => req[r].refused)
      BY <1>1, <2>2, FieldUpdates
    <2>4. PICK p \in {Done(q, 429, 429), [q EXCEPT !.at = "running"]} :
            req' = [req EXCEPT ![r] = p]
      BY <2>1, <2>2
    <2>5. p \in Request /\ (p.refused => q.refused) /\ Reported(p)
      <3>1. CASE p = Done(q, 429, 429)
        BY <3>1, DoneRequest DEF Reported, Status
      <3>2. CASE p = [q EXCEPT !.at = "running"]
        BY <3>2, FieldUpdates DEF Reported
      <3> QED
        BY <2>4, <3>1, <3>2
    <2>6. req[r].at # "none"
      BY <1>4 DEF Begin
    <2> QED
      BY <1>1, <2>3, <2>4, <2>5, <2>6, RequestStep
  <1> QED
    BY <1>2, <1>3, <1>4

-----------------------------------------------------------------------------

\* The process goes on, and the requests stay as they are.
LEMMA ProcessStep ==
    ASSUME LifeInv,
           \/ Connect \/ ConnectFails \/ Build \/ BuildFails \/ Listen \/ Signal
           \/ ServeFailed \/ Drain \/ Drained \/ Exit
    PROVE  LifeInv'
  <1>1. req' = req
    BY DEF Connect, ConnectFails, Build, BuildFails, Listen, Signal, ServeFailed,
           Drain, Drained, Exit
  <1>2. /\ phase' \in {"connect", "build", "select", "drain", "close", "exited"}
        /\ code' \in {0, 1, 2}
    BY DEF LifeInv, Connect, ConnectFails, Build, BuildFails, Listen, Signal,
           ServeFailed, Drain, Drained, Exit
  <1>3. Ordered'
    BY <1>1 DEF LifeInv, Ordered, Connect, ConnectFails, Build, BuildFails, Listen,
           Signal, ServeFailed, Drain, Drained, Exit
  <1>4. CleanExit'
    BY <1>1 DEF LifeInv, CleanExit, Connect, ConnectFails, Build, BuildFails,
           Listen, Signal, ServeFailed, Drain, Drained, Exit
  <1>5. RefusedOnlyAfterFailure'
    BY <1>1 DEF LifeInv, RefusedOnlyAfterFailure, Connect, ConnectFails, Build,
           BuildFails, Listen, Signal, ServeFailed, Drain, Drained, Exit
  <1>6. LoggedAsSent'
    BY <1>1 DEF LifeInv, LoggedAsSent
  <1> QED
    BY <1>1, <1>2, <1>3, <1>4, <1>5, <1>6 DEF LifeInv

\* The drain runs out of time: what is left is cut, and the error is returned.
LEMMA TimeoutStep ==
    ASSUME LifeInv, DrainTimeout
    PROVE  LifeInv'
  <1>1. /\ phase' = "close" /\ code' = 1
        /\ req' = [r \in Req |-> Cut(req[r])]
    BY DEF DrainTimeout
  <1>2. \A r \in Req : /\ Cut(req[r]) \in Request
                       /\ Cut(req[r]).at # "done"
    BY CutRequest DEF LifeInv
  <1>3. req' \in [Req -> Request] /\ \A r \in Req : req'[r].at # "done"
    BY <1>1, <1>2
  <1> QED
    BY <1>1, <1>3 DEF LifeInv, Ordered, CleanExit, RefusedOnlyAfterFailure,
                      LoggedAsSent

\* LifeInv is kept by every step of the server, its requests and its pool.
LEMMA LifeInductive == LifeInv /\ [Next]_vars => LifeInv'
  <1> SUFFICES ASSUME LifeInv, [Next]_vars PROVE LifeInv'
    OBVIOUS
  <1>1. CASE UNCHANGED vars
    BY <1>1 DEF vars, LifeInv, Ordered, CleanExit, RefusedOnlyAfterFailure,
                LoggedAsSent
  <1>2. CASE DrainTimeout
    BY <1>2, TimeoutStep
  <1>3. CASE \/ Connect \/ ConnectFails \/ Build \/ BuildFails \/ Listen \/ Signal
             \/ ServeFailed \/ Drain \/ Drained \/ Exit
    BY <1>3, ProcessStep
  <1>4. ASSUME NEW r \in Req,
               \/ CloseIdle(r) \/ Accept(r) \/ Gone(r) \/ Finish(r) \/ Begin(r)
        PROVE  LifeInv'
    BY <1>4, ConnectionStep
  <1>5. ASSUME NEW r \in Req,
               \/ Ask(r) \/ Acquire(r) \/ Refuse(r) \/ Release(r) \/ Cancel(r)
               \/ PingTimeout(r) \/ Write(r)
        PROVE  LifeInv'
    BY <1>5, HandlerStep
  <1>6. ASSUME NEW r \in Req, Return(r) \/ Panic(r)
        PROVE  LifeInv'
    BY <1>6, EndStep
  <1> QED
    BY <1>1, <1>2, <1>3, <1>4, <1>5, <1>6 DEF Next

\* LifeInv holds before the process runs.
LEMMA LifeInit == Init => LifeInv
  BY FreshRequest DEF Init, LifeInv, Ordered, CleanExit, RefusedOnlyAfterFailure,
                      LoggedAsSent

\* The inductive invariant of the process and its requests.
THEOREM LifeSound == Spec => []LifeInv
  BY LifeInit, LifeInductive, PTL DEF Spec

\* A process that says it stopped cleanly has answered and logged every request
\* that any handler had begun (server.go:92).
THEOREM CleanExits == Spec => []CleanExit
  <1>1. LifeInv => CleanExit
    BY DEF LifeInv
  <1> QED
    BY <1>1, LifeSound, PTL

\* The pool outlives the drain: no handler is refused a connection by a process
\* that is still serving or draining (main.go:63, server.go:86).
THEOREM PoolOutlivesDrain == Spec => []RefusedOnlyAfterFailure
  <1>1. LifeInv => RefusedOnlyAfterFailure
    BY DEF LifeInv
  <1> QED
    BY <1>1, LifeSound, PTL

\* Every request that leaves the chain has a log line with the status sent, but for
\* panics that come after the answer has begun (middleware.go:100, 123).
THEOREM LogsTellTheAnswer == Spec => []LoggedAsSent
  <1>1. LifeInv => LoggedAsSent
    BY DEF LifeInv
  <1> QED
    BY <1>1, LifeSound, PTL

-----------------------------------------------------------------------------
(* The pool's limit.  Only Acquire takes a connection, and it looks whether *)
(* one is left; everything else gives back or leaves as it is.              *)

\* The steps of a request do not put it in possession of a connection.
LEMMA NotTaken ==
    ASSUME NEW q \in Request
    PROVE  /\ \A x : [q EXCEPT !.at = x].db = q.db /\ [q EXCEPT !.kind = x].db = q.db
           /\ \A x : [q EXCEPT !.sent = x].db = q.db /\ [q EXCEPT !.log = x].db = q.db
           /\ \A x : [q EXCEPT !.late = x].db = q.db /\ [q EXCEPT !.cut = x].db = q.db
           /\ [q EXCEPT !.db = "waiting"].db = "waiting"
           /\ \A x, y : Done(q, x, y).db = q.db
           /\ \A x, y, z : [Done(q, x, y) EXCEPT !.late = z].db = q.db
           /\ \A x, y, z : Done([q EXCEPT !.kind = z], x, y).db = q.db
           /\ \A x, y : [[q EXCEPT !.kind = x] EXCEPT !.at = y].db = q.db
           /\ \A x : Queried(q, x).db = "none"
           /\ \A x, y : [Queried(q, x) EXCEPT !.refused = y].db = "none"
           /\ Cut(q).db \in {q.db, "none"}
           /\ \A x : Fresh(x).db = "none"
  BY DEF Request, Done, Queried, Cut, Fresh

\* What a step of one request leaves to the pool.
LEMMA OneRequest ==
    ASSUME LifeInv, NEW r \in Req, NEW q, req' = [req EXCEPT ![r] = q],
           q.db = "held" => req[r].db = "held"
    PROVE  Held' \subseteq Held
  BY DEF LifeInv, Held

\* Nothing but Acquire puts a request in possession of a connection.
LEMMA HeldGrowsByAcquire ==
    ASSUME LifeInv, [Next]_vars
    PROVE  Held' \subseteq Held \/ \E r \in Req : Acquire(r)
  <1>1. CASE req' = req
    BY <1>1 DEF Held
  <1>2. \A r \in Req : req[r] \in Request
    BY DEF LifeInv
  <1>3. CASE DrainTimeout
    <2>1. \A r \in Req : req'[r] = Cut(req[r])
      BY <1>3 DEF DrainTimeout
    <2>2. \A r \in Req : Cut(req[r]).db \in {req[r].db, "none"}
      BY <1>2, NotTaken
    <2> QED
      BY <2>1, <2>2 DEF Held
  <1>4. ASSUME NEW r \in Req, CloseIdle(r) \/ Accept(r) \/ Finish(r)
        PROVE  Held' \subseteq Held
    <2>1. PICK at : req' = [req EXCEPT ![r] = Fresh(at)]
      BY <1>4 DEF CloseIdle, Accept, Finish
    <2> QED
      BY <1>2, <2>1, NotTaken, OneRequest
  <1>5. ASSUME NEW r \in Req, Gone(r)
        PROVE  Held' \subseteq Held
    <2>1. req' = [req EXCEPT ![r] = Cut(req[r])]
      BY <1>5 DEF Gone
    <2>2. Cut(req[r]).db \in {req[r].db, "none"}
      BY <1>2, NotTaken
    <2> QED
      BY <2>1, <2>2, OneRequest
  <1>6. ASSUME NEW r \in Req, Begin(r)
        PROVE  Held' \subseteq Held
    <2>1. PICK kind :
            \/ req' = [req EXCEPT ![r] = Done([req[r] EXCEPT !.kind = kind], 429, 429)]
            \/ req' = [req EXCEPT ![r] =
                         [[req[r] EXCEPT !.kind = kind] EXCEPT !.at = "running"]]
      BY <1>6 DEF Begin
    <2>2. CASE req' = [req EXCEPT ![r] = Done([req[r] EXCEPT !.kind = kind], 429, 429)]
      <3>1. PICK no : no = 429
        OBVIOUS
      <3>2. PICK q : q = Done([req[r] EXCEPT !.kind = kind], no, no)
        OBVIOUS
      <3>3. q.db = req[r].db
        BY <1>2, <3>2 DEF Request, Done
      <3> QED
        BY <2>2, <3>1, <3>2, <3>3, OneRequest
    <2>3. CASE req' = [req EXCEPT ![r] =
                         [[req[r] EXCEPT !.kind = kind] EXCEPT !.at = "running"]]
      <3>1. PICK q : q = [[req[r] EXCEPT !.kind = kind] EXCEPT !.at = "running"]
        OBVIOUS
      <3>2. q.db = req[r].db
        BY <1>2, <3>1, NotTaken
      <3> QED
        BY <2>3, <3>1, <3>2, OneRequest
    <2> QED
      BY <2>1, <2>2, <2>3
  <1>7. ASSUME NEW r \in Req, Ask(r) \/ Write(r)
        PROVE  Held' \subseteq Held
    <2>1. PICK v : \/ req' = [req EXCEPT ![r] = [req[r] EXCEPT !.db = "waiting"]]
                   \/ req' = [req EXCEPT ![r] = [req[r] EXCEPT !.sent = v]]
      BY <1>7 DEF Ask, Write
    <2>2. CASE req' = [req EXCEPT ![r] = [req[r] EXCEPT !.db = "waiting"]]
      <3>1. PICK q : q = [req[r] EXCEPT !.db = "waiting"]
        OBVIOUS
      <3>2. q.db = "waiting"
        BY <1>2, <3>1, NotTaken
      <3> QED
        BY <2>2, <3>1, <3>2, OneRequest
    <2>3. CASE req' = [req EXCEPT ![r] = [req[r] EXCEPT !.sent = v]]
      <3>1. PICK q : q = [req[r] EXCEPT !.sent = v]
        OBVIOUS
      <3>2. q.db = req[r].db
        BY <1>2, <3>1, NotTaken
      <3> QED
        BY <2>3, <3>1, <3>2, OneRequest
    <2> QED
      BY <2>1, <2>2, <2>3
  <1>8. ASSUME NEW r \in Req,
                Refuse(r) \/ Release(r) \/ Cancel(r) \/ PingTimeout(r)
        PROVE  Held' \subseteq Held
    <2>1. PICK v : \/ req' = [req EXCEPT ![r] = Queried(req[r], v)]
                   \/ req' = [req EXCEPT ![r] = [Queried(req[r], v) EXCEPT !.refused = TRUE]]
      BY <1>8 DEF Refuse, Release, Cancel, PingTimeout
    <2>2. CASE req' = [req EXCEPT ![r] = Queried(req[r], v)]
      <3>1. PICK q : q = Queried(req[r], v)
        OBVIOUS
      <3>2. q.db = "none"
        BY <1>2, <3>1, NotTaken
      <3> QED
        BY <2>2, <3>1, <3>2, OneRequest
    <2>3. CASE req' = [req EXCEPT ![r] = [Queried(req[r], v) EXCEPT !.refused = TRUE]]
      <3>1. PICK q : q = [Queried(req[r], v) EXCEPT !.refused = TRUE]
        OBVIOUS
      <3>2. q.db = "none"
        BY <1>2, <3>1, NotTaken
      <3> QED
        BY <2>3, <3>1, <3>2, OneRequest
    <2> QED
      BY <2>1, <2>2, <2>3
  <1>9. ASSUME NEW r \in Req, Return(r) \/ Panic(r)
        PROVE  Held' \subseteq Held
    <2>1. PICK v, w, z :
            \/ req' = [req EXCEPT ![r] = Done(req[r], v, w)]
            \/ req' = [req EXCEPT ![r] = [Done(req[r], v, w) EXCEPT !.late = z]]
      BY <1>9 DEF Return, Panic
    <2>2. CASE req' = [req EXCEPT ![r] = Done(req[r], v, w)]
      <3>1. PICK q : q = Done(req[r], v, w)
        OBVIOUS
      <3>2. q.db = req[r].db
        BY <1>2, <3>1, NotTaken
      <3> QED
        BY <2>2, <3>1, <3>2, OneRequest
    <2>3. CASE req' = [req EXCEPT ![r] = [Done(req[r], v, w) EXCEPT !.late = z]]
      <3>1. PICK q : q = [Done(req[r], v, w) EXCEPT !.late = z]
        OBVIOUS
      <3>2. q.db = req[r].db
        BY <1>2, <3>1, NotTaken
      <3> QED
        BY <2>3, <3>1, <3>2, OneRequest
    <2> QED
      BY <2>1, <2>2, <2>3
  <1>10. CASE \/ Connect \/ ConnectFails \/ Build \/ BuildFails \/ Listen \/ Signal
              \/ ServeFailed \/ Drain \/ Drained \/ Exit \/ UNCHANGED vars
    BY <1>1, <1>10 DEF Connect, ConnectFails, Build, BuildFails, Listen, Signal,
                       ServeFailed, Drain, Drained, Exit, vars
  <1> QED
    BY <1>3, <1>4, <1>5, <1>6, <1>7, <1>8, <1>9, <1>10 DEF Next

\* No more connections of the pool are in use than it has.
WithinLimit == IsFiniteSet(Held) /\ Cardinality(Held) <= MaxConns

\* TypeOK without the pool's limit.
Types == /\ phase \in {"connect", "build", "select", "drain", "close", "exited"}
         /\ signalled \in BOOLEAN /\ listener \in {"down", "up", "failed"}
         /\ pool \in {"none", "open", "closing", "closed"} /\ code \in {0, 1, 2}

\* No step exceeds the limit.
LEMMA LimitStep == LifeInv /\ WithinLimit /\ [Next]_vars => WithinLimit'
  <1> SUFFICES ASSUME LifeInv, WithinLimit, [Next]_vars PROVE WithinLimit'
    OBVIOUS
  <1>1. IsFiniteSet(Held) /\ Cardinality(Held) \in Nat /\ MaxConns \in Nat
    BY FS_CardinalityType, MaxConnsAssumption DEF WithinLimit
  <1>2. PICK held, taken : held = Held /\ taken = Held'
    OBVIOUS
  <1>3. CASE taken \subseteq held
    <2>1. IsFiniteSet(taken) /\ Cardinality(taken) <= Cardinality(held)
      BY <1>1, <1>2, <1>3, FS_Subset
    <2>2. Cardinality(taken) \in Nat
      BY <2>1, FS_CardinalityType
    <2> QED
      BY <1>1, <1>2, <2>1, <2>2 DEF WithinLimit
  <1>4. ASSUME NEW r \in Req, Acquire(r) PROVE WithinLimit'
    <2>1. Cardinality(held) < MaxConns
      BY <1>2, <1>4 DEF Acquire
    <2>2. taken \subseteq held \cup {r}
      BY <1>2, <1>4 DEF Acquire, LifeInv, Held
    <2>3. /\ IsFiniteSet(held \cup {r})
          /\ Cardinality(held \cup {r}) \in {Cardinality(held), Cardinality(held) + 1}
      BY <1>1, <1>2, FS_AddElement
    <2>4. IsFiniteSet(taken) /\ Cardinality(taken) <= Cardinality(held \cup {r})
      BY <2>2, <2>3, FS_Subset
    <2>5. Cardinality(taken) \in Nat
      BY <2>4, FS_CardinalityType
    <2> QED
      BY <1>1, <1>2, <2>1, <2>3, <2>4, <2>5 DEF WithinLimit
  <1> QED
    BY <1>2, <1>3, <1>4, HeldGrowsByAcquire

\* For any number of connections the variables keep their types, and no more
\* connections of the pool are in use than it has (db.New, pgxpool).
THEOREM ServerTypeCorrect == Spec => []TypeOK
  <1>1. Init => WithinLimit /\ Types
    <2>1. ASSUME Init PROVE Held = {}
      BY <2>1, FreshRequest DEF Init, Held, Fresh
    <2>2. 0 <= MaxConns
      BY MaxConnsAssumption
    <2>3. ASSUME Init PROVE IsFiniteSet(Held) /\ Cardinality(Held) = 0
      BY <2>1, <2>3, FS_EmptySet
    <2> QED
      BY <2>2, <2>3 DEF Init, WithinLimit, Types
  <1>2. Types /\ [Next]_vars => Types'
    <2> SUFFICES ASSUME Types, [Next]_vars PROVE Types'
      OBVIOUS
    <2>1. CASE UNCHANGED <<phase, signalled, listener, pool, code>>
      BY <2>1 DEF Types
    <2>2. CASE \/ Connect \/ ConnectFails \/ Build \/ BuildFails \/ Listen \/ Signal
               \/ ServeFailed \/ Drain \/ Drained \/ DrainTimeout \/ Exit
      BY <2>2 DEF Types, Connect, ConnectFails, Build, BuildFails, Listen, Signal,
                  ServeFailed, Drain, Drained, DrainTimeout, Exit
    <2> QED
      BY <2>1, <2>2 DEF Next, vars, CloseIdle, Accept, Gone, Begin, Ask, Acquire, Refuse,
         Release, Cancel, PingTimeout, Write, Return, Panic, Finish, Frame
  <1>3. LifeInv /\ WithinLimit /\ Types => TypeOK
    BY DEF LifeInv, WithinLimit, Types, TypeOK
  <1> QED
    BY <1>1, <1>2, <1>3, LifeSound, LimitStep, PTL DEF Spec
=============================================================================
