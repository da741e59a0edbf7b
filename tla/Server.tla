-------------------------------- MODULE Server --------------------------------
(***************************************************************************)
(* The life of the process (cmd/server/main.go, internal/server/server.go, *)
(* internal/db/db.go): configuration, pool, listener, draining on a signal *)
(* with a deadline, and the closing of the pool; and the requests that are *)
(* under way meanwhile, as the outer middleware sees them: logger, then    *)
(* recoverer, then rate limiter, then a handler that takes connections of  *)
(* the pool, hangs, panics or answers.  Connections that are hijacked, the *)
(* dev proxy's websockets, are left out: net/http does not drain them.     *)
(***************************************************************************)
EXTENDS Naturals, FiniteSets

CONSTANTS Req,       \* client connections, each with one request at a time
          MaxConns   \* size of the pool

VARIABLES phase,     \* where run is
          signalled, \* SIGINT or SIGTERM has come since Run listens for it
          listener,  \* of ListenAndServe
          pool,      \* of db.New
          req,       \* the requests
          code       \* what Run has returned, the exit status

vars == <<phase, signalled, listener, pool, req, code>>

ASSUME MaxConnsAssumption == MaxConns \in Nat \ {0}

(* at: "open" is a connection without a request, "running" a request in its *)
(* handler, "done" one past RequestLogger.  db: its use of the pool.  sent: *)
(* the status on the wire; log: the status of its log line, 0 none yet.     *)
(* refused: it was refused a connection.  late: it panicked after writing.  *)
(* cut: its connection is gone, and its context cancelled.                  *)
Status == {0, 200, 401, 429, 500, 503}
Request == [at : {"none", "open", "running", "done"},
            kind : {"app", "live", "ready"},
            db : {"none", "waiting", "held"}, sent : Status, log : Status,
            refused : BOOLEAN, late : BOOLEAN, cut : BOOLEAN]

Fresh(at) == [at |-> at, kind |-> "app", db |-> "none", sent |-> 0, log |-> 0,
              refused |-> FALSE, late |-> FALSE, cut |-> FALSE]

InHandler(r) == req[r].at = "running" /\ phase # "exited"
Held == {r \in Req : req[r].db = "held"}

-----------------------------------------------------------------------------
(* run, in main.                                                            *)

\* config.Load, and db.New with its ping.
Connect == /\ phase = "connect"
           /\ phase' = "build" /\ pool' = "open"
           /\ UNCHANGED <<signalled, listener, req, code>>

\* Either fails; db.New closes its own pool.
ConnectFails == /\ phase = "connect"
                /\ phase' = "exited" /\ code' = 1
                /\ UNCHANGED <<signalled, listener, pool, req>>

\* server.New, and the start of Run.
Build == /\ phase = "build"
         /\ phase' = "select"
         /\ UNCHANGED <<signalled, listener, pool, req, code>>

\* server.New fails on the embedded SPA or the dev URL; the deferred pool.Close.
BuildFails == /\ phase = "build"
              /\ phase' = "close" /\ pool' = "closing" /\ code' = 1
              /\ UNCHANGED <<signalled, listener, req>>

\* The goroutine of Run: the port is bound, or it is not, or accepting fails.
Listen == /\ phase = "select" /\ listener # "failed"
          /\ \/ listener = "down" /\ listener' = "up"
             \/ listener' = "failed"
          /\ UNCHANGED <<phase, signalled, pool, req, code>>

\* A signal is kept for the select while Run has it registered: more of them change
\* nothing.  Before and after, it ends the process.
Signal == /\ phase # "exited"
          /\ IF phase \in {"select", "drain"}
             THEN signalled' = TRUE /\ UNCHANGED <<phase, code>>
             ELSE phase' = "exited" /\ code' = 2 /\ UNCHANGED signalled
          /\ UNCHANGED <<listener, pool, req>>

\* select takes serveErr: Run returns it and the deferred pool.Close begins, while
\* the connections and handlers stay as they are.
ServeFailed == /\ phase = "select" /\ listener = "failed"
               /\ phase' = "close" /\ pool' = "closing" /\ code' = 1
               /\ UNCHANGED <<signalled, listener, req>>

\* Mutant: the pool is closed on the signal.
DrainWithoutPool == /\ phase = "select" /\ signalled
                    /\ phase' = "drain" /\ listener' = "down" /\ pool' = "closing"
                    /\ UNCHANGED <<signalled, req, code>>

\* select takes ctx.Done, also when serveErr has a value: Shutdown closes the
\* listener.
Drain == /\ phase = "select" /\ signalled
         /\ phase' = "drain" /\ listener' = "down"
         /\ UNCHANGED <<signalled, pool, req, code>>

\* Shutdown closes a connection that has no request.
CloseIdle(r) == /\ phase = "drain" /\ req[r].at = "open"
                /\ req' = [req EXCEPT ![r] = Fresh("none")]
                /\ UNCHANGED <<phase, signalled, listener, pool, code>>

\* Shutdown finds no connection left, and Run returns.
Drained == /\ phase = "drain" /\ \A r \in Req : req[r].at = "none"
           /\ phase' = "close" /\ pool' = "closing" /\ code' = 0
           /\ UNCHANGED <<signalled, listener, req>>

\* A connection goes, by Close or by its client.
Cut(q) == IF q.at = "running" THEN [q EXCEPT !.cut = TRUE] ELSE Fresh("none")

\* Mutant: Shutdown waits on context.Background().
DrainTimeoutNever == FALSE /\ UNCHANGED vars

\* Mutant: the error of Shutdown is logged and forgotten.
DrainTimeoutClean == /\ phase = "drain"
                     /\ phase' = "close" /\ pool' = "closing" /\ code' = 0
                     /\ req' = [r \in Req |-> Cut(req[r])]
                     /\ UNCHANGED <<signalled, listener>>

\* shutdownTimeout passes: Close closes what is open, and Run returns the error.
DrainTimeout == /\ phase = "drain"
                /\ phase' = "close" /\ pool' = "closing" /\ code' = 1
                /\ req' = [r \in Req |-> Cut(req[r])]
                /\ UNCHANGED <<signalled, listener>>

\* pool.Close returns when every connection is back, and the process ends.
Exit == /\ phase = "close" /\ Held = {}
        /\ phase' = "exited" /\ pool' = "closed"
        /\ UNCHANGED <<signalled, listener, req, code>>

-----------------------------------------------------------------------------
(* Requests.                                                                *)

Frame == UNCHANGED <<phase, signalled, listener, pool, code>>

\* A client connects.
Accept(r) == /\ phase = "select" /\ listener = "up" /\ req[r].at = "none"
             /\ req' = [req EXCEPT ![r] = Fresh("open")]
             /\ Frame

\* The client goes.
Gone(r) == /\ phase # "exited" /\ req[r].at \in {"open", "running"}
           /\ req' = [req EXCEPT ![r] = Cut(@)]
           /\ Frame

\* RequestLogger's line, with the status statusRecorder has seen.
Done(q, sent, log) == [q EXCEPT !.at = "done", !.sent = sent, !.log = log]

\* A request arrives at the chain, also on a connection that Shutdown has not
\* closed yet: the rate limiter turns it away, or its handler runs.
Begin(r) == /\ phase # "exited" /\ req[r].at = "open"
            /\ \E kind \in {"app", "live", "ready"} :
                 LET q == [req[r] EXCEPT !.kind = kind] IN
                 \/ req' = [req EXCEPT ![r] = Done(q, 429, 429)]
                 \/ req' = [req EXCEPT ![r] = [q EXCEPT !.at = "running"]]
            /\ Frame

\* A handler asks the pool for a connection.  The readiness probe asks once.
Ask(r) == /\ InHandler(r) /\ req[r].db = "none"
          /\ req[r].kind # "live" /\ req[r].sent = 0
          /\ req' = [req EXCEPT ![r].db = "waiting"]
          /\ Frame

\* The pool has one to give.
Acquire(r) == /\ InHandler(r) /\ req[r].db = "waiting" /\ pool = "open"
              /\ Cardinality(Held) < MaxConns
              /\ req' = [req EXCEPT ![r].db = "held"]
              /\ Frame

\* A use of the pool is over: the probe has the status to answer with.
Queried(q, status) ==
    [q EXCEPT !.db = "none", !.sent = IF q.kind = "ready" THEN status ELSE 0]

\* A pool that is closing refuses those who wait and those who ask.
Refuse(r) == /\ InHandler(r) /\ req[r].db = "waiting" /\ pool # "open"
             /\ req' = [req EXCEPT ![r] = [Queried(@, 503) EXCEPT !.refused = TRUE]]
             /\ Frame

\* The query ends.  A ping that succeeds is the probe's 200.
Release(r) == /\ InHandler(r) /\ req[r].db = "held"
              /\ req' = [req EXCEPT ![r] = Queried(@, 200)]
              /\ Frame

\* The context of a request whose connection is gone ends its waiting and its query.
Cancel(r) == /\ InHandler(r) /\ req[r].cut /\ req[r].db # "none"
             /\ req' = [req EXCEPT ![r] = Queried(@, 503)]
             /\ Frame

\* Mutant: the readiness ping has the request's context only.
PingTimeoutNever(r) == FALSE /\ UNCHANGED vars

\* PingTimeout passes, or the ping fails: the probe's 503.
PingTimeout(r) == /\ InHandler(r) /\ req[r].kind = "ready" /\ req[r].db # "none"
                  /\ req' = [req EXCEPT ![r] = Queried(@, 503)]
                  /\ Frame

\* An application handler writes: its answer is on the wire while it goes on.
Write(r) == /\ InHandler(r) /\ req[r].kind = "app"
            /\ req[r].db = "none" /\ req[r].sent = 0
            /\ \E status \in {200, 401, 500} :
                  req' = [req EXCEPT ![r].sent = status]
            /\ Frame

\* The handler returns.  Without a status it is 200, on the wire and in the log.
Return(r) == /\ InHandler(r) /\ req[r].db = "none"
             /\ req[r].kind = "ready" => req[r].sent # 0
             /\ LET status == IF req[r].sent = 0 THEN 200 ELSE req[r].sent
                IN req' = [req EXCEPT ![r] = Done(@, status, status)]
             /\ Frame

\* Mutant: the recoverer is outside the logger, which the panic passes by.
PanicUnlogged(r) ==
    /\ InHandler(r) /\ req[r].kind = "app" /\ req[r].db = "none"
    /\ req' = [req EXCEPT ![r] = [Done(@, IF @.sent = 0 THEN 500 ELSE @.sent, 0)
                                    EXCEPT !.late = (req[r].sent # 0)]]
    /\ Frame

\* Recoverer answers 500, which comes too late for a handler that has written; the
\* logger records the 500 either way.
Panic(r) ==
    /\ InHandler(r) /\ req[r].kind = "app" /\ req[r].db = "none"
    /\ req' = [req EXCEPT ![r] = [Done(@, IF @.sent = 0 THEN 500 ELSE @.sent, 500)
                                    EXCEPT !.late = (req[r].sent # 0)]]
    /\ Frame

\* The connection is kept for another request, or closed.
Finish(r) == /\ phase # "exited" /\ req[r].at = "done"
             /\ \/ phase # "drain" /\ ~req[r].cut
                   /\ req' = [req EXCEPT ![r] = Fresh("open")]
                \/ req' = [req EXCEPT ![r] = Fresh("none")]
             /\ Frame

-----------------------------------------------------------------------------

Init == /\ phase = "connect" /\ signalled = FALSE /\ listener = "down"
        /\ pool = "none" /\ code = 0
        /\ req = [r \in Req |-> Fresh("none")]

Next == \/ Connect \/ ConnectFails \/ Build \/ BuildFails \/ Listen \/ Signal
        \/ ServeFailed \/ Drain \/ Drained \/ DrainTimeout \/ Exit
        \/ \E r \in Req : \/ CloseIdle(r) \/ Accept(r) \/ Gone(r) \/ Begin(r) \/ Ask(r)
                          \/ Acquire(r) \/ Refuse(r) \/ Release(r) \/ Cancel(r)
                          \/ PingTimeout(r) \/ Write(r) \/ Return(r) \/ Panic(r)
                          \/ Finish(r)

Spec == Init /\ [][Next]_vars

\* A probe's handler runs to its end.
ProbeSteps(r) == /\ req[r].kind \in {"live", "ready"}
                 /\ Ask(r) \/ PingTimeout(r) \/ Refuse(r) \/ Return(r)

\* Timers fire, a closed connection's context is cancelled and goroutines run.
\* Application handlers, queries and the network owe nothing.
Fairness == /\ WF_vars(Drained \/ DrainTimeout) /\ WF_vars(Exit)
            /\ \A r \in Req : WF_vars(Cancel(r)) /\ WF_vars(ProbeSteps(r))

FairSpec == Spec /\ Fairness

-----------------------------------------------------------------------------

TypeOK == /\ phase \in {"connect", "build", "select", "drain", "close", "exited"}
          /\ signalled \in BOOLEAN
          /\ listener \in {"down", "up", "failed"}
          /\ pool \in {"none", "open", "closing", "closed"}
          /\ req \in [Req -> Request]
          /\ code \in {0, 1, 2}
          /\ Cardinality(Held) <= MaxConns

\* "server stopped cleanly": when Run has returned without an error, no request
\* that reached a handler is cut off, unanswered or missing from the log.
CleanExit ==
    phase \in {"close", "exited"} /\ code = 0 => \A r \in Req : req[r].at = "none"

\* The deferred pool.Close comes after the drain: a handler finds the pool closed
\* only when the listener failed or the drain ran out of time.
RefusedOnlyAfterFailure ==
    \A r \in Req : req[r].refused => phase \in {"close", "exited"} /\ code # 0

\* Every request that leaves the middleware, panics and denials included, has its
\* log line, and the line has the status that was sent unless the handler panicked
\* after it had begun to answer.
LoggedAsSent ==
    \A r \in Req : req[r].at = "done" =>
       /\ req[r].log # 0 /\ req[r].sent # 0
       /\ req[r].log # req[r].sent => req[r].late

\* Draining ends, and the process with it, though a handler or a query hangs.
DrainEnds == phase = "drain" ~> phase = "exited"

\* The probes are answered though queries hang and hold every connection.
ProbesAnswered ==
    \A r \in Req : (req[r].at = "running" /\ req[r].kind # "app")
                      ~> (req[r].at # "running" \/ phase = "exited")

-----------------------------------------------------------------------------
(* What makes the safety properties inductive.                              *)

\* No request before the pool, and none is refused before the pool is closed.
Ordered == /\ phase = "connect" => \A r \in Req : req[r].at = "none"
           /\ pool = "open" \/ phase \in {"connect", "close", "exited"}

LifeInv == /\ phase \in {"connect", "build", "select", "drain", "close", "exited"}
           /\ req \in [Req -> Request] /\ code \in {0, 1, 2}
           /\ Ordered /\ CleanExit /\ RefusedOnlyAfterFailure /\ LoggedAsSent
=============================================================================
