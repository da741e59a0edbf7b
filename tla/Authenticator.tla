---------------------------- MODULE Authenticator ----------------------------
(***************************************************************************)
(* The lazy discovery of the identity provider (internal/auth/oidc.go):    *)
(* every operation of the Authenticator first calls ensure, which holds    *)
(* the mutex while it asks the provider for its metadata.  The mutex       *)
(* cannot be waited for with a context; the discovery ends with the        *)
(* provider's answer or when the client of the request that runs it goes   *)
(* away, and no sooner: it has no timeout of its own.                      *)
(***************************************************************************)
EXTENDS Naturals

CONSTANTS Request,     \* slots for requests being served (goroutines)
          None,
          MaxRestarts  \* bound on the restarts of the process

ASSUME RestartsAssumption == MaxRestarts \in Nat
ASSUME NoneAssumption == None \notin Request \cup Nat

VARIABLES mu,        \* the request that holds a.mu
          provider,  \* a.provider and what is built from it, by discovery
          call,      \* the local state of each request
          idp,       \* the provider as the network lets it be seen
          restarts,
          made       \* history: discoveries that succeeded in this process

vars == <<mu, provider, call, idp, restarts, made>>

Pc == {"idle", "lock", "discover", "use"}

(* A request: the calls of ensure it still makes, whether its client is     *)
(* gone (its context cancelled), and, as history, the discovery it used.    *)
Call == [pc : Pc, left : 0 .. 2, gone : BOOLEAN, with : Nat \cup {None}]

Quiet == [pc |-> "idle", left |-> 0, gone |-> FALSE, with |-> None]

-----------------------------------------------------------------------------

\* Login, Logout and RefreshSession make one call, Callback makes two: Exchange
\* and VerifyIDToken.
Arrive(r, n) ==
    /\ call[r].pc = "idle"
    /\ call' = [call EXCEPT ![r] =
                  [pc |-> "lock", left |-> n, gone |-> FALSE, with |-> None]]
    /\ UNCHANGED <<mu, provider, idp, restarts, made>>

\* Mutant: looks at a.provider before it takes the lock, and not again.
LockUnchecked(r) ==
    /\ call[r].pc = "lock" /\ mu = None
    /\ mu' = r
    /\ call' = [call EXCEPT ![r] = [@ EXCEPT !.pc = "discover"]]
    /\ UNCHANGED <<provider, idp, restarts, made>>

\* ensure: under the lock there is a provider already, or it is discovered now.
Lock(r) ==
    /\ call[r].pc = "lock" /\ mu = None
    /\ IF provider # None
       THEN /\ call' = [call EXCEPT ![r] = [@ EXCEPT !.pc = "use"]]
            /\ mu' = mu
       ELSE /\ call' = [call EXCEPT ![r] = [@ EXCEPT !.pc = "discover"]]
            /\ mu' = r
    /\ UNCHANGED <<provider, idp, restarts, made>>

Discovered(r) ==
    /\ call[r].pc = "discover" /\ idp = "up"
    /\ made' = made + 1
    /\ provider' = made + 1
    /\ call' = [call EXCEPT ![r] = [@ EXCEPT !.pc = "use"]]
    /\ mu' = None
    /\ UNCHANGED <<idp, restarts>>

\* Mutant: the error path returns without unlocking.
DiscoveryFailedLocked(r) ==
    /\ call[r].pc = "discover" /\ (idp = "down" \/ call[r].gone)
    /\ call' = [call EXCEPT ![r] = Quiet]
    /\ UNCHANGED <<mu, provider, idp, restarts, made>>

\* The request that ran the discovery fails, and only that one.
DiscoveryFailed(r) ==
    /\ call[r].pc = "discover" /\ (idp = "down" \/ call[r].gone)
    /\ call' = [call EXCEPT ![r] = Quiet]
    /\ mu' = None
    /\ UNCHANGED <<provider, idp, restarts, made>>

\* The operation proper, on a.oauth2 and a.verifier, outside the lock.
Use(r) ==
    /\ call[r].pc = "use"
    /\ call' = [call EXCEPT ![r] =
                  IF call[r].left = 1 THEN Quiet
                  ELSE [pc |-> "lock", left |-> call[r].left - 1,
                        gone |-> call[r].gone, with |-> provider]]
    /\ UNCHANGED <<mu, provider, idp, restarts, made>>

\* The operation proper fails: Callback answers after a failed Exchange.
UseFails(r) ==
    /\ call[r].pc = "use"
    /\ call' = [call EXCEPT ![r] = Quiet]
    /\ UNCHANGED <<mu, provider, idp, restarts, made>>

\* The client disconnects: net/http cancels the request's context.
GiveUp(r) ==
    /\ call[r].pc # "idle" /\ ~call[r].gone
    /\ call' = [call EXCEPT ![r] = [@ EXCEPT !.gone = TRUE]]
    /\ UNCHANGED <<mu, provider, idp, restarts, made>>

\* The provider answers, refuses, or keeps silent.
IdpChanges(s) ==
    /\ s # idp
    /\ idp' = s
    /\ UNCHANGED <<mu, provider, call, restarts, made>>

\* The process is replaced: a login begun before ends in a new one.
Restart ==
    /\ restarts < MaxRestarts
    /\ restarts' = restarts + 1
    /\ mu' = None /\ provider' = None /\ made' = 0
    /\ call' = [r \in Request |-> Quiet]
    /\ UNCHANGED idp

Init == /\ mu = None /\ provider = None /\ made = 0
        /\ call = [r \in Request |-> Quiet]
        /\ idp \in {"up", "down", "silent"}
        /\ restarts = 0

Next == \/ \E r \in Request : \/ \E n \in 1 .. 2 : Arrive(r, n)
                              \/ Lock(r) \/ Discovered(r) \/ DiscoveryFailed(r)
                              \/ Use(r) \/ UseFails(r) \/ GiveUp(r)
        \/ \E s \in {"up", "down", "silent"} : IdpChanges(s)
        \/ Restart

(* Goroutines run.  The mutex is not taken from under a waiter forever      *)
(* (sync.Mutex hands it over in starvation mode).  A client does not wait   *)
(* forever for an answer that does not come.  The provider owes nothing.    *)
Fairness ==
    \A r \in Request : /\ SF_vars(Lock(r))
                       /\ WF_vars(Discovered(r)) /\ WF_vars(DiscoveryFailed(r))
                       /\ WF_vars(Use(r) \/ UseFails(r)) /\ WF_vars(GiveUp(r))

Spec == Init /\ [][Next]_vars

FairSpec == Spec /\ Fairness

-----------------------------------------------------------------------------

TypeOK == /\ mu \in Request \cup {None}
          /\ provider \in Nat \cup {None}
          /\ call \in [Request -> Call]
          /\ \A r \in Request : call[r].pc = "idle" <=> call[r].left = 0
          /\ idp \in {"up", "down", "silent"}
          /\ restarts \in 0 .. MaxRestarts
          /\ made \in Nat

\* The metadata is fetched once, whatever the number of requests that found no
\* provider: one request at a time discovers, and none once there is one.
DiscoveredOnce ==
    /\ \A r \in Request : call[r].pc = "discover" => mu = r /\ provider = None
    /\ made <= 1

\* A callback exchanges its code and verifies the token with one and the same
\* discovery, and whoever is past ensure has a provider to use.
OneProvider ==
    \A r \in Request : /\ call[r].pc = "use" => provider # None
                       /\ call[r].with # None => call[r].with = provider

\* Nobody waits forever at the mutex, even while the provider keeps silent.
EveryCallReturns ==
    \A r \in Request : call[r].pc # "idle" ~> call[r].pc = "idle"

\* oidc.go:22 "discovery is retried until it succeeds": once the provider stays
\* up and the client of a discovery waits for it, a request that comes finds it.
RetriedUntilFound ==
    /\ <>[](/\ idp = "up"
            /\ \A r \in Request : call[r].pc = "discover" => ~call[r].gone)
    /\ []<>(\E r \in Request : call[r].pc = "lock")
    => <>(provider # None)
=============================================================================
