----------------------------- MODULE RateLimiter -----------------------------
(***************************************************************************)
(* The per-IP token bucket (internal/server/middleware.go): allow, which   *)
(* reads the clock before it takes the lock, so that requests can reach    *)
(* the bucket in another order than that of their clock readings, and the  *)
(* janitor, which forgets visitors that were not seen for Ttl.             *)
(*                                                                         *)
(* Units: the clock ticks once in the time in which one unit flows into a  *)
(* bucket, a request costs Cost units and a bucket holds Burst.  With the  *)
(* router's 50 requests/s and burst 100 a tick of 20 ms gives Cost = 1,    *)
(* Burst = 100 and Ttl = 30000; the code's float64 arithmetic is exact     *)
(* here.                                                                   *)
(***************************************************************************)
EXTENDS Integers

CONSTANTS Request,   \* slots for requests being served (goroutines)
          Ip,
          None,
          Cost, Burst, Ttl,
          Delay,     \* bound on the wait between clock reading and lock
          MaxTime    \* bound on the clock

ASSUME BucketAssumption ==
    /\ Cost \in Nat \ {0} /\ Burst \in Nat /\ Ttl \in Nat
    /\ Cost <= Burst

\* An evicted visitor's bucket would have been full again: 10 minutes of refill
\* are 300 bursts.
ASSUME EvictionAssumption == Delay \in Nat /\ Burst + 2 * Delay <= Ttl

ASSUME TimeAssumption == MaxTime \in Nat

VARIABLES visitors,  \* rl.visitors
          arrived,   \* a request on its way to the lock, and its clock reading
          cutoff,    \* the janitor on its way to the lock, and its cutoff
          now,
          admitted   \* history: units admitted, by window of clock readings

vars == <<visitors, arrived, cutoff, now, admitted>>

Time == 0 .. MaxTime
Window == {w \in [from : Time, to : Time] : w.from <= w.to}
\* A late request can find lastFill ahead of its own clock reading: the bucket
\* then runs up a debt, of at most Delay.
Visitor == [tokens : (-Delay) .. Burst, lastFill : Time, lastSeen : Time]
Arrival == [ip : Ip, at : Time]

ASSUME NoneAssumption == None \notin Visitor \cup Arrival \cup Int

Least(a, b) == IF a <= b THEN a ELSE b

-----------------------------------------------------------------------------

\* The middleware: now := time.Now(), then Lock().
Arrive(r, i) ==
    /\ arrived[r] = None
    /\ arrived' = [arrived EXCEPT ![r] = [ip |-> i, at |-> now]]
    /\ UNCHANGED <<visitors, cutoff, now, admitted>>

\* What allow finds in the bucket: full for a new visitor, else refilled by
\* the time since the last fill (which a late request may put in its future).
Filled(v, t) == IF v = None THEN Burst
                ELSE Least(Burst, v.tokens + (t - v.lastFill))

Passes(v, t) == v = None \/ Filled(v, t) >= Cost

\* Under the lock: the bucket of r's client is left with the given units.
Leave(r, tokens, passes) ==
    LET i == arrived[r].ip
        t == arrived[r].at
    IN  /\ visitors' = [visitors EXCEPT ![i] =
              [tokens |-> tokens, lastFill |-> t, lastSeen |-> t]]
        /\ admitted' = IF passes
              THEN [admitted EXCEPT ![i] = [w \in Window |->
                      IF w.from <= t /\ t <= w.to THEN @[w] + Cost ELSE @[w]]]
              ELSE admitted
        /\ arrived' = [arrived EXCEPT ![r] = None]
        /\ UNCHANGED <<cutoff, now>>

\* Mutant: refills without the cap.
AllowUncapped(r) ==
    /\ arrived[r] # None
    /\ LET t == arrived[r].at
           v == visitors[arrived[r].ip]
           filled == IF v = None THEN Burst ELSE v.tokens + (t - v.lastFill)
       IN  IF filled >= Cost THEN Leave(r, filled - Cost, TRUE)
           ELSE Leave(r, filled, FALSE)

\* Mutant: elapsed time below zero counts as none, though lastFill goes back.
AllowClamped(r) ==
    /\ arrived[r] # None
    /\ LET t == arrived[r].at
           v == visitors[arrived[r].ip]
           filled == IF v # None /\ t < v.lastFill THEN v.tokens ELSE Filled(v, t)
       IN  IF filled >= Cost THEN Leave(r, filled - Cost, TRUE)
           ELSE Leave(r, filled, FALSE)

\* Mutant: a rejected request empties the bucket.
AllowPenalising(r) ==
    /\ arrived[r] # None
    /\ LET t == arrived[r].at
           v == visitors[arrived[r].ip]
       IN  IF Passes(v, t) THEN Leave(r, Filled(v, t) - Cost, TRUE)
           ELSE Leave(r, 0 - Delay, FALSE)

\* allow: 200 and on to the handler, or 429.
Allow(r) ==
    /\ arrived[r] # None
    /\ LET t == arrived[r].at
           v == visitors[arrived[r].ip]
       IN  IF Passes(v, t) THEN Leave(r, Filled(v, t) - Cost, TRUE)
           ELSE Leave(r, Filled(v, t), FALSE)

\* The ticker fires: cutoff := time.Now() - ttl, then Lock().
Wake == /\ cutoff = None
        /\ cutoff' = now - Ttl
        /\ UNCHANGED <<visitors, arrived, now, admitted>>

\* The loop over the visitors, under the lock.
Evict == /\ cutoff # None
         /\ visitors' = [i \in Ip |->
               IF visitors[i] # None /\ visitors[i].lastSeen < cutoff
               THEN None ELSE visitors[i]]
         /\ cutoff' = None
         /\ UNCHANGED <<arrived, now, admitted>>

\* Nobody waits for the lock longer than Delay.
Tick == /\ now < MaxTime
        /\ \A r \in Request : arrived[r] # None => now < arrived[r].at + Delay
        /\ now' = now + 1
        /\ UNCHANGED <<visitors, arrived, cutoff, admitted>>

Init == /\ visitors = [i \in Ip |-> None]
        /\ arrived = [r \in Request |-> None]
        /\ cutoff = None
        /\ now = 0
        /\ admitted = [i \in Ip |-> [w \in Window |-> 0]]

Next == \/ \E r \in Request : \/ \E i \in Ip : Arrive(r, i)
                              \/ Allow(r)
        \/ Wake \/ Evict \/ Tick

Spec == Init /\ [][Next]_vars

-----------------------------------------------------------------------------

TypeOK == /\ visitors \in [Ip -> Visitor \cup {None}]
          /\ arrived \in [Request -> Arrival \cup {None}]
          /\ cutoff \in Int \cup {None}
          /\ now \in Time
          /\ admitted \in [Ip -> [Window -> Nat]]

\* The limit: of the requests whose clock readings fall into any window, no
\* more get through than one burst and what flows in during the window, in
\* whatever order they reach the lock and whoever the janitor forgets.
NoOverAdmission ==
    \A i \in Ip : \A w \in Window : admitted[i][w] <= Burst + (w.to - w.from)

\* Request r is turned away.
Denied(r) == arrived[r] # None /\ arrived'[r] = None /\ admitted' = admitted

\* A client is turned away only if it used its allowance up: for some window
\* that ends now, what got through and this request exceed a burst and the
\* inflow, up to what the wait for the lock can reorder.
DenialEarned ==
    [][\A r \in Request : Denied(r) =>
         \E a \in 0 .. now :
            admitted[arrived[r].ip][[from |-> a, to |-> MaxTime]] + Cost + Delay
              > Burst + (arrived[r].at - a)]_vars

-----------------------------------------------------------------------------
(* What makes the two properties inductive: a visitor's tokens minus the    *)
(* time of its last fill never grow, and bound the rest.                    *)

Punctual == /\ \A r \in Request : arrived[r] # None =>
                 arrived[r].at <= now /\ now <= arrived[r].at + Delay
            /\ cutoff # None => cutoff <= now - Ttl

Level(v) == v.tokens - v.lastFill

Levels == \A i \in Ip : visitors[i] # None =>
            /\ visitors[i].lastSeen = visitors[i].lastFill
            /\ visitors[i].lastFill <= now
            /\ 0 <= Level(visitors[i]) + now

\* Every unit admitted lowered the level of the visitor; a visitor that was
\* forgotten would be at its full burst by any clock reading still to come.
Paid == \A i \in Ip : \A w \in Window : admitted[i][w] # 0 =>
          IF visitors[i] # None
          THEN Level(visitors[i]) <= Burst - w.from - admitted[i][w]
          ELSE admitted[i][w] + w.from <= now - Delay

\* And nothing else lowered it, since some clock reading nobody can precede.
Spent == \A i \in Ip : visitors[i] # None =>
           \E a \in 0 .. now :
              /\ a = 0 \/ a + Delay <= now
              /\ Burst - a - Level(visitors[i])
                   <= admitted[i][[from |-> a, to |-> MaxTime]] + Delay

BucketInv == TypeOK /\ Punctual /\ Levels /\ Paid /\ NoOverAdmission /\ Spent
=============================================================================
