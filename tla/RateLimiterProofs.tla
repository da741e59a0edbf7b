-------------------------- MODULE RateLimiterProofs --------------------------
(* Theorems about module RateLimiter, for any number of clients and         *)
(* requests and any rate, burst, eviction time and lock delay that satisfy  *)
(* its assumptions.                                                         *)
EXTENDS RateLimiter, TLAPS

\* The window from a clock reading on.
From(a) == [from |-> a, to |-> MaxTime]

\* A window is a pair of clock readings.
LEMMA Windows ==
    /\ \A w \in Window : w.from \in Time /\ w.to \in Time /\ w.from <= w.to
    /\ \A a \in Time : From(a) \in Window /\ From(a).from = a
                       /\ From(a).to = MaxTime
    BY TimeAssumption DEF Window, From, Time

\* A request let through: it is charged and booked.
Charged(i, t, k) ==
    /\ k >= 0 /\ k <= Burst - Cost
    /\ visitors[i] = None => k = Burst - Cost
    /\ visitors[i] # None =>
         /\ k <= Level(visitors[i]) + t - Cost
         /\ k = Burst - Cost \/ k = Level(visitors[i]) + t - Cost
    /\ admitted' = [admitted EXCEPT ![i] = [w \in Window |->
         IF w.from <= t /\ t <= w.to THEN @[w] + Cost ELSE @[w]]]

\* A request turned away: the bucket is refilled only.
Refilled(i, t, k) ==
    /\ visitors[i] # None /\ k = Level(visitors[i]) + t /\ k < Cost
    /\ admitted' = admitted

\* What allow leaves in the bucket of a client, and in the books.
Effect(i, t, k) ==
    /\ t <= now /\ now <= t + Delay
    /\ visitors' = [visitors EXCEPT ![i] =
                      [tokens |-> k, lastFill |-> t, lastSeen |-> t]]
    /\ Charged(i, t, k) \/ Refilled(i, t, k)

\* allow is one of the two: a charge that is booked, or a refill that is not.
LEMMA AllowEffect ==
    ASSUME BucketInv, NEW r \in Request, Allow(r)
    PROVE  \E i \in Ip, t \in Time, k \in (-Delay) .. Burst :
             /\ arrived[r] # None /\ i = arrived[r].ip /\ t = arrived[r].at
             /\ Effect(i, t, k)
<1>0. /\ arrived[r] # None /\ arrived[r].ip \in Ip /\ arrived[r].at \in Time
      /\ arrived[r].at <= now /\ now <= arrived[r].at + Delay
    BY DEF Allow, BucketInv, TypeOK, Arrival, Punctual
<1> PICK i \in Ip, t \in Time : i = arrived[r].ip /\ t = arrived[r].at
    BY <1>0
<1> DEFINE v == visitors[i]
<1>1. t <= now /\ now <= t + Delay /\ v \in Visitor \cup {None}
    BY <1>0 DEF BucketInv, TypeOK
<1>2. /\ Cost \in Nat /\ Cost > 0 /\ Burst \in Nat /\ Cost <= Burst /\ Delay \in Nat
      /\ t \in Int /\ now \in Int
    BY <1>1, BucketAssumption, EvictionAssumption, TimeAssumption
    DEF BucketInv, TypeOK, Time
<1>3. v # None => /\ v.tokens \in Int /\ v.lastFill \in Int
                  /\ Level(v) \in Int /\ 0 <= Level(v) + now
                  /\ v.tokens + (t - v.lastFill) = Level(v) + t
    BY <1>1, <1>2, EvictionAssumption, BucketAssumption, TimeAssumption
    DEF Visitor, Time, Level, BucketInv, Levels
<1>f. Filled(v, t) \in Int
  <2>1. CASE v = None
      BY <1>2, <2>1 DEF Filled
  <2>2. CASE v # None
    <3>1. Filled(v, t) = IF Burst <= Level(v) + t THEN Burst ELSE Level(v) + t
        BY <1>3, <2>2 DEF Filled, Least
    <3> QED
        BY <1>2, <1>3, <2>2, <3>1
  <2> QED
      BY <2>1, <2>2
<1>4. CASE Passes(v, t)
  <2>1. PICK k \in Int : k = Filled(v, t) - Cost
      BY <1>2, <1>f
  <2>2. /\ k >= 0 /\ k <= Burst - Cost
        /\ v = None => k = Burst - Cost
        /\ v # None => /\ k <= Level(v) + t - Cost
                       /\ k = Burst - Cost \/ k = Level(v) + t - Cost
      BY <1>2, <1>3, <1>4, <2>1 DEF Passes, Filled, Least
  <2>3. Leave(r, k, TRUE)
      BY <1>4, <2>1 DEF Allow
  <2>4. k \in (-Delay) .. Burst
      BY <1>2, <2>2
  <2>5. Effect(i, t, k)
      BY <1>1, <2>2, <2>3 DEF Effect, Charged, Leave
  <2> QED
      BY <1>0, <2>4, <2>5
<1>5. CASE ~Passes(v, t)
  <2>1. PICK k \in Int : k = Filled(v, t)
      BY <1>f
  <2>2. v # None /\ k = Level(v) + t /\ k < Cost /\ 0 - Delay <= k
      BY <1>1, <1>2, <1>3, <1>5, <2>1 DEF Passes, Filled, Least
  <2>3. Leave(r, k, FALSE)
      BY <1>5, <2>1 DEF Allow
  <2>4. k \in (-Delay) .. Burst
      BY <1>2, <2>2
  <2>5. Effect(i, t, k)
      BY <1>1, <2>2, <2>3 DEF Effect, Refilled, Leave
  <2> QED
      BY <1>0, <2>4, <2>5
<1> QED
    BY <1>4, <1>5

\* The numbers of the model, once for every leaf of arithmetic.
LEMMA Numbers ==
    ASSUME BucketInv
    PROVE  /\ Cost \in Int /\ Cost > 0 /\ Burst \in Int /\ Cost <= Burst
           /\ Delay \in Int /\ 0 <= Delay /\ Ttl \in Int /\ Burst + 2 * Delay <= Ttl
           /\ now \in Int /\ 0 <= now /\ now <= MaxTime /\ MaxTime \in Int
           /\ \A t \in Time : t \in Int /\ 0 <= t /\ t <= MaxTime
           /\ \A i \in Ip : visitors[i] # None =>
                /\ visitors[i] \in Visitor
                /\ visitors[i].tokens \in Int /\ visitors[i].lastFill \in Int
                /\ -Delay <= visitors[i].tokens
                /\ Level(visitors[i]) \in Int
           /\ \A i \in Ip : \A w \in Window :
                admitted[i][w] \in Int /\ admitted[i][w] >= 0
<1>1. /\ Cost \in Int /\ Cost > 0 /\ Burst \in Int /\ Cost <= Burst
      /\ Delay \in Int /\ 0 <= Delay /\ Ttl \in Int /\ Burst + 2 * Delay <= Ttl
      /\ MaxTime \in Int
    BY BucketAssumption, EvictionAssumption, TimeAssumption
<1>2. /\ now \in Int /\ 0 <= now /\ now <= MaxTime
      /\ \A t \in Time : t \in Int /\ 0 <= t /\ t <= MaxTime
    BY <1>1 DEF BucketInv, TypeOK, Time
<1>3. ASSUME NEW i \in Ip, visitors[i] # None
      PROVE  /\ visitors[i] \in Visitor
             /\ visitors[i].tokens \in Int /\ visitors[i].lastFill \in Int
             /\ -Delay <= visitors[i].tokens
             /\ Level(visitors[i]) \in Int
    BY <1>1, <1>3 DEF BucketInv, TypeOK, Visitor, Time, Level
<1>4. \A i \in Ip : \A w \in Window :
         admitted[i][w] \in Int /\ admitted[i][w] >= 0
    BY DEF BucketInv, TypeOK
<1> QED
    BY <1>1, <1>2, <1>3, <1>4

\* What is left alone by a request at the bucket.
LEMMA AllowFrame ==
    ASSUME NEW r \in Request, Allow(r)
    PROVE  /\ arrived[r] # None /\ arrived' = [arrived EXCEPT ![r] = None]
           /\ UNCHANGED <<cutoff, now>>
    BY DEF Allow, Leave

\* A charge is booked in the windows of its own clock reading only.
LEMMA AllowKeepsPaid ==
    ASSUME BucketInv, NEW i \in Ip, NEW t \in Time, NEW k \in (-Delay) .. Burst,
           Effect(i, t, k), now' = now
    PROVE  Paid'
<1>0. /\ visitors'[i] = [tokens |-> k, lastFill |-> t, lastSeen |-> t]
      /\ \A j \in Ip \ {i} : visitors'[j] = visitors[j]
      /\ visitors'[i] # None /\ Level(visitors'[i]) = k - t
      /\ k \in Int /\ t \in Int /\ now <= t + Delay
  <2>1. /\ visitors'[i] = [tokens |-> k, lastFill |-> t, lastSeen |-> t]
        /\ \A j \in Ip \ {i} : visitors'[j] = visitors[j]
        /\ [tokens |-> k, lastFill |-> t, lastSeen |-> t] \in Visitor
      BY DEF BucketInv, TypeOK, Effect, Visitor
  <2> QED
      BY <2>1, NoneAssumption, Numbers DEF Effect, Level
<1>1. ASSUME NEW j \in Ip, NEW w \in Window, admitted'[j][w] # 0, j # i
      PROVE  IF visitors'[j] # None
             THEN Level(visitors'[j]) <= Burst - w.from - admitted'[j][w]
             ELSE admitted'[j][w] + w.from <= now' - Delay
  <2>1. admitted'[j] = admitted[j]
      BY <1>1 DEF Effect, Charged, Refilled, BucketInv, TypeOK
  <2> QED
      BY <1>0, <1>1, <2>1 DEF BucketInv, Paid
<1>2. ASSUME NEW w \in Window, admitted'[i][w] # 0
      PROVE  Level(visitors'[i]) <= Burst - w.from - admitted'[i][w]
  <2>1. /\ w.from \in Int /\ w.to \in Int /\ admitted[i][w] \in Int
        /\ admitted[i][w] >= 0 /\ Level(visitors'[i]) = k - t
      BY <1>0, Windows, Numbers
  <2>2. CASE Refilled(i, t, k)
      BY <1>0, <1>2, <2>1, <2>2, Numbers DEF Refilled, BucketInv, Paid
  <2>3. CASE Charged(i, t, k)
    <3>1. /\ w.from <= t /\ t <= w.to => admitted'[i][w] = admitted[i][w] + Cost
          /\ ~(w.from <= t /\ t <= w.to) => admitted'[i][w] = admitted[i][w]
        BY <2>3 DEF Charged, BucketInv, TypeOK
    <3>2. CASE admitted[i][w] = 0
        BY <1>0, <1>2, <2>1, <2>3, <3>1, <3>2, Numbers DEF Charged
    <3>3. CASE admitted[i][w] # 0 /\ visitors[i] # None
      <4>1. Level(visitors[i]) <= Burst - w.from - admitted[i][w]
          BY <3>3 DEF BucketInv, Paid
      <4>2. k - t <= Level(visitors[i]) - Cost
          BY <1>0, <2>3, <3>3, Numbers DEF Charged
      <4> QED
          BY <2>1, <3>1, <3>3, <4>1, <4>2, Numbers
    <3>4. CASE admitted[i][w] # 0 /\ visitors[i] = None
      <4>1. admitted[i][w] + w.from <= now - Delay
          BY <3>4 DEF BucketInv, Paid
      <4>2. k = Burst - Cost
          BY <2>3, <3>4 DEF Charged
      <4> QED
          BY <1>0, <2>1, <3>1, <4>1, <4>2, Numbers
    <3> QED
        BY <3>2, <3>3, <3>4
  <2> QED
      BY <2>2, <2>3 DEF Effect
<1> QED
    BY <1>0, <1>1, <1>2 DEF Paid

\* What the bucket lacks was admitted since some clock reading, up to Delay.
LEMMA AllowKeepsSpent ==
    ASSUME BucketInv, NEW i \in Ip, NEW t \in Time, NEW k \in (-Delay) .. Burst,
           Effect(i, t, k), now' = now
    PROVE  Spent'
<1>0. /\ \A j \in Ip \ {i} : visitors'[j] = visitors[j]
      /\ visitors'[i] = [tokens |-> k, lastFill |-> t, lastSeen |-> t]
      /\ Level(visitors'[i]) = k - t
      /\ k \in Int /\ t \in Int /\ 0 <= t /\ t <= MaxTime /\ t <= now
      /\ now <= t + Delay
    BY Numbers DEF BucketInv, TypeOK, Effect, Level
<1>1. ASSUME NEW j \in Ip, j # i, visitors'[j] # None
      PROVE  \E a \in 0 .. now' : /\ a = 0 \/ a + Delay <= now'
                                  /\ Burst - a - Level(visitors'[j])
                                       <= admitted'[j][From(a)] + Delay
  <2>1. admitted'[j] = admitted[j]
      BY <1>1 DEF Effect, Charged, Refilled, BucketInv, TypeOK
  <2> QED
      BY <1>0, <1>1, <2>1 DEF BucketInv, Spent, From
<1>2. \E a \in 0 .. now' : /\ a = 0 \/ a + Delay <= now'
                           /\ Burst - a - Level(visitors'[i])
                                <= admitted'[i][From(a)] + Delay
  <2>1. ASSUME NEW a \in 0 .. now
        PROVE  /\ a \in Int /\ From(a) \in Window /\ admitted[i][From(a)] \in Int
               /\ admitted[i][From(a)] >= 0
               /\ Charged(i, t, k) /\ a <= t =>
                    admitted'[i][From(a)] = admitted[i][From(a)] + Cost
    <3>1. a \in Time /\ a \in Int
        BY Numbers DEF Time
    <3>2. From(a) \in Window /\ From(a).from = a /\ From(a).to = MaxTime
        BY <3>1, Windows
    <3>3. admitted[i][From(a)] \in Int /\ admitted[i][From(a)] >= 0
        BY <3>2, Numbers
    <3>4. ASSUME Charged(i, t, k), a <= t
          PROVE  admitted'[i][From(a)] = admitted[i][From(a)] + Cost
        BY <1>0, <3>2, <3>4 DEF Charged, BucketInv, TypeOK
    <3> QED
        BY <3>1, <3>2, <3>3, <3>4
  <2>2. CASE Charged(i, t, k) /\ k = Burst - Cost
    <3>1. PICK a \in 0 .. now : (a = 0 /\ now < Delay) \/ a = now - Delay
        BY Numbers
    <3>2. a <= t /\ t - a <= Delay
        BY <1>0, <3>1, Numbers
    <3>3. admitted'[i][From(a)] = admitted[i][From(a)] + Cost
        BY <2>1, <2>2, <3>2
    <3>4. a = 0 \/ a + Delay <= now
        BY <2>1, <3>1, Numbers
    <3>5. Burst - a - Level(visitors'[i]) <= admitted'[i][From(a)] + Delay
        BY <1>0, <2>1, <2>2, <3>2, <3>3, Numbers
    <3> QED
        BY <3>4, <3>5
  <2>3. CASE visitors[i] # None /\ ~(Charged(i, t, k) /\ k = Burst - Cost)
    <3>1. PICK a \in 0 .. now :
             /\ a = 0 \/ a + Delay <= now
             /\ Burst - a - Level(visitors[i]) <= admitted[i][From(a)] + Delay
        BY <2>3 DEF BucketInv, Spent, From
    <3>2. a <= t
        BY <1>0, <2>1, <3>1, Numbers
    <3>3. CASE Charged(i, t, k)
      <4>1. k - t = Level(visitors[i]) - Cost
          BY <1>0, <2>3, <3>3, Numbers DEF Charged
      <4>2. admitted'[i][From(a)] = admitted[i][From(a)] + Cost
          BY <2>1, <3>2, <3>3
      <4>3. Burst - a - Level(visitors'[i]) <= admitted'[i][From(a)] + Delay
          BY <1>0, <2>1, <2>3, <3>1, <4>1, <4>2, Numbers
      <4> QED
          BY <3>1, <4>3
    <3>4. CASE Refilled(i, t, k)
      <4>1. k - t = Level(visitors[i]) /\ admitted' = admitted
          BY <1>0, <2>3, <3>4, Numbers DEF Refilled
      <4> QED
          BY <1>0, <3>1, <4>1
    <3> QED
        BY <3>3, <3>4 DEF Effect
  <2> QED
      BY <2>2, <2>3 DEF Effect, Charged, Refilled
<1> QED
    BY <1>1, <1>2 DEF Spent, From

\* Whatever the order in which requests reach the bucket.
LEMMA AllowStep ==
    ASSUME BucketInv, NEW r \in Request, Allow(r)
    PROVE  BucketInv'
<1>1. PICK i \in Ip, t \in Time, k \in (-Delay) .. Burst : Effect(i, t, k)
    BY AllowEffect
<1>2. /\ arrived[r] # None /\ arrived' = [arrived EXCEPT ![r] = None]
      /\ cutoff' = cutoff /\ now' = now
    BY AllowFrame
<1>3. k \in Int /\ t \in Int /\ t <= now /\ now <= t + Delay
    BY <1>1, Numbers DEF Effect
<1>4. /\ \A j \in Ip \ {i} : visitors'[j] = visitors[j]
      /\ visitors'[i] = [tokens |-> k, lastFill |-> t, lastSeen |-> t]
      /\ Level(visitors'[i]) = k - t
    BY <1>1 DEF Effect, BucketInv, TypeOK, Level
<1>5. TypeOK'
  <2>1. [tokens |-> k, lastFill |-> t, lastSeen |-> t] \in Visitor
      BY DEF Visitor
  <2>2. visitors' \in [Ip -> Visitor \cup {None}]
      BY <1>1, <2>1 DEF Effect, BucketInv, TypeOK
  <2>3. arrived' \in [Request -> Arrival \cup {None}]
      BY <1>2 DEF BucketInv, TypeOK
  <2>4. \A w \in Window : admitted[i][w] + Cost \in Nat
      BY BucketAssumption DEF BucketInv, TypeOK
  <2>5. admitted' \in [Ip -> [Window -> Nat]]
    <3>1. CASE admitted' = admitted
        BY <3>1 DEF BucketInv, TypeOK
    <3>2. CASE Charged(i, t, k)
      <4>1. [w \in Window |-> IF w.from <= t /\ t <= w.to
                               THEN admitted[i][w] + Cost
                               ELSE admitted[i][w]] \in [Window -> Nat]
          BY <2>4 DEF BucketInv, TypeOK
      <4> QED
          BY <3>2, <4>1 DEF Charged, BucketInv, TypeOK
    <3> QED
        BY <1>1, <3>1, <3>2 DEF Effect, Refilled
  <2> QED
      BY <1>2, <2>2, <2>3, <2>5 DEF BucketInv, TypeOK
<1>6. Punctual'
    BY <1>2 DEF BucketInv, TypeOK, Punctual
<1>7. Levels'
  <2>1. 0 <= k - t + now
    <3>1. CASE Charged(i, t, k)
        BY <1>3, <3>1, Numbers DEF Charged
    <3>2. CASE Refilled(i, t, k)
      <4>1. 0 <= Level(visitors[i]) + now /\ k = Level(visitors[i]) + t
            /\ Level(visitors[i]) \in Int
          BY <3>2, Numbers DEF Refilled, BucketInv, Levels
      <4> QED
          BY <1>3, <4>1, Numbers
    <3> QED
        BY <1>1, <3>1, <3>2 DEF Effect
  <2> QED
      BY <1>2, <1>3, <1>4, <2>1 DEF BucketInv, Levels
<1>8. Paid'
    BY <1>1, <1>2, AllowKeepsPaid
<1>9. NoOverAdmission'
  <2> SUFFICES ASSUME NEW j \in Ip, NEW w \in Window
               PROVE  admitted'[j][w] <= Burst + (w.to - w.from)
      BY DEF NoOverAdmission
  <2>1. CASE admitted'[j][w] = admitted[j][w]
      BY <2>1 DEF BucketInv, NoOverAdmission
  <2>2. CASE admitted'[j][w] # admitted[j][w]
    <3>1. /\ j = i /\ Charged(i, t, k) /\ w.from <= t /\ t <= w.to
          /\ admitted'[i][w] = admitted[i][w] + Cost
        BY <1>1, <2>2 DEF Effect, Charged, Refilled, BucketInv, TypeOK
    <3>2. admitted'[i][w] \in Int /\ admitted'[i][w] # 0
        BY <3>1, Numbers
    <3>3. Level(visitors'[i]) <= Burst - w.from - admitted'[i][w]
      <4>1. visitors'[i] # None
          BY <1>4, NoneAssumption DEF Visitor
      <4> QED
          BY <1>8, <3>2, <4>1 DEF Paid
    <3>4. k >= 0
        BY <3>1 DEF Charged
    <3>5. w.from \in Int /\ w.to \in Int
        BY Windows, Numbers
    <3> QED
        BY <1>3, <1>4, <3>1, <3>2, <3>3, <3>4, <3>5, Numbers
  <2> QED
      BY <2>1, <2>2
<1>10. Spent'
    BY <1>1, <1>2, AllowKeepsSpent
<1> QED
    BY <1>5, <1>6, <1>7, <1>8, <1>9, <1>10 DEF BucketInv

\* What the janitor forgets would be full again by any clock reading to come.
LEMMA EvictStep ==
    ASSUME BucketInv, Evict
    PROVE  BucketInv'
<1>1. /\ \A i \in Ip : \/ visitors'[i] = visitors[i]
                       \/ /\ visitors'[i] = None /\ visitors[i] # None
                          /\ visitors[i].lastSeen < cutoff
      /\ cutoff # None /\ cutoff \in Int /\ cutoff <= now - Ttl
      /\ UNCHANGED <<arrived, now, admitted>> /\ cutoff' = None
    BY DEF Evict, BucketInv, TypeOK, Punctual
<1>2. TypeOK'
    BY DEF Evict, BucketInv, TypeOK
<1>3. Punctual' /\ Levels' /\ NoOverAdmission' /\ Spent'
    BY <1>1 DEF BucketInv, Punctual, Levels, NoOverAdmission, Spent
<1>4. Paid'
  <2> SUFFICES ASSUME NEW i \in Ip, NEW w \in Window, admitted[i][w] # 0
               PROVE  IF visitors'[i] # None
                      THEN Level(visitors'[i]) <= Burst - w.from - admitted[i][w]
                      ELSE admitted[i][w] + w.from <= now - Delay
      BY <1>1 DEF Paid
  <2>1. CASE visitors'[i] = visitors[i]
      BY <2>1 DEF BucketInv, Paid
  <2>2. CASE visitors'[i] # visitors[i]
    <3>1. visitors'[i] = None /\ visitors[i] # None /\ visitors[i].lastSeen < cutoff
        BY <1>1, <2>2
    <3>2. Level(visitors[i]) <= Burst - w.from - admitted[i][w]
        BY <3>1 DEF BucketInv, Paid
    <3>3. visitors[i].lastFill < cutoff
        BY <3>1 DEF BucketInv, Levels
    <3>4. /\ w.from \in Int /\ admitted[i][w] \in Int
          /\ visitors[i].tokens \in Int /\ visitors[i].lastFill \in Int
          /\ -Delay <= visitors[i].tokens
        BY <3>1, Windows, Numbers
    <3>5. visitors[i].tokens - visitors[i].lastFill
            <= Burst - w.from - admitted[i][w]
        BY <3>2 DEF Level
    <3> QED
        BY <1>1, <3>1, <3>3, <3>4, <3>5, Numbers
  <2> QED
      BY <2>1, <2>2
<1> QED
    BY <1>2, <1>3, <1>4 DEF BucketInv

\* Time only loosens the bounds.
LEMMA TickStep ==
    ASSUME BucketInv, Tick
    PROVE  BucketInv'
<1>0. /\ now' = now + 1 /\ now' \in Time
      /\ UNCHANGED <<visitors, arrived, cutoff, admitted>>
    BY Numbers DEF Tick, Time
<1>1. TypeOK'
    BY <1>0 DEF BucketInv, TypeOK
<1>2. Punctual'
  <2>1. ASSUME NEW r \in Request, arrived[r] # None
        PROVE  arrived[r].at <= now' /\ now' <= arrived[r].at + Delay
    <3>1. arrived[r].at \in Int
        BY <2>1, Numbers DEF BucketInv, TypeOK, Arrival
    <3>2. arrived[r].at <= now /\ now < arrived[r].at + Delay
        BY <2>1 DEF Tick, BucketInv, Punctual
    <3> QED
        BY <1>0, <3>1, <3>2, Numbers
  <2>2. cutoff # None => cutoff <= now' - Ttl
      BY <1>0, Numbers DEF BucketInv, TypeOK, Punctual
  <2> QED
      BY <1>0, <2>1, <2>2 DEF Punctual
<1>3. Levels'
  <2> SUFFICES ASSUME NEW i \in Ip, visitors[i] # None
               PROVE  /\ visitors[i].lastSeen = visitors[i].lastFill
                      /\ visitors[i].lastFill <= now'
                      /\ 0 <= Level(visitors[i]) + now'
      BY <1>0 DEF Levels
  <2> QED
      BY <1>0, Numbers DEF BucketInv, Levels
<1>4. Paid'
  <2> SUFFICES ASSUME NEW i \in Ip, NEW w \in Window, admitted[i][w] # 0
               PROVE  IF visitors[i] # None
                      THEN Level(visitors[i]) <= Burst - w.from - admitted[i][w]
                      ELSE admitted[i][w] + w.from <= now' - Delay
      BY <1>0 DEF Paid
  <2>1. w.from \in Int /\ admitted[i][w] \in Int
      BY Windows, Numbers
  <2> QED
      BY <1>0, <2>1, Numbers DEF BucketInv, Paid
<1>5. Spent'
  <2> SUFFICES ASSUME NEW i \in Ip, visitors[i] # None
               PROVE  \E a \in 0 .. now' :
                        /\ a = 0 \/ a + Delay <= now'
                        /\ Burst - a - Level(visitors[i])
                             <= admitted[i][From(a)] + Delay
      BY <1>0 DEF Spent, From
  <2>1. PICK a \in 0 .. now :
           /\ a = 0 \/ a + Delay <= now
           /\ Burst - a - Level(visitors[i]) <= admitted[i][From(a)] + Delay
      BY DEF BucketInv, Spent, From
  <2>2. a \in 0 .. now' /\ (a = 0 \/ a + Delay <= now')
      BY <1>0, <2>1, Numbers
  <2> QED
      BY <2>1, <2>2
<1> QED
    BY <1>0, <1>1, <1>2, <1>3, <1>4, <1>5 DEF BucketInv, NoOverAdmission

\* The invariant holds at first and every step keeps it.
LEMMA BucketInductive ==
    /\ Init => BucketInv
    /\ BucketInv /\ [Next]_vars => BucketInv'
<1>1. Init => BucketInv
    BY TimeAssumption, BucketAssumption, Windows
    DEF Init, BucketInv, TypeOK, Time, Punctual, Levels, Paid, NoOverAdmission,
        Spent
<1>2. ASSUME BucketInv, UNCHANGED vars
      PROVE  BucketInv'
    BY <1>2 DEF vars, BucketInv, TypeOK, Punctual, Levels, Paid,
                NoOverAdmission, Spent
<1>3. ASSUME BucketInv, NEW r \in Request, NEW i \in Ip, Arrive(r, i)
      PROVE  BucketInv'
  <2>1. TypeOK'
      BY <1>3 DEF Arrive, BucketInv, TypeOK, Arrival
  <2>2. Punctual'
      BY <1>3, Numbers DEF Arrive, BucketInv, TypeOK, Punctual
  <2> QED
      BY <1>3, <2>1, <2>2
      DEF Arrive, BucketInv, Levels, Paid, NoOverAdmission, Spent
<1>4. ASSUME BucketInv, Wake
      PROVE  BucketInv'
  <2>1. TypeOK' /\ Punctual'
      BY <1>4, Numbers DEF Wake, BucketInv, TypeOK, Punctual
  <2> QED
      BY <1>4, <2>1 DEF Wake, BucketInv, Levels, Paid, NoOverAdmission, Spent
<1> QED
    BY <1>1, <1>2, <1>3, <1>4, AllowStep, EvictStep, TickStep DEF Next

\* The invariant holds in every reachable state.
THEOREM Bucket == Spec => []BucketInv
    BY BucketInductive, PTL DEF Spec

\* Every variable stays in its type; a bucket's debt never exceeds Delay.
THEOREM LimiterTypeCorrect == Spec => []TypeOK
<1>1. BucketInv => TypeOK
    BY DEF BucketInv
<1> QED
    BY <1>1, Bucket, PTL

\* In any window of clock readings no client gets more through than a burst
\* and the inflow.
THEOREM LimitHolds == Spec => []NoOverAdmission
<1>1. BucketInv => NoOverAdmission
    BY DEF BucketInv
<1> QED
    BY <1>1, Bucket, PTL

\* A 429 comes from a bucket below Cost, which Spent explains.
LEMMA DenialStep ==
    ASSUME BucketInv, Next, NEW r \in Request, Denied(r)
    PROVE  \E a \in 0 .. now :
              admitted[arrived[r].ip][From(a)] + Cost + Delay
                > Burst + (arrived[r].at - a)
<1>1. Allow(r)
  <2>1. arrived[r] # None /\ arrived'[r] = None
      BY DEF Denied
  <2>2. ASSUME NEW q \in Request, NEW j \in Ip, Arrive(q, j)
        PROVE  FALSE
    <3>1. /\ arrived[q] = None
          /\ arrived' = [arrived EXCEPT ![q] = [ip |-> j, at |-> now]]
        BY <2>2 DEF Arrive
    <3>2. q # r
        BY <2>1, <3>1
    <3> QED
        BY <2>1, <3>1, <3>2 DEF BucketInv, TypeOK
  <2>3. ASSUME NEW q \in Request, Allow(q)
        PROVE  q = r
    <3>1. arrived' = [arrived EXCEPT ![q] = None]
        BY <2>3, AllowFrame
    <3> QED
        BY <2>1, <3>1 DEF BucketInv, TypeOK
  <2>4. ~(Wake \/ Evict \/ Tick)
      BY <2>1 DEF Wake, Evict, Tick
  <2> QED
      BY <2>2, <2>3, <2>4 DEF Next
<1>2. PICK i \in Ip, t \in Time, k \in (-Delay) .. Burst :
         i = arrived[r].ip /\ t = arrived[r].at /\ Effect(i, t, k)
    BY <1>1, AllowEffect
<1>3. ~Charged(i, t, k)
  <2> SUFFICES ASSUME Charged(i, t, k) PROVE FALSE
      OBVIOUS
  <2>1. From(0) \in Window /\ From(0).from = 0 /\ From(0).to = MaxTime
      BY Windows, TimeAssumption DEF Time
  <2>2. t \in Int /\ 0 <= t /\ t <= MaxTime
      BY Numbers
  <2>3. admitted'[i][From(0)] = admitted[i][From(0)] + Cost
      BY <2>1, <2>2 DEF Charged, BucketInv, TypeOK
  <2>4. admitted[i][From(0)] \in Int /\ Cost \in Int /\ Cost > 0
      BY <2>1, Numbers
  <2> QED
      BY <2>3, <2>4 DEF Denied
<1>4. visitors[i] # None /\ k = Level(visitors[i]) + t /\ k < Cost
    BY <1>2, <1>3 DEF Effect, Refilled
<1>5. PICK a \in 0 .. now :
         Burst - a - Level(visitors[i]) <= admitted[i][From(a)] + Delay
    BY <1>4 DEF BucketInv, Spent, From
<1>6. a \in Time /\ a \in Int
    BY Numbers DEF Time
<1>7. admitted[i][From(a)] \in Int
    BY <1>6, Windows, Numbers
<1>8. /\ k \in Int /\ t \in Int /\ Level(visitors[i]) \in Int
      /\ Cost \in Int /\ Burst \in Int /\ Delay \in Int
    BY <1>4, Numbers
<1> QED
    BY <1>2, <1>4, <1>5, <1>6, <1>7, <1>8

\* A client that is turned away had used its allowance up.
THEOREM DenialsAreEarned == Spec => DenialEarned
<1>1. BucketInv /\ [Next]_vars
        => [\A r \in Request : Denied(r) =>
              \E a \in 0 .. now :
                 admitted[arrived[r].ip][[from |-> a, to |-> MaxTime]] + Cost + Delay
                   > Burst + (arrived[r].at - a)]_vars
    BY DenialStep DEF From
<1> QED
    BY <1>1, Bucket, PTL DEF Spec, DenialEarned
=============================================================================
