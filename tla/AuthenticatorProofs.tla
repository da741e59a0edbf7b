------------------------- MODULE AuthenticatorProofs -------------------------
(* Theorems about module Authenticator, for any number of requests and      *)
(* restarts.                                                                *)
EXTENDS Authenticator, TLAPS

\* While there is no provider, none was discovered.
Fresh == provider = None => made = 0

EnsureInv == TypeOK /\ DiscoveredOnce /\ OneProvider /\ Fresh

\* The shape of a request's local state.
LEMMA Calls ==
    /\ Quiet \in Call /\ Quiet.pc = "idle" /\ Quiet.left = 0 /\ Quiet.with = None
    /\ \A c \in Call : /\ c.pc \in Pc /\ c.left \in 0 .. 2 /\ c.gone \in BOOLEAN
                       /\ c.with \in Nat \cup {None}
<1>1. /\ Quiet \in Call /\ Quiet.pc = "idle" /\ Quiet.left = 0
      /\ Quiet.with = None
    BY DEF Quiet, Call, Pc
<1>2. ASSUME NEW c \in Call
      PROVE  /\ c.pc \in Pc /\ c.left \in 0 .. 2 /\ c.gone \in BOOLEAN
             /\ c.with \in Nat \cup {None}
    BY DEF Call
<1> QED
    BY <1>1, <1>2

\* The updates of the actions, field by field.
LEMMA Moved ==
    ASSUME NEW c \in Call, NEW p \in Pc
    PROVE  LET d == [c EXCEPT !.pc = p]
           IN  /\ d \in Call /\ d.pc = p /\ d.left = c.left /\ d.with = c.with
    BY DEF Call

\* A request leaves the mutex, or joins it, or changes nothing of it.
LEMMA LocalStep ==
    ASSUME EnsureInv, NEW r \in Request, NEW c \in Call,
           call' = [call EXCEPT ![r] = c],
           c.pc = "idle" <=> c.left = 0,
           UNCHANGED <<mu, provider, idp, restarts, made>>,
           c.pc = "discover" => mu = r /\ provider = None,
           c.pc = "use" => provider # None,
           c.with # None => c.with = provider
    PROVE  EnsureInv'
<1>1. /\ call'[r] = c
      /\ \A q \in Request \ {r} : call'[q] = call[q]
      /\ call' \in [Request -> Call]
    BY DEF EnsureInv, TypeOK
<1>2. TypeOK' /\ Fresh'
    BY <1>1 DEF EnsureInv, TypeOK, Fresh
<1>3. DiscoveredOnce'
    BY <1>1 DEF EnsureInv, DiscoveredOnce
<1>4. OneProvider'
    BY <1>1 DEF EnsureInv, OneProvider
<1> QED
    BY <1>2, <1>3, <1>4 DEF EnsureInv

\* The request that holds the mutex lets go of it.
LEMMA HolderStep ==
    ASSUME EnsureInv, NEW r \in Request, NEW c \in Call,
           call[r].pc = "discover", c.pc # "discover", mu' = None,
           call' = [call EXCEPT ![r] = c],
           c.pc = "idle" <=> c.left = 0,
           UNCHANGED <<idp, restarts>>,
           \/ provider' = 1 /\ made' = 1
           \/ c.pc # "use" /\ UNCHANGED <<provider, made>>,
           c.with = None
    PROVE  EnsureInv'
<1>1. /\ call'[r] = c
      /\ \A q \in Request \ {r} : call'[q] = call[q]
      /\ call' \in [Request -> Call]
    BY DEF EnsureInv, TypeOK
<1>2. mu = r /\ provider = None /\ None \notin Nat
    BY NoneAssumption DEF EnsureInv, DiscoveredOnce
<1>3. \A q \in Request : call'[q].pc # "discover"
    BY <1>1, <1>2 DEF EnsureInv, DiscoveredOnce
<1>4. \A q \in Request : call[q].with = None /\ call[q].pc # "use"
    BY <1>2 DEF EnsureInv, OneProvider
<1> QED
    BY <1>1, <1>2, <1>3, <1>4
    DEF EnsureInv, TypeOK, DiscoveredOnce, OneProvider, Fresh

\* The invariant holds at first and every step keeps it.
LEMMA EnsureInductive ==
    /\ Init => EnsureInv
    /\ EnsureInv /\ [Next]_vars => EnsureInv'
<1>1. Init => EnsureInv
    BY Calls, RestartsAssumption
    DEF Init, EnsureInv, TypeOK, DiscoveredOnce, OneProvider, Fresh
<1>2. ASSUME EnsureInv, UNCHANGED vars
      PROVE  EnsureInv'
    BY <1>2 DEF vars, EnsureInv, TypeOK, DiscoveredOnce, OneProvider, Fresh
<1>3. ASSUME EnsureInv, NEW r \in Request,
             \/ \E n \in 1 .. 2 : Arrive(r, n)
             \/ Lock(r) \/ Discovered(r) \/ DiscoveryFailed(r)
             \/ Use(r) \/ UseFails(r) \/ GiveUp(r)
      PROVE  EnsureInv'
  <2>0. /\ EnsureInv /\ call[r] \in Call
        /\ call[r].pc = "idle" <=> call[r].left = 0
      BY <1>3 DEF EnsureInv, TypeOK
  <2>1. ASSUME NEW n \in 1 .. 2, Arrive(r, n) PROVE EnsureInv'
    <3> DEFINE c == [pc |-> "lock", left |-> n, gone |-> FALSE, with |-> None]
    <3>1. c \in Call /\ call' = [call EXCEPT ![r] = c]
        BY <2>1, Calls DEF Arrive, Call, Pc
    <3>2. c.pc = "lock" /\ c.left # 0 /\ c.with = None
        OBVIOUS
    <3>3. UNCHANGED <<mu, provider, idp, restarts, made>>
        BY <2>1 DEF Arrive
    <3> HIDE DEF c
    <3> QED
        BY <2>0, <3>1, <3>2, <3>3, LocalStep
  <2>2. CASE Lock(r)
    <3>1. CASE provider # None
      <4> DEFINE c == [call[r] EXCEPT !.pc = "use"]
      <4>1. /\ call[r].pc = "lock" /\ call' = [call EXCEPT ![r] = c]
            /\ UNCHANGED <<mu, provider, idp, restarts, made>>
          BY <2>2, <3>1 DEF Lock
      <4>2. c \in Call /\ c.pc = "use" /\ c.left = call[r].left
            /\ c.with = call[r].with
          BY <2>0, Moved DEF Pc
      <4>3. c.left # 0 /\ (c.with # None => c.with = provider)
          BY <2>0, <4>1, <4>2 DEF EnsureInv, OneProvider
      <4> HIDE DEF c
      <4> QED
          BY <2>0, <3>1, <4>1, <4>2, <4>3, LocalStep
    <3>2. CASE provider = None
      <4>1. /\ mu = None /\ mu' = r /\ call[r].pc = "lock"
            /\ call' = [call EXCEPT ![r] = [@ EXCEPT !.pc = "discover"]]
            /\ UNCHANGED <<provider, idp, restarts, made>>
          BY <2>2, <3>2 DEF Lock
      <4>2. /\ call'[r] = [call[r] EXCEPT !.pc = "discover"]
            /\ \A q \in Request \ {r} : call'[q] = call[q]
            /\ call' \in [Request -> Call]
          BY <2>0, <4>1, Moved DEF EnsureInv, TypeOK, Pc
      <4>3. \A q \in Request : call[q].pc # "discover"
          BY <2>0, <4>1, NoneAssumption DEF EnsureInv, DiscoveredOnce
      <4>4. /\ call'[r].pc = "discover" /\ call'[r].left # 0
            /\ call'[r].with = call[r].with
          BY <2>0, <4>1, <4>2, Moved DEF Pc
      <4> QED
          BY <2>0, <3>2, <4>1, <4>2, <4>3, <4>4
          DEF EnsureInv, TypeOK, DiscoveredOnce, OneProvider, Fresh
    <3> QED
        BY <3>1, <3>2
  <2>3. CASE Discovered(r)
    <3> DEFINE c == [call[r] EXCEPT !.pc = "use"]
    <3>0. call' = [call EXCEPT ![r] = c] /\ call[r].pc = "discover"
        BY <2>3 DEF Discovered
    <3>1. /\ c \in Call /\ c.pc = "use" /\ c.left = call[r].left /\ c.left # 0
          /\ c.with = call[r].with
        BY <2>0, <3>0, Moved DEF Pc
    <3>2. provider = None /\ made = 0
        BY <2>0, <3>0 DEF EnsureInv, DiscoveredOnce, Fresh
    <3>3. c.with = None
        BY <2>0, <3>1, <3>2 DEF EnsureInv, OneProvider
    <3>4. provider' = 1 /\ made' = 1
        BY <2>3, <3>2 DEF Discovered
    <3>5. mu' = None /\ UNCHANGED <<idp, restarts>>
        BY <2>3 DEF Discovered
    <3> HIDE DEF c
    <3> QED
        BY <2>0, <3>0, <3>1, <3>3, <3>4, <3>5, HolderStep
  <2>4. CASE DiscoveryFailed(r)
      BY <2>0, <2>4, HolderStep, Calls DEF DiscoveryFailed
  <2>5. CASE Use(r) \/ UseFails(r)
    <3>1. CASE call' = [call EXCEPT ![r] = Quiet]
        BY <2>0, <2>5, <3>1, LocalStep, Calls DEF Use, UseFails
    <3>2. CASE call[r].left # 1 /\ Use(r)
      <4>0. call[r].pc = "use" /\ provider \in Nat
          BY <2>0, <3>2 DEF Use, EnsureInv, TypeOK, OneProvider
      <4>1. /\ UNCHANGED <<mu, provider, idp, restarts, made>>
            /\ call' = [call EXCEPT ![r] =
                          [pc |-> "lock", left |-> call[r].left - 1,
                           gone |-> call[r].gone, with |-> provider]]
          BY <3>2 DEF Use
      <4>2. call[r].left \in 0 .. 2 /\ call[r].left # 0 /\ call[r].gone \in BOOLEAN
          BY <2>0, <4>0, Calls
      <4>3. call[r].left - 1 = 1
          BY <3>2, <4>2
      <4> DEFINE c == [pc |-> "lock", left |-> 1, gone |-> call[r].gone,
                       with |-> provider]
      <4>4. c \in Call
          BY <4>0, <4>2 DEF Call, Pc
      <4>5. call' = [call EXCEPT ![r] = c]
          BY <4>1, <4>3
      <4>6. c.pc = "lock" /\ c.left # 0 /\ c.with = provider
          OBVIOUS
      <4> HIDE DEF c
      <4> QED
          BY <2>0, <4>1, <4>4, <4>5, <4>6, LocalStep
    <3> QED
        BY <2>5, <3>1, <3>2 DEF Use, UseFails
  <2>6. CASE GiveUp(r)
    <3> DEFINE c == [call[r] EXCEPT !.gone = TRUE]
    <3>0. /\ call' = [call EXCEPT ![r] = c]
          /\ UNCHANGED <<mu, provider, idp, restarts, made>>
        BY <2>6 DEF GiveUp
    <3>1. /\ c \in Call /\ c.pc = call[r].pc /\ c.left = call[r].left
          /\ c.with = call[r].with
        BY <2>0 DEF Call
    <3>2. /\ c.pc = "discover" => mu = r /\ provider = None
          /\ c.pc = "use" => provider # None
          /\ c.with # None => c.with = provider
        BY <2>0, <3>1 DEF EnsureInv, DiscoveredOnce, OneProvider
    <3> HIDE DEF c
    <3> QED
        BY <2>0, <3>0, <3>1, <3>2, LocalStep
  <2> QED
      BY <1>3, <2>1, <2>2, <2>3, <2>4, <2>5, <2>6
<1>4. ASSUME EnsureInv, NEW s \in {"up", "down", "silent"}, IdpChanges(s)
      PROVE  EnsureInv'
    BY <1>4 DEF IdpChanges, EnsureInv, TypeOK, DiscoveredOnce, OneProvider, Fresh
<1>5. ASSUME EnsureInv, Restart
      PROVE  EnsureInv'
    BY <1>5, Calls, RestartsAssumption
    DEF Restart, EnsureInv, TypeOK, DiscoveredOnce, OneProvider, Fresh
<1> QED
    BY <1>1, <1>2, <1>3, <1>4, <1>5 DEF Next

\* The invariant holds in every reachable state.
THEOREM Ensured == Spec => []EnsureInv
    BY EnsureInductive, PTL DEF Spec

\* Requests that race to the first use discover the provider once.
THEOREM DiscoveryIsSingle == Spec => []DiscoveredOnce
<1>1. EnsureInv => DiscoveredOnce
    BY DEF EnsureInv
<1> QED
    BY <1>1, Ensured, PTL

\* The two operations of a callback use the same discovery.
THEOREM ProviderIsStable == Spec => []OneProvider
<1>1. EnsureInv => OneProvider
    BY DEF EnsureInv
<1> QED
    BY <1>1, Ensured, PTL
=============================================================================
