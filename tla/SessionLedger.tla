---------------------------- MODULE SessionLedger ----------------------------
(***************************************************************************)
(* What the session store promises the rest of the program, with the       *)
(* database, the clocks and the round trips left out: a session is opened  *)
(* once, for one user, and closed for good; a request that presents a      *)
(* session id is answered with the session's user only if the session was  *)
(* open at some instant between the request's arrival and its answer.      *)
(* Module Sessions implements it.                                          *)
(***************************************************************************)
CONSTANTS Request, SessionId, User, None

VARIABLES holder,   \* the user a session id was opened for, None before that
          live,     \* the sessions that are open
          ask       \* the request a slot is serving, None when it serves none

ledgerVars == <<holder, live, ask>>

\* A request: the id it presents, the users it may be answered with, and the
\* answer, as a set that is empty until it is given ({None}: denied).
Ask == [id : SessionId, may : SUBSET User, said : SUBSET (User \cup {None})]

Init == /\ holder = [i \in SessionId |-> None]
        /\ live = {}
        /\ ask = [r \in Request |-> None]

Open(i, u) == /\ holder[i] = None
              /\ holder' = [holder EXCEPT ![i] = u]
              /\ live' = live \cup {i}
              /\ UNCHANGED ask

Close(i) == /\ live' = live \ {i}
            /\ UNCHANGED <<holder, ask>>

\* Ids are unguessable: only one that was handed out is ever presented.
Begin(r, i) ==
    /\ ask[r] = None
    /\ holder[i] # None
    /\ ask' = [ask EXCEPT ![r] = [id |-> i,
                                  may |-> IF i \in live THEN {holder[i]} ELSE {},
                                  said |-> {}]]
    /\ UNCHANGED <<holder, live>>

Answer(r, u) == /\ ask[r] # None
                /\ ask[r].said = {}
                /\ u \in ask[r].may \cup {None}
                /\ ask' = [ask EXCEPT ![r].said = {u}]

Serve(r, u) == Answer(r, u) /\ UNCHANGED <<holder, live>>

\* A request that finds its session expired closes it and is denied.
Expire(r) == Answer(r, None) /\ live' = live \ {ask[r].id} /\ UNCHANGED holder

\* The answer is delivered, or the request dies unanswered.
End(r) == /\ ask[r] # None
          /\ ask' = [ask EXCEPT ![r] = None]
          /\ UNCHANGED <<holder, live>>

Next == \/ \E i \in SessionId : Close(i) \/ \E u \in User : Open(i, u)
        \/ \E r \in Request :
             \/ \E i \in SessionId : Begin(r, i)
             \/ \E u \in User \cup {None} : Serve(r, u)
             \/ Expire(r)
             \/ End(r)

Spec == Init /\ [][Next]_ledgerVars
=============================================================================
