------------------------------- MODULE Consents -------------------------------
(***************************************************************************)
(* What the login promises to a user with several tabs, with the cookie,   *)
(* the requests and the provider's answers left out.  A tab enters a login *)
(* that no other tab is in; what the user consents to there is redeemed    *)
(* once and opens one session, which may be stranded: made, and the login  *)
(* reported as failed; and the tab is shown as signed in for a consent     *)
(* given in its own login, once for each, and on the page that it asked    *)
(* for last.  Module LoginFlow implements it.                              *)
(***************************************************************************)
CONSTANTS Tab, Attempt, Page, None,
          Local, Home,   \* the pages that a tab may return to, and the one if it may not
          Consent        \* each with the attempt that it is given in

VARIABLES stage,    \* how far a consent has come
          login,    \* the attempt that a tab is in
          asked,    \* the page that it asked to return to
          landed    \* the page that it came back to

promiseVars == <<stage, login, asked, landed>>

Stage == {"none", "given", "redeemed", "session", "over"}

Init == /\ stage = [c \in Consent |-> "none"]
        /\ login = [t \in Tab |-> None]
        /\ asked = [t \in Tab |-> Home]
        /\ landed = [t \in Tab |-> None]

\* A tab asks for another login, and is in none until it has it.
Ask(t, p) == /\ login' = [login EXCEPT ![t] = None]
             /\ asked' = [asked EXCEPT ![t] = p]
             /\ landed' = [landed EXCEPT ![t] = None]
             /\ UNCHANGED stage

\* A login that is in no tab and that nobody has consented to.
Enter(t, a) == /\ login[t] = None
               /\ \A u \in Tab : login[u] # a
               /\ \A c \in Consent : c.attempt = a => stage[c] = "none"
               /\ login' = [login EXCEPT ![t] = a]
               /\ landed' = [landed EXCEPT ![t] = None]
               /\ UNCHANGED <<stage, asked>>

Landing(p) == IF p \in Local THEN p ELSE Home

Advance(c, from, to) == stage[c] = from /\ stage' = [stage EXCEPT ![c] = to]

Give(t, c) == /\ login[t] = c.attempt
              /\ Advance(c, "none", "given")
              /\ UNCHANGED <<login, asked, landed>>

\* The session's answer is lost, or its tab has moved on.
Miss(c) == Advance(c, "session", "over") /\ UNCHANGED <<login, asked, landed>>

Redeem(c) == Advance(c, "given", "redeemed") /\ UNCHANGED <<login, asked, landed>>

Open(c) == Advance(c, "redeemed", "session") /\ UNCHANGED <<login, asked, landed>>

\* A session that nobody is told of: its creation was reported as failed.
Strand(c) == Advance(c, "redeemed", "over") /\ UNCHANGED <<login, asked, landed>>

Land(t, c) == /\ login[t] = c.attempt
              /\ Advance(c, "session", "over")
              /\ landed' = [landed EXCEPT ![t] = Landing(asked[t])]
              /\ UNCHANGED <<login, asked>>

Leave(t) == /\ landed' = [landed EXCEPT ![t] = None]
            /\ UNCHANGED <<stage, login, asked>>

Next == \/ \E t \in Tab : \/ \E p \in Page : Ask(t, p)
                          \/ \E a \in Attempt : Enter(t, a)
                          \/ \E c \in Consent : Give(t, c) \/ Land(t, c)
                          \/ Leave(t)
        \/ \E c \in Consent : Redeem(c) \/ Open(c) \/ Strand(c) \/ Miss(c)

Spec == Init /\ [][Next]_promiseVars
=============================================================================
