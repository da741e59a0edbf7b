---------------------------- MODULE SessionRefresh ----------------------------
(***************************************************************************)
(* RefreshSession (internal/auth/session.go) beside the other handlers of  *)
(* module Sessions: it trades the refresh token of a session's row at the  *)
(* identity provider and, when the provider rotates the token, moves the   *)
(* row to a fresh id.  No route of the shipped router calls it; it is      *)
(* exported for the application built from the template.                   *)
(*                                                                         *)
(* A refresh token is the login it descends from together with how many    *)
(* times the provider has rotated it; only the newest one of a login is    *)
(* accepted.                                                               *)
(***************************************************************************)
EXTENDS Sessions

VARIABLES root,    \* history: the id of the login an id descends from
          grant,   \* the refresh_token column: the rotation it stores, or None
          idp,     \* at the provider, per login: the rotation it accepts
          ref      \* the local state of each slot's RefreshSession

ASSUME TokenAssumption == None \notin Nat

refreshVars == <<root, grant, idp, ref>>
allVars == <<vars, refreshVars>>

-----------------------------------------------------------------------------

RefreshPc == {"idle", "get", "exchange", "rotate", "reply"}

Refresher == [pc : RefreshPc, browser : Browser \cup {None},
              cookie : SessionId \cup {None}, token : Nat \cup {None},
              expires : Int, set : SUBSET SessionId]

QuietRefresh == [pc |-> "idle", browser |-> None, cookie |-> None,
                 token |-> None, expires |-> 0, set |-> {}]

RefreshReply(r, set) ==
    ref' = [ref EXCEPT ![r] = [@ EXCEPT !.pc = "reply", !.token = None,
                                        !.expires = 0, !.set = set]]

\* A login that inserts a row stores the token the provider issued, if it
\* issued one (the offline_access scope is the deployment's choice).
Enroll ==
    LET Fresh(i) == owner'[i] # owner[i] IN
    /\ root' = [i \in SessionId |-> IF Fresh(i) THEN i ELSE root[i]]
    /\ \E g \in IF \E i \in SessionId : Fresh(i) THEN {0, None} ELSE {None} :
         grant' = [i \in SessionId |-> IF Fresh(i) THEN g ELSE grant[i]]
    /\ UNCHANGED <<idp, ref>>

-----------------------------------------------------------------------------
(* RefreshSession.  Without a cookie it returns before it does anything.    *)

StartRefresh(r, b) ==
    /\ req[r].pc = "idle" /\ ref[r].pc = "idle"
    /\ jar[b] # None
    /\ ref' = [ref EXCEPT ![r] = [QuietRefresh EXCEPT !.pc = "get",
                                    !.browser = b, !.cookie = jar[b]]]
    /\ UNCHANGED <<vars, root, grant, idp>>

\* SELECT.  Neither deadline is checked.
GetForRefresh(r) ==
    /\ ref[r].pc = "get"
    /\ LET c == ref[r].cookie IN
         \/ /\ rows[c] # None /\ grant[c] # None
            /\ ref' = [ref EXCEPT ![r] = [@ EXCEPT !.pc = "exchange",
                                                   !.token = grant[c]]]
         \/ (rows[c] = None \/ grant[c] = None \/ Faults) /\ RefreshReply(r, {})
    /\ UNCHANGED <<vars, root, grant, idp>>

\* The provider keeps the token, or rotates it and from then on accepts only
\* the new one, or refuses; its answer can be lost on the way.
Exchange(r) ==
    /\ ref[r].pc = "exchange"
    /\ LET o == root[ref[r].cookie]
           accepted == ref[r].token = idp[o] IN
         \/ RefreshReply(r, {}) /\ UNCHANGED idp
         \/ /\ accepted
            /\ idp' = [idp EXCEPT ![o] = @ + 1]
            /\ \/ ref' = [ref EXCEPT ![r] = [@ EXCEPT !.pc = "rotate",
                            !.token = ref[r].token + 1,
                            !.expires = Clock(r) + Absolute]]
               \/ Faults /\ RefreshReply(r, {})
    /\ UNCHANGED <<vars, root, grant>>

\* The UPDATE moving the row of c to the id i.
Moved(r, c, i) ==
    /\ rows' = [rows EXCEPT ![c] = None,
                  ![i] = [rows[c] EXCEPT !.expires = ref[r].expires, !.seen = now]]
    /\ owner' = [owner EXCEPT ![i] = owner[c]]
    /\ root' = [root EXCEPT ![i] = root[c]]
    /\ grant' = [grant EXCEPT ![c] = None, ![i] = ref[r].token]

\* Mutant: the row keeps its id, and is written back if it is gone.
RotateUpserting(r) ==
    /\ ref[r].pc = "rotate"
    /\ LET c == ref[r].cookie IN
         /\ rows' = [rows EXCEPT ![c] =
                       IF @ # None
                       THEN [@ EXCEPT !.expires = ref[r].expires, !.seen = now]
                       ELSE [user |-> owner[c], created |-> now, seen |-> now,
                             expires |-> ref[r].expires]]
         /\ grant' = [grant EXCEPT ![c] = ref[r].token]
         /\ RefreshReply(r, {c})
    /\ UNCHANGED <<owner, root, jar, req, now, idp>>

\* Mutant: the new id is inserted as a row of its own, the old row is kept.
RotateInserting(r) ==
    /\ ref[r].pc = "rotate"
    /\ rows[ref[r].cookie] # None
    /\ \E i \in SessionId :
         /\ owner[i] = None
         /\ rows' = [rows EXCEPT ![i] = [rows[ref[r].cookie] EXCEPT
                                           !.expires = ref[r].expires]]
         /\ owner' = [owner EXCEPT ![i] = owner[ref[r].cookie]]
         /\ root' = [root EXCEPT ![i] = root[ref[r].cookie]]
         /\ grant' = [grant EXCEPT ![i] = ref[r].token]
         /\ RefreshReply(r, {i})
    /\ UNCHANGED <<jar, req, now, idp>>

\* Mutant: a query that reports an error is tried again with what it carried.
RotateRetrying(r) ==
    /\ ref[r].pc = "rotate"
    /\ rows[ref[r].cookie] # None
    /\ \E i \in SessionId, o \in Outcome :
         /\ owner[i] = None
         /\ IF o.done THEN Moved(r, ref[r].cookie, i)
            ELSE UNCHANGED <<rows, owner, root, grant>>
         /\ IF o.ok THEN RefreshReply(r, {i}) ELSE UNCHANGED ref
    /\ UNCHANGED <<jar, req, now, idp>>

\* UPDATE of the row of the old id, if it is still there: a fresh id, the new
\* token, a deadline counted from now; created_at is not among the columns
\* it sets.  The cookie follows a successful query.
Rotate(r) ==
    /\ ref[r].pc = "rotate"
    /\ LET c == ref[r].cookie IN
         \/ /\ rows[c] # None
            /\ \E i \in SessionId, o \in Outcome :
                 /\ owner[i] = None
                 /\ IF o.done THEN Moved(r, c, i)
                    ELSE UNCHANGED <<rows, owner, root, grant>>
                 /\ RefreshReply(r, IF o.ok THEN {i} ELSE {})
         \/ /\ rows[c] = None \/ Faults
            /\ RefreshReply(r, {})
            /\ UNCHANGED <<rows, owner, root, grant>>
    /\ UNCHANGED <<jar, req, now, idp>>

DeliverRefresh(r) ==
    /\ ref[r].pc = "reply"
    /\ \E c \in IF ref[r].set = {} THEN {jar[ref[r].browser]} ELSE ref[r].set :
         jar' = [jar EXCEPT ![ref[r].browser] = c]
    /\ ref' = [ref EXCEPT ![r] = QuietRefresh]
    /\ UNCHANGED <<rows, owner, req, now, root, grant, idp>>

AbandonRefresh(r) ==
    /\ Faults /\ ref[r].pc # "idle"
    /\ ref' = [ref EXCEPT ![r] = QuietRefresh]
    /\ UNCHANGED <<vars, root, grant, idp>>

-----------------------------------------------------------------------------

RefreshInit == /\ Init
               /\ root = [i \in SessionId |-> None]
               /\ grant = [i \in SessionId |-> None]
               /\ idp = [i \in SessionId |-> 0]
               /\ ref = [r \in Request |-> QuietRefresh]

\* The handlers of module Sessions; a slot serves one request at a time.
Others == \/ \E r \in Request : \/ ref[r].pc = "idle" /\ Arrive(r)
                                \/ Serve(r) \/ Deliver(r) \/ Abandon(r)
          \/ \E b \in Browser : Forget(b)
          \/ Tick

Refresh(r) == \/ \E b \in Browser : StartRefresh(r, b)
              \/ GetForRefresh(r) \/ Exchange(r) \/ Rotate(r)
              \/ DeliverRefresh(r) \/ AbandonRefresh(r)

RefreshNext == (Others /\ Enroll) \/ \E r \in Request : Refresh(r)

RefreshSpec == RefreshInit /\ [][RefreshNext]_allVars

-----------------------------------------------------------------------------

RefreshTypeOK == /\ TypeOK
                 /\ root \in [SessionId -> SessionId \cup {None}]
                 /\ grant \in [SessionId -> Nat \cup {None}]
                 /\ idp \in [SessionId -> Nat]
                 /\ ref \in [Request -> Refresher]

\* A login is at any time worth at most one session: of two refreshes of the
\* same session, of a refresh and a logout, of a refresh whose answer was
\* lost and its retry, at most one leaves a row behind.
OneRowPerLogin ==
    \A i, j \in SessionId :
        rows[i] # None /\ rows[j] # None /\ root[i] = root[j] => i = j

\* At most one party holds a login's newest token: the row, or one handler on
\* its way to store it, so two handlers never both store a rotation.
OneHolderOfToken ==
    \A o \in SessionId :
        LET stored == {i \in SessionId :
                         rows[i] # None /\ root[i] = o /\ grant[i] = idp[o]}
            carried == {r \in Request : ref[r].pc = "rotate"
                          /\ root[ref[r].cookie] = o /\ ref[r].token = idp[o]}
        IN  /\ stored = {} \/ carried = {}
            /\ \A r, s \in carried : r = s

\* A request let through names a session no older than the limit: config.go:86
\* "SessionAbsoluteTimeout is the maximum lifetime of a session regardless of
\* activity".  (The formula of Sessions, under this module's steps.)
AbsoluteUnderRefresh ==
    [][\A r \in Request :
         Accepts(r) => now <= req[r].row.created + Absolute + Drift]_allVars

\* auth.md:17 "Clear session + cookie": once a logout's DELETE has succeeded no
\* session of the login it came from is left, whatever was refreshing it.
LogoutEndsLogin ==
    [][\A r \in Request :
         req[r].pc = "destroy" /\ req'[r].pc = "reply" /\ req[r].cookie # None
           => \A i \in SessionId :
                rows'[i] # None => root'[i] # root'[req[r].cookie]]_allVars

\* A rotated session's old id, like a deleted one, never names a session again.
NoReturn == [][\A i \in SessionId : Over(i) => rows'[i] = None]_allVars
=============================================================================
