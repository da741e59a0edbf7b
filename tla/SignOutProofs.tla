---------------------------- MODULE SignOutProofs ----------------------------
(* Theorems about module SignOut, for any number of tabs, requests and       *)
(* sessions: what keeps a live session within the browser's reach, and what  *)
(* a document says of the session in step with it.                           *)
EXTENDS SignOut, TLAPS

CallRecord ==
    [kind : {"none", "load", "guard", "login", "logout"}, step : {"sent", "answered"},
     tab : Tab \cup {None}, cookie : Session \cup {None}, status : Nat,
     set : Session \cup {None, Keep}, fault : BOOLEAN]

DocRecord ==
    [status : {"closed", "unknown", "anonymous", "authenticated"},
     seen : Session \cup {None}, failed : BOOLEAN, over : SUBSET Session,
     leaving : BOOLEAN]

SignOutTypeOK ==
    /\ row \subseteq Session /\ cookie \in Session \cup {None}
    /\ tab \in [Tab -> DocRecord] /\ call \in [Call -> CallRecord]
    /\ maker \in [Session -> Tab \cup {None, Keep}]
    /\ excused \subseteq Session

\* A value that comes from a cookie names a session that was made, if any.
Made(s) == s \in Session => maker[s] # Keep

\* What request a carries and what its answer says agree with the server: only a
\* login's answer names a session, a logout's clears the cookie once the row is gone
\* or given up, and a check is refused for a session that is not there.
CallOK(a) ==
    /\ Made(a.cookie) /\ Made(a.set)
    /\ a.kind = "none" => a.tab = None
    /\ a.step = "sent" => a.set = Keep
    /\ a.set # Keep => a.kind = IF a.set = None THEN "logout" ELSE "login"
    /\ a.set = None => a.cookie \notin row \ excused
    /\ a.kind = "logout" /\ a.step = "answered" /\ a.status = 200 => a.set = None
    /\ a.kind \in Check /\ a.step = "answered" /\ a.status # 200 /\ ~a.fault
         => a.cookie \notin row
    /\ a.set \in Session /\ a.tab # None => maker[a.set] = a.tab

\* A check of tab t that can still tell its document of a session.
Asks(c, t) == call[c].kind \in Check /\ call[c].tab = t

\* What the document of tab t says agrees with its last answer, and the sessions it
\* was told are over come back neither to the cookie nor to a document that did not
\* hear of it itself.
TabOK(t) ==
    /\ Made(tab[t].seen) /\ \A s \in tab[t].over : Made(s)
    /\ tab[t].status = "authenticated" /\ ~tab[t].leaving => tab[t].seen \notin tab[t].over
    /\ tab[t].status = "anonymous" /\ ~tab[t].failed => tab[t].seen \notin row
    /\ tab[t].status = "unknown" => tab[t].failed \/ \E c \in Call : Asks(c, t)
    /\ cookie \notin tab[t].over
    /\ \A c \in Call :
         /\ call[c].set \notin tab[t].over
         /\ Asks(c, t) /\ ~tab[t].leaving => call[c].cookie \notin tab[t].over

\* While a new session travels to the browser, nothing else there knows of it.
Travelling ==
    \A c \in Call : call[c].set \in Session =>
        /\ cookie # call[c].set
        /\ \A d \in Call : /\ call[d].cookie # call[c].set
                           /\ d # c => call[d].set # call[c].set

\* A document that waits for a logout has not signed in since.
LogoutCurrent ==
    \A c \in Call : /\ call[c].kind = "logout" /\ call[c].tab # None
                    /\ cookie \in Session /\ maker[cookie] = call[c].tab
                    => call[c].cookie = cookie

SignOutInv ==
    /\ SignOutTypeOK /\ Made(cookie) /\ \A s \in row : Made(s)
    /\ \A c \in Call : CallOK(call[c])
    /\ \A t \in Tab : TabOK(t)
    /\ Travelling /\ LogoutCurrent /\ LiveIsHeld

-----------------------------------------------------------------------------
(* Requests.                                                                *)

LEMMA NoCallFacts ==
    /\ NoCall \in CallRecord /\ CallOK(NoCall)
    /\ NoCall.kind = "none" /\ NoCall.step = "sent" /\ NoCall.tab = None
    /\ NoCall.cookie = None /\ NoCall.set = Keep
<1>1. PICK z \in Nat : z = 0
    OBVIOUS
<1>2. NoCall = [kind |-> "none", step |-> "sent", tab |-> None, cookie |-> None,
                status |-> z, set |-> Keep, fault |-> FALSE]
    BY <1>1 DEF NoCall
<1>3. None \notin Session /\ Keep \notin Session /\ None # Keep
    BY SentinelAssumption
<1> QED
    BY <1>2, <1>3 DEF CallRecord, CallOK, Made, Check

\* What a document sends carries the cookie of the moment, if any, and no answer.
LEMMA RequestFacts ==
    ASSUME SignOutInv, NEW kind \in {"load", "guard", "login", "logout"}, NEW t \in Tab,
           NEW q, q = Request(kind, t)
    PROVE  /\ q \in CallRecord /\ CallOK(q)
           /\ q.kind = kind /\ q.step = "sent" /\ q.tab = t
           /\ q.cookie = IF kind = "login" THEN None ELSE cookie
           /\ q.set = Keep
<1>1. PICK z \in Nat : z = 0
    OBVIOUS
<1>2. PICK k : k = IF kind = "login" THEN None ELSE cookie
    OBVIOUS
<1>3. q = [kind |-> kind, step |-> "sent", tab |-> t, cookie |-> k,
           status |-> z, set |-> Keep, fault |-> FALSE]
    BY <1>1, <1>2 DEF Request
<1>4. None \notin Session /\ Keep \notin Session /\ None # Keep /\ t # None
    BY SentinelAssumption
<1>5. cookie \in Session \cup {None} /\ Made(cookie)
    BY DEF SignOutInv, SignOutTypeOK
<1>6. k \in Session \cup {None} /\ Made(k)
    BY <1>2, <1>4, <1>5 DEF Made
<1> QED
    BY <1>2, <1>3, <1>4, <1>6 DEF CallRecord, CallOK, Made, Check

\* What is left of request a when its document goes, or nothing has happened to it.
Rest(b, a) == \/ b = a
              \/ b = [a EXCEPT !.tab = None]
              \/ b = NoCall /\ a.kind \in Check

\* A request that lost its document, or was given up, says no more than before.
LEMMA RestFacts ==
    ASSUME NEW a \in CallRecord, CallOK(a), NEW b, Rest(b, a)
    PROVE  /\ b \in CallRecord /\ CallOK(b)
           /\ b.set = a.set /\ b.cookie \in {a.cookie, None}
           /\ b.kind \in {a.kind, "none"} /\ b.tab \in {a.tab, None}
           /\ b.kind = a.kind => b.cookie = a.cookie
           /\ b.tab # None => b = a
<1>1. CASE b = a
    BY <1>1
<1>2. CASE b = [a EXCEPT !.tab = None]
    BY <1>2 DEF CallRecord, CallOK
<1>3. CASE b = NoCall /\ a.kind \in Check
  <2>1. a.set = Keep
      BY <1>3 DEF CallOK, CallRecord, Check
  <2> QED
      BY <1>3, <2>1, NoCallFacts DEF Check
<1> QED
    BY <1>1, <1>2, <1>3 DEF Rest

\* A document that goes waits for nothing, one that changes its location for no login.
LEMMA LeftFacts ==
    ASSUME SignOutInv, NEW t \in Tab, NEW f, f = Left(t) \/ f = Assigned(t)
    PROVE  /\ f \in [Call -> CallRecord]
           /\ \A c \in Call : /\ Rest(f[c], call[c])
                              /\ call[c].tab # t => f[c] = call[c]
                              /\ f = Left(t) => f[c].tab # t
                              /\ Asks(c, t) /\ f = Assigned(t) => f[c] = call[c]
<1>1. \A c \in Call : call[c] \in CallRecord /\ CallOK(call[c])
    BY DEF SignOutInv, SignOutTypeOK
<1>2. t # None
    BY SentinelAssumption
<1>3. f = [c \in Call |-> f[c]]
    BY DEF Left, Assigned
<1>4. ASSUME NEW c \in Call
      PROVE  /\ Rest(f[c], call[c])
             /\ call[c].tab # t => f[c] = call[c]
             /\ f = Left(t) => f[c].tab # t
             /\ Asks(c, t) /\ f = Assigned(t) => f[c] = call[c]
  <2>1. PICK a \in CallRecord : a = call[c]
      BY <1>1
  <2>2. CASE f = Left(t)
    <3>1. CASE a.tab = t /\ a.kind \in Check
      <4>1. f[c] = NoCall
          BY <2>1, <2>2, <3>1 DEF Left
      <4>2. f # Assigned(t) \/ f[c] = call[c] \/ ~Asks(c, t)
          BY <2>1, <3>1 DEF Assigned, Check
      <4> QED
          BY <1>2, <2>1, <3>1, <4>1, <4>2, NoCallFacts DEF Rest
    <3>2. CASE a.tab = t /\ a.kind \notin Check
      <4>1. f[c] = [a EXCEPT !.tab = None]
          BY <2>1, <2>2, <3>2 DEF Left
      <4> QED
          BY <1>2, <2>1, <3>2, <4>1 DEF Rest, CallRecord, Asks
    <3>3. CASE a.tab # t
      <4>1. f[c] = a
          BY <2>1, <2>2, <3>3 DEF Left
      <4> QED
          BY <2>1, <3>3, <4>1 DEF Rest
    <3> QED
        BY <3>1, <3>2, <3>3
  <2>3. CASE f = Assigned(t) /\ f # Left(t)
    <3>1. CASE a.tab = t /\ a.kind = "login"
      <4>1. f[c] = [a EXCEPT !.tab = None]
          BY <2>1, <2>3, <3>1 DEF Assigned
      <4> QED
          BY <2>1, <2>3, <3>1, <4>1 DEF Rest, Asks, Check
    <3>2. CASE ~(a.tab = t /\ a.kind = "login")
      <4>1. f[c] = a
          BY <2>1, <2>3, <3>2 DEF Assigned
      <4> QED
          BY <2>1, <2>3, <4>1 DEF Rest
    <3> QED
        BY <3>1, <3>2
  <2> QED
      BY <2>2, <2>3
<1>5. ASSUME NEW c \in Call PROVE f[c] \in CallRecord
    BY <1>1, <1>4, RestFacts
<1> QED
    BY <1>3, <1>4, <1>5

\* A request without a kind is free and carries nothing.
LEMMA FreeFacts ==
    ASSUME SignOutInv, NEW c \in Call, Free(c)
    PROVE  call[c].set = Keep /\ call[c].tab = None
<1>1. CallOK(call[c]) /\ call[c] \in CallRecord
    BY DEF SignOutInv, SignOutTypeOK
<1> QED
    BY <1>1 DEF Free, CallOK, CallRecord

-----------------------------------------------------------------------------
(* The documents.                                                           *)

\* The document of tab t says what it said, and its checks go on.
Same(t, D) == D = tab[t] /\ \A d \in Call : Asks(d, t) => call'[d] = call[d]

\* It is a new one, or none, with no more than request q in slot c.
Fresh(t, c, q, D) ==
    /\ D.status \in {"unknown", "closed"} /\ D.seen = None /\ ~D.leaving
    /\ \A d \in Call : call'[d].tab = t => d = c /\ call'[d] = q
    /\ D.status = "unknown" /\ ~D.failed => call'[c] = q /\ q.kind = "load"

\* Request q is as tab t sends it.
Plain(q, t) == /\ q \in CallRecord /\ CallOK(q) /\ q.set = Keep /\ q.tab = t
               /\ q.cookie \in {cookie, None}
               /\ q.kind = "logout" => q.cookie = cookie

\* Of the requests at most those of tab t change: they are given up, and q may come.
Sends(t, c, q) ==
    /\ call' \in [Call -> CallRecord]
    /\ \A d \in Call : \/ Rest(call'[d], call[d])
                       \/ d = c /\ Free(c) /\ call'[d] = q
    /\ \A d \in Call : call[d].tab \notin {t, None} => call'[d] = call[d]

\* A step of the document of tab t, which may send one request and give up others,
\* preserves the invariant if the document says what it said, or is a new one or none.
LEMMA DocumentStep ==
    ASSUME SignOutInv, UNCHANGED <<row, cookie, maker, excused>>,
           NEW t \in Tab, NEW c \in Call,
           NEW D \in DocRecord, tab' = [tab EXCEPT ![t] = D], D.over = tab[t].over,
           NEW q, Plain(q, t), Sends(t, c, q),
           Same(t, D) \/ Fresh(t, c, q, D)
    PROVE  SignOutInv'
<1> /\ q \in CallRecord /\ CallOK(q) /\ q.set = Keep /\ q.tab = t
    /\ q.cookie \in {cookie, None}
    /\ q.kind = "logout" => q.cookie = cookie
    BY DEF Plain
<1> /\ call' \in [Call -> CallRecord]
    /\ \A d \in Call : \/ Rest(call'[d], call[d])
                       \/ d = c /\ Free(c) /\ call'[d] = q
    /\ \A d \in Call : call[d].tab \notin {t, None} => call'[d] = call[d]
    BY DEF Sends
<1>1. /\ tab \in [Tab -> DocRecord] /\ call \in [Call -> CallRecord]
      /\ row \subseteq Session /\ cookie \in Session \cup {None}
    BY DEF SignOutInv, SignOutTypeOK
<1>2. /\ row' = row /\ cookie' = cookie
      /\ maker' = maker /\ excused' = excused
    OBVIOUS
<1>3. /\ tab'[t] = D /\ \A u \in Tab \ {t} : tab'[u] = tab[u]
      /\ SignOutTypeOK'
    BY <1>1, <1>2 DEF SignOutInv, SignOutTypeOK
<1>4. /\ None \notin Session /\ Keep \notin Session /\ None # Keep /\ t # None
      /\ \A u \in Tab : u # None
    BY SentinelAssumption
<1>5. Free(c) => call[c].set = Keep /\ call[c].tab = None /\ call[c].kind = "none"
    BY FreeFacts DEF Free
<1>6. ASSUME NEW d \in Call
      PROVE  /\ CallOK(call'[d])
             /\ call'[d].set = call[d].set
             /\ call'[d].cookie \in {call[d].cookie, None, cookie}
             /\ \/ call'[d] = call[d]
                \/ call'[d].tab = None
                \/ d = c /\ call'[d] = q
  <2>1. CallOK(call[d]) /\ call[d] \in CallRecord
      BY <1>1 DEF SignOutInv
  <2>2. CASE Rest(call'[d], call[d])
      BY <2>1, <2>2, RestFacts
  <2>3. CASE d = c /\ Free(c) /\ call'[d] = q
      BY <1>5, <2>3
  <2> QED
      BY <2>2, <2>3
<1>7. \A d \in Call : CallOK(call[d])'
    BY <1>2, <1>6 DEF CallOK, Made
<1>8. ASSUME NEW u \in Tab PROVE TabOK(u)'
  <2>1. TabOK(u) /\ Made(cookie) /\ tab[u] \in DocRecord
      BY <1>1 DEF SignOutInv
  <2>2. /\ tab'[u].over = tab[u].over /\ None \notin tab[u].over
        /\ cookie \notin tab[u].over
        /\ \A d \in Call : call'[d].set \notin tab[u].over
      BY <1>3, <1>4, <1>6, <2>1 DEF TabOK, DocRecord
  <2>3. \A s : Made(s) => Made(s)'
      BY <1>2 DEF Made
  <2>4. CASE /\ tab'[u] = tab[u]
             /\ \A d \in Call : Asks(d, u) => call'[d] = call[d]
    <3>1. \A d \in Call : Asks(d, u) => Asks(d, u)'
        BY <2>4 DEF Asks
    <3>2. ASSUME NEW d \in Call, Asks(d, u)', ~tab[u].leaving
          PROVE  call'[d].cookie \notin tab[u].over
      <4>1. CASE call'[d] = call[d]
          BY <2>1, <3>2, <4>1 DEF TabOK, Asks
      <4>2. CASE call'[d].tab = None
          BY <1>4, <3>2, <4>2 DEF Asks
      <4>3. CASE d = c /\ call'[d] = q
          BY <2>2, <4>3
      <4> QED
          BY <1>6, <4>1, <4>2, <4>3
    <3> QED
        BY <1>2, <2>1, <2>2, <2>3, <2>4, <3>1, <3>2 DEF TabOK
  <2>5. CASE u = t /\ Fresh(t, c, q, D)
    <3>1. tab'[u] = D /\ Made(D.seen)' /\ \A s \in D.over : Made(s)'
        BY <1>3, <1>4, <2>1, <2>3, <2>5 DEF TabOK, Made, Fresh
    <3>2. D.status = "unknown" => D.failed \/ \E d \in Call : Asks(d, u)'
      <4>1. call'[c] = q /\ q.kind = "load" => Asks(c, u)'
          BY <2>5 DEF Asks, Check
      <4> QED
          BY <2>5, <4>1 DEF Fresh
    <3>3. \A d \in Call : Asks(d, u)' => call'[d].cookie \notin tab[u].over
        BY <2>2, <2>5 DEF Asks, Fresh
    <3>4. D.status \in {"unknown", "closed"}
        BY <2>5 DEF Fresh
    <3> QED
        BY <2>2, <2>5, <3>1, <3>2, <3>3, <3>4, <1>2 DEF TabOK
  <2>6. u # t => /\ tab'[u] = tab[u]
                 /\ \A d \in Call : Asks(d, u) => call'[d] = call[d]
      BY <1>3, <1>4 DEF Asks
  <2>7. Same(t, D) => /\ tab'[t] = tab[t]
                      /\ \A d \in Call : Asks(d, t) => call'[d] = call[d]
      BY <1>3 DEF Same
  <2> QED
      BY <2>4, <2>5, <2>6, <2>7
<1>9. Travelling'
  <2> SUFFICES ASSUME NEW d \in Call, call'[d].set \in Session
               PROVE  /\ cookie # call'[d].set
                      /\ \A e \in Call : /\ call'[e].cookie # call'[d].set
                                         /\ e # d => call'[e].set # call'[d].set
      BY <1>2 DEF Travelling
  <2> QED
      BY <1>4, <1>6 DEF SignOutInv, Travelling
<1>10. LogoutCurrent'
    BY <1>2, <1>6 DEF SignOutInv, LogoutCurrent
<1>11. LiveIsHeld'
    BY <1>2, <1>6 DEF SignOutInv, LiveIsHeld
<1>12. Made(cookie)' /\ (\A s \in row : Made(s))'
    BY <1>2 DEF SignOutInv, Made
<1> QED
    BY <1>3, <1>7, <1>8, <1>9, <1>10, <1>11, <1>12 DEF SignOutInv

\* The new document, and the closed one.
LEMMA BlankFacts ==
    ASSUME NEW u \in DocRecord, NEW b \in BOOLEAN
    PROVE  /\ LET D == Blank(u.over, b)
              IN  /\ D \in DocRecord /\ D.over = u.over /\ D.status = "unknown"
                  /\ D.seen = None /\ ~D.leaving /\ D.failed = b
           /\ LET D == Closed(u.over)
              IN  /\ D \in DocRecord /\ D.over = u.over /\ D.status = "closed"
                  /\ D.seen = None /\ ~D.leaving
<1>1. PICK n \in BOOLEAN : n = FALSE
    OBVIOUS
<1>2. /\ Blank(u.over, b) = [status |-> "unknown", seen |-> None, failed |-> b,
                             over |-> u.over, leaving |-> n]
      /\ Closed(u.over) = [status |-> "closed", seen |-> None, failed |-> n,
                           over |-> u.over, leaving |-> n]
    BY <1>1 DEF Blank, Closed, Document
<1>3. u.over \in SUBSET Session
    BY DEF DocRecord
<1> QED
    BY <1>1, <1>2, <1>3 DEF DocRecord

\* A document opens knowing nothing of the session, and asks unless it is hindered.
LEMMA OpenStep ==
    ASSUME SignOutInv, NEW t \in Tab, NEW c \in Call, Open(t, c)
    PROVE  SignOutInv'
<1>1. PICK q : q = Request("load", t)
    OBVIOUS
<1>2. /\ q \in CallRecord /\ CallOK(q) /\ q.kind = "load" /\ q.tab = t
      /\ q.cookie = cookie /\ q.set = Keep
    BY <1>1, RequestFacts
<1>3. PICK f : f = Left(t)
    OBVIOUS
<1>4. /\ f \in [Call -> CallRecord]
      /\ \A d \in Call : /\ Rest(f[d], call[d]) /\ f[d].tab # t
                         /\ call[d].tab # t => f[d] = call[d]
    BY <1>3, LeftFacts
<1>5. tab[t] \in DocRecord
    BY DEF SignOutInv, SignOutTypeOK
<1>6. PICK b \in BOOLEAN :
         /\ tab' = [tab EXCEPT ![t] = Blank(tab[t].over, b)]
         /\ IF b THEN call' = f ELSE call' = [f EXCEPT ![c] = q]
  <2>1. CASE tab' = [tab EXCEPT ![t] = Blank(@.over, FALSE)]
             /\ call' = [Left(t) EXCEPT ![c] = Request("load", t)]
      BY <1>1, <1>3, <2>1
  <2>2. CASE tab' = [tab EXCEPT ![t] = Blank(@.over, TRUE)] /\ call' = Left(t)
      BY <1>3, <2>2
  <2> QED
      BY <2>1, <2>2 DEF Open
<1>7. PICK D \in DocRecord : /\ D = Blank(tab[t].over, b)
                             /\ D.over = tab[t].over /\ D.status = "unknown"
                             /\ D.seen = None /\ ~D.leaving /\ D.failed = b
    BY <1>5, BlankFacts
<1>8. /\ UNCHANGED <<row, cookie, maker, excused>> /\ Free(c)
      /\ tab' = [tab EXCEPT ![t] = D]
    BY <1>6, <1>7 DEF Open
<1>9. /\ call' \in [Call -> CallRecord]
      /\ \A d \in Call : \/ Rest(call'[d], call[d])
                         \/ d = c /\ Free(c) /\ call'[d] = q
      /\ \A d \in Call : call[d].tab \notin {t, None} => call'[d] = call[d]
      /\ \A d \in Call : call'[d].tab = t => d = c /\ call'[d] = q
      /\ ~b => call'[c] = q
  <2>1. call[c].tab = None
      BY <1>8, FreeFacts
  <2>2. CASE b
      BY <1>4, <1>6, <2>2
  <2>3. CASE ~b
    <3>1. call' = [f EXCEPT ![c] = q]
        BY <1>6, <2>3
    <3>2. call'[c] = q /\ \A d \in Call \ {c} : call'[d] = f[d]
        BY <1>4, <3>1
    <3> QED
        BY <1>2, <1>4, <1>8, <2>1, <3>1, <3>2
  <2> QED
      BY <2>2, <2>3
<1>10. Plain(q, t)
    BY <1>2 DEF Plain
<1>11. Sends(t, c, q)
    BY <1>9 DEF Sends
<1>12. Fresh(t, c, q, D)
    BY <1>2, <1>7, <1>9 DEF Fresh
<1>13. D.over = tab[t].over
    BY <1>7
<1> QED
    BY <1>8, <1>10, <1>11, <1>12, <1>13, DocumentStep

\* A document that goes says nothing and asks nothing.
LEMMA UnloadStep ==
    ASSUME SignOutInv, NEW t \in Tab, Unload(t)
    PROVE  SignOutInv'
<1>1. PICK q : q = Request("load", t)
    OBVIOUS
<1>2. /\ q \in CallRecord /\ CallOK(q) /\ q.kind = "load" /\ q.tab = t
      /\ q.cookie = cookie /\ q.set = Keep
    BY <1>1, RequestFacts
<1>3. PICK f : f = Left(t)
    OBVIOUS
<1>4. /\ f \in [Call -> CallRecord]
      /\ \A d \in Call : /\ Rest(f[d], call[d]) /\ f[d].tab # t
                         /\ call[d].tab # t => f[d] = call[d]
    BY <1>3, LeftFacts
<1>5. tab[t] \in DocRecord
    BY DEF SignOutInv, SignOutTypeOK
<1>6. PICK D \in DocRecord : /\ D = Closed(tab[t].over)
                             /\ D.over = tab[t].over /\ D.status = "closed"
                             /\ D.seen = None /\ ~D.leaving
    BY <1>5, BlankFacts
<1>7. /\ UNCHANGED <<row, cookie, maker, excused>> /\ call' = f
      /\ tab' = [tab EXCEPT ![t] = D]
    BY <1>3, <1>6 DEF Unload
<1>8. CASE Call = {}
  <2>1. /\ row' = row /\ cookie' = cookie /\ maker' = maker /\ excused' = excused
        /\ tab \in [Tab -> DocRecord] /\ SignOutTypeOK'
      BY <1>4, <1>6, <1>7 DEF SignOutInv, SignOutTypeOK
  <2>2. ASSUME NEW u \in Tab PROVE TabOK(u)'
    <3>1. TabOK(u) /\ Made(None) /\ \A s : Made(s) => Made(s)'
        BY <2>1, SentinelAssumption DEF SignOutInv, Made
    <3>2. tab'[u] = IF u = t THEN D ELSE tab[u]
        BY <1>7, <2>1
    <3> QED
        BY <1>6, <1>8, <2>1, <3>1, <3>2 DEF TabOK
  <2>3. Travelling' /\ LogoutCurrent' /\ LiveIsHeld' /\ \A c \in Call : CallOK(call[c])'
      BY <1>8, <2>1 DEF SignOutInv, Travelling, LogoutCurrent, LiveIsHeld
  <2>4. Made(cookie)' /\ (\A s \in row : Made(s))'
      BY <2>1 DEF SignOutInv, Made
  <2> QED
      BY <2>1, <2>2, <2>3, <2>4 DEF SignOutInv
<1>9. CASE Call # {}
  <2>1. PICK c \in Call : TRUE
      BY <1>9
  <2>2. /\ call' \in [Call -> CallRecord]
        /\ \A d \in Call : \/ Rest(call'[d], call[d])
                           \/ d = c /\ Free(c) /\ call'[d] = q
        /\ \A d \in Call : call[d].tab \notin {t, None} => call'[d] = call[d]
        /\ \A d \in Call : call'[d].tab = t => d = c /\ call'[d] = q
      BY <1>4, <1>7
  <2>3. Plain(q, t)
      BY <1>2 DEF Plain
  <2>4. Sends(t, c, q)
      BY <2>2 DEF Sends
  <2>5. Fresh(t, c, q, D)
      BY <1>6, <2>2 DEF Fresh
  <2>6. D.over = tab[t].over
      BY <1>6
  <2> QED
      BY <1>7, <2>3, <2>4, <2>5, <2>6, DocumentStep
<1> QED
    BY <1>8, <1>9

\* A document that stays as it is sends one request, perhaps in place of a login.
LEMMA ClickStep ==
    ASSUME SignOutInv, UNCHANGED <<row, cookie, tab, maker, excused>>,
           NEW t \in Tab, NEW c \in Call, Free(c),
           NEW kind \in {"load", "guard", "login", "logout"},
           NEW f, f = call \/ f = Assigned(t),
           call' = [f EXCEPT ![c] = Request(kind, t)]
    PROVE  SignOutInv'
<1>1. PICK q : q = Request(kind, t)
    OBVIOUS
<1>2. /\ q \in CallRecord /\ CallOK(q) /\ q.kind = kind /\ q.tab = t
      /\ q.cookie = (IF kind = "login" THEN None ELSE cookie) /\ q.set = Keep
    BY <1>1, RequestFacts
<1>3. /\ f \in [Call -> CallRecord]
      /\ \A d \in Call : /\ Rest(f[d], call[d])
                         /\ call[d].tab # t => f[d] = call[d]
                         /\ Asks(d, t) => f[d] = call[d]
  <2>1. CASE f = call
      BY <2>1 DEF SignOutInv, SignOutTypeOK, Rest
  <2>2. CASE f = Assigned(t)
      BY <2>2, LeftFacts
  <2> QED
      BY <2>1, <2>2
<1>4. call[c].tab = None /\ t # None
    BY FreeFacts, SentinelAssumption
<1>5. call' = [f EXCEPT ![c] = q] /\ call'[c] = q
      /\ \A d \in Call \ {c} : call'[d] = f[d]
    BY <1>1, <1>3
<1>6. /\ call' \in [Call -> CallRecord]
      /\ \A d \in Call : \/ Rest(call'[d], call[d])
                         \/ d = c /\ Free(c) /\ call'[d] = q
      /\ \A d \in Call : call[d].tab \notin {t, None} => call'[d] = call[d]
      /\ \A d \in Call : Asks(d, t) => call'[d] = call[d]
    BY <1>2, <1>3, <1>4, <1>5 DEF Asks
<1>7. PICK D \in DocRecord : D = tab[t]
    BY DEF SignOutInv, SignOutTypeOK
<1>8. tab' = [tab EXCEPT ![t] = D] /\ D.over = tab[t].over
    BY <1>7 DEF SignOutInv, SignOutTypeOK
<1>9. q.cookie \in {cookie, None} /\ (q.kind = "logout" => q.cookie = cookie)
    BY <1>2
<1>10. Same(t, D)
    BY <1>6, <1>7 DEF Same
<1>11. Plain(q, t)
    BY <1>2, <1>9 DEF Plain
<1>12. Sends(t, c, q)
    BY <1>6 DEF Sends
<1> QED
    BY <1>8, <1>10, <1>11, <1>12, DocumentStep

\* A guarded page checks, beside its layout or alone.
LEMMA GuardStep ==
    ASSUME SignOutInv, NEW t \in Tab, NEW c \in Call, Guard(t, c)
    PROVE  SignOutInv'
    BY ClickStep DEF Guard

\* The browser goes for a login while the document waits.
LEMMA ClickLoginStep ==
    ASSUME SignOutInv, NEW t \in Tab, NEW c \in Call, ClickLogin(t, c)
    PROVE  SignOutInv'
    BY ClickStep DEF ClickLogin

\* The logout is sent from a document that may know better by now.
LEMMA ClickLogoutStep ==
    ASSUME SignOutInv, NEW t \in Tab, NEW c \in Call, ClickLogout(t, c)
    PROVE  SignOutInv'
    BY ClickStep DEF ClickLogout

-----------------------------------------------------------------------------
(* The server.                                                              *)

\* A handler that answers its request preserves the invariant if the answer is true
\* of the rows, and if what it adds to the rows is a session nobody has heard of and
\* its answer names.
LEMMA ServerStep ==
    ASSUME SignOutInv, UNCHANGED <<cookie, tab>>,
           NEW c \in Call, call[c].step = "sent",
           NEW q \in CallRecord, call' = [call EXCEPT ![c] = q],
           q.kind = call[c].kind, q.tab = call[c].tab, q.cookie = call[c].cookie,
           row' \subseteq Session, excused' \subseteq Session,
           row' \cap excused \subseteq excused',
           maker' \in [Session -> Tab \cup {None, Keep}],
           \A s \in Session : maker[s] # Keep => maker'[s] = maker[s],
           \A s \in row' \ row : /\ maker[s] = Keep /\ maker'[s] # Keep
                                 /\ q.set = s \/ s \in excused',
           q.set \in Session => maker[q.set] = Keep,
           CallOK(q)'
    PROVE  SignOutInv'
<1>1. /\ tab \in [Tab -> DocRecord] /\ call \in [Call -> CallRecord]
      /\ row \subseteq Session /\ cookie \in Session \cup {None}
    BY DEF SignOutInv, SignOutTypeOK
<1>2. /\ call'[c] = q /\ \A d \in Call \ {c} : call'[d] = call[d]
      /\ cookie' = cookie /\ tab' = tab
      /\ SignOutTypeOK'
    BY <1>1 DEF SignOutInv, SignOutTypeOK
<1>3. None \notin Session /\ Keep \notin Session /\ None # Keep
    BY SentinelAssumption
<1>4. \A s : Made(s) => Made(s)'
    BY DEF Made
<1>5. \A s : Made(s) /\ s \notin row => s \notin row'
    BY DEF Made
<1>15. \A s : Made(s) /\ s \notin row \ excused => s \notin row' \ excused'
    BY <1>5
<1>6. call[c].set = Keep
    BY DEF SignOutInv, CallOK
<1>7. ASSUME NEW d \in Call PROVE CallOK(call[d])'
  <2>1. CASE d = c
      BY <1>2, <2>1 DEF CallOK, Made
  <2>2. CASE d # c
    <3>1. CallOK(call[d]) /\ call'[d] = call[d]
        BY <1>2, <2>2 DEF SignOutInv
    <3> QED
        BY <1>4, <1>5, <1>15, <3>1 DEF CallOK, Made
  <2> QED
      BY <2>1, <2>2
<1>8. ASSUME NEW d \in Call
      PROVE  /\ call'[d].kind = call[d].kind /\ call'[d].tab = call[d].tab
             /\ call'[d].cookie = call[d].cookie
             /\ call'[d].set = call[d].set \/ (d = c /\ call'[d].set = q.set)
    BY <1>2
<1>9. ASSUME NEW t \in Tab PROVE TabOK(t)'
  <2>1. TabOK(t)
      BY DEF SignOutInv
  <2>2. Made(tab[t].seen)' /\ \A s \in tab[t].over : Made(s)'
      BY <1>2, <1>4, <2>1 DEF TabOK, Made
  <2>3. q.set \notin tab[t].over
    <3>1. \A s \in tab[t].over : s \in Session
        BY <1>1 DEF DocRecord
    <3> QED
        BY <2>1, <3>1 DEF TabOK, Made
  <2>4. \A d \in Call :
           /\ call'[d].set \notin tab[t].over
           /\ Asks(d, t)' /\ ~tab[t].leaving => call'[d].cookie \notin tab[t].over
      BY <1>8, <2>1, <2>3 DEF TabOK, Asks
  <2>5. tab[t].status = "anonymous" /\ ~tab[t].failed => tab[t].seen \notin row'
      BY <1>5, <2>1 DEF TabOK
  <2>6. tab[t].status = "unknown" => tab[t].failed \/ \E d \in Call : Asks(d, t)'
      BY <1>8, <2>1 DEF TabOK, Asks
  <2> QED
      BY <1>2, <2>1, <2>2, <2>4, <2>5, <2>6 DEF TabOK
<1>10. Travelling'
  <2> SUFFICES ASSUME NEW d \in Call, call'[d].set \in Session
               PROVE  /\ cookie # call'[d].set
                      /\ \A e \in Call : /\ call'[e].cookie # call'[d].set
                                         /\ e # d => call'[e].set # call'[d].set
      BY <1>2 DEF Travelling
  <2>1. Made(cookie) /\ \A e \in Call : Made(call[e].cookie) /\ Made(call[e].set)
      BY DEF SignOutInv, CallOK
  <2>2. q.set \in Session =>
           /\ cookie # q.set
           /\ \A e \in Call : call[e].cookie # q.set /\ call[e].set # q.set
      BY <2>1 DEF Made
  <2>3. call[d].set \in Session =>
           /\ cookie # call[d].set
           /\ \A e \in Call : /\ call[e].cookie # call[d].set
                              /\ e # d => call[e].set # call[d].set
      BY DEF SignOutInv, Travelling
  <2> QED
      BY <1>2, <1>6, <1>8, <2>2, <2>3
<1>12. LogoutCurrent'
    BY <1>2, <1>8 DEF SignOutInv, LogoutCurrent, Made
<1>13. LiveIsHeld'
  <2> SUFFICES ASSUME NEW s \in row'
               PROVE  s \in excused' \cup {cookie} \/ \E d \in Call : call'[d].set = s
      BY <1>2 DEF LiveIsHeld
  <2>1. CASE s \notin row
      BY <1>2, <2>1
  <2>2. CASE s \in row
    <3>1. s \in excused \cup {cookie} \/ \E d \in Call : call[d].set = s
        BY <2>2 DEF SignOutInv, LiveIsHeld
    <3>2. ASSUME NEW d \in Call, call[d].set = s PROVE call'[d].set = s
        BY <1>1, <1>2, <1>3, <1>6, <2>2, <3>2
    <3> QED
        BY <1>2, <2>2, <3>1, <3>2
  <2> QED
      BY <2>1, <2>2
<1>14. Made(cookie)' /\ (\A s \in row : Made(s))'
  <2>1. Made(cookie) /\ \A s \in row : Made(s)
      BY DEF SignOutInv
  <2> QED
      BY <1>2, <1>4, <2>1 DEF Made
<1> QED
    BY <1>2, <1>7, <1>9, <1>10, <1>12, <1>13, <1>14 DEF SignOutInv

\* q is request c once it is answered.
Answered(q, c, status, set) ==
    /\ q.kind = call[c].kind /\ q.tab = call[c].tab
    /\ q.cookie = call[c].cookie /\ q.step = "answered"
    /\ q.status = status /\ q.set = set

\* An answer adds its status and cookie to the request, no more.
LEMMA AnswerFacts ==
    ASSUME SignOutInv, NEW c \in Call, NEW status \in Nat,
           NEW set \in Session \cup {None, Keep}, NEW fault \in BOOLEAN,
           Answer(c, status, set, fault)
    PROVE  \E q \in CallRecord : /\ call' = [call EXCEPT ![c] = q]
                                  /\ Answered(q, c, status, set) /\ q.fault = fault
<1>1. PICK q : q = [call[c] EXCEPT !.step = "answered", !.status = status,
                                   !.set = set, !.fault = fault]
    OBVIOUS
<1>2. call' = [call EXCEPT ![c] = q]
    BY <1>1 DEF Answer
<1>3. call[c] \in CallRecord
    BY DEF SignOutInv, SignOutTypeOK
<1>4. /\ q \in CallRecord /\ q.kind = call[c].kind /\ q.tab = call[c].tab
      /\ q.cookie = call[c].cookie /\ q.step = "answered"
      /\ q.status = status /\ q.set = set /\ q.fault = fault
    BY <1>1, <1>3 DEF CallRecord
<1> QED
    BY <1>2, <1>4 DEF Answered

\* /api/me answers from the row that the cookie of the request names.
LEMMA MeStep ==
    ASSUME SignOutInv, NEW c \in Call, Me(c)
    PROVE  SignOutInv'
<1>1. PICK ok \in Nat, no \in Nat : ok = 200 /\ no = 401 /\ ok # no
    OBVIOUS
<1>2. \/ call[c].cookie \in row /\ Answer(c, ok, Keep, FALSE)
      \/ call[c].cookie \notin row /\ Answer(c, no, Keep, FALSE)
      \/ Answer(c, no, Keep, TRUE)
    BY <1>1 DEF Me
<1>3. PICK q \in CallRecord :
         /\ call' = [call EXCEPT ![c] = q]
         /\ \/ call[c].cookie \in row /\ Answered(q, c, ok, Keep)
            \/ call[c].cookie \notin row /\ Answered(q, c, no, Keep)
            \/ Answered(q, c, no, Keep) /\ q.fault
  <2>1. Keep \in Session \cup {None, Keep} /\ TRUE \in BOOLEAN /\ FALSE \in BOOLEAN
      OBVIOUS
  <2>2. ASSUME NEW status \in Nat, NEW fault \in BOOLEAN, Answer(c, status, Keep, fault)
        PROVE  \E q \in CallRecord : /\ call' = [call EXCEPT ![c] = q]
                                     /\ Answered(q, c, status, Keep) /\ q.fault = fault
      BY <2>1, <2>2, AnswerFacts
  <2>3. CASE call[c].cookie \in row /\ Answer(c, ok, Keep, FALSE)
      BY <2>1, <2>2, <2>3, Zenon
  <2>4. CASE call[c].cookie \notin row /\ Answer(c, no, Keep, FALSE)
      BY <2>1, <2>2, <2>4, Zenon
  <2>5. CASE Answer(c, no, Keep, TRUE)
      BY <2>1, <2>2, <2>5, Zenon
  <2> QED
      BY <1>2, <2>3, <2>4, <2>5
<1>4. /\ UNCHANGED <<cookie, tab>> /\ row' = row /\ maker' = maker
      /\ excused' = excused /\ call[c].step = "sent" /\ call[c].kind \in Check
    BY DEF Me, Sent
<1>5. CallOK(call[c]) /\ row \subseteq Session
    BY DEF SignOutInv, SignOutTypeOK
<1>6. Keep \notin Session /\ None # Keep
    BY SentinelAssumption
<1>7. CallOK(q)'
  <2>2. q.status # 200 /\ ~q.fault => q.cookie \notin row
      BY <1>1, <1>3 DEF Answered
  <2>3. Made(q.cookie) /\ q.set = Keep /\ q.kind \in Check /\ q.step = "answered"
      BY <1>3, <1>4, <1>5 DEF CallOK, Answered
  <2> QED
      BY <1>4, <1>6, <2>2, <2>3 DEF CallOK, Made, Check
<1>8. /\ row' \subseteq Session /\ excused' \subseteq Session
      /\ row' \cap excused \subseteq excused'
      /\ maker' \in [Session -> Tab \cup {None, Keep}]
      /\ \A s \in Session : maker[s] # Keep => maker'[s] = maker[s]
      /\ \A s \in row' \ row : maker[s] = Keep /\ maker'[s] # Keep /\ q.set = s
      /\ q.set \in Session => maker[q.set] = Keep
      /\ q.kind = call[c].kind /\ q.tab = call[c].tab /\ q.cookie = call[c].cookie
    BY <1>3, <1>4, <1>6 DEF SignOutInv, SignOutTypeOK, Answered
<1> QED
    BY <1>3, <1>4, <1>7, <1>8, ServerStep

\* The logout's answer clears the cookie, and its row is gone or given up.
LEMMA LogoutStep ==
    ASSUME SignOutInv, NEW c \in Call, Logout(c)
    PROVE  SignOutInv'
<1>1. PICK ok \in Nat, no \in Nat : ok = 200 /\ no = 403 /\ no # 200
    OBVIOUS
<1>2. /\ CallOK(call[c]) /\ call[c] \in CallRecord /\ row \subseteq Session
      /\ excused \subseteq Session /\ maker \in [Session -> Tab \cup {None, Keep}]
    BY DEF SignOutInv, SignOutTypeOK
<1>3. None \notin Session /\ Keep \notin Session /\ None # Keep
    BY SentinelAssumption
<1>4. /\ UNCHANGED <<cookie, tab>> /\ maker' = maker
      /\ call[c].step = "sent" /\ call[c].kind = "logout"
      /\ \/ /\ Answer(c, no, Keep, FALSE)
            /\ row' = row /\ excused' = excused
         \/ /\ Answer(c, ok, None, FALSE)
            /\ row' = row \ {call[c].cookie} /\ excused' = excused \ {call[c].cookie}
         \/ /\ Answer(c, ok, None, FALSE)
            /\ row' = row /\ excused' = excused \cup ({call[c].cookie} \cap row)
    BY <1>1 DEF Logout, Sent
<1>5. PICK q \in CallRecord :
         /\ call' = [call EXCEPT ![c] = q]
         /\ \/ Answered(q, c, no, Keep)
            \/ Answered(q, c, ok, None) /\ call[c].cookie \notin row' \ excused'
  <2>1. /\ None \in Session \cup {None, Keep} /\ Keep \in Session \cup {None, Keep}
        /\ TRUE \in BOOLEAN /\ FALSE \in BOOLEAN
      OBVIOUS
  <2>2. ASSUME NEW status \in Nat, NEW set \in Session \cup {None, Keep},
               NEW fault \in BOOLEAN, Answer(c, status, set, fault)
        PROVE  \E q \in CallRecord : /\ call' = [call EXCEPT ![c] = q]
                                     /\ Answered(q, c, status, set)
      BY <2>2, AnswerFacts
  <2>3. \/ Answer(c, no, Keep, FALSE)
        \/ Answer(c, ok, None, FALSE) /\ call[c].cookie \notin row' \ excused'
      BY <1>4
  <2> QED
      BY <2>1, <2>2, <2>3, Zenon
<1>6. row' \subseteq row /\ excused' \subseteq Session /\ row' \cap excused \subseteq excused'
    BY <1>2, <1>4 DEF CallRecord
<1>7. CallOK(q)'
    BY <1>1, <1>2, <1>3, <1>4, <1>5 DEF CallOK, Made, Answered, Check
<1>8. /\ row' \subseteq Session
      /\ q.kind = call[c].kind /\ q.tab = call[c].tab /\ q.cookie = call[c].cookie
      /\ maker' \in [Session -> Tab \cup {None, Keep}]
      /\ \A s \in Session : maker[s] # Keep => maker'[s] = maker[s]
      /\ \A s \in row' \ row : maker[s] = Keep /\ maker'[s] # Keep /\ q.set = s
      /\ q.set \in Session => maker[q.set] = Keep
    BY <1>2, <1>3, <1>4, <1>5, <1>6 DEF Answered
<1> QED
    BY <1>4, <1>5, <1>6, <1>7, <1>8, ServerStep

\* A login's answer brings a session that nothing else names.
LEMMA LoginStep ==
    ASSUME SignOutInv, NEW c \in Call, Login(c)
    PROVE  SignOutInv'
<1>1. PICK ok \in Nat, no \in Nat : ok = 302 /\ no = 500
    OBVIOUS
<1>2. /\ CallOK(call[c]) /\ call[c] \in CallRecord /\ row \subseteq Session
      /\ excused \subseteq Session /\ maker \in [Session -> Tab \cup {None, Keep}]
    BY DEF SignOutInv, SignOutTypeOK
<1>3. /\ None \notin Session /\ Keep \notin Session /\ None # Keep
      /\ Keep \notin Tab \cup {None}
    BY SentinelAssumption
<1>4. /\ UNCHANGED <<cookie, tab>> 
      /\ call[c].step = "sent" /\ call[c].kind = "login"
      /\ \/ \E s \in Session :
              /\ maker[s] = Keep /\ row' = row \cup {s}
              /\ maker' = [maker EXCEPT ![s] = call[c].tab]
              /\ \/ Answer(c, ok, s, FALSE) /\ excused' = excused
                 \/ Answer(c, no, Keep, FALSE) /\ excused' = excused \cup {s}
         \/ /\ Answer(c, no, Keep, FALSE)
            /\ row' = row /\ maker' = maker /\ excused' = excused
    BY <1>1 DEF Login, Sent
<1>5. call[c].tab \in Tab \cup {None}
    BY <1>2 DEF CallRecord
<1>6. CASE /\ Answer(c, no, Keep, FALSE)
           /\ row' = row /\ maker' = maker /\ excused' = excused
  <2>1. Keep \in Session \cup {None, Keep} /\ FALSE \in BOOLEAN
      OBVIOUS
  <2>2. PICK q \in CallRecord :
           call' = [call EXCEPT ![c] = q] /\ Answered(q, c, no, Keep)
    <3>1. Answer(c, no, Keep, FALSE)
        BY <1>6
    <3> QED
        BY <2>1, <3>1, AnswerFacts, Zenon
  <2>3. CallOK(q)'
      BY <1>2, <1>3, <1>4, <1>6, <2>2 DEF CallOK, Made, Answered, Check
  <2>4. /\ row' \subseteq Session /\ excused' \subseteq Session
        /\ row' \cap excused \subseteq excused'
        /\ maker' \in [Session -> Tab \cup {None, Keep}]
        /\ \A s \in Session : maker[s] # Keep => maker'[s] = maker[s]
        /\ \A s \in row' \ row : maker[s] = Keep /\ maker'[s] # Keep /\ q.set = s
        /\ q.set \in Session => maker[q.set] = Keep
        /\ q.kind = call[c].kind /\ q.tab = call[c].tab /\ q.cookie = call[c].cookie
      BY <1>2, <1>3, <1>4, <1>6, <2>2 DEF Answered
  <2> QED
      BY <1>4, <2>2, <2>3, <2>4, ServerStep
<1>7. ASSUME NEW s \in Session, maker[s] = Keep, row' = row \cup {s},
             maker' = [maker EXCEPT ![s] = call[c].tab],
             NEW set, NEW status \in Nat, Answer(c, status, set, FALSE),
             \/ set = s /\ excused' = excused
             \/ set = Keep /\ excused' = excused \cup {s}
      PROVE  SignOutInv'
  <2>1. set \in Session \cup {None, Keep} /\ FALSE \in BOOLEAN
      BY <1>7
  <2>2. PICK q \in CallRecord :
           call' = [call EXCEPT ![c] = q] /\ Answered(q, c, status, set)
    <3>1. Answer(c, status, set, FALSE)
        BY <1>7
    <3> QED
        BY <2>1, <3>1, AnswerFacts, Zenon
  <2>3. /\ maker' \in [Session -> Tab \cup {None, Keep}]
        /\ maker'[s] = call[c].tab /\ maker'[s] # Keep
        /\ \A o \in Session : maker[o] # Keep => maker'[o] = maker[o]
      BY <1>2, <1>3, <1>5, <1>7
  <2>4. CallOK(q)'
      BY <1>2, <1>3, <1>4, <1>7, <2>2, <2>3 DEF CallOK, Made, Answered, Check
  <2>5. /\ row' \subseteq Session /\ excused' \subseteq Session
        /\ row' \cap excused \subseteq excused'
        /\ \A o \in row' \ row : /\ maker[o] = Keep /\ maker'[o] # Keep
                                 /\ q.set = o \/ o \in excused'
        /\ q.set \in Session => maker[q.set] = Keep
        /\ q.kind = call[c].kind /\ q.tab = call[c].tab /\ q.cookie = call[c].cookie
      BY <1>2, <1>3, <1>4, <1>7, <2>2, <2>3 DEF Answered
  <2> QED
      BY <1>4, <2>2, <2>3, <2>4, <2>5, ServerStep
<1>8. Keep \in Session \cup {Keep} /\ ok \in Nat /\ no \in Nat
    OBVIOUS
<1>9. ASSUME NEW s \in Session, maker[s] = Keep, row' = row \cup {s},
             maker' = [maker EXCEPT ![s] = call[c].tab],
             \/ Answer(c, ok, s, FALSE) /\ excused' = excused
             \/ Answer(c, no, Keep, FALSE) /\ excused' = excused \cup {s}
      PROVE  SignOutInv'
  <2>1. CASE Answer(c, ok, s, FALSE) /\ excused' = excused
      BY <1>7, <1>8, <1>9, <2>1
  <2>2. CASE Answer(c, no, Keep, FALSE) /\ excused' = excused \cup {s}
      BY <1>7, <1>8, <1>9, <2>2
  <2> QED
      BY <1>9, <2>1, <2>2
<1> QED
    BY <1>4, <1>6, <1>9

\* A row that runs out is missed by nothing that has to be true of live ones.
LEMMA ExpireStep ==
    ASSUME SignOutInv, NEW s \in Session, Expire(s)
    PROVE  SignOutInv'
<1>1. /\ row' = row \ {s} /\ cookie' = cookie /\ tab' = tab /\ call' = call
      /\ maker' = maker /\ excused' = excused \ {s}
    BY DEF Expire
<1>2. SignOutTypeOK' /\ Made(cookie)' /\ \A o \in row' : Made(o)'
    BY <1>1 DEF SignOutInv, SignOutTypeOK, Made
<1>3. \A c \in Call : CallOK(call[c])'
    BY <1>1 DEF SignOutInv, CallOK, Made
<1>4. \A t \in Tab : TabOK(t)'
    BY <1>1 DEF SignOutInv, TabOK, Made, Asks
<1>5. Travelling' /\ LogoutCurrent' /\ LiveIsHeld'
    BY <1>1 DEF SignOutInv, Travelling, LogoutCurrent, LiveIsHeld
<1> QED
    BY <1>2, <1>3, <1>4, <1>5 DEF SignOutInv, Made

-----------------------------------------------------------------------------
(* The answers.                                                             *)

\* Slot c is free again, or has a login that is about to leave.
Spent(c) == /\ CallOK(call[c]) /\ call[c].set = Keep /\ call[c].cookie = None
            /\ call[c].kind \in {"none", "login"}

\* Of the other requests at most those of the same tab are given up.
Ends(c) == /\ call' \in [Call -> CallRecord] /\ Spent(c)'
           /\ \A d \in Call \ {c} : /\ Rest(call'[d], call[d])
                                    /\ call[d].tab # call[c].tab => call'[d] = call[d]

\* What a request says after another has ended.
LEMMA EndFacts ==
    ASSUME SignOutInv, NEW c \in Call, Ends(c), UNCHANGED <<row, maker>>,
           row \cap excused \subseteq excused', NEW d \in Call
    PROVE  /\ CallOK(call[d])'
           /\ call'[d].set = IF d = c THEN Keep ELSE call[d].set
           /\ call'[d].cookie \in {call[d].cookie, None}
           /\ call'[d].kind \in Check \cup {"logout"} /\ call'[d].tab # None
                => d # c /\ call'[d] = call[d]
<1>1. CallOK(call[d]) /\ call[d] \in CallRecord
    BY DEF SignOutInv, SignOutTypeOK
<1>2. row' = row /\ maker' = maker
    OBVIOUS
<1>3. CASE d = c
    BY <1>3 DEF Ends, Spent, Check
<1>4. CASE d # c
  <2>1. Rest(call'[d], call[d])
      BY <1>4 DEF Ends
  <2>2. /\ CallOK(call'[d]) /\ call'[d].set = call[d].set
        /\ call'[d].cookie \in {call[d].cookie, None}
        /\ call'[d].tab # None => call'[d] = call[d]
      BY <1>1, <2>1, RestFacts
  <2>3. CallOK(call[d])'
      BY <1>2, <2>2 DEF CallOK, Made
  <2> QED
      BY <1>4, <2>2, <2>3
<1> QED
    BY <1>3, <1>4

\* A request that ends, with its answer or without, preserves the invariant if it
\* takes no live session out of reach and the document that waited for it stays true.
LEMMA EndStep ==
    ASSUME SignOutInv, UNCHANGED <<row, maker>>, NEW c \in Call, Ends(c),
           cookie' \in Session \cup {None},
           cookie' # cookie => cookie' = call[c].set /\ call[c].tab # None,
           cookie' # cookie /\ call[c].kind = "login"
             => \A d \in Call : call'[d].tab # call[c].tab,
           excused \subseteq excused', excused' \subseteq Session,
           \A s \in row \cap {cookie, call[c].set} : s \in excused' \cup {cookie'},
           tab' \in [Tab -> DocRecord],
           \A u \in Tab : u # call[c].tab => tab'[u] = tab[u],
           \A u \in Tab : u = call[c].tab => TabOK(u)'
    PROVE  SignOutInv'
<1>1. /\ tab \in [Tab -> DocRecord] /\ call \in [Call -> CallRecord]
      /\ row \subseteq Session /\ cookie \in Session \cup {None}
    BY DEF SignOutInv, SignOutTypeOK
<1>2. row' = row /\ maker' = maker /\ SignOutTypeOK'
    BY <1>1 DEF SignOutInv, SignOutTypeOK, Ends
<1>3. /\ None \notin Session /\ Keep \notin Session /\ None # Keep
      /\ \A u \in Tab : u # None
    BY SentinelAssumption
<1>4. ASSUME NEW d \in Call
      PROVE  /\ CallOK(call[d])'
             /\ call'[d].set = IF d = c THEN Keep ELSE call[d].set
             /\ call'[d].cookie \in {call[d].cookie, None}
             /\ call'[d].kind \in Check \cup {"logout"} /\ call'[d].tab # None
                  => d # c /\ call'[d] = call[d]
    BY EndFacts
<1>5. ASSUME NEW u \in Tab PROVE TabOK(u)'
  <2>1. CASE u = call[c].tab
      BY <2>1
  <2>2. CASE u # call[c].tab
    <3>1. TabOK(u) /\ tab'[u] = tab[u] /\ tab[u] \in DocRecord
        BY <1>1, <2>2 DEF SignOutInv
    <3>2. \A d \in Call : Asks(d, u) => Asks(d, u)'
        BY <2>2 DEF Asks, Ends
    <3>3. cookie' \notin tab[u].over
        BY <3>1 DEF TabOK
    <3>4. \A d \in Call : Asks(d, u)' => Asks(d, u) /\ call'[d] = call[d]
        BY <1>3, <1>4 DEF Asks
    <3>5. \A d \in Call :
             /\ call'[d].set \notin tab[u].over
             /\ Asks(d, u)' /\ ~tab[u].leaving => call'[d].cookie \notin tab[u].over
      <4>1. Keep \notin tab[u].over
          BY <1>3, <3>1 DEF DocRecord
      <4> QED
          BY <1>4, <3>1, <3>4, <4>1 DEF TabOK
    <3>6. tab[u].status = "unknown" => tab[u].failed \/ \E d \in Call : Asks(d, u)'
        BY <3>1, <3>2 DEF TabOK
    <3> QED
        BY <1>2, <3>1, <3>3, <3>5, <3>6 DEF TabOK, Made
  <2> QED
      BY <2>1, <2>2
<1>6. Travelling'
  <2> SUFFICES ASSUME NEW d \in Call, call'[d].set \in Session
               PROVE  /\ cookie' # call'[d].set
                      /\ \A e \in Call : /\ call'[e].cookie # call'[d].set
                                         /\ e # d => call'[e].set # call'[d].set
      BY DEF Travelling
  <2>1. d # c /\ call'[d].set = call[d].set
      BY <1>3, <1>4
  <2>2. /\ cookie # call[d].set
        /\ \A e \in Call : /\ call[e].cookie # call[d].set
                           /\ e # d => call[e].set # call[d].set
      BY <2>1 DEF SignOutInv, Travelling
  <2> QED
      BY <1>3, <1>4, <2>1, <2>2
<1>7. LogoutCurrent'
  <2> SUFFICES ASSUME NEW d \in Call, call'[d].kind = "logout", call'[d].tab # None,
                      cookie' \in Session, maker[cookie'] = call'[d].tab
               PROVE  call'[d].cookie = cookie'
      BY <1>2 DEF LogoutCurrent
  <2>1. call'[d] = call[d] /\ d # c
      BY <1>4
  <2>2. CASE cookie' = cookie
      BY <2>1, <2>2 DEF SignOutInv, LogoutCurrent
  <2>3. CASE cookie' # cookie
    <3>1. CallOK(call[c]) /\ call[c].set \in Session /\ call[c].tab # None
        BY <2>3 DEF SignOutInv
    <3>2. call[c].kind = "login" /\ maker[cookie'] = call[c].tab
        BY <1>3, <2>3, <3>1 DEF CallOK
    <3> QED
        BY <2>3, <3>2
  <2> QED
      BY <2>2, <2>3
<1>8. LiveIsHeld'
  <2> SUFFICES ASSUME NEW s \in row
               PROVE  s \in excused' \cup {cookie'} \/ \E d \in Call : call'[d].set = s
      BY <1>2 DEF LiveIsHeld
  <2>1. s \in excused \cup {cookie} \/ \E d \in Call : call[d].set = s
      BY DEF SignOutInv, LiveIsHeld
  <2>2. ASSUME NEW d \in Call, call[d].set = s, d # c PROVE call'[d].set = s
      BY <1>4, <2>2
  <2> QED
      BY <2>1, <2>2
<1>9. Made(cookie)' /\ (\A s \in row : Made(s))'
    BY <1>2 DEF SignOutInv, CallOK, Made
<1> QED
    BY <1>2, <1>4, <1>5, <1>6, <1>7, <1>8, <1>9 DEF SignOutInv

\* What every answer, delivered or lost, leaves true of the document that waited for
\* it: no session it was told is over is in the cookie or under way to it.
LEMMA StillOver ==
    ASSUME SignOutInv, NEW c \in Call, NEW t \in Tab, Ends(c), UNCHANGED <<row, maker>>,
           row \cap excused \subseteq excused', cookie' \in {cookie, call[c].set}
    PROVE  /\ cookie' \notin tab[t].over
           /\ \A d \in Call :
                /\ call'[d].set \notin tab[t].over
                /\ Asks(d, t)' => Asks(d, t) /\ d # c /\ call'[d] = call[d]
                /\ Asks(d, t)' /\ ~tab[t].leaving => call'[d].cookie \notin tab[t].over
<1>1. TabOK(t) /\ t # None /\ tab[t] \in DocRecord
    BY SentinelAssumption DEF SignOutInv, SignOutTypeOK
<1>2. Keep \notin tab[t].over
    BY <1>1, SentinelAssumption DEF DocRecord
<1>3. ASSUME NEW d \in Call
      PROVE  /\ call'[d].set \in {call[d].set, Keep}
             /\ Asks(d, t)' => Asks(d, t) /\ d # c /\ call'[d] = call[d]
    BY <1>1, EndFacts DEF Asks
<1> QED
    BY <1>1, <1>2, <1>3 DEF TabOK

\* The document of tab t after the answer a.
Told(t, a, D) ==
    \/ /\ a.kind \in Check /\ D.over = tab[t].over /\ D.leaving = tab[t].leaving
       /\ D.seen = a.cookie /\ D.failed = a.fault
       /\ D.status = IF a.status = 200 THEN "authenticated" ELSE "anonymous"
    \/ /\ a.kind = "logout" /\ a.status = 200
       /\ D.over = tab[t].over \cup ({a.cookie} \cap Session)
       /\ D.seen = None /\ D.status = "anonymous" /\ D.leaving
    \/ /\ a.kind = "logout" /\ a.status # 200
       /\ D.over = tab[t].over /\ D.leaving = tab[t].leaving
       /\ D.seen = None /\ D.status = "anonymous" /\ D.failed
    \/ /\ a.kind = "login" /\ D.over = tab[t].over /\ ~D.leaving
       /\ D.seen = None /\ D.status = "closed"

\* A document that takes an answer agrees with it.
LEMMA ToldFacts ==
    ASSUME SignOutInv, NEW c \in Call, NEW t \in Tab, NEW D,
           call[c].tab = t, call[c].step = "answered", UNCHANGED <<row, maker>>,
           D \in DocRecord, tab'[t] = D, Told(t, call[c], D),
           Ends(c), row \cap excused \subseteq excused',
           call[c].kind = "login" => \A d \in Call : call'[d].tab # t,
           cookie' = IF call[c].set = Keep THEN cookie ELSE call[c].set
    PROVE  TabOK(t)'
<1>1. /\ CallOK(call[c]) /\ call[c] \in CallRecord /\ TabOK(t)
      /\ tab[t] \in DocRecord /\ Made(cookie) /\ row \subseteq Session
    BY DEF SignOutInv, SignOutTypeOK
<1>2. None \notin Session /\ Keep \notin Session /\ None # Keep /\ t # None
    BY SentinelAssumption
<1>3. /\ cookie' \notin tab[t].over
      /\ \A d \in Call :
           /\ call'[d].set \notin tab[t].over
           /\ Asks(d, t)' /\ ~tab[t].leaving => call'[d].cookie \notin tab[t].over
    BY StillOver
<1>4. row' = row /\ \A s : Made(s) => Made(s)'
    BY DEF Made
<1>5. CASE call[c].kind \in Check
  <2>1. /\ D.over = tab[t].over /\ D.seen = call[c].cookie /\ D.failed = call[c].fault
        /\ D.status = (IF call[c].status = 200 THEN "authenticated" ELSE "anonymous")
        /\ D.leaving = tab[t].leaving
      BY <1>5 DEF Told, Check
  <2>2. Made(D.seen)' /\ \A s \in D.over : Made(s)'
      BY <1>1, <1>4, <2>1 DEF TabOK, CallOK
  <2>3. D.status = "authenticated" /\ ~D.leaving => D.seen \notin D.over
    <3>1. Asks(c, t)
        BY <1>5 DEF Asks
    <3> QED
        BY <1>1, <2>1, <3>1 DEF TabOK
  <2>4. D.status = "anonymous" /\ ~D.failed => D.seen \notin row
      BY <1>1, <1>5, <2>1 DEF CallOK
  <2>5. D.status # "unknown"
      BY <2>1
  <2> QED
      BY <1>3, <1>4, <2>1, <2>2, <2>3, <2>4, <2>5 DEF TabOK
<1>6. CASE call[c].kind = "logout" /\ call[c].status = 200
  <2>1. /\ D.over = tab[t].over \cup ({call[c].cookie} \cap Session)
        /\ D.seen = None /\ D.status = "anonymous" /\ D.leaving
      BY <1>6 DEF Told, Check
  <2>2. cookie' = None /\ cookie' \notin D.over
      BY <1>1, <1>2, <1>6, <2>1 DEF CallOK, DocRecord
  <2>3. Made(D.seen)' /\ \A s \in D.over : Made(s)'
      BY <1>1, <1>2, <1>4, <2>1 DEF TabOK, CallOK, Made
  <2>4. ASSUME NEW d \in Call PROVE call'[d].set \notin D.over
    <3>1. call[d].set \in Session => call[c].cookie # call[d].set
        BY DEF SignOutInv, Travelling
    <3>2. call'[d].set \in {call[d].set, Keep}
        BY EndFacts
    <3> QED
        BY <1>2, <1>3, <2>1, <3>1, <3>2
  <2>5. D.seen \notin row
      BY <1>1, <1>2, <2>1
  <2> QED
      BY <1>4, <2>1, <2>2, <2>3, <2>4, <2>5 DEF TabOK
<1>7. CASE call[c].kind = "logout" /\ call[c].status # 200
  <2>1. /\ D.over = tab[t].over /\ D.seen = None /\ D.leaving = tab[t].leaving
        /\ D.status = "anonymous" /\ D.failed
      BY <1>7 DEF Told, Check
  <2>2. Made(D.seen)' /\ \A s \in D.over : Made(s)'
      BY <1>1, <1>2, <1>4, <2>1 DEF TabOK, Made
  <2> QED
      BY <1>3, <2>1, <2>2 DEF TabOK
<1>8. CASE call[c].kind = "login"
  <2>1. D.over = tab[t].over /\ D.seen = None /\ D.status = "closed"
      BY <1>8 DEF Told, Check
  <2>2. Made(D.seen)' /\ \A s \in D.over : Made(s)'
      BY <1>1, <1>2, <1>4, <2>1 DEF TabOK, Made
  <2>3. \A d \in Call : ~Asks(d, t)'
      BY <1>8 DEF Asks
  <2> QED
      BY <1>3, <2>1, <2>2, <2>3 DEF TabOK
<1>9. call[c].kind \in {"load", "guard", "logout", "login"}
    BY <1>1, <1>2 DEF CallOK, CallRecord
<1> QED
    BY <1>5, <1>6, <1>7, <1>8, <1>9 DEF Check

\* What is left of the requests when an answer ends request c.
LEMMA DeliverEnds ==
    ASSUME SignOutInv, NEW c \in Call, Deliver(c)
    PROVE  /\ Ends(c)
           /\ call[c].kind = "login" => \A d \in Call : call'[d].tab # call[c].tab
<1>1. PICK t : t = call[c].tab
    OBVIOUS
<1>2. /\ call[c] \in CallRecord /\ CallOK(call[c]) /\ call \in [Call -> CallRecord]
    BY DEF SignOutInv, SignOutTypeOK
<1>3. t \in Tab /\ t # None /\ row' = row /\ maker' = maker
    BY <1>1, <1>2 DEF Deliver, CallRecord
<1>4. PICK q : q = Request("login", t)
    OBVIOUS
<1>5. /\ q \in CallRecord /\ CallOK(q) /\ q.kind = "login" /\ q.cookie = None
      /\ q.set = Keep
    BY <1>3, <1>4, RequestFacts
<1>6. PICK n : n = NoCall
    OBVIOUS
<1>7. /\ n \in CallRecord /\ CallOK(n) /\ n.kind = "none" /\ n.cookie = None
      /\ n.set = Keep /\ n.tab = None
    BY <1>6, NoCallFacts
<1> DEFINE P(f, b) ==
         /\ call' = [f EXCEPT ![c] = b] /\ b \in {n, q} /\ f \in [Call -> CallRecord]
         /\ \A d \in Call : Rest(f[d], call[d]) /\ (call[d].tab # t => f[d] = call[d])
         /\ call[c].kind = "login" => b = n /\ \A d \in Call : f[d].tab # t
<1>8. PICK f, b : P(f, b)
  <2>1. PICK g : g = Assigned(t)
      OBVIOUS
  <2>2. /\ g \in [Call -> CallRecord]
        /\ \A d \in Call : Rest(g[d], call[d]) /\ (call[d].tab # t => g[d] = call[d])
      BY <1>3, <2>1, LeftFacts
  <2>3. PICK h : h = Left(t)
      OBVIOUS
  <2>4. /\ h \in [Call -> CallRecord]
        /\ \A d \in Call : /\ Rest(h[d], call[d]) /\ (call[d].tab # t => h[d] = call[d])
                           /\ h[d].tab # t
      BY <1>3, <2>3, LeftFacts
  <2>5. CASE call[c].kind = "guard" /\ call[c].status # 200
    <3>1. call' = [g EXCEPT ![c] = q]
        BY <1>1, <1>4, <2>1, <2>5 DEF Deliver
    <3>2. P(g, q)
        BY <2>2, <2>5, <3>1
    <3> HIDE DEF P
    <3> QED
        BY <3>2
  <2>6. CASE call[c].kind = "logout" /\ call[c].status = 200
    <3>1. call' = [g EXCEPT ![c] = n]
        BY <1>1, <1>6, <2>1, <2>6 DEF Deliver
    <3>2. P(g, n)
        BY <2>2, <2>6, <3>1
    <3> HIDE DEF P
    <3> QED
        BY <3>2
  <2>7. CASE call[c].kind = "login"
    <3>1. call' = [h EXCEPT ![c] = n]
        BY <1>1, <1>6, <2>3, <2>7 DEF Deliver
    <3>2. P(h, n)
        BY <2>4, <2>7, <3>1
    <3> HIDE DEF P
    <3> QED
        BY <3>2
  <2>8. CASE /\ ~(call[c].kind = "guard" /\ call[c].status # 200)
             /\ ~(call[c].kind = "logout" /\ call[c].status = 200)
             /\ call[c].kind # "login"
    <3>1. call' = [call EXCEPT ![c] = n]
        BY <1>6, <2>8 DEF Deliver
    <3>2. P(call, n)
        BY <1>2, <2>8, <3>1 DEF Rest
    <3> HIDE DEF P
    <3> QED
        BY <3>2
  <2> HIDE DEF P
  <2> QED
      BY <2>5, <2>6, <2>7, <2>8
<1>9. b \in CallRecord /\ call'[c] = b /\ \A d \in Call \ {c} : call'[d] = f[d]
    BY <1>5, <1>7, <1>8
<1>10. Spent(c)'
  <2>1. /\ CallOK(b) /\ b.set = Keep /\ b.cookie = None /\ b.kind \in {"none", "login"}
      BY <1>5, <1>7, <1>8
  <2>2. CallOK(b)'
      BY <1>3, <2>1, SentinelAssumption DEF CallOK, Made, Check
  <2> QED
      BY <1>9, <2>1, <2>2 DEF Spent, CallOK, Made
<1>11. call' \in [Call -> CallRecord]
    BY <1>8, <1>9
<1> QED
    BY <1>1, <1>3, <1>7, <1>8, <1>9, <1>10, <1>11 DEF Ends

\* What the document makes of an answer.
LEMMA DeliverTells ==
    ASSUME SignOutInv, NEW c \in Call, Deliver(c)
    PROVE  \E D \in DocRecord : /\ tab' = [tab EXCEPT ![call[c].tab] = D]
                                /\ Told(call[c].tab, call[c], D)
<1>1. PICK a, t : a = call[c] /\ t = a.tab
    OBVIOUS
<1>2. /\ a \in CallRecord /\ CallOK(a) /\ tab \in [Tab -> DocRecord]
    BY <1>1 DEF SignOutInv, SignOutTypeOK
<1>3. /\ t \in Tab /\ t # None /\ tab[t] \in DocRecord
      /\ a.kind \in {"load", "guard", "logout", "login"}
    BY <1>1, <1>2 DEF Deliver, CallOK, CallRecord
<1>4. PICK o, l, y, x : /\ o = tab[t].over /\ l = tab[t].leaving /\ y = TRUE /\ x = FALSE
    OBVIOUS
<1>5. o \in SUBSET Session /\ l \in BOOLEAN
    BY <1>3, <1>4 DEF DocRecord
<1>6. CASE a.kind \in Check
  <2>1. PICK st : st = IF a.status = 200 THEN "authenticated" ELSE "anonymous"
      OBVIOUS
  <2>2. PICK D : D = Document(IF a.status = 200 THEN "authenticated" ELSE "anonymous",
                              a.cookie, a.fault, tab[t].over, tab[t].leaving)
      OBVIOUS
  <2>3. tab' = [tab EXCEPT ![t] = D]
      BY <1>1, <1>6, <2>2 DEF Deliver, Check
  <2>4. D = [status |-> st, seen |-> a.cookie, failed |-> a.fault, over |-> o,
             leaving |-> l]
      BY <1>4, <2>1, <2>2 DEF Document
  <2>5. D \in DocRecord
      BY <1>2, <1>5, <2>1, <2>4 DEF DocRecord, CallRecord
  <2>6. Told(t, a, D)
      BY <1>4, <1>6, <2>1, <2>4 DEF Told
  <2> QED
      BY <1>1, <2>3, <2>5, <2>6
<1>7. CASE a.kind = "logout" /\ a.status = 200
  <2>1. PICK m : m = o \cup ({a.cookie} \cap Session)
      OBVIOUS
  <2>2. PICK D : D = Document("anonymous", None, x, m, y)
      OBVIOUS
  <2>3. tab' = [tab EXCEPT ![t] = D]
      BY <1>1, <1>4, <1>7, <2>1, <2>2 DEF Deliver, Check
  <2>4. D = [status |-> "anonymous", seen |-> None, failed |-> x, over |-> m,
             leaving |-> y]
      BY <2>2 DEF Document
  <2>5. D \in DocRecord
      BY <1>4, <1>5, <2>1, <2>4 DEF DocRecord
  <2>6. Told(t, a, D)
      BY <1>4, <1>7, <2>1, <2>4 DEF Told
  <2> QED
      BY <1>1, <2>3, <2>5, <2>6
<1>8. CASE a.kind = "logout" /\ a.status # 200
  <2>2. PICK D : D = Document("anonymous", None, y, o, l)
      OBVIOUS
  <2>3. tab' = [tab EXCEPT ![t] = D]
      BY <1>1, <1>4, <1>8, <2>2 DEF Deliver, Check
  <2>4. D = [status |-> "anonymous", seen |-> None, failed |-> y, over |-> o,
             leaving |-> l]
      BY <2>2 DEF Document
  <2>5. D \in DocRecord
      BY <1>4, <1>5, <2>4 DEF DocRecord
  <2>6. Told(t, a, D)
      BY <1>4, <1>8, <2>4 DEF Told
  <2> QED
      BY <1>1, <2>3, <2>5, <2>6
<1>9. CASE a.kind = "login"
  <2>1. PICK D \in DocRecord : /\ D = Closed(tab[t].over)
                               /\ D.over = tab[t].over /\ D.status = "closed"
                               /\ D.seen = None /\ ~D.leaving
      BY <1>3, BlankFacts
  <2>2. tab' = [tab EXCEPT ![t] = D]
      BY <1>1, <1>9, <2>1 DEF Deliver, Check
  <2>3. Told(t, a, D)
      BY <1>9, <2>1 DEF Told
  <2> QED
      BY <1>1, <2>2, <2>3
<1> QED
    BY <1>3, <1>6, <1>7, <1>8, <1>9 DEF Check

\* An answer reaches the cookie and the document that waits for it.
LEMMA DeliverStep ==
    ASSUME SignOutInv, NEW c \in Call, Deliver(c)
    PROVE  SignOutInv'
<1>1. PICK t : t = call[c].tab
    OBVIOUS
<1>2. /\ call[c] \in CallRecord /\ CallOK(call[c]) /\ tab \in [Tab -> DocRecord]
      /\ call \in [Call -> CallRecord] /\ row \subseteq Session
      /\ excused \subseteq Session /\ cookie \in Session \cup {None}
    BY DEF SignOutInv, SignOutTypeOK
<1>3. None \notin Session /\ Keep \notin Session /\ None # Keep
    BY SentinelAssumption
<1>4. /\ call[c].step = "answered" /\ t \in Tab /\ t # None
      /\ UNCHANGED <<row, maker>> /\ row' = row /\ maker' = maker
    BY <1>1, <1>2 DEF Deliver, CallRecord
<1>5. /\ cookie' = IF call[c].set = Keep THEN cookie ELSE call[c].set
      /\ excused' = excused \cup
           {s \in {cookie} \cap row :
              \/ call[c].set \in Session
              \/ call[c].set = None /\ call[c].cookie # s /\ maker[s] # t}
    BY <1>1 DEF Deliver, SetCookie
<1>6. PICK D \in DocRecord : tab' = [tab EXCEPT ![t] = D] /\ Told(t, call[c], D)
    BY <1>1, DeliverTells
<1>7. /\ tab'[t] = D /\ tab' \in [Tab -> DocRecord]
      /\ \A u \in Tab : u # t => tab'[u] = tab[u]
    BY <1>2, <1>4, <1>6
<1>8. Ends(c) /\ (call[c].kind = "login" => \A d \in Call : call'[d].tab # t)
    BY <1>1, DeliverEnds
<1>9. /\ cookie' \in Session \cup {None}
      /\ cookie' # cookie => cookie' = call[c].set /\ call[c].tab # None
      /\ excused \subseteq excused' /\ excused' \subseteq Session
    BY <1>1, <1>2, <1>4, <1>5 DEF CallRecord
<1>10. row \cap excused \subseteq excused'
    BY <1>9
<1>11. TabOK(t)'
    BY <1>1, <1>4, <1>5, <1>6, <1>7, <1>8, <1>10, ToldFacts
<1>12. \A s \in row \cap {cookie, call[c].set} : s \in excused' \cup {cookie'}
  <2> SUFFICES ASSUME NEW s \in row, s \in {cookie, call[c].set},
                      s # cookie', s \notin excused'
               PROVE  FALSE
      OBVIOUS
  <2>1. s \in Session
      BY <1>2
  <2>2. s = cookie /\ call[c].set = None
      BY <1>2, <1>3, <1>5, <2>1 DEF CallRecord
  <2>3. call[c].kind = "logout" /\ call[c].cookie \notin row \ excused
      BY <1>2, <1>3, <2>2 DEF CallOK
  <2>4. s \notin excused /\ (call[c].cookie # s => maker[s] = t)
      BY <1>5, <2>1, <2>2
  <2>5. call[c].cookie = s
      BY <1>1, <1>4, <2>1, <2>2, <2>3, <2>4 DEF SignOutInv, LogoutCurrent
  <2> QED
      BY <2>3, <2>4, <2>5
<1>13. /\ \A u \in Tab : u # call[c].tab => tab'[u] = tab[u]
       /\ \A u \in Tab : u = call[c].tab => TabOK(u)'
       /\ cookie' # cookie /\ call[c].kind = "login"
            => \A d \in Call : call'[d].tab # call[c].tab
    BY <1>1, <1>7, <1>8, <1>11
<1> QED
    BY <1>4, <1>7, <1>8, <1>9, <1>12, <1>13, EndStep

\* What a document makes of a request that is lost.
Failed(t, kind, D) ==
    /\ D.over = tab[t].over /\ D.leaving = tab[t].leaving
    /\ \/ /\ kind \in Check /\ D.failed
          /\ D.status = tab[t].status /\ D.seen = tab[t].seen
       \/ /\ kind = "logout" /\ D.failed /\ D.status = "anonymous" /\ D.seen = None
       \/ /\ kind = "login" /\ D = tab[t]

\* A document that has to do without an answer is told that it failed, or waits on.
LEMMA LoseTells ==
    ASSUME SignOutInv, NEW c \in Call, Lose(c), call[c].tab # None
    PROVE  \E D \in DocRecord : /\ tab' = [tab EXCEPT ![call[c].tab] = D]
                                /\ Failed(call[c].tab, call[c].kind, D)
<1>1. PICK a, t : a = call[c] /\ t = a.tab
    OBVIOUS
<1>2. /\ a \in CallRecord /\ CallOK(a) /\ tab \in [Tab -> DocRecord]
    BY <1>1 DEF SignOutInv, SignOutTypeOK
<1>3. /\ t \in Tab /\ t # None /\ tab[t] \in DocRecord
      /\ a.kind \in {"load", "guard", "logout", "login"}
    BY <1>1, <1>2 DEF CallOK, CallRecord
<1>4. PICK d \in DocRecord : d = tab[t]
    BY <1>3
<1>5. PICK y : y = TRUE
    OBVIOUS
<1>6. CASE a.kind \in Check
  <2>1. PICK D : D = [tab[t] EXCEPT !.failed = TRUE]
      OBVIOUS
  <2>2. tab' = [tab EXCEPT ![t] = D]
      BY <1>1, <1>3, <1>6, <2>1 DEF Lose, Check
  <2>3. /\ D \in DocRecord /\ D.over = d.over /\ D.leaving = d.leaving /\ D.failed
        /\ D.status = d.status /\ D.seen = d.seen
      BY <1>4, <2>1 DEF DocRecord
  <2>4. Failed(t, a.kind, D)
      BY <1>4, <1>6, <2>3 DEF Failed
  <2> QED
      BY <1>1, <2>2, <2>3, <2>4
<1>7. CASE a.kind = "logout"
  <2>1. PICK o, l : o = d.over /\ l = d.leaving
      OBVIOUS
  <2>2. PICK D : D = Document("anonymous", None, y, o, l)
      OBVIOUS
  <2>3. tab' = [tab EXCEPT ![t] = D]
      BY <1>1, <1>3, <1>4, <1>5, <1>7, <2>1, <2>2 DEF Lose, Check
  <2>4. D = [status |-> "anonymous", seen |-> None, failed |-> y, over |-> o,
             leaving |-> l]
      BY <2>2 DEF Document
  <2>5. D \in DocRecord
      BY <1>5, <2>1, <2>4 DEF DocRecord
  <2>6. Failed(t, a.kind, D)
      BY <1>4, <1>5, <1>7, <2>1, <2>4 DEF Failed
  <2> QED
      BY <1>1, <2>3, <2>5, <2>6
<1>8. CASE a.kind = "login"
  <2>1. tab' = [tab EXCEPT ![t] = d]
      BY <1>1, <1>3, <1>4, <1>8 DEF Lose, Check
  <2>2. Failed(t, a.kind, d)
      BY <1>4, <1>8 DEF Failed
  <2> QED
      BY <1>1, <2>1, <2>2
<1> QED
    BY <1>3, <1>6, <1>7, <1>8 DEF Check

\* A lost answer leaves the cookie, and tells its document that it failed.
LEMMA LoseStep ==
    ASSUME SignOutInv, NEW c \in Call, Lose(c)
    PROVE  SignOutInv'
<1>1. /\ call[c] \in CallRecord /\ CallOK(call[c]) /\ tab \in [Tab -> DocRecord]
      /\ call \in [Call -> CallRecord] /\ row \subseteq Session
      /\ excused \subseteq Session /\ cookie \in Session \cup {None}
    BY DEF SignOutInv, SignOutTypeOK
<1>2. /\ UNCHANGED <<row, maker>> /\ row' = row /\ maker' = maker /\ cookie' = cookie
      /\ call' = [call EXCEPT ![c] = NoCall]
      /\ excused' = excused \cup ({call[c].set} \cap row)
    BY DEF Lose
<1>3. PICK n : n = NoCall
    OBVIOUS
<1>4. /\ call' \in [Call -> CallRecord] /\ call'[c] = n
      /\ \A d \in Call \ {c} : call'[d] = call[d] /\ Rest(call'[d], call[d])
    BY <1>1, <1>2, <1>3, NoCallFacts DEF Rest
<1>5. Ends(c)
  <2>1. CallOK(n) /\ n.set = Keep /\ n.cookie = None /\ n.kind = "none"
      BY <1>3, NoCallFacts
  <2>2. CallOK(call[c])'
      BY <1>2, <1>4, <2>1 DEF CallOK, Made
  <2> QED
      BY <1>4, <2>1, <2>2 DEF Ends, Spent
<1>6. \A s \in row \cap {cookie, call[c].set} : s \in excused' \cup {cookie'}
    BY <1>2
<1>7. /\ excused \subseteq excused' /\ excused' \subseteq Session
      /\ row \cap excused \subseteq excused'
    BY <1>1, <1>2
<1>8. CASE call[c].tab = None
  <2>1. tab' = tab /\ \A u \in Tab : u # call[c].tab
      BY <1>8, SentinelAssumption DEF Lose
  <2> QED
      BY <1>1, <1>2, <1>5, <1>6, <1>7, <2>1, EndStep
<1>9. CASE call[c].tab # None
  <2>1. PICK t : t = call[c].tab
      OBVIOUS
  <2>2. t \in Tab /\ tab[t] \in DocRecord /\ TabOK(t) /\ t # None
      BY <1>1, <1>9, <2>1 DEF CallRecord, SignOutInv
  <2>3. PICK D \in DocRecord :
           tab' = [tab EXCEPT ![t] = D] /\ Failed(t, call[c].kind, D)
      BY <1>9, <2>1, LoseTells
  <2>4. /\ tab'[t] = D /\ tab' \in [Tab -> DocRecord]
        /\ \A u \in Tab : u # t => tab'[u] = tab[u]
      BY <1>1, <2>2, <2>3
  <2>5. /\ cookie' \notin tab[t].over
        /\ \A d \in Call :
             /\ call'[d].set \notin tab[t].over
             /\ Asks(d, t)' => Asks(d, t) /\ d # c /\ call'[d] = call[d]
             /\ Asks(d, t)' /\ ~tab[t].leaving => call'[d].cookie \notin tab[t].over
      BY <1>2, <1>5, <1>7, <2>2, StillOver
  <2>6. D.status = "unknown" => D.failed \/ \E d \in Call : Asks(d, t)'
    <3>1. SUFFICES ASSUME D.status = "unknown", ~D.failed
                   PROVE  \E d \in Call : Asks(d, t)'
        OBVIOUS
    <3>2. call[c].kind = "login" /\ D = tab[t]
        BY <2>3, <3>1 DEF Failed
    <3>3. PICK d \in Call : Asks(d, t)
        BY <2>2, <3>1, <3>2 DEF TabOK
    <3>4. d # c
        BY <3>2, <3>3 DEF Asks, Check
    <3> QED
        BY <1>4, <3>3, <3>4 DEF Asks
  <2>7. /\ D.over = tab[t].over /\ D.leaving = tab[t].leaving
        /\ Made(D.seen)' /\ \A s \in D.over : Made(s)'
        /\ D.status = "authenticated" /\ ~D.leaving => D.seen \notin D.over
        /\ D.status = "anonymous" /\ ~D.failed => D.seen \notin row
      BY <1>2, <2>2, <2>3, SentinelAssumption DEF Failed, TabOK, Made
  <2>8. TabOK(t)'
      BY <1>2, <2>4, <2>5, <2>6, <2>7 DEF TabOK
  <2>9. /\ \A u \in Tab : u # call[c].tab => tab'[u] = tab[u]
        /\ \A u \in Tab : u = call[c].tab => TabOK(u)'
      BY <2>1, <2>4, <2>8
  <2> QED
      BY <1>1, <1>2, <1>5, <1>6, <1>7, <2>4, <2>9, EndStep
<1> QED
    BY <1>8, <1>9

-----------------------------------------------------------------------------
(* The theorems.                                                            *)

\* The invariant holds at first and every step keeps it.
LEMMA SignOutInductive ==
    /\ Init => SignOutInv
    /\ SignOutInv /\ [Next]_vars => SignOutInv'
<1>1. ASSUME Init PROVE SignOutInv
  <2>1. PICK e \in SUBSET Session : e = {}
      OBVIOUS
  <2>2. PICK x \in BOOLEAN : x = FALSE
      OBVIOUS
  <2>3. PICK D : D = Closed(e)
      OBVIOUS
  <2>4. D = [status |-> "closed", seen |-> None, failed |-> x, over |-> e, leaving |-> x]
      BY <2>2, <2>3 DEF Closed, Document
  <2>5. /\ D \in DocRecord /\ D.over = {} /\ D.status = "closed" /\ D.seen = None
      BY <2>1, <2>2, <2>4 DEF DocRecord
  <2>6. /\ tab = [t \in Tab |-> D] /\ row = {} /\ cookie = None /\ excused = {}
        /\ call = [c \in Call |-> NoCall] /\ maker = [s \in Session |-> Keep]
      BY <1>1, <2>1, <2>3 DEF Init
  <2>7. SignOutTypeOK
      BY <2>5, <2>6, NoCallFacts DEF SignOutTypeOK
  <2>8. \A t \in Tab : TabOK(t)
      BY <2>5, <2>6, NoCallFacts, SentinelAssumption DEF TabOK, Made
  <2>9. Travelling /\ LogoutCurrent /\ LiveIsHeld
      BY <2>6, NoCallFacts, SentinelAssumption DEF Travelling, LogoutCurrent, LiveIsHeld
  <2>10. Made(cookie) /\ \A s \in row : Made(s)
      BY <2>6, SentinelAssumption DEF Made
  <2>11. \A c \in Call : CallOK(call[c])
      BY <2>6, NoCallFacts
  <2> QED
      BY <2>7, <2>8, <2>9, <2>10, <2>11 DEF SignOutInv
<1>2. ASSUME SignOutInv, UNCHANGED vars PROVE SignOutInv'
  <2>1. /\ row' = row /\ cookie' = cookie /\ tab' = tab /\ call' = call
        /\ maker' = maker /\ excused' = excused
      BY <1>2 DEF vars
  <2>2. SignOutTypeOK' /\ Made(cookie)' /\ (\A s \in row : Made(s))'
      BY <1>2, <2>1 DEF SignOutInv, SignOutTypeOK, Made
  <2>3. (\A c \in Call : CallOK(call[c]))'
      BY <1>2, <2>1 DEF SignOutInv, CallOK, Made
  <2>4. (\A t \in Tab : TabOK(t))'
      BY <1>2, <2>1 DEF SignOutInv, TabOK, Made, Asks
  <2>5. Travelling' /\ LogoutCurrent' /\ LiveIsHeld'
      BY <1>2, <2>1 DEF SignOutInv, Travelling, LogoutCurrent, LiveIsHeld
  <2> QED
      BY <2>2, <2>3, <2>4, <2>5 DEF SignOutInv
<1>3. ASSUME SignOutInv, Next PROVE SignOutInv'
    BY <1>3, OpenStep, GuardStep, ClickLoginStep, ClickLogoutStep, UnloadStep, MeStep,
       LogoutStep, LoginStep, DeliverStep, LoseStep, ExpireStep DEF Next
<1> QED
    BY <1>1, <1>2, <1>3

\* From every reachable state on, what browser, requests and rows say agrees
\* (auth.ts's store, Handlers.Logout and CompleteLogin, Guard).
THEOREM SignOutSound == Spec => []SignOutInv
    BY SignOutInductive, PTL DEF Spec

\* A session in the database is within reach of the browser, but for the failures and
\* overtakings that the property lists (Destroy clears the row and the cookie).
THEOREM LiveSessionsAreHeld == Spec => []LiveIsHeld
<1>1. SignOutInv => LiveIsHeld
    BY DEF SignOutInv
<1> QED
    BY <1>1, SignOutSound, PTL

\* A document's status has a reason, though its layout and its page check side by side:
\* unknown only while asking or after a failure, anonymous over a live session only after
\* a failure or for another cookie (auth.svelte.ts 22-36, guard.ts 10-12).
THEOREM StatusHasReason == Spec => []StatusExplained
<1>1. ASSUME SignOutInv PROVE StatusExplained
  <2>1. \A t \in Tab : TabOK(t)
      BY <1>1 DEF SignOutInv
  <2> QED
      BY <2>1 DEF TabOK, StatusExplained, Asks
<1> QED
    BY <1>1, SignOutSound, PTL

\* No later document of a tab shows a session as signed in that the tab was told is over,
\* whatever answers are late: only the one that logged out can, until it goes
\* (handlers.go 127-129, auth.svelte.ts 24 and 60).
THEOREM OverIsOver == Spec => []SignedOutAfresh
<1>1. ASSUME SignOutInv PROVE SignedOutAfresh
  <2>1. \A t \in Tab : TabOK(t)
      BY <1>1 DEF SignOutInv
  <2> QED
      BY <2>1 DEF TabOK, SignedOutAfresh
<1> QED
    BY <1>1, SignOutSound, PTL

\* Every variable stays in its type.
THEOREM SignOutTypeCorrect == Spec => []SignOutTypeOK
<1>1. SignOutInv => SignOutTypeOK
    BY DEF SignOutInv
<1> QED
    BY <1>1, SignOutSound, PTL
=============================================================================
