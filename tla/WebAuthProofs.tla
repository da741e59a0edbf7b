---------------------------- MODULE WebAuthProofs ----------------------------
(* Theorems about module WebAuth, for any number of tabs, requests, tokens  *)
(* and changes of secret.                                                   *)
EXTENDS WebAuth, TLAPS

\* A logout whose header was read while nothing was afoot, and not yet sent.
Pending(c) == /\ call[c].kind = "logout" /\ call[c].quiet
              /\ call[c].step = "built"

\* What each request has in hand, and what it says of the cookie.
CallSound ==
    \A c \in Call :
       /\ call[c].kind # "none" => call[c].tab \in Tab
       /\ call[c].kind = "logout" =>
            /\ jar # None
            /\ call[c].step # "answered" => call[c].header # None
            /\ call[c].step = "sent" => call[c].cookie # None
       /\ call[c].cookie # None => jar # None
       /\ call[c].step = "answered" /\ call[c].set = Keep => jar # None
       /\ call[c].kind = "logout" /\ call[c].quiet =>
            /\ call[c].step = "sent" =>
                  call[c].header = call[c].cookie /\ Valid(call[c].cookie)
            /\ call[c].step = "answered" => call[c].status = 200

\* While a quiet logout waits to be sent, the cookie is the token it has read and
\* stays so.
Calm == \A c \in Call : Pending(c) => /\ call[c].header = jar /\ Valid(jar)
                                      /\ \A d \in Call : Settled(d)

PageSound ==
    \A t \in Tab : page[t] = "authenticated" => jar # None

WebInv == TypeOK /\ CallSound /\ Calm /\ PageSound

-----------------------------------------------------------------------------

\* The shapes of a request.
LEMMA Calls ==
    /\ \A r \in CallState :
          /\ r.kind \in {"none", "load", "guard", "logout", "login"}
          /\ r.step \in {"built", "sent", "answered"} /\ r.tab \in Tab \cup {None}
          /\ r.header \in Token \cup {None} /\ r.cookie \in Token \cup {None}
          /\ r.status \in {0, 200, 401, 403} /\ r.set \in Token \cup {Keep}
          /\ r.quiet \in BOOLEAN
    /\ \A kind \in {"none", "load", "guard", "logout", "login"},
          t \in Tab \cup {None}, h \in Token \cup {None}, q \in BOOLEAN :
          LET r == Fetch(kind, t, h, q)
          IN  /\ r \in CallState /\ r.kind = kind /\ r.step = "built" /\ r.tab = t
              /\ r.header = h /\ r.cookie = None /\ r.set = Keep /\ r.quiet = q
    /\ NoCall \in CallState /\ NoCall.kind = "none" /\ NoCall.step = "built"
    /\ NoCall.cookie = None
<1>1. \A r \in CallState :
          /\ r.kind \in {"none", "load", "guard", "logout", "login"}
          /\ r.step \in {"built", "sent", "answered"} /\ r.tab \in Tab \cup {None}
          /\ r.header \in Token \cup {None} /\ r.cookie \in Token \cup {None}
          /\ r.status \in {0, 200, 401, 403} /\ r.set \in Token \cup {Keep}
          /\ r.quiet \in BOOLEAN
    BY DEF CallState
<1>2. \A kind \in {"none", "load", "guard", "logout", "login"},
         t \in Tab \cup {None}, h \in Token \cup {None}, q \in BOOLEAN :
          LET r == Fetch(kind, t, h, q)
          IN  /\ r \in CallState /\ r.kind = kind /\ r.step = "built" /\ r.tab = t
              /\ r.header = h /\ r.cookie = None /\ r.set = Keep /\ r.quiet = q
    BY DEF CallState, Fetch
<1>3. /\ NoCall \in CallState /\ NoCall.kind = "none" /\ NoCall.step = "built"
      /\ NoCall.cookie = None
    BY DEF NoCall, Fetch, CallState
<1> QED
    BY <1>1, <1>2, <1>3

\* A free slot.
LEMMA Quiet == /\ NoCall \in CallState /\ NoCall.kind = "none"
               /\ NoCall.step = "built" /\ NoCall.cookie = None
    BY Calls

\* The sentinels are no tokens.
LEMMA Shapes ==
    /\ None \notin Token /\ None # Keep /\ Keep \notin Token /\ None \notin Tab
    BY SentinelAssumption

\* One request goes on, others are at most dropped, and only the answer that
\* brings a token changes the cookie.
LEMMA CallStep ==
    ASSUME WebInv, NEW c \in Call, NEW r \in CallState,
           call' \in [Call -> CallState], call'[c] = r, key' = key,
           \A d \in Call \ {c} : call'[d] = call[d] \/ call'[d] = NoCall,
           jar' \in Token \cup {None}, jar # None => jar' # None,
           jar' = jar \/ (call[c].step = "answered" /\ call[c].set # Keep),
           r.kind # "none" => r.tab \in Tab,
           r.kind = "logout" => /\ jar # None
                                /\ r.step # "answered" => r.header # None
                                /\ r.step = "sent" => r.cookie # None,
           r.cookie # None => jar # None,
           r.step = "answered" /\ r.set = Keep => jar # None,
           r.kind = "logout" /\ r.quiet =>
             /\ r.step = "sent" => r.header = r.cookie /\ Valid(r.cookie)
             /\ r.step = "answered" => r.status = 200,
           r.kind = "logout" /\ r.quiet /\ r.step = "built" =>
             jar' = jar /\ r.header = jar /\ Undisturbed,
           Valid(jar) /\ Settled(c) =>
             /\ r.step = "sent" => Valid(r.cookie)
             /\ r.step = "answered" => r.set = Keep
    PROVE  CallSound' /\ Calm'
<1>1. /\ NoCall.kind = "none" /\ NoCall.step = "built" /\ NoCall.cookie = None
      BY Calls
<1>2. \A tok : Valid(tok)' <=> Valid(tok)
    BY DEF Valid
<1>3. CallSound'
    BY <1>1 DEF WebInv, CallSound, Valid
<1>4. Calm'
  <2> SUFFICES ASSUME NEW d \in Call, Pending(d)'
               PROVE  /\ call'[d].header = jar' /\ Valid(jar)'
                      /\ \A e \in Call : Settled(e)'
      BY DEF Calm
  <2>1. /\ call'[d].header = jar /\ Valid(jar) /\ jar' = jar
        /\ \A e \in Call : Settled(e)
    <3>1. CASE d = c
      <4>1. Undisturbed /\ jar' = jar /\ r.header = jar
          BY <3>1 DEF Pending
      <4>2. \A e \in Call : Settled(e)
          BY <4>1 DEF Undisturbed
      <4> QED
          BY <3>1, <4>1, <4>2 DEF Undisturbed
    <3>2. CASE d # c
      <4>1. call'[d] = call[d] /\ Pending(d)
          BY <3>2, <1>1 DEF Pending
      <4>2. call[d].header = jar /\ Valid(jar) /\ \A e \in Call : Settled(e)
          BY <4>1 DEF WebInv, Calm
      <4> QED
          BY <4>1, <4>2 DEF Settled
    <3> QED
        BY <3>1, <3>2
  <2>2. \A e \in Call : Settled(e)'
    <3> SUFFICES ASSUME NEW e \in Call PROVE Settled(e)'
        OBVIOUS
    <3>1. CASE e = c
        BY <3>1, <2>1, <1>2 DEF Settled, Valid
    <3>2. CASE e # c
        BY <3>2, <2>1, <1>1 DEF Settled, Valid
    <3> QED
        BY <3>1, <3>2
  <2> QED
      BY <2>1, <2>2 DEF Valid
<1> QED
    BY <1>3, <1>4

\* One document changes, and shows it signed in only with a token in the jar.
LEMMA PageStep ==
    ASSUME WebInv, NEW t \in Tab, NEW p \in Page,
           page' = [page EXCEPT ![t] = p], jar # None => jar' # None,
           p = "authenticated" => jar' # None
    PROVE  page' \in [Tab -> Page] /\ PageSound'
<1>1. /\ page' \in [Tab -> Page] /\ page'[t] = p
      /\ \A u \in Tab \ {t} : page'[u] = page[u]
    BY DEF WebInv, TypeOK
<1>2. PageSound'
    BY <1>1 DEF WebInv, PageSound
<1> QED
    BY <1>1, <1>2

\* No document changes.
LEMMA PagesStay ==
    ASSUME WebInv, page' = page, jar' = jar
    PROVE  page' \in [Tab -> Page] /\ PageSound'
    BY DEF WebInv, TypeOK, PageSound

\* What happens to the requests of a document that goes, or changes its location.
LEMMA DroppedCalls ==
    ASSUME WebInv, NEW t \in Tab
    PROVE  /\ Dropped(t) \in [Call -> CallState] /\ Assigned(t) \in [Call -> CallState]
           /\ \A c \in Call : /\ Dropped(t)[c] \in {call[c], NoCall}
                              /\ Assigned(t)[c] \in {call[c], NoCall}
                              /\ call[c].tab = t => Dropped(t)[c] = NoCall
<1>1. NoCall \in CallState /\ call \in [Call -> CallState]
    BY Quiet DEF WebInv, TypeOK
<1> QED
    BY <1>1 DEF Dropped, Assigned

-----------------------------------------------------------------------------

\* The requests that bring no token.
LEMMA PlainFetch ==
    ASSUME NEW t \in Tab
    PROVE  \A kind \in {"load", "guard", "login"} :
             LET r == Fetch(kind, t, None, FALSE)
             IN  /\ r \in CallState /\ r.kind = kind /\ r.step = "built"
                 /\ r.tab = t /\ r.cookie = None /\ ~r.quiet
    BY DEF Fetch, CallState

\* A document makes one of them, as it comes, or goes, or goes on.
LEMMA FetchStep ==
    ASSUME WebInv, NEW c \in Call, NEW t \in Tab,
           NEW kind \in {"load", "guard", "login"},
           call' \in [Call -> CallState], call'[c] = Fetch(kind, t, None, FALSE),
           \A d \in Call \ {c} : call'[d] = call[d] \/ call'[d] = NoCall,
           UNCHANGED <<jar, key>>
    PROVE  CallSound' /\ Calm'
<1> DEFINE r == Fetch(kind, t, None, FALSE)
<1>1. /\ r \in CallState /\ r.kind = kind /\ r.step = "built" /\ r.tab = t
      /\ r.cookie = None /\ kind # "logout"
    BY PlainFetch
<1>2. call'[c] = r /\ jar' = jar /\ key' = key /\ jar' \in Token \cup {None}
    BY DEF WebInv, TypeOK
<1> HIDE DEF r
<1> QED
    BY <1>1, <1>2, CallStep

\* A public page opens and checks the session in passing.
LEMMA OpenPublicStep ==
    ASSUME WebInv, NEW t \in Tab, NEW c \in Call, OpenPublic(t, c)
    PROVE  WebInv'
<1>1. /\ UNCHANGED <<jar, key>> /\ Free(c)
      /\ page' = [page EXCEPT ![t] = "unknown"]
      /\ call' = [Dropped(t) EXCEPT ![c] = Fetch("load", t, None, FALSE)]
    BY DEF OpenPublic
<1>2. /\ Fetch("load", t, None, FALSE) \in CallState
      /\ Fetch("load", t, None, FALSE).kind = "load"
    BY PlainFetch
<1>3. /\ call' \in [Call -> CallState] /\ call'[c] = Fetch("load", t, None, FALSE)
      /\ \A d \in Call \ {c} : call'[d] = call[d] \/ call'[d] = NoCall
    BY <1>1, <1>2, DroppedCalls
<1>4. CallSound' /\ Calm'
    BY <1>1, <1>3, FetchStep
<1>5. page' \in [Tab -> Page] /\ PageSound'
    BY <1>1, PageStep DEF Page
<1> QED
    BY <1>1, <1>3, <1>4, <1>5 DEF WebInv, TypeOK

\* A protected page waits for its check.
LEMMA OpenProtectedStep ==
    ASSUME WebInv, NEW t \in Tab, NEW c \in Call, NEW d \in Call,
           OpenProtected(t, c, d)
    PROVE  WebInv'
<1> DEFINE mid == [Dropped(t) EXCEPT ![c] = Fetch("guard", t, None, FALSE)]
<1>1. /\ UNCHANGED <<jar, key>> /\ Free(c) /\ Free(d) /\ c # d
      /\ page' = [page EXCEPT ![t] = "unknown"]
      /\ call' = [Dropped(t) EXCEPT ![c] = Fetch("guard", t, None, FALSE),
                                    ![d] = Fetch("load", t, None, FALSE)]
    BY DEF OpenProtected
<1>2. /\ Fetch("load", t, None, FALSE) \in CallState
      /\ Fetch("load", t, None, FALSE).kind = "load"
      /\ Fetch("load", t, None, FALSE).tab = t
      /\ Fetch("load", t, None, FALSE).step = "built"
      /\ Fetch("load", t, None, FALSE).cookie = None
      /\ Fetch("guard", t, None, FALSE) \in CallState
      /\ Fetch("guard", t, None, FALSE).kind = "guard"
      /\ Fetch("guard", t, None, FALSE).tab = t
      /\ Fetch("guard", t, None, FALSE).step = "built"
      /\ Fetch("guard", t, None, FALSE).cookie = None
    BY PlainFetch
<1>3. /\ call' \in [Call -> CallState]
      /\ call'[c] = Fetch("guard", t, None, FALSE)
      /\ call'[d] = Fetch("load", t, None, FALSE)
      /\ \A e \in Call \ {c, d} : call'[e] = call[e] \/ call'[e] = NoCall
    BY <1>1, <1>2, DroppedCalls
<1>4. CallSound'
  <2>1. \A e \in Call : \/ call'[e] = call[e] /\ e \notin {c, d}
                        \/ call'[e] = NoCall
                        \/ /\ call'[e].kind # "logout" /\ call'[e].tab = t
                           /\ call'[e].step = "built" /\ call'[e].cookie = None
      BY <1>2, <1>3
  <2>2. CallSound /\ jar' = jar /\ key' = key
      BY <1>1 DEF WebInv
  <2> QED
      BY <2>1, <2>2, Quiet DEF CallSound, Valid
<1>5. Calm'
  <2> SUFFICES ASSUME NEW e \in Call, Pending(e)'
               PROVE  /\ call'[e].header = jar' /\ Valid(jar)'
                      /\ \A f \in Call : Settled(f)'
      BY DEF Calm
  <2>1. call'[e] = call[e] /\ Pending(e)
      BY <1>2, <1>3, Quiet DEF Pending
  <2>2. call[e].header = jar /\ Valid(jar) /\ \A f \in Call : Settled(f)
      BY <2>1 DEF WebInv, Calm
  <2>3. \A f \in Call : call'[f] = call[f] \/ call'[f].step = "built"
      BY <1>2, <1>3, Quiet
  <2> QED
      BY <1>1, <2>1, <2>2, <2>3 DEF Valid, Settled
<1>7. page' \in [Tab -> Page] /\ PageSound'
    BY <1>1, PageStep DEF Page
<1> QED
    BY <1>1, <1>3, <1>4, <1>5, <1>7 DEF WebInv, TypeOK

\* So does a navigation to one.
LEMMA GotoProtectedStep ==
    ASSUME WebInv, NEW t \in Tab, NEW c \in Call, GotoProtected(t, c)
    PROVE  WebInv'
<1>1. /\ UNCHANGED <<jar, page, key>> /\ Free(c)
      /\ call' = [call EXCEPT ![c] = Fetch("guard", t, None, FALSE)]
    BY DEF GotoProtected
<1>2. /\ Fetch("guard", t, None, FALSE) \in CallState
      /\ Fetch("guard", t, None, FALSE).kind = "guard"
      /\ Fetch("guard", t, None, FALSE).tab = t
    BY PlainFetch
<1>3. /\ call' \in [Call -> CallState]
      /\ call'[c] = Fetch("guard", t, None, FALSE)
      /\ \A d \in Call \ {c} : call'[d] = call[d]
    BY <1>1, <1>2 DEF WebInv, TypeOK
<1>4. CallSound' /\ Calm'
    BY <1>1, <1>3, FetchStep
<1>5. page' \in [Tab -> Page] /\ PageSound'
    BY <1>1, PagesStay
<1> QED
    BY <1>1, <1>3, <1>4, <1>5 DEF WebInv, TypeOK

\* Requests that are given up with their document bring nothing.
LEMMA UnloadStep ==
    ASSUME WebInv, NEW t \in Tab, Unload(t)
    PROVE  WebInv'
<1>1. /\ jar' = jar /\ key' = key /\ call' = Dropped(t)
      /\ page' = [page EXCEPT ![t] = "closed"]
    BY DEF Unload
<1>2. /\ call' \in [Call -> CallState]
      /\ \A d \in Call : call'[d] = call[d] \/ call'[d] = NoCall
    BY <1>1, DroppedCalls
<1>3. CallSound'
    BY <1>1, <1>2, Quiet DEF WebInv, CallSound, Valid
<1>4. Calm'
    BY <1>1, <1>2, Quiet DEF WebInv, Calm, Pending, Settled, Valid
<1>5. page' \in [Tab -> Page] /\ PageSound'
    BY <1>1, PageStep DEF Page
<1> QED
    BY <1>1, <1>2, <1>3, <1>4, <1>5 DEF WebInv, TypeOK

\* The slot is the login's.
LEMMA LeaveStep ==
    ASSUME WebInv, NEW t \in Tab, NEW c \in Call, GoToLogin(t, c)
    PROVE  /\ call' \in [Call -> CallState]
           /\ call'[c] = Fetch("login", t, None, FALSE)
           /\ \A d \in Call \ {c} : call'[d] = call[d] \/ call'[d] = NoCall
<1>1. Fetch("login", t, None, FALSE) \in CallState
    BY PlainFetch
<1> QED
    BY <1>1, DroppedCalls DEF GoToLogin

\* A button's request goes out with the token the jar holds, or first asks for one.
LEMMA ClickStep ==
    ASSUME WebInv, NEW t \in Tab, NEW c \in Call,
           ClickLogin(t, c) \/ ClickLogout(t, c)
    PROVE  WebInv'
<1>1. CASE ClickLogin(t, c)
  <2>1. UNCHANGED <<jar, key>> /\ page' = page /\ GoToLogin(t, c)
      BY <1>1 DEF ClickLogin
  <2>2. /\ call' \in [Call -> CallState]
        /\ call'[c] = Fetch("login", t, None, FALSE)
        /\ \A d \in Call \ {c} : call'[d] = call[d] \/ call'[d] = NoCall
      BY <2>1, LeaveStep
  <2>3. CallSound' /\ Calm'
      BY <2>1, <2>2, FetchStep
  <2>4. page' \in [Tab -> Page] /\ PageSound'
      BY <2>1, PagesStay
  <2> QED
      BY <2>1, <2>2, <2>3, <2>4 DEF WebInv, TypeOK
<1>2. CASE ClickLogout(t, c)
  <2>1. /\ UNCHANGED <<jar, page, key>> /\ Free(c)
        /\ page[t] = "authenticated"
        /\ call' = [call EXCEPT ![c] = Fetch("logout", t, jar, Undisturbed)]
      BY <1>2 DEF ClickLogout
  <2>2. jar # None /\ jar \in Token \cup {None}
      BY <2>1 DEF WebInv, PageSound, TypeOK
  <2>3. PICK q \in BOOLEAN :
           /\ q <=> Undisturbed
           /\ call' = [call EXCEPT ![c] = Fetch("logout", t, jar, q)]
    <3>1. CASE Undisturbed
      <4>1. Undisturbed = TRUE
          BY <3>1 DEF Undisturbed
      <4> QED
          BY <2>1, <3>1, <4>1
    <3>2. CASE ~Undisturbed
      <4>1. Undisturbed = FALSE
          BY <3>2 DEF Undisturbed
      <4> QED
          BY <2>1, <3>2, <4>1
    <3> QED
        BY <3>1, <3>2
  <2>4. Fetch("logout", t, jar, q) \in CallState
      BY <2>2, Calls
  <2>5. /\ call' \in [Call -> CallState] /\ call'[c] = Fetch("logout", t, jar, q)
        /\ \A d \in Call \ {c} : call'[d] = call[d]
      BY <2>3, <2>4 DEF WebInv, TypeOK
  <2>6. CallSound' /\ Calm'
    <3>1. PICK r \in CallState : /\ r.kind = "logout" /\ r.step = "built"
                                /\ r.tab = t /\ r.header = jar
                                /\ r.cookie = None /\ r.quiet = q
                                /\ call'[c] = r
        BY <2>2, <2>4, <2>5 DEF Fetch
    <3> QED
        BY <2>1, <2>2, <2>3, <2>5, <3>1, CallStep
  <2>7. page' \in [Tab -> Page] /\ PageSound'
      BY <2>1, PagesStay
  <2> QED
      BY <2>1, <2>5, <2>6, <2>7 DEF WebInv, TypeOK
<1> QED
    BY <1>1, <1>2

-----------------------------------------------------------------------------

\* A request takes the token that the jar holds when it leaves.
LEMMA AttachStep ==
    ASSUME WebInv, NEW c \in Call, Attach(c)
    PROVE  WebInv'
<1>1. /\ UNCHANGED <<jar, page, key>> /\ ~Free(c) /\ call[c].step = "built"
      /\ call' = [call EXCEPT ![c] = Leaving(@, jar)]
    BY DEF Attach
<1>2. call[c] \in CallState /\ jar \in Token \cup {None}
    BY DEF WebInv, TypeOK
<1>3. PICK r \in CallState :
         /\ r.kind = call[c].kind /\ r.step = "sent" /\ r.tab = call[c].tab
         /\ r.header = call[c].header /\ r.cookie = jar /\ r.quiet = call[c].quiet
         /\ call' = [call EXCEPT ![c] = r]
  <2>1. LET s == Leaving(call[c], jar)
        IN  /\ s \in CallState /\ s.kind = call[c].kind /\ s.step = "sent"
            /\ s.tab = call[c].tab /\ s.header = call[c].header
            /\ s.cookie = jar /\ s.quiet = call[c].quiet
      BY <1>2 DEF Leaving, CallState
  <2> QED
      BY <1>1, <2>1
<1>4. /\ call' \in [Call -> CallState] /\ call'[c] = r
      /\ \A d \in Call \ {c} : call'[d] = call[d]
    BY <1>3 DEF WebInv, TypeOK
<1>5. call[c].kind = "logout" => jar # None /\ call[c].header # None
    BY <1>1 DEF WebInv, CallSound
<1>6. call[c].kind = "logout" /\ call[c].quiet =>
         call[c].header = jar /\ Valid(jar)
    BY <1>1 DEF WebInv, Calm, Pending
<1>7. r.kind # "none" => r.tab \in Tab
    BY <1>3 DEF WebInv, CallSound
<1>8. CallSound' /\ Calm'
    BY <1>1, <1>2, <1>3, <1>4, <1>5, <1>6, <1>7, CallStep
<1>9. page' \in [Tab -> Page] /\ PageSound'
    BY <1>1, PagesStay
<1> QED
    BY <1>1, <1>4, <1>8, <1>9 DEF WebInv, TypeOK

\* The server answers; a logout of those made while nothing was afoot is not
\* refused, and a request with a valid cookie is given no other.
LEMMA AnswerStep ==
    ASSUME WebInv, NEW c \in Call, NEW status \in {200, 401, 403},
           NEW set \in Token \cup {Keep}, Answer(c, status, set),
           call[c].kind # "none", call[c].step = "sent",
           set = Keep => call[c].cookie # None,
           Valid(call[c].cookie) => set = Keep,
           call[c].kind = "logout" /\ Valid(call[c].cookie)
             /\ call[c].header = call[c].cookie => status = 200
    PROVE  WebInv'
<1>1. /\ UNCHANGED <<jar, page, key>>
      /\ call' = [call EXCEPT ![c] = Answered(@, status, set)]
    BY DEF Answer
<1>2. call[c] \in CallState /\ jar \in Token \cup {None}
    BY DEF WebInv, TypeOK
<1>3. PICK r \in CallState :
         /\ r.kind = call[c].kind /\ r.step = "answered" /\ r.tab = call[c].tab
         /\ r.cookie = None /\ r.status = status /\ r.set = set
         /\ r.quiet = call[c].quiet /\ call' = [call EXCEPT ![c] = r]
  <2>1. LET s == Answered(call[c], status, set)
        IN  /\ s \in CallState /\ s.kind = call[c].kind /\ s.step = "answered"
            /\ s.tab = call[c].tab /\ s.cookie = None /\ s.status = status
            /\ s.set = set /\ s.quiet = call[c].quiet
      BY <1>2 DEF Answered, CallState
  <2> QED
      BY <1>1, <2>1
<1>4. /\ call' \in [Call -> CallState] /\ call'[c] = r
      /\ \A d \in Call \ {c} : call'[d] = call[d]
    BY <1>3 DEF WebInv, TypeOK
<1>5. /\ call[c].cookie # None => jar # None
      /\ call[c].kind = "logout" => jar # None
      /\ call[c].kind = "logout" /\ call[c].quiet =>
            call[c].header = call[c].cookie /\ Valid(call[c].cookie)
      /\ call[c].tab \in Tab
    BY DEF WebInv, CallSound
<1>6. /\ Valid(jar) /\ Settled(c) => set = Keep
      /\ r.kind = "logout" /\ r.quiet => r.status = 200
      /\ r.step = "answered" /\ r.set = Keep => jar # None
    BY <1>3, <1>5 DEF Settled
<1>7. CallSound' /\ Calm'
    BY <1>1, <1>2, <1>3, <1>4, <1>5, <1>6, CallStep
<1>8. page' \in [Tab -> Page] /\ PageSound'
    BY <1>1, PagesStay
<1> QED
    BY <1>1, <1>4, <1>7, <1>8 DEF WebInv, TypeOK

\* What csrf.ensureCookie gives to a request.
LEMMA Ensured ==
    ASSUME WebInv, NEW c \in Call, NEW set \in EnsureCookie(c)
    PROVE  /\ set \in Token \cup {Keep}
           /\ set = Keep <=> Valid(call[c].cookie)
<1>1. Keep \notin Token /\ \A x \in Issued : x \in Token
    BY Shapes DEF Issued, Token, Least, UnusedSerial, WebInv, TypeOK
<1> QED
    BY <1>1 DEF EnsureCookie

\* The server judges the token by its own key, and may set another.
LEMMA ServerStep ==
    ASSUME WebInv, NEW c \in Call, Me(c) \/ Login(c) \/ Logout(c)
    PROVE  WebInv'
<1>0. \A tok : Valid(tok) => tok # None
    BY DEF Valid
<1>1. CASE Me(c)
  <2>1. PICK set \in EnsureCookie(c), status \in {200, 401} :
           Answer(c, status, set)
      BY <1>1 DEF Me
  <2>2. call[c].kind \in {"load", "guard"} /\ call[c].step = "sent"
      BY <1>1 DEF Me, Sent
  <2> QED
      BY <1>0, <2>1, <2>2, Ensured, AnswerStep
<1>2. CASE Login(c)
  <2>1. PICK set \in EnsureCookie(c) : Answer(c, 200, set)
      BY <1>2 DEF Login
  <2>2. call[c].kind = "login" /\ call[c].step = "sent"
      BY <1>2 DEF Login, Sent
  <2> QED
      BY <1>0, <2>1, <2>2, Ensured, AnswerStep
<1>3. CASE Logout(c)
  <2>1. call[c].kind = "logout" /\ call[c].step = "sent"
      BY <1>3 DEF Logout, Sent
  <2>2. call[c].cookie # None
      BY <2>1 DEF WebInv, CallSound
  <2>3. CASE /\ call[c].header = call[c].cookie /\ Valid(call[c].cookie)
             /\ Answer(c, 200, Keep)
      BY <2>1, <2>2, <2>3, AnswerStep
  <2>4. CASE /\ call[c].header # call[c].cookie \/ ~Valid(call[c].cookie)
             /\ Answer(c, 403, Keep)
      BY <2>1, <2>2, <2>4, AnswerStep
  <2> QED
      BY <1>3, <2>3, <2>4 DEF Logout
<1> QED
    BY <1>1, <1>2, <1>3

\* The document's answer reaches it, and shows it signed in only if the answer
\* was a load's.
LEMMA DeliverStep ==
    ASSUME WebInv, NEW c \in Call, Deliver(c)
    PROVE  WebInv'
<1>1. /\ key' = key /\ ~Free(c) /\ call[c].step = "answered"
      /\ jar' = IF call[c].set = Keep THEN jar ELSE call[c].set
    BY DEF Deliver
<1>2. /\ call[c] \in CallState /\ call[c].tab \in Tab
      /\ jar \in Token \cup {None} /\ call[c].set \in Token \cup {Keep}
    BY <1>1, Calls DEF WebInv, TypeOK, CallSound, Free
<1>3. /\ jar' \in Token \cup {None} /\ jar' # None
      /\ jar' = jar \/ call[c].set # Keep
    BY <1>1, <1>2, Shapes DEF WebInv, CallSound
<1>4. PICK t \in Tab : t = call[c].tab
    BY <1>2
<1>5. page[t] \in Page /\ NoCall \in CallState
    BY Quiet DEF WebInv, TypeOK
<1>p. PICK p \in Page : p = Resumed(c)
    BY <1>5 DEF Resumed, Page
<1>6. CASE /\ call[c].kind = "guard" /\ call[c].status = 401 /\ GoToLogin(t, c)
           /\ page' = [page EXCEPT ![t] = Resumed(c)]
  <2>1. /\ call' \in [Call -> CallState]
        /\ call'[c] = Fetch("login", t, None, FALSE)
        /\ \A d \in Call \ {c} : call'[d] = call[d] \/ call'[d] = NoCall
    <3>1. GoToLogin(t, c)
        BY <1>6
    <3> QED
        BY <3>1, LeaveStep
  <2>2. PICK r \in CallState : /\ r.kind = "login" /\ r.step = "built"
                               /\ r.tab = t /\ r.cookie = None /\ call'[c] = r
      BY <2>1, PlainFetch
  <2>3. CallSound' /\ Calm'
      BY <1>1, <1>3, <2>1, <2>2, CallStep
  <2>4. page' = [page EXCEPT ![t] = p]
      BY <1>p, <1>6
  <2>5. page' \in [Tab -> Page] /\ PageSound'
      BY <1>3, <2>4, PageStep
  <2> QED
      BY <1>1, <1>3, <2>1, <2>3, <2>5 DEF WebInv, TypeOK
<1>7. CASE /\ call'[c] = NoCall /\ call' \in [Call -> CallState]
           /\ \A d \in Call \ {c} : call'[d] = call[d] \/ call'[d] = NoCall
           /\ \E x \in Page : page' = [page EXCEPT ![t] = x]
  <2>1. CallSound' /\ Calm'
      BY <1>1, <1>3, <1>5, <1>7, Quiet, CallStep
  <2>2. page' \in [Tab -> Page] /\ PageSound'
      BY <1>3, <1>7, PageStep
  <2> QED
      BY <1>1, <1>3, <1>7, <2>1, <2>2 DEF WebInv, TypeOK
<1>8. CASE /\ call[c].kind = "login"
           /\ page' = [page EXCEPT ![t] = "closed"] /\ call' = Dropped(t)
  <2>1. "closed" \in Page
      BY DEF Page
  <2> QED
      BY <1>4, <1>7, <1>8, <2>1, DroppedCalls
<1>9. CASE /\ call[c].kind = "logout" /\ call[c].status = 200
           /\ page' = [page EXCEPT ![t] = Resumed(c)]
           /\ call' = [Assigned(t) EXCEPT ![c] = NoCall]
  <2>1. page' = [page EXCEPT ![t] = p]
      BY <1>p, <1>9
  <2>2. /\ call' \in [Call -> CallState] /\ call'[c] = NoCall
        /\ \A d \in Call \ {c} : call'[d] = call[d] \/ call'[d] = NoCall
      BY <1>5, <1>9, DroppedCalls
  <2> QED
      BY <1>7, <2>1, <2>2
<1>10. CASE /\ page' = [page EXCEPT ![t] = Resumed(c)]
            /\ call' = [call EXCEPT ![c] = NoCall]
  <2>1. page' = [page EXCEPT ![t] = p]
      BY <1>p, <1>10
  <2>2. /\ call' \in [Call -> CallState] /\ call'[c] = NoCall
        /\ \A d \in Call \ {c} : call'[d] = call[d]
      BY <1>5, <1>10 DEF WebInv, TypeOK
  <2> QED
      BY <1>7, <2>1, <2>2
<1> QED
    BY <1>4, <1>6, <1>8, <1>9, <1>10 DEF Deliver

\* A lost answer sets no cookie.
LEMMA LoseStep ==
    ASSUME WebInv, NEW c \in Call, Lose(c)
    PROVE  WebInv'
<1>1. /\ UNCHANGED <<jar, key>> /\ ~Free(c)
      /\ page' = [page EXCEPT ![call[c].tab] = Failed(@, call[c].kind)]
      /\ call' = [call EXCEPT ![c] = NoCall]
    BY DEF Lose
<1>2. PICK t \in Tab : t = call[c].tab
    BY <1>1 DEF WebInv, CallSound, Free
<1>3. page[t] \in Page /\ NoCall \in CallState /\ jar \in Token \cup {None}
    BY Quiet DEF WebInv, TypeOK
<1>4. /\ call' \in [Call -> CallState] /\ call'[c] = NoCall
      /\ \A d \in Call \ {c} : call'[d] = call[d]
    BY <1>1, <1>3 DEF WebInv, TypeOK
<1>5. CallSound' /\ Calm'
    BY <1>1, <1>3, <1>4, Quiet, CallStep
<1>6. PICK p \in Page : /\ page' = [page EXCEPT ![t] = p]
                        /\ p \in {page[t], "anonymous"}
  <2>1. /\ Failed(page[t], call[c].kind) \in Page
        /\ Failed(page[t], call[c].kind) \in {page[t], "anonymous"}
      BY <1>3 DEF Failed, Page
  <2> QED
      BY <1>1, <1>2, <2>1
<1>7. p = "authenticated" => jar' # None
    BY <1>1, <1>6 DEF WebInv, PageSound
<1>8. page' \in [Tab -> Page] /\ PageSound'
    BY <1>1, <1>6, <1>7, PageStep
<1> QED
    BY <1>1, <1>4, <1>5, <1>8 DEF WebInv, TypeOK

\* A restart with another key makes the jar's token no better.
LEMMA RekeyStep ==
    ASSUME WebInv, Rekey
    PROVE  WebInv'
<1>1. /\ key' = key + 1 /\ key < MaxKey /\ UNCHANGED <<jar, page>>
      /\ call' = [c \in Call |-> Disturbed(call[c])]
    BY DEF Rekey
<1>2. \A r \in CallState :
         LET s == Disturbed(r)
         IN  /\ s \in CallState /\ s.kind = r.kind /\ s.step = r.step
             /\ s.tab = r.tab /\ s.header = r.header /\ s.cookie = r.cookie
             /\ s.set = r.set /\ ~s.quiet
    BY DEF Disturbed, CallState
<1>3. /\ call' \in [Call -> CallState]
      /\ \A c \in Call :
            /\ call'[c].kind = call[c].kind /\ call'[c].step = call[c].step
            /\ call'[c].tab = call[c].tab /\ call'[c].header = call[c].header
            /\ call'[c].cookie = call[c].cookie /\ call'[c].set = call[c].set
            /\ ~call'[c].quiet
    BY <1>1, <1>2 DEF WebInv, TypeOK
<1>4. CallSound' /\ Calm'
    BY <1>1, <1>3 DEF WebInv, CallSound, Calm, Pending
<1>5. page' \in [Tab -> Page] /\ PageSound'
    BY <1>1, PagesStay
<1>6. key' \in 1 .. MaxKey
    BY <1>1, KeyAssumption DEF WebInv, TypeOK
<1> QED
    BY <1>1, <1>3, <1>4, <1>5, <1>6 DEF WebInv, TypeOK

\* The invariant holds at first and every step keeps it.
LEMMA WebInductive ==
    /\ Init => WebInv
    /\ WebInv /\ [Next]_vars => WebInv'
<1>1. ASSUME Init PROVE WebInv
  <2>1. TypeOK
      BY <1>1, Quiet, Shapes, KeyAssumption DEF Init, TypeOK, Page
  <2>2. CallSound /\ Calm
      BY <1>1, Quiet DEF Init, CallSound, Calm, Pending
  <2>3. PageSound
      BY <1>1, Shapes DEF Init, PageSound
  <2> QED
      BY <2>1, <2>2, <2>3 DEF WebInv
<1>2. ASSUME WebInv, UNCHANGED vars PROVE WebInv'
    BY <1>2 DEF vars, WebInv, TypeOK, CallSound, Calm, Pending, Settled, Valid,
                PageSound
<1>3. ASSUME WebInv, Next PROVE WebInv'
    BY <1>3, OpenPublicStep, OpenProtectedStep, GotoProtectedStep,
       ClickStep, UnloadStep, AttachStep, ServerStep, DeliverStep, LoseStep, RekeyStep
       DEF Next
<1> QED
    BY <1>1, <1>2, <1>3

\* The invariant holds in every reachable state.
THEOREM WebSound == Spec => []WebInv
    BY WebInductive, PTL DEF Spec

\* No logout is refused for want of a token: wherever the store says signed in
\* the browser has the CSRF cookie.
THEOREM LogoutsHaveTokens == Spec => []LogoutHasToken
<1>1. WebInv => LogoutHasToken
    BY DEF WebInv, PageSound, CallSound, LogoutHasToken
<1> QED
    BY <1>1, WebSound, PTL

\* A logout whose token was read while nothing was afoot is not refused, whatever
\* the tabs and the server do before it is answered, a change of secret excepted.
THEOREM QuietLogoutsPass == Spec => []QuietLogoutAccepted
<1>1. WebInv => QuietLogoutAccepted
    BY DEF WebInv, CallSound, QuietLogoutAccepted
<1> QED
    BY <1>1, WebSound, PTL
=============================================================================
