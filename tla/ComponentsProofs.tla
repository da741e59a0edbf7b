-------------------------- MODULE ComponentsProofs --------------------------
(* Theorems about the components that MCComponents checks over bounded       *)
(* inputs, for whatever input: the router's guards and its reserved paths,   *)
(* the displayed name and the roles, the theme for any number of tabs, the   *)
(* migrations for any directory, the refusals of the configuration and the   *)
(* list of scopes.                                                           *)
EXTENDS MCComponents, WellFoundedInduction, TLAPS

\* Numbers have a least one: the order on them is well-founded.
LEMMA LeastNatural ==
    ASSUME NEW S \in SUBSET Nat, S # {}
    PROVE  \E m \in S : \A k \in S : m <= k
<1>1. PICK m \in S : \A k \in S : <<k, m>> \notin OpToRel(<, Nat)
    BY NatLessThanWellFounded, WFMin
<1>2. \A k \in S : ~(k < m)
    BY <1>1 DEF OpToRel
<1> QED
    BY <1>2

\* Induction up to a bound: what is so at the first and goes on is so to the last.
LEMMA UpTo ==
    ASSUME NEW m \in Nat, NEW b \in Nat, NEW S,
           m \in S, \A n \in m .. b : n \in S /\ n < b => n + 1 \in S
    PROVE  \A n \in m .. b : n \in S
<1> DEFINE Not == {n \in m .. b : n \notin S}
<1> SUFFICES ASSUME Not # {} PROVE FALSE
    OBVIOUS
<1>1. Not \in SUBSET Nat
    OBVIOUS
<1>2. PICK n \in Not : \A k \in Not : n <= k
    BY <1>1, LeastNatural
<1>3. n # m /\ n - 1 \in m .. b /\ n - 1 \notin Not
    BY <1>2
<1>4. n - 1 \in S /\ n - 1 < b
    BY <1>2, <1>3
<1>5. n \in S
    BY <1>3, <1>4
<1> QED
    BY <1>2, <1>5

-----------------------------------------------------------------------------
(* The router.                                                              *)

\* What the page handler answers is not one of the routes' handlers.
LEMMA PagesAreNoHandlers ==
    ASSUME NEW q
    PROVE  SPA(q) \notin Handlers /\ "401" \notin Handlers /\ "403" \notin Handlers
<1>1. Handlers = {"live", "ready", "login", "callback", "logout", "identity", "user"}
    BY DEF Handlers, Routes, Route
<1>2. Page(q) \notin Handlers
    BY <1>1 DEF Page
<1> QED
    BY <1>1, <1>2 DEF SPA

\* A route that is matched is unsafe only under the CSRF middleware, and is the
\* user's only under the session's.
LEMMA MatchingFacts ==
    ASSUME NEW q, NEW r \in Matching(q)
    PROVE  /\ r.handler \in Handlers
           /\ q.method \notin Safe => Mounted(q, "auth")
           /\ r.handler = "user" => Mounted(q, "api")
<1>1. r \in Routes /\ r.method = q.method /\ Matches(q, r)
      /\ (r.path[1] \in {"auth", "api"} => q.pool)
    BY DEF Matching
<1>2. CASE r.handler \in {"live", "ready", "login", "callback", "identity"}
    BY <1>1, <1>2 DEF Routes, Route, Safe, Handlers
<1>3. CASE r = Route("POST", <<"auth", "logout">>, "logout")
  <2>1. r.path = <<"auth", "logout">> /\ r.method = "POST" /\ r.handler = "logout"
      BY <1>3 DEF Route
  <2>2. 1 \in DOMAIN r.path /\ r.path[1] = "auth"
      BY <2>1
  <2> QED
      BY <1>1, <2>1, <2>2 DEF Matches, Mounted, Handlers
<1>4. CASE r = Route("GET", <<"api", "me">>, "user")
  <2>1. r.path = <<"api", "me">> /\ r.method = "GET" /\ r.handler = "user"
      BY <1>4 DEF Route
  <2>2. 1 \in DOMAIN r.path /\ r.path[1] = "api"
      BY <2>1
  <2> QED
      BY <1>1, <2>1, <2>2 DEF Matches, Mounted, Handlers, Safe
<1> QED
    BY <1>1, <1>2, <1>3, <1>4 DEF Routes, Route

\* For whatever request: no handler runs for an unsafe method without a token, nor for
\* /api without a session, and /api keeps its paths to itself (NewRouter, mountAuth).
THEOREM EveryRequestIsGuarded == \A q : Guarded(q)
<1> SUFFICES ASSUME NEW q PROVE Guarded(q)
    OBVIOUS
<1>1. CASE CSRFRefuses(q)
  <2>1. Answer(q) = "403"
      BY <1>1 DEF Answer
  <2> QED
      BY <2>1, PagesAreNoHandlers DEF Guarded
<1>2. CASE ~CSRFRefuses(q) /\ RequireAuthRefuses(q)
  <2>1. Answer(q) = "401"
      BY <1>2 DEF Answer
  <2> QED
      BY <2>1, PagesAreNoHandlers DEF Guarded
<1>3. CASE ~CSRFRefuses(q) /\ ~RequireAuthRefuses(q) /\ Matching(q) = {}
  <2>1. Answer(q) = SPA(q)
      BY <1>3 DEF Answer
  <2>2. "user" \in Handlers
      BY DEF Handlers, Routes, Route
  <2> QED
      BY <1>3, <2>1, <2>2, PagesAreNoHandlers DEF Guarded, RequireAuthRefuses
<1>4. CASE ~CSRFRefuses(q) /\ ~RequireAuthRefuses(q) /\ Matching(q) # {}
  <2>1. PICK r \in Matching(q) : Answer(q) = r.handler
    <3>1. (CHOOSE r \in Matching(q) : TRUE) \in Matching(q)
        BY <1>4
    <3> QED
        BY <1>4, <3>1 DEF Answer
  <2> QED
      BY <1>4, <2>1, MatchingFacts DEF Guarded, CSRFRefuses, RequireAuthRefuses
<1> QED
    BY <1>1, <1>2, <1>3, <1>4

\* The requests that the run enumerates among them.
THEOREM EnumeratedRequestsAreGuarded == Spec => []HandlersGuarded
<1>1. HandlersGuarded
    BY EveryRequestIsGuarded DEF HandlersGuarded
<1> QED
    BY <1>1, PTL

\* f is what FlattenSeq builds up over the first m segments.
Flattens(f, segments, m) ==
    f = [i \in 1 .. m |-> IF i = 1 THEN segments[i] ELSE f[i - 1] \o segments[i]]

FlatUpTo(segments, m) == \E f : Flattens(f, segments, m)

\* A function defined by recursion over a sequence is there.
LEMMA Flattening ==
    ASSUME NEW segments, Len(segments) \in Nat, Len(segments) # 0
    PROVE  FlatUpTo(segments, Len(segments))
<1> DEFINE L == Len(segments)
           S == {m \in 1 .. L : FlatUpTo(segments, m)}
<1>1. FlatUpTo(segments, 1)
  <2>1. Flattens([i \in {1} |-> segments[i]], segments, 1)
      BY DEF Flattens
  <2> QED
      BY <2>1 DEF FlatUpTo
<1>2. ASSUME NEW m \in 1 .. L, FlatUpTo(segments, m) PROVE FlatUpTo(segments, m + 1)
  <2>1. PICK g : Flattens(g, segments, m)
      BY <1>2 DEF FlatUpTo
  <2>2. PICK h : h = [i \in 1 .. m + 1 |-> IF i = m + 1 THEN g[m] \o segments[m + 1]
                                          ELSE g[i]]
      OBVIOUS
  <2>a. /\ m \in Nat /\ m \in 1 .. m /\ m + 1 # 1 /\ (m + 1) - 1 = m
        /\ m + 1 \in 1 .. m + 1
        /\ \A i \in 1 .. m : i \in 1 .. m + 1 /\ i # m + 1
      OBVIOUS
  <2>3. /\ h[m + 1] = g[m] \o segments[m + 1]
        /\ \A i \in 1 .. m : h[i] = g[i]
      BY <2>2, <2>a
  <2>4. ASSUME NEW i \in 1 .. m + 1
        PROVE  h[i] = IF i = 1 THEN segments[i] ELSE h[i - 1] \o segments[i]
    <3>1. CASE i = m + 1
        BY <2>3, <2>a, <3>1
    <3>2. CASE i # m + 1
      <4>1. i \in 1 .. m /\ h[i] = g[i] /\ (i # 1 => i - 1 \in 1 .. m)
          BY <2>3, <3>2
      <4>2. g[i] = IF i = 1 THEN segments[i] ELSE g[i - 1] \o segments[i]
          BY <2>1, <4>1 DEF Flattens
      <4> QED
          BY <2>3, <2>a, <4>1, <4>2
    <3> QED
        BY <3>1, <3>2
  <2>5. Flattens(h, segments, m + 1)
      BY <2>2, <2>4 DEF Flattens
  <2> QED
      BY <2>5 DEF FlatUpTo
<1>3. \A n \in 1 .. L : n \in S
  <2>1. 1 \in S /\ \A n \in 1 .. L : n \in S /\ n < L => n + 1 \in S
      BY <1>1, <1>2
  <2> HIDE DEF S
  <2> QED
      BY <2>1, UpTo
<1> QED
    BY <1>3

\* FlattenSeq begins with what its first sequence begins with.
LEMMA FlatHead ==
    ASSUME NEW W, NEW segments \in Seq(Seq(W) \ {<<>>}), segments # <<>>
    PROVE  FlattenSeq(segments)[1] = segments[1][1]
<1> DEFINE L == Len(segments)
<1>1. L \in Nat /\ L # 0 /\ \A i \in 1 .. L : segments[i] \in Seq(W) /\ segments[i] # <<>>
    OBVIOUS
<1>2. PICK f : f = CHOOSE g : Flattens(g, segments, L)
    OBVIOUS
<1>3. Flattens(f, segments, L)
    BY <1>1, <1>2, Flattening DEF FlatUpTo
<1>4. FlattenSeq(segments) = f[L]
    BY <1>1, <1>2 DEF FlattenSeq, Flattens
<1> DEFINE S == {n \in 1 .. L : /\ f[n] \in Seq(W) /\ f[n] # <<>>
                                /\ f[n][1] = segments[1][1]}
<1>5. 1 \in S
    BY <1>1, <1>3 DEF Flattens
<1>6. ASSUME NEW n \in 1 .. L, n \in S, n < L PROVE n + 1 \in S
  <2>1. f[n + 1] = f[n] \o segments[n + 1]
    <3>1. n + 1 \in 1 .. L /\ n + 1 # 1 /\ (n + 1) - 1 = n
        BY <1>1, <1>6
    <3> QED
        BY <1>3, <3>1 DEF Flattens
  <2>2. segments[n + 1] \in Seq(W)
      BY <1>1, <1>6
  <2>3. f[n] \in Seq(W) /\ Len(f[n]) \in Nat /\ Len(f[n]) # 0
      BY <1>6
  <2>4. (f[n] \o segments[n + 1])[1] = f[n][1]
    <3>1. PICK s, t \in Seq(W) : s = f[n] /\ t = segments[n + 1]
        BY <2>2, <2>3
    <3>2. Len(s) \in Nat /\ Len(s) # 0 /\ Len(t) \in Nat
        BY <2>3, <3>1
    <3>3. (s \o t)[1] = s[1]
        BY <3>2
    <3> QED
        BY <3>1, <3>3
  <2>5. f[n + 1] \in Seq(W) /\ f[n + 1] # <<>>
      BY <2>1, <2>2, <2>3
  <2>6. n + 1 \in 1 .. L /\ f[n][1] = segments[1][1]
      BY <1>1, <1>6
  <2> QED
      BY <2>1, <2>4, <2>5, <2>6
<1>7. \A n \in 1 .. L : n \in S
  <2> HIDE DEF S
  <2> QED
      BY <1>1, <1>5, <1>6, UpTo
<1> QED
    BY <1>1, <1>4, <1>7

\* The paths that a client may send: one segment or more, each of a word or more.
Paths(W) == Seq([words : Seq(W) \ {<<>>}, plain : BOOLEAN]) \ {<<>>}

\* The path without its escapes begins as its first segment does.
LEMMA FirstWord ==
    ASSUME NEW W, NEW q, q.path \in Paths(W)
    PROVE  /\ Decoded(q)[1] = q.path[1].words[1]
           /\ 1 \in DOMAIN q.path
<1>a. PICK R : R = [words : Seq(W) \ {<<>>}, plain : BOOLEAN]
    OBVIOUS
<1>1. PICK p \in Seq(R) \ {<<>>} : p = q.path
    BY <1>a DEF Paths
<1>2. Len(p) \in Nat /\ Len(p) # 0 /\ DOMAIN p = 1 .. Len(p)
    OBVIOUS
<1>b. \A i \in 1 .. Len(p) : p[i] \in R
    OBVIOUS
<1>3. \A i \in 1 .. Len(p) : p[i].words \in Seq(W) \ {<<>>}
    BY <1>a, <1>b
<1>4. PICK segments : segments = [i \in 1 .. Len(p) |-> p[i].words]
    OBVIOUS
<1>5. segments \in Seq(Seq(W) \ {<<>>}) /\ Len(segments) = Len(p)
    BY <1>2, <1>3, <1>4
<1>6. segments # <<>> /\ segments[1] = p[1].words
  <2>1. 1 \in 1 .. Len(p)
      BY <1>2
  <2>2. segments[1] = p[1].words
      BY <1>4, <2>1
  <2>3. Len(segments) # 0
      BY <1>2, <1>5
  <2> QED
      BY <2>2, <2>3
<1>7. Decoded(q) = FlattenSeq(segments)
    BY <1>1, <1>2, <1>4 DEF Decoded
<1>8. FlattenSeq(segments)[1] = segments[1][1]
    BY <1>5, <1>6, FlatHead
<1> QED
    BY <1>1, <1>2, <1>6, <1>7, <1>8

\* A route is under a reserved word, and so is what it matches.
LEMMA RoutesAreReserved ==
    ASSUME NEW q, NEW r \in Routes, Matches(q, r)
    PROVE  q.path[1].words[1] \in Reserved
<1>1. \A w : Literal(q, 1, w) => q.path[1].words[1] = w
    BY DEF Literal
<1>2. 1 \in DOMAIN r.path /\ r.path[1] \in Reserved
    BY DEF Routes, Route, Reserved
<1> QED
    BY <1>1, <1>2 DEF Matches

\* For paths of any length, escaped in any way: what the server owns and what the page
\* handler answers are told apart alike by the router, which sees the path as it was
\* sent, and by IsReservedPath, which sees it without its escapes (spa.go 50-53).
THEOREM EveryReservedPathStaysReserved ==
    \A W, q : q.path \in Paths(W) => ReservedStaysReserved(q)
<1> SUFFICES ASSUME NEW W, NEW q, q.path \in Paths(W)
             PROVE  ReservedStaysReserved(q)
    OBVIOUS
<1>1. IsReservedPath(Decoded(q)) <=> q.path[1].words[1] \in Reserved
    BY FirstWord DEF IsReservedPath
<1>2. Handlers = {"live", "ready", "login", "callback", "logout", "identity", "user"}
    BY DEF Handlers, Routes, Route
<1>3. CASE IsReservedPath(Decoded(q))
  <2>1. SPA(q) = "404"
      BY <1>3 DEF SPA
  <2>2. Matching(q) # {} => (CHOOSE r \in Matching(q) : TRUE).handler \in Handlers
    <3>1. Matching(q) # {} => (CHOOSE r \in Matching(q) : TRUE) \in Routes
        BY DEF Matching
    <3> QED
        BY <3>1 DEF Handlers
  <2>3. Answer(q) \in Handlers \cup {"401", "403", "404"}
      BY <2>1, <2>2 DEF Answer
  <2> QED
      BY <1>3, <2>3 DEF ReservedStaysReserved
<1>4. CASE ~IsReservedPath(Decoded(q))
  <2>1. ~Mounted(q, "auth") /\ ~Mounted(q, "api")
      BY <1>1, <1>4 DEF Mounted, Literal, Reserved
  <2>2. Matching(q) = {}
      BY <1>1, <1>4, RoutesAreReserved DEF Matching
  <2>3. Answer(q) = Page(q)
      BY <1>4, <2>1, <2>2 DEF Answer, CSRFRefuses, RequireAuthRefuses, SPA
  <2>4. Page(q) \in {"proxy", "502", "405", "file", "index"}
      BY DEF Page
  <2>5. Answer(q) \notin Handlers \cup {"401", "403", "404"}
      BY <1>2, <2>3, <2>4
  <2> QED
      BY <1>4, <2>5 DEF ReservedStaysReserved
<1> QED
    BY <1>3, <1>4

\* The requests that the run enumerates among them.
THEOREM EnumeratedReservedPathsAreKept == Spec => []ReservedKept
<1> DEFINE Enumerated == input.of = "request" => input.request \in Requests
<1>1. Init => Enumerated
    BY DEF Init, Inputs
<1>2. Enumerated /\ [Next]_<<input, migrations, theme>> => Enumerated'
    BY DEF Next
<1>3. ASSUME NEW q \in Requests PROVE \E W : q.path \in Paths(W)
  <2>1. PICK W : W = Reserved \cup {"me", "logout", "page", "app.js", "", ".."}
      OBVIOUS
  <2>2. /\ \A w \in W : <<w>> \in Seq(W) /\ <<w>> # <<>>
        /\ \A v, w \in W : <<v, w>> \in Seq(W) /\ <<v, w>> # <<>>
      OBVIOUS
  <2>3. Reserved \subseteq W /\ {"me", "logout", "page", "app.js", "", ".."} \subseteq W
      BY <2>1
  <2>4. {"api", "auth", "healthz"} \subseteq W
      BY <2>3 DEF Reserved
  <2>5. PICK N : N = Seq(W) \ {<<>>}
      OBVIOUS
  <2>6. {<<w>> : w \in Reserved \cup {"me", "logout", "page", "app.js", "", ".."}} \subseteq N
      BY <2>2, <2>3, <2>5
  <2>7. {<<w>> : w \in {"api", "me", "healthz"}} \subseteq N
      BY <2>2, <2>3, <2>4, <2>5
  <2>8. {"api", "auth", ""} \X {"me", "logout", ""} \subseteq N
    <3>1. ASSUME NEW v \in {"api", "auth", ""}, NEW w \in {"me", "logout", ""}
          PROVE  <<v, w>> \in N
        BY <2>2, <2>3, <2>4, <2>5
    <3>2. PICK V, U : V = {"api", "auth", ""} /\ U = {"me", "logout", ""}
        OBVIOUS
    <3>3. ASSUME NEW x \in V \X U PROVE x \in N
      <4>1. PICK v \in V, w \in U : x = <<v, w>>
          OBVIOUS
      <4> QED
          BY <3>1, <3>2, <4>1
    <3> QED
        BY <3>2, <3>3
  <2>9. PICK R : R = [words : N, plain : BOOLEAN]
      OBVIOUS
  <2>10. Plain \subseteq R
      BY <2>6, <2>9 DEF Plain
  <2>11. Escaped \subseteq R
    <3>1. PICK S : S = {<<w>> : w \in {"api", "me", "healthz"}}
                       \cup ({"api", "auth", ""} \X {"me", "logout", ""})
        OBVIOUS
    <3>2. S \subseteq N
        BY <2>7, <2>8, <3>1
    <3>3. Escaped = [words : S, plain : {FALSE}]
        BY <3>1 DEF Escaped
    <3> QED
        BY <2>9, <3>2, <3>3
  <2>12. PICK E : E = Plain \cup Escaped
      OBVIOUS
  <2>13. E \subseteq R
      BY <2>10, <2>11, <2>12
  <2>14. q.path \in BoundedSeq(E, 2) \ {<<>>}
      BY <2>12 DEF Requests
  <2>15. PICK m \in Nat : q.path \in [1 .. m -> E]
    <3>1. BoundedSeq(E, 2) = UNION {[1 .. m -> E] : m \in 0 .. 2}
        BY DEF BoundedSeq, SeqOf
    <3>2. PICK p : p = q.path
        OBVIOUS
    <3>3. p \in UNION {[1 .. m -> E] : m \in 0 .. 2}
        BY <2>14, <3>1, <3>2
    <3>4. \E m \in 0 .. 2 : p \in [1 .. m -> E]
        BY <3>3
    <3> QED
        BY <3>2, <3>4
  <2>16. q.path \in [1 .. m -> R]
      BY <2>13, <2>15
  <2>17. q.path \in Seq(R) \ {<<>>}
      BY <2>14, <2>16
  <2> QED
      BY <2>5, <2>9, <2>17 DEF Paths
<1>4. Enumerated => ReservedKept
    BY <1>3, EveryReservedPathStaysReserved DEF ReservedKept
<1> QED
    BY <1>1, <1>2, <1>4, PTL DEF Spec

-----------------------------------------------------------------------------
(* The displayed name.                                                      *)

\* A text: only words have capitals.
IsText(t) == /\ t \in Text({t.word})
             /\ t.word = "" => ~t.upper

\* Claims whose strings are texts.
TextClaims(claims) == \A k : IsText(ClaimString(claims, k))

\* FirstGiven is the first text that is not empty, and Empty if there is none.
LEMMA FirstGivenFacts ==
    ASSUME NEW s, DOMAIN s \subseteq Nat
    PROVE  \/ /\ \A i \in DOMAIN s : s[i] = Empty
              /\ FirstGiven(s) = Empty
           \/ \E i \in DOMAIN s : /\ s[i] # Empty /\ FirstGiven(s) = s[i]
                                  /\ \A j \in DOMAIN s : s[j] # Empty => i <= j
<1>1. PICK given : given = {i \in DOMAIN s : s[i] # Empty}
    OBVIOUS
<1>2. FirstGiven(s) = IF given = {} THEN Empty
                      ELSE s[CHOOSE i \in given : \A j \in given : i <= j]
    BY <1>1 DEF FirstGiven
<1>3. CASE given = {}
    BY <1>1, <1>2, <1>3
<1>4. CASE given # {}
  <2>1. given \in SUBSET Nat /\ \E n \in given : TRUE
      BY <1>1, <1>4
  <2>2. \E i \in given : \A j \in given : i <= j
      BY <2>1, LeastNatural
  <2>3. PICK i : i = CHOOSE n \in given : \A j \in given : n <= j
      OBVIOUS
  <2>4. i \in given /\ \A j \in given : i <= j
      BY <2>2, <2>3
  <2>5. FirstGiven(s) = s[i]
      BY <1>2, <1>4, <2>3
  <2> QED
      BY <1>1, <2>4, <2>5
<1> QED
    BY <1>3, <1>4

\* A text that shows nothing or something, but not blanks only.
Clear(t) == t = Empty \/ t.word # ""

\* The two texts without a word are the empty one and the blank one.
LEMMA EmptyFacts ==
    /\ Empty.word = "" /\ Empty.padded = FALSE /\ Blank.word = "" /\ Blank.padded = TRUE
    /\ \A t \in {Empty, Blank, Lower("x")} : IsText(t) /\ Empty # Blank
    /\ \A t : IsText(t) /\ t.word = "" => t \in {Empty, Blank}
<1>1. PICK no, yes : no = FALSE /\ yes = TRUE
    OBVIOUS
<1>2. Empty = [word |-> "", upper |-> no, padded |-> no]
    BY <1>1 DEF Empty, Lower
<1>3. Blank = [Empty EXCEPT !.padded = yes]
    BY <1>1 DEF Blank
<1>4. Blank = [word |-> "", upper |-> no, padded |-> yes]
    BY <1>2, <1>3
<1>5. Lower("x") = [word |-> "x", upper |-> no, padded |-> no]
    BY <1>1 DEF Lower
<1>6. /\ Empty.word = "" /\ Empty.padded = no /\ Blank.word = "" /\ Blank.padded = yes
      /\ Empty.upper = no /\ Blank.upper = no
    BY <1>2, <1>4
<1>7. no \in BOOLEAN /\ yes \in BOOLEAN /\ ~no /\ yes
    BY <1>1
<1>8. \A t \in {Empty, Blank, Lower("x")} : IsText(t)
  <2>1. ASSUME NEW w, NEW padded \in BOOLEAN
        PROVE  IsText([word |-> w, upper |-> no, padded |-> padded])
    <3>1. PICK t : t = [word |-> w, upper |-> no, padded |-> padded]
        OBVIOUS
    <3>2. t \in [word : {t.word}, upper : BOOLEAN, padded : BOOLEAN]
        BY <1>7, <2>1, <3>1
    <3>3. t.upper = no
        BY <3>1
    <3>4. ~t.upper
        BY <1>7, <3>3
    <3> QED
        BY <3>1, <3>2, <3>4 DEF IsText, Text
  <2> QED
      BY <1>2, <1>4, <1>5, <1>7, <2>1
<1>9. ASSUME NEW t, IsText(t), t.word = "" PROVE t \in {Empty, Blank}
  <2>1. /\ t = [word |-> t.word, upper |-> t.upper, padded |-> t.padded]
        /\ t.padded \in BOOLEAN /\ t.upper \in BOOLEAN /\ ~t.upper
      BY <1>9 DEF IsText, Text
  <2>2. t.upper = no /\ t.padded \in {no, yes}
      BY <1>1, <2>1
  <2> QED
      BY <1>2, <1>4, <1>9, <2>1, <2>2
<1>10. Empty # Blank
  <2>1. no # yes
      BY <1>1, Zenon
  <2> QED
      BY <1>6, <2>1
<1> QED
    BY <1>1, <1>6, <1>8, <1>9, <1>10

\* A trimmed text is not blank, and has a word if it had one.
LEMMA ClearFacts ==
    ASSUME NEW t, IsText(t)
    PROVE  /\ Clear(t) <=> t # Blank
           /\ Clear(TrimSpace(t)) /\ (t.word # "" => TrimSpace(t).word # "")
<1>1. t = [word |-> t.word, upper |-> t.upper, padded |-> t.padded]
    BY DEF IsText, Text
<1>2. t.word = "" => t \in {Empty, Blank}
    BY EmptyFacts
<1>3. Empty.word = "" /\ Blank.word = "" /\ Empty # Blank
    BY EmptyFacts
<1>4. t.word # "" => TrimSpace(t).word = t.word
    BY <1>1 DEF TrimSpace
<1> QED
    BY <1>2, <1>3, <1>4 DEF Clear, TrimSpace

\* A full name has a word if either name has.
LEMMA FullNameFacts ==
    ASSUME NEW given, IsText(given), NEW family, IsText(family)
    PROVE  /\ Clear(FullName(given, family))
           /\ given.word # "" \/ family.word # "" => FullName(given, family).word # ""
<1>1. Lower("given family").word # "" /\ Empty.word = ""
    BY DEF Lower, Empty
<1>2. FullName(given, family) \in
         {TrimSpace(given), TrimSpace(family), Lower("given family")}
    BY DEF FullName
<1>3. Clear(FullName(given, family))
    BY <1>1, <1>2, ClearFacts DEF Clear
<1>4. ASSUME given.word # "" \/ family.word # ""
      PROVE  FullName(given, family) # Empty
  <2>1. CASE TrimSpace(family) = Empty
      BY <1>1, <1>4, <2>1, ClearFacts DEF FullName
  <2>2. CASE TrimSpace(family) # Empty /\ TrimSpace(given) = Empty
      BY <2>2 DEF FullName
  <2>3. CASE TrimSpace(family) # Empty /\ TrimSpace(given) # Empty
      BY <1>1, <2>3 DEF FullName
  <2> QED
      BY <2>1, <2>2, <2>3
<1> QED
    BY <1>3, <1>4 DEF Clear

\* For whatever claims: whoever has any name is shown with one (NewIdentity).
THEOREM EveryNameIsShown == \A claims : TextClaims(claims) => NameShown(claims)
<1> SUFFICES ASSUME NEW claims, TextClaims(claims) PROVE NameShown(claims)
    OBVIOUS
<1>1. PICK n, p, g, f, e : /\ n = ClaimString(claims, "name")
                           /\ p = ClaimString(claims, "preferred_username")
                           /\ g = ClaimString(claims, "given_name")
                           /\ f = ClaimString(claims, "family_name")
                           /\ e = ClaimString(claims, "email")
    OBVIOUS
<1>2. \A t \in {n, p, g, f, e} : IsText(t)
    BY <1>1 DEF TextClaims
<1>3. Empty.word = ""
    BY DEF Empty, Lower
<1>4. PICK u : u = FirstGiven(<<n, p>>)
    OBVIOUS
<1>5. PICK m : m = FirstGiven(<<e, e>>)
    OBVIOUS
<1>6. u \in {n, p}
  <2>1. PICK s : s = <<n, p>>
      OBVIOUS
  <2>2. DOMAIN s = {1, 2} /\ s[1] = n /\ s[2] = p
      BY <2>1
  <2> QED
      BY <1>4, <2>1, <2>2, FirstGivenFacts
<1>7. m = e
  <2>1. PICK s : s = <<e, e>>
      OBVIOUS
  <2>2. DOMAIN s = {1, 2} /\ s[1] = e /\ s[2] = e
      BY <2>1
  <2> QED
      BY <1>5, <2>1, <2>2, FirstGivenFacts
<1>8. PICK s : s = <<u, n, FullName(g, f), p, e>>
    OBVIOUS
<1>9. /\ DOMAIN s = {1, 2, 3, 4, 5} /\ s[1] = u /\ s[2] = n
      /\ s[3] = FullName(g, f) /\ s[4] = p /\ s[5] = e
    BY <1>8
<1>10. Me(claims, <<>>, Empty).name = FirstGiven(s)
  <2>1. /\ User(claims).name = u /\ User(claims).email = e
        /\ User(claims).claims = claims
      BY <1>1, <1>4 DEF User
  <2>2. Me(claims, <<>>, Empty).name = DisplayName(User(claims), m)
      BY <1>1, <1>5, <2>1 DEF Me, NewIdentity
  <2> QED
      BY <1>1, <1>7, <1>8, <2>1, <2>2 DEF DisplayName
<1>11. ASSUME Clear(n), Clear(p), \E t \in {n, p, g, f, e} : t.word # ""
       PROVE  FirstGiven(s).word # ""
  <2>1. \A i \in {1, 2, 3, 4} : Clear(s[i])
    <3>1. Clear(s[1]) /\ Clear(s[2]) /\ Clear(s[4])
        BY <1>6, <1>9, <1>11
    <3>2. Clear(s[3])
        BY <1>2, <1>9, FullNameFacts
    <3> QED
        BY <3>1, <3>2
  <2>2. \E i \in {2, 3, 4, 5} : s[i].word # ""
    <3>1. g.word # "" \/ f.word # "" => FullName(g, f).word # ""
        BY <1>2, FullNameFacts
    <3> QED
        BY <1>9, <1>11, <3>1
  <2>3. PICK j \in {2, 3, 4, 5} : s[j].word # ""
      BY <2>2
  <2>4. PICK i \in DOMAIN s : /\ s[i] # Empty /\ FirstGiven(s) = s[i]
                              /\ \A k \in DOMAIN s : s[k] # Empty => i <= k
    <3>1. DOMAIN s \subseteq Nat
        BY <1>9
    <3>2. j \in DOMAIN s
        BY <1>9
    <3>3. s[j] # Empty
        BY <1>3, <2>3
    <3> QED
        BY <3>1, <3>2, <3>3, FirstGivenFacts
  <2>5. i <= j /\ i \in {1, 2, 3, 4, 5}
      BY <1>3, <1>9, <2>3, <2>4
  <2>6. CASE i = 5
    <3>1. j \in {2, 3, 4, 5} /\ 5 <= j
        BY <2>5, <2>6
    <3>2. j = 5
        BY <3>1
    <3>3. i = j
        BY <2>6, <3>2
    <3> QED
        BY <2>3, <2>4, <3>3
  <2>7. CASE i # 5
      BY <2>1, <2>4, <2>5, <2>7 DEF Clear
  <2> QED
      BY <2>6, <2>7
<1>12. Clear(n) <=> n # Blank
    BY <1>2, ClearFacts
<1>13. Clear(p) <=> p # Blank
    BY <1>2, ClearFacts
<1>14. Blank = [Empty EXCEPT !.padded = TRUE]
    BY DEF Blank
<1> QED
    BY <1>1, <1>10, <1>11, <1>12, <1>13, <1>14 DEF NameShown

\* The claims that the run enumerates among them.
THEOREM EnumeratedNamesAreShown == Spec => []NamesShown
<1>1. ASSUME NEW claims \in NameClaims PROVE TextClaims(claims)
  <2>1. PICK keys \in SUBSET NameKeys :
          claims \in Objects(keys, {String(Empty), String(Blank), String(Lower("x")),
                                    JSON("number", 0)})
      BY DEF NameClaims
  <2>2. PICK v \in [keys -> {String(Empty), String(Blank), String(Lower("x")),
                             JSON("number", 0)}] :
          claims = JSON("object", v)
      BY <2>1 DEF Objects
  <2>3. ASSUME NEW k PROVE ClaimString(claims, k) \in {Empty, Blank, Lower("x")}
    <3>1. claims.type = "object" /\ claims.value = v /\ DOMAIN v = keys
        BY <2>2 DEF JSON
    <3>2. CASE k \notin keys
        BY <3>1, <3>2 DEF ClaimString, Member, Missing, JSON
    <3>3. CASE k \in keys
      <4>1. Member(claims, k) = v[k]
          BY <3>1, <3>3 DEF Member
      <4>2. v[k] \in {String(Empty), String(Blank), String(Lower("x")),
                      JSON("number", 0)}
          BY <3>3
      <4>3. \A x : String(x).type = "string" /\ String(x).value = x
          BY DEF String, JSON
      <4>4. JSON("number", 0).type # "string"
          BY DEF JSON
      <4> QED
          BY <4>1, <4>2, <4>3, <4>4 DEF ClaimString
    <3> QED
        BY <3>2, <3>3
  <2>4. \A t \in {Empty, Blank, Lower("x")} : IsText(t)
      BY EmptyFacts
  <2> QED
      BY <2>3, <2>4 DEF TextClaims
<1>2. Init => (input.of = "names" => input.claims \in NameClaims)
    BY DEF Init, Inputs
<1>3. (input.of = "names" => input.claims \in NameClaims)
        /\ [Next]_<<input, migrations, theme>>
        => (input.of = "names" => input.claims \in NameClaims)'
    BY DEF Next
<1>4. (input.of = "names" => input.claims \in NameClaims) => NamesShown
    BY <1>1, EveryNameIsShown DEF NamesShown
<1> QED
    BY <1>2, <1>3, <1>4, PTL DEF Spec

-----------------------------------------------------------------------------
(* The roles.                                                               *)

\* f is the walk of lookupPath along the first m segments of a path.
Walks(f, claims, path, m) ==
    f = [n \in 0 .. m |-> IF n = 0 THEN claims ELSE Member(f[n - 1], path[n])]

WalksUpTo(claims, path, m) == \E f : Walks(f, claims, path, m)

\* Every path can be walked.
LEMMA Walking ==
    ASSUME NEW claims, NEW path, NEW L \in Nat
    PROVE  WalksUpTo(claims, path, L)
<1> DEFINE S == {m \in 0 .. L : WalksUpTo(claims, path, m)}
<1>1. WalksUpTo(claims, path, 0)
  <2>1. Walks([n \in {0} |-> claims], claims, path, 0)
      BY DEF Walks
  <2> QED
      BY <2>1 DEF WalksUpTo
<1>2. ASSUME NEW m \in 0 .. L, WalksUpTo(claims, path, m)
      PROVE  WalksUpTo(claims, path, m + 1)
  <2>1. PICK g : Walks(g, claims, path, m)
      BY <1>2 DEF WalksUpTo
  <2>2. PICK h : h = [n \in 0 .. m + 1 |-> IF n = m + 1 THEN Member(g[m], path[m + 1])
                                          ELSE g[n]]
      OBVIOUS
  <2>3. /\ m \in Nat /\ m \in 0 .. m /\ m + 1 # 0 /\ (m + 1) - 1 = m
        /\ m + 1 \in 0 .. m + 1
        /\ \A n \in 0 .. m : n \in 0 .. m + 1 /\ n # m + 1
      OBVIOUS
  <2>4. /\ h[m + 1] = Member(g[m], path[m + 1])
        /\ \A n \in 0 .. m : h[n] = g[n]
      BY <2>2, <2>3
  <2>5. ASSUME NEW n \in 0 .. m + 1
        PROVE  h[n] = IF n = 0 THEN claims ELSE Member(h[n - 1], path[n])
    <3>1. CASE n = m + 1
        BY <2>3, <2>4, <3>1
    <3>2. CASE n # m + 1
      <4>1. n \in 0 .. m /\ h[n] = g[n] /\ (n # 0 => n - 1 \in 0 .. m)
          BY <2>4, <3>2
      <4>2. g[n] = IF n = 0 THEN claims ELSE Member(g[n - 1], path[n])
          BY <2>1, <4>1 DEF Walks
      <4> QED
          BY <2>4, <4>1, <4>2
    <3> QED
        BY <3>1, <3>2
  <2>6. Walks(h, claims, path, m + 1)
      BY <2>2, <2>5 DEF Walks
  <2> QED
      BY <2>6 DEF WalksUpTo
<1>3. \A n \in 0 .. L : n \in S
  <2>1. 0 \in S /\ \A n \in 0 .. L : n \in S /\ n < L => n + 1 \in S
      BY <1>1, <1>2
  <2> HIDE DEF S
  <2> QED
      BY <2>1, UpTo
<1> QED
    BY <1>3

\* The value a path names, segment by segment, as the property defines it.
Descends(f, claims, path, m) ==
    f = [n \in 0 .. m |->
          IF n = 0 THEN claims
          ELSE IF f[n - 1].type = "object" /\ path[n] \in DOMAIN f[n - 1].value
               THEN f[n - 1].value[path[n]] ELSE Missing]

\* The walk is that descent.
LEMMA WalkIsDescent ==
    ASSUME NEW claims, NEW path, NEW L \in Nat, NEW f
    PROVE  Walks(f, claims, path, L) <=> Descends(f, claims, path, L)
<1> QED
    BY DEF Walks, Descends, Member

\* Two walks along one path end at one value.
LEMMA WalkIsUnique ==
    ASSUME NEW claims, NEW path, NEW L \in Nat, NEW f, NEW g,
           Walks(f, claims, path, L), Walks(g, claims, path, L)
    PROVE  f[L] = g[L]
<1> DEFINE S == {n \in 0 .. L : f[n] = g[n]}
<1>1. 0 \in S
    BY DEF Walks
<1>2. ASSUME NEW n \in 0 .. L, n \in S, n < L PROVE n + 1 \in S
  <2>1. n + 1 \in 0 .. L /\ n + 1 # 0 /\ (n + 1) - 1 = n
      BY <1>2
  <2>2. f[n + 1] = Member(f[n], path[n + 1]) /\ g[n + 1] = Member(g[n], path[n + 1])
      BY <2>1 DEF Walks
  <2> QED
      BY <1>2, <2>1, <2>2
<1>3. \A n \in 0 .. L : n \in S
  <2> HIDE DEF S
  <2> QED
      BY <1>1, <1>2, UpTo
<1> QED
    BY <1>3

\* So lookupPath returns what the property calls the leaf.
LEMMA LookupIsLeaf ==
    ASSUME NEW claims, NEW path, Len(path) \in Nat
    PROVE  LookupPath(claims, path) = Leaf(claims, path)
<1> DEFINE L == Len(path)
<1>1. PICK f : f = CHOOSE g : Walks(g, claims, path, L)
    OBVIOUS
<1>2. PICK d : d = CHOOSE g : Descends(g, claims, path, L)
    OBVIOUS
<1>3. Walks(f, claims, path, L)
    BY <1>1, Walking DEF WalksUpTo
<1>4. Descends(d, claims, path, L)
  <2>1. \E g : Descends(g, claims, path, L)
      BY <1>3, WalkIsDescent
  <2> QED
      BY <1>2, <2>1
<1>5. f[L] = d[L]
    BY <1>3, <1>4, WalkIsDescent, WalkIsUnique
<1>6. LookupPath(claims, path) = IF path = <<>> THEN Missing ELSE f[L]
    BY <1>1 DEF LookupPath, Walks
<1>7. Leaf(claims, path) = IF path = <<>> THEN Missing ELSE d[L]
    BY <1>2 DEF Leaf, Descends
<1> QED
    BY <1>5, <1>6, <1>7

\* A set of JSON values whose strings are texts and whose members are in the set.
JSONValues(J, W) ==
    \A v \in J : /\ v.type = "string" => v.value \in Text(W)
                 /\ v.type = "array" => v.value \in Seq(J)
                 /\ v.type = "object" => \A k \in DOMAIN v.value : v.value[k] \in J

\* What a path names is such a value, or missing.
LEMMA LeafIsJSON ==
    ASSUME NEW J, NEW W, JSONValues(J, W), NEW claims \in J, NEW path, Len(path) \in Nat
    PROVE  LookupPath(claims, path) \in J \cup {Missing}
<1> DEFINE L == Len(path)
<1>1. PICK f : f = CHOOSE g : Walks(g, claims, path, L)
    OBVIOUS
<1>2. Walks(f, claims, path, L)
    BY <1>1, Walking DEF WalksUpTo
<1>3. LookupPath(claims, path) = IF path = <<>> THEN Missing ELSE f[L]
    BY <1>1 DEF LookupPath, Walks
<1> DEFINE S == {n \in 0 .. L : f[n] \in J \cup {Missing}}
<1>4. 0 \in S
    BY <1>2 DEF Walks
<1>5. ASSUME NEW n \in 0 .. L, n \in S, n < L PROVE n + 1 \in S
  <2>1. n + 1 \in 0 .. L /\ n + 1 # 0 /\ (n + 1) - 1 = n
      BY <1>5
  <2>2. f[n + 1] = Member(f[n], path[n + 1])
      BY <1>2, <2>1 DEF Walks
  <2>3. Member(f[n], path[n + 1]) \in J \cup {Missing}
    <3>1. CASE f[n] \in J
        BY <3>1 DEF JSONValues, Member
    <3>2. CASE f[n] = Missing
        BY <3>2 DEF Member, Missing, JSON
    <3> QED
        BY <1>5, <3>1, <3>2
  <2> QED
      BY <2>1, <2>2, <2>3
<1>6. \A n \in 0 .. L : n \in S
  <2> HIDE DEF S
  <2> QED
      BY <1>4, <1>5, UpTo
<1> QED
    BY <1>3, <1>6

\* Trimming keeps the word, and leaves nothing of a text of blanks.
LEMMA Trimming ==
    ASSUME NEW W, NEW t \in Text(W)
    PROVE  /\ TrimSpace(t).word = t.word /\ TrimSpace(t).padded = FALSE
           /\ TrimSpace(t) = Empty <=> t.word = ""
<1>1. PICK no : no = FALSE
    OBVIOUS
<1>2. PICK B : B = BOOLEAN
    OBVIOUS
<1>3. t \in [word : W, upper : B, padded : B]
    BY <1>2 DEF Text
<1>4. Empty = [word |-> "", upper |-> no, padded |-> no]
    BY <1>1 DEF Empty, Lower
<1>5. CASE t.word = ""
  <2>1. TrimSpace(t) = Empty
      BY <1>5 DEF TrimSpace
  <2>2. Empty.word = "" /\ Empty.padded = no
      BY <1>4
  <2> QED
      BY <1>1, <1>5, <2>1, <2>2
<1>6. CASE t.word # ""
  <2>1. PICK u : u = [t EXCEPT !.padded = no]
      OBVIOUS
  <2>2. u.word = t.word /\ u.padded = no
      BY <1>3, <2>1
  <2>3. TrimSpace(t) = u
      BY <1>1, <1>6, <2>1 DEF TrimSpace
  <2>4. Empty.word = ""
      BY <1>4
  <2> QED
      BY <1>1, <1>6, <2>2, <2>3, <2>4
<1> QED
    BY <1>5, <1>6

\* Who has a role of the name among the strings that are there.
LEMMA RoleAmong ==
    ASSUME NEW W, NEW S \in SUBSET Text(W), NEW admin \in Text(W)
    PROVE  (\E t \in {TrimSpace(s) : s \in S} \ {Empty} : EqualFold(t, admin))
           <=> ~admin.padded /\ \E s \in S : s.word = admin.word /\ s.word # ""
<1>1. ASSUME NEW s \in S
      PROVE  /\ TrimSpace(s).word = s.word /\ TrimSpace(s).padded = FALSE
             /\ TrimSpace(s) = Empty <=> s.word = ""
    BY Trimming
<1>2. admin.padded \in BOOLEAN
  <2>1. PICK B : B = BOOLEAN
      OBVIOUS
  <2>2. admin \in [word : W, upper : B, padded : B]
      BY <2>1 DEF Text
  <2> QED
      BY <2>1, <2>2
<1>3. ASSUME NEW s \in S
      PROVE  EqualFold(TrimSpace(s), admin) <=> s.word = admin.word /\ ~admin.padded
    BY <1>1, <1>2 DEF EqualFold
<1> QED
    BY <1>1, <1>3

\* The claims of a login, whatever values they are made of, a path of any length into
\* them and any role: the identity is an admin's exactly if the role was granted, as
\* the claim itself or as a string of an array, in any case, with blanks around it or not
\* (identity.go 18-21 and 102-136).
THEOREM EveryAdminIsGranted ==
    \A J, W, P, claims, path, adminRole :
       JSONValues(J, W) /\ claims \in J /\ path \in Seq(P) /\ adminRole \in Text(W)
       => AdminAsGranted(claims, path, adminRole)
<1> SUFFICES ASSUME NEW J, NEW W, NEW P, NEW claims \in J, NEW path \in Seq(P),
                    NEW adminRole \in Text(W), JSONValues(J, W)
             PROVE  AdminAsGranted(claims, path, adminRole)
    OBVIOUS
<1>1. Len(path) \in Nat
    OBVIOUS
<1>2. PICK leaf \in J \cup {Missing} :
         leaf = LookupPath(claims, path) /\ leaf = Leaf(claims, path)
    BY <1>1, LeafIsJSON, LookupIsLeaf
<1>3. PICK S : S = Strings(leaf)
    OBVIOUS
<1>4. /\ leaf.type = "string" => leaf.value \in Text(W)
      /\ leaf.type = "array" => leaf.value \in Seq(J)
  <2>1. Missing.type = "missing"
      BY DEF Missing, JSON
  <2> QED
      BY <1>2, <2>1 DEF JSONValues
<1>5. leaf.type = "array" =>
        \A e \in ToSet(leaf.value) : e.type = "string" => e.value \in Text(W)
  <2>1. leaf.type = "array" => \A e \in ToSet(leaf.value) : e \in J
      BY <1>4 DEF ToSet
  <2> QED
      BY <2>1 DEF JSONValues
<1>6. S \in SUBSET Text(W)
    BY <1>3, <1>4, <1>5 DEF Strings
<1>7. PICK roles : roles = {TrimSpace(s) : s \in S} \ {Empty}
    OBVIOUS
<1>8. Me(claims, path, adminRole).is_admin <=> \E t \in roles : EqualFold(t, adminRole)
  <2>1. User(claims).claims = claims
      BY DEF User
  <2>2. RolesFromClaims(User(claims).claims, path) = roles
      BY <1>2, <1>3, <1>7, <2>1 DEF RolesFromClaims
  <2> QED
      BY <2>2 DEF Me, NewIdentity
<1>9. Me(claims, path, adminRole).is_admin <=>
        ~adminRole.padded /\ \E s \in S : s.word = adminRole.word /\ s.word # ""
    BY <1>6, <1>7, <1>8, RoleAmong
<1>10. (\E s \in S : s.word = adminRole.word /\ s.word # "") <=>
         \/ leaf.type = "string" /\ leaf.value.word = adminRole.word /\ leaf.value.word # ""
         \/ /\ leaf.type = "array"
            /\ \E e \in ToSet(leaf.value) : /\ e.type = "string"
                                            /\ e.value.word = adminRole.word
                                            /\ e.value.word # ""
    BY <1>3 DEF Strings
<1> QED
    BY <1>2, <1>9, <1>10 DEF AdminAsGranted

\* More values: arrays of those there are, and objects whose members are.
Arrays(J) == {JSON("array", s) : s \in Seq(J)}

\* Such sets can be closed under either.
LEMMA WithArrays ==
    ASSUME NEW J, NEW W, JSONValues(J, W)
    PROVE  JSONValues(J \cup Arrays(J), W)
<1>1. PICK K : K = J \cup Arrays(J)
    OBVIOUS
<1>2. ASSUME NEW v \in J
      PROVE  /\ v.type = "string" => v.value \in Text(W)
             /\ v.type = "array" => v.value \in Seq(K)
             /\ v.type = "object" => \A k \in DOMAIN v.value : v.value[k] \in K
  <2>1. Seq(J) \subseteq Seq(K)
      BY <1>1
  <2> QED
      BY <1>1, <2>1 DEF JSONValues
<1>3. ASSUME NEW v \in Arrays(J) PROVE v.type = "array" /\ v.value \in Seq(K)
  <2>1. PICK s \in Seq(J) : v = JSON("array", s)
      BY DEF Arrays
  <2>2. s \in Seq(K)
      BY <1>1
  <2> QED
      BY <2>1, <2>2 DEF JSON
<1> QED
    BY <1>1, <1>2, <1>3 DEF JSONValues

\* The same for objects of the given keys.
LEMMA WithObjects ==
    ASSUME NEW J, NEW W, NEW keys, JSONValues(J, W)
    PROVE  JSONValues(J \cup Objects(keys, J), W)
<1>1. PICK K : K = J \cup Objects(keys, J)
    OBVIOUS
<1>2. ASSUME NEW v \in J
      PROVE  /\ v.type = "string" => v.value \in Text(W)
             /\ v.type = "array" => v.value \in Seq(K)
             /\ v.type = "object" => \A k \in DOMAIN v.value : v.value[k] \in K
  <2>1. Seq(J) \subseteq Seq(K)
      BY <1>1
  <2> QED
      BY <1>1, <2>1 DEF JSONValues
<1>3. ASSUME NEW v \in Objects(keys, J)
      PROVE  v.type = "object" /\ \A k \in DOMAIN v.value : v.value[k] \in K
  <2>1. PICK f \in [keys -> J] : v = JSON("object", f)
      BY DEF Objects
  <2> QED
      BY <1>1, <2>1 DEF JSON
<1> QED
    BY <1>1, <1>2, <1>3 DEF JSONValues

\* More members make more objects.
LEMMA ObjectsGrow ==
    ASSUME NEW J, NEW K, J \subseteq K, NEW keys
    PROVE  Objects(keys, J) \subseteq Objects(keys, K)
BY DEF Objects

\* The claims that the run enumerates are made of such values.
LEMMA RoleClaimsAreJSON ==
    \E J, W : /\ JSONValues(J, W) /\ RoleClaims \subseteq J
             /\ {Empty, Blank, Lower("admin"), Admin} \subseteq Text(W)
<1>1. PICK W : W = {"", "admin", "user"}
    OBVIOUS
<1>2. PICK A : A = Leaves
    OBVIOUS
<1>3. JSONValues(A, W) /\ {Empty, Blank, Lower("admin"), Admin} \subseteq Text(W)
  <2>1. PICK B : B = BOOLEAN
      OBVIOUS
  <2>2. FALSE \in B /\ TRUE \in B
      BY <2>1
  <2>3. PICK no, yes \in B : no = FALSE /\ yes = TRUE
      BY <2>2
  <2>4. \A w \in W : \A u, p \in B : [word |-> w, upper |-> u, padded |-> p] \in Text(W)
      BY <2>1 DEF Text
  <2>5. \A w \in W : Lower(w) \in Text(W)
      BY <2>3, <2>4 DEF Lower
  <2>6. Admin \in Text(W)
      BY <1>1, <2>3, <2>4 DEF Admin
  <2>7. Empty \in Text(W)
      BY <1>1, <2>5 DEF Empty
  <2>8. Blank \in Text(W)
    <3>1. Empty = [word |-> "", upper |-> no, padded |-> no]
        BY <2>3 DEF Empty, Lower
    <3>2. PICK e : e = Empty
        OBVIOUS
    <3>3. PICK b : b = [e EXCEPT !.padded = yes]
        OBVIOUS
    <3>4. b = [word |-> "", upper |-> no, padded |-> yes]
        BY <3>1, <3>2, <3>3
    <3>5. b \in Text(W)
        BY <1>1, <2>4, <3>4
    <3> QED
        BY <2>3, <3>2, <3>3, <3>5 DEF Blank
  <2>9. PICK texts : texts = {Empty, Blank, Lower("admin"), Admin, Lower("user")}
      OBVIOUS
  <2>10. \A t \in texts : t \in Text(W)
      BY <1>1, <2>5, <2>6, <2>7, <2>8, <2>9
  <2>11. \A v \in A : v.type # "object" /\ v.type # "array"
                     /\ (v.type = "string" => v.value \in Text(W))
    <3>1. A = {String(t) : t \in texts} \cup {JSON("number", 0)}
        BY <1>2, <2>9 DEF Leaves
    <3>2. \A t \in texts : String(t).type = "string" /\ String(t).value = t
        BY DEF String, JSON
    <3>3. JSON("number", 0).type = "number"
        BY DEF JSON
    <3> QED
        BY <2>10, <3>1, <3>2, <3>3
  <2> QED
      BY <2>9, <2>10, <2>11 DEF JSONValues
<1>4. PICK A1 : A1 = A \cup Arrays(A)
    OBVIOUS
<1>5. PICK A2 : A2 = A1 \cup Arrays(A1)
    OBVIOUS
<1>6. JSONValues(A1, W) /\ JSONValues(A2, W)
    BY <1>3, <1>4, <1>5, WithArrays
<1>7. Values \subseteq A2
  <2>1. BoundedSeq(A, 2) \subseteq Seq(A)
    <3>1. BoundedSeq(A, 2) = UNION {[1 .. m -> A] : m \in 0 .. 2}
        BY DEF BoundedSeq, SeqOf
    <3>2. ASSUME NEW s \in BoundedSeq(A, 2) PROVE s \in Seq(A)
      <4>1. PICK m \in 0 .. 2 : s \in [1 .. m -> A]
          BY <3>1
      <4> QED
          BY <4>1
    <3> QED
        BY <3>2
  <2>2. {JSON("array", s) : s \in BoundedSeq(A, 2)} \subseteq A1
      BY <1>4, <2>1 DEF Arrays
  <2>3. String(Admin) \in A
      BY <1>2 DEF Leaves
  <2>4. <<String(Admin)>> \in Seq(A)
      BY <2>3
  <2>5. JSON("array", <<String(Admin)>>) \in A1
      BY <1>4, <2>4 DEF Arrays
  <2>6. <<JSON("array", <<String(Admin)>>)>> \in Seq(A1)
      BY <2>5
  <2>7. JSON("array", <<JSON("array", <<String(Admin)>>)>>) \in A2
      BY <1>5, <2>6 DEF Arrays
  <2> QED
      BY <1>2, <1>4, <1>5, <2>2, <2>7 DEF Values
<1>8. PICK J1 : J1 = A2 \cup Objects({"roles"}, A2)
    OBVIOUS
<1>9. PICK J2 : J2 = J1 \cup Objects({"roles"}, J1)
    OBVIOUS
<1>10. PICK J : J = J2 \cup Objects({"realm_access"}, J2)
    OBVIOUS
<1>11. JSONValues(J, W)
  <2>1. JSONValues(J1, W)
      BY <1>6, <1>8, WithObjects
  <2>2. JSONValues(J2, W)
      BY <1>9, <2>1, WithObjects
  <2> QED
      BY <1>10, <2>2, WithObjects
<1>12. Values \subseteq J1 /\ Objects({"roles"}, Values) \subseteq J1
    BY <1>7, <1>8, ObjectsGrow
<1>13. PICK V : V = Values \cup Objects({"roles"}, Values)
    OBVIOUS
<1>14. V \subseteq J1 /\ J1 \subseteq J2 /\ J2 \subseteq J
    BY <1>9, <1>10, <1>12, <1>13
<1>15. Objects({"roles"}, V) \subseteq J
    BY <1>9, <1>10, <1>14, ObjectsGrow
<1>16. Objects({"realm_access"}, V) \subseteq J
  <2>1. V \subseteq J2
      BY <1>14
  <2>2. Objects({"realm_access"}, V) \subseteq Objects({"realm_access"}, J2)
      BY <2>1, ObjectsGrow
  <2> QED
      BY <1>10, <2>2
<1>17. RoleClaims \subseteq J
  <2>1. Objects({"realm_access"}, Objects({"roles"}, Values) \cup Values)
        = Objects({"realm_access"}, V)
    <3>1. Objects({"roles"}, Values) \cup Values = V
        BY <1>13
    <3> QED
        BY <3>1
  <2> QED
      BY <1>13, <1>15, <1>16, <2>1 DEF RoleClaims
<1> QED
    BY <1>3, <1>11, <1>17

\* The claims, paths and roles that the run enumerates among them.
THEOREM EnumeratedAdminsAreGranted == Spec => []AdminsGranted
<1> DEFINE Enumerated ==
             input.of = "roles" =>
                /\ input.claims \in RoleClaims
                /\ input.path \in RolePaths
                /\ input.adminRole \in {Empty, Blank, Lower("admin"), Admin}
<1>1. Init => Enumerated
    BY DEF Init, Inputs
<1>2. Enumerated /\ [Next]_<<input, migrations, theme>> => Enumerated'
    BY DEF Next
<1>3. ASSUME NEW claims \in RoleClaims, NEW path \in RolePaths,
             NEW adminRole \in {Empty, Blank, Lower("admin"), Admin}
      PROVE  AdminAsGranted(claims, path, adminRole)
  <2>1. PICK J, W : /\ JSONValues(J, W) /\ RoleClaims \subseteq J
                    /\ {Empty, Blank, Lower("admin"), Admin} \subseteq Text(W)
      BY RoleClaimsAreJSON
  <2>2. claims \in J /\ adminRole \in Text(W)
      BY <2>1
  <2>3. PICK P : P = {"roles", "realm_access", "x"}
      OBVIOUS
  <2>4. "roles" \in P /\ "realm_access" \in P /\ "x" \in P
      BY <2>3
  <2>5. path \in Seq(P)
    <3>1. /\ <<>> \in Seq(P) /\ <<"roles">> \in Seq(P)
          /\ <<"realm_access", "roles">> \in Seq(P) /\ <<"roles", "x">> \in Seq(P)
        BY <2>4
    <3> QED
        BY <3>1 DEF RolePaths
  <2> QED
      BY <2>1, <2>2, <2>5, EveryAdminIsGranted
<1>4. Enumerated => AdminsGranted
    BY <1>3 DEF AdminsGranted
<1> QED
    BY <1>1, <1>2, <1>4, PTL DEF Spec

-----------------------------------------------------------------------------
(* The theme.                                                               *)

Paintings == (T!Preference \cup {"none", "other"}) \X BOOLEAN

ThemeDocument ==
    [phase : {"closed", "painted", "mounted", "failed"}, preference : T!Preference,
     systemDark : BOOLEAN, dark : BOOLEAN, paintedFor : Paintings, behind : BOOLEAN]

\* A painted document shows what it was painted for, and a mounted one what its store
\* holds, which is the stored preference unless another tab has replaced that.
DocumentOK(d) ==
    /\ d.phase = "painted" /\ ~refused =>
         (d.dark <=> T!Dark(T!NormalizePreference(d.paintedFor[1]), d.paintedFor[2]))
    /\ d.phase = "mounted" =>
         /\ ~refused
         /\ d.dark <=> T!Dark(d.preference, d.systemDark)
         /\ ~d.behind => d.preference = T!NormalizePreference(stored)

ThemeInv ==
    /\ stored \in T!Preference \cup {"none", "other"}
    /\ os \in BOOLEAN /\ refused \in BOOLEAN
    /\ document \in [Tab -> ThemeDocument]
    /\ \A t \in Tab : DocumentOK(document[t])

\* Whether a document is dark is yes or no.
LEMMA DarkFacts ==
    ASSUME NEW preference, NEW systemDark \in BOOLEAN
    PROVE  T!Dark(preference, systemDark) \in BOOLEAN
    BY DEF T!Dark

\* The script of the page and the store agree on what is stored.
LEMMA PaintedFacts ==
    ASSUME NEW raw, NEW systemDark \in BOOLEAN
    PROVE  T!Painted(raw, systemDark) = T!Dark(T!NormalizePreference(raw), systemDark)
<1>1. CASE raw \in T!Preference
  <2>1. T!NormalizePreference(raw) = raw
      BY <1>1 DEF T!NormalizePreference
  <2>2. raw = "light" \/ raw = "dark" \/ raw = "system"
      BY <1>1 DEF T!Preference
  <2> QED
      BY <2>1, <2>2 DEF T!Painted, T!Dark
<1>2. CASE raw \notin T!Preference
  <2>1. T!NormalizePreference(raw) = "system"
      BY <1>2 DEF T!NormalizePreference
  <2>2. raw # "light" /\ raw # "dark" /\ raw # "system"
      BY <1>2 DEF T!Preference
  <2> QED
      BY <2>1, <2>2 DEF T!Painted, T!Dark
<1> QED
    BY <1>1, <1>2

\* A normalised preference is one, and a preference is its own.
LEMMA NormalFacts ==
    ASSUME NEW raw
    PROVE  /\ T!NormalizePreference(raw) \in T!Preference
           /\ raw \in T!Preference => T!NormalizePreference(raw) = raw
    BY DEF T!NormalizePreference, T!Preference

\* What the store applies is what it believes, and changes nothing else.
LEMMA AppliedFacts ==
    ASSUME NEW d \in ThemeDocument, NEW e, e = T!Applied(d)
    PROVE  /\ e \in ThemeDocument
           /\ e.phase = d.phase /\ e.preference = d.preference
           /\ e.systemDark = d.systemDark /\ e.behind = d.behind
           /\ e.dark <=> T!Dark(d.preference, d.systemDark)
<1>1. PICK b \in BOOLEAN : b = T!Dark(d.preference, d.systemDark)
    BY DarkFacts DEF ThemeDocument
<1>2. e = [d EXCEPT !.dark = b]
    BY <1>1 DEF T!Applied
<1>3. /\ e \in ThemeDocument
      /\ e.phase = d.phase /\ e.preference = d.preference
      /\ e.systemDark = d.systemDark /\ e.behind = d.behind /\ e.dark = b
    BY <1>2 DEF ThemeDocument
<1> QED
    BY <1>1, <1>3

\* Only the document of tab t changes.
LEMMA OneDocument ==
    ASSUME ThemeInv, NEW t \in Tab, NEW D \in ThemeDocument,
           document' = [document EXCEPT ![t] = D], UNCHANGED <<stored, os, refused>>,
           DocumentOK(D)
    PROVE  ThemeInv'
<1>1. /\ stored' = stored /\ os' = os /\ refused' = refused
      /\ document' \in [Tab -> ThemeDocument]
      /\ document'[t] = D /\ \A u \in Tab \ {t} : document'[u] = document[u]
    BY DEF ThemeInv
<1>2. ASSUME NEW u \in Tab PROVE DocumentOK(document[u])'
  <2>1. DocumentOK(document'[u])
      BY <1>1 DEF ThemeInv
  <2> QED
      BY <1>1, <2>1 DEF DocumentOK
<1> QED
    BY <1>1, <1>2 DEF ThemeInv

\* A closed tab shows nothing.
LEMMA ClosedFacts ==
    T!Closed \in ThemeDocument /\ T!Closed.phase = "closed"
<1>1. PICK no \in BOOLEAN : no = FALSE
    OBVIOUS
<1>2. T!Closed = [phase |-> "closed", preference |-> "system", systemDark |-> no,
                  dark |-> no, paintedFor |-> <<"system", no>>, behind |-> no]
    BY <1>1 DEF T!Closed
<1> QED
    BY <1>2 DEF ThemeDocument, Paintings, T!Preference

\* app.html paints from storage, or light where that fails.
LEMMA PaintStep ==
    ASSUME ThemeInv, NEW t \in Tab, T!Paint(t)
    PROVE  ThemeInv'
<1>1. PICK b \in BOOLEAN : b = (~refused /\ T!Painted(stored, os))
    OBVIOUS
<1>2. PICK p : p = <<stored, os>>
    OBVIOUS
<1>3. PICK D : D = [T!Closed EXCEPT !.phase = "painted", !.dark = b, !.paintedFor = p]
    OBVIOUS
<1>4. /\ document' = [document EXCEPT ![t] = D]
      /\ UNCHANGED <<stored, os, refused>>
    BY <1>1, <1>2, <1>3 DEF T!Paint
<1>5. p[1] = stored /\ p[2] = os /\ p \in Paintings
    BY <1>2 DEF ThemeInv, Paintings
<1>6. D \in ThemeDocument /\ D.phase = "painted" /\ D.dark = b /\ D.paintedFor = p
    BY <1>3, <1>5, ClosedFacts DEF ThemeDocument
<1>7. T!Painted(stored, os) = T!Dark(T!NormalizePreference(stored), os)
    BY PaintedFacts DEF ThemeInv
<1>8. DocumentOK(D)
    BY <1>1, <1>5, <1>6, <1>7 DEF DocumentOK
<1> QED
    BY <1>4, <1>6, <1>8, OneDocument

\* The store mounts on what was painted, and repaints if it differs.
LEMMA MountStep ==
    ASSUME ThemeInv, NEW t \in Tab, T!Init(t)
    PROVE  ThemeInv'
<1>1. document[t] \in ThemeDocument /\ DocumentOK(document[t])
    BY DEF ThemeInv
<1>2. UNCHANGED <<stored, os, refused>> /\ document[t].phase = "painted"
    BY DEF T!Init
<1>3. CASE refused
  <2>1. PICK D : D = [document[t] EXCEPT !.phase = "failed"]
      OBVIOUS
  <2>2. document' = [document EXCEPT ![t] = D]
      BY <1>3, <2>1 DEF T!Init
  <2>3. D \in ThemeDocument /\ D.phase = "failed"
      BY <1>1, <2>1 DEF ThemeDocument
  <2>4. DocumentOK(D)
      BY <2>3 DEF DocumentOK
  <2> QED
      BY <1>2, <2>2, <2>3, <2>4, OneDocument
<1>4. CASE ~refused
  <2>1. PICK d : d = [document[t] EXCEPT !.phase = "mounted", !.systemDark = os,
                                         !.preference = T!NormalizePreference(stored)]
      OBVIOUS
  <2>2. PICK D : D = T!Applied(d)
      OBVIOUS
  <2>3. document' = [document EXCEPT ![t] = D]
      BY <1>4, <2>1, <2>2 DEF T!Init
  <2>4. /\ d \in ThemeDocument /\ d.phase = "mounted"
        /\ d.preference = T!NormalizePreference(stored)
    <3>1. PICK w \in T!Preference : w = T!NormalizePreference(stored)
        BY NormalFacts
    <3>2. PICK b \in BOOLEAN : b = os
        BY DEF ThemeInv
    <3>3. d = [document[t] EXCEPT !.phase = "mounted", !.systemDark = b,
                                  !.preference = w]
        BY <2>1, <3>1, <3>2
    <3> QED
        BY <1>1, <3>1, <3>3 DEF ThemeDocument
  <2>5. /\ D \in ThemeDocument /\ D.phase = "mounted"
        /\ D.preference = T!NormalizePreference(stored)
        /\ D.dark <=> T!Dark(D.preference, D.systemDark)
      BY <2>2, <2>4, AppliedFacts
  <2>6. DocumentOK(D)
      BY <1>4, <2>5 DEF DocumentOK
  <2> QED
      BY <1>2, <2>3, <2>5, <2>6, OneDocument
<1> QED
    BY <1>3, <1>4

\* A mounted store follows the system, an unmounted one falls behind.
LEMMA SystemStep ==
    ASSUME ThemeInv, NEW t \in Tab, T!OnSystemChange(t)
    PROVE  ThemeInv'
<1>1. document[t] \in ThemeDocument /\ DocumentOK(document[t]) /\ os \in BOOLEAN
    BY DEF ThemeInv
<1>2. UNCHANGED <<stored, os, refused>> /\ document[t].phase = "mounted"
    BY DEF T!OnSystemChange
<1>3. PICK d : d = [document[t] EXCEPT !.systemDark = os]
    OBVIOUS
<1>4. PICK D : D = T!Applied(d)
    OBVIOUS
<1>5. document' = [document EXCEPT ![t] = D]
    BY <1>3, <1>4 DEF T!OnSystemChange
<1>6. /\ d \in ThemeDocument /\ d.phase = "mounted" /\ d.behind = document[t].behind
      /\ d.preference = document[t].preference
    BY <1>1, <1>2, <1>3 DEF ThemeDocument
<1>7. /\ D \in ThemeDocument /\ D.phase = "mounted" /\ D.behind = document[t].behind
      /\ D.preference = document[t].preference
      /\ D.dark <=> T!Dark(D.preference, D.systemDark)
    BY <1>4, <1>6, AppliedFacts
<1>8. DocumentOK(D)
    BY <1>1, <1>2, <1>7 DEF DocumentOK
<1> QED
    BY <1>2, <1>5, <1>7, <1>8, OneDocument

\* A tab that sets the theme shows it, and the others hear of it or fall behind.
LEMMA SetStep ==
    ASSUME ThemeInv, NEW t \in Tab, NEW p \in T!Preference, T!Set(t, p)
    PROVE  ThemeInv'
<1>1. \A u \in Tab : document[u] \in ThemeDocument /\ DocumentOK(document[u])
    BY DEF ThemeInv
<1>2. os' = os /\ refused' = refused
    BY DEF T!Set
<1>3. CASE refused
  <2>1. PICK D : D = [document[t] EXCEPT !.preference = p]
      OBVIOUS
  <2>2. /\ document' = [document EXCEPT ![t] = D] /\ stored' = stored
        /\ document[t].phase = "failed"
      BY <1>3, <2>1 DEF T!Set
  <2>3. D \in ThemeDocument /\ D.phase = "failed"
      BY <1>1, <2>1, <2>2 DEF ThemeDocument
  <2>4. DocumentOK(D)
      BY <2>3 DEF DocumentOK
  <2> QED
      BY <1>2, <2>2, <2>3, <2>4, OneDocument
<1>4. CASE ~refused
  <2>1. PICK no \in BOOLEAN : no = FALSE
      OBVIOUS
  <2>2. PICK d : d = [document[t] EXCEPT !.preference = p, !.behind = no]
      OBVIOUS
  <2>3. PICK D : D = T!Applied(d)
      OBVIOUS
  <2>4. /\ document[t].phase = "mounted" /\ stored' = p
        /\ document' = [u \in Tab |->
              IF u = t THEN D
              ELSE [document[u] EXCEPT !.behind = document[u].phase = "mounted"]]
      BY <1>4, <2>1, <2>2, <2>3 DEF T!Set
  <2>5. d \in ThemeDocument /\ d.phase = "mounted" /\ d.preference = p
      BY <1>1, <2>2, <2>4 DEF ThemeDocument
  <2>6. /\ D \in ThemeDocument /\ D.phase = "mounted" /\ D.preference = p
        /\ D.dark <=> T!Dark(D.preference, D.systemDark)
      BY <2>3, <2>5, AppliedFacts
  <2>7. stored' \in T!Preference /\ T!NormalizePreference(stored') = p
      BY <2>4, NormalFacts
  <2>8. ASSUME NEW u \in Tab
        PROVE  document'[u] \in ThemeDocument /\ DocumentOK(document[u])'
    <3>1. CASE u = t
      <4>1. document'[u] = D
          BY <2>4, <3>1
      <4> QED
          BY <1>2, <1>4, <2>6, <2>7, <4>1 DEF DocumentOK
    <3>2. CASE u # t
      <4>1. PICK b \in BOOLEAN : b = (document[u].phase = "mounted")
          OBVIOUS
      <4>2. PICK e : e = [document[u] EXCEPT !.behind = b]
          OBVIOUS
      <4>3. document'[u] = e
          BY <2>4, <3>2, <4>1, <4>2
      <4>4. /\ e \in ThemeDocument /\ e.phase = document[u].phase /\ e.behind = b
            /\ e.preference = document[u].preference
            /\ e.systemDark = document[u].systemDark
            /\ e.dark = document[u].dark /\ e.paintedFor = document[u].paintedFor
          BY <1>1, <4>2 DEF ThemeDocument
      <4>5. e.phase = "mounted" => e.behind
          BY <4>1, <4>4
      <4> QED
          BY <1>1, <1>2, <4>3, <4>4, <4>5 DEF DocumentOK
    <3> QED
        BY <3>1, <3>2
  <2> QED
      BY <1>2, <2>4, <2>7, <2>8 DEF ThemeInv
<1> QED
    BY <1>3, <1>4

\* ThemeInv is kept by every step of the tabs, the storage and the system.
LEMMA ThemeInductive ==
    /\ T!Start => ThemeInv
    /\ ThemeInv /\ [T!Next]_theme => ThemeInv'
<1>1. ASSUME T!Start PROVE ThemeInv
  <2>1. DocumentOK(T!Closed)
      BY ClosedFacts DEF DocumentOK
  <2> QED
      BY <1>1, <2>1, ClosedFacts DEF T!Start, ThemeInv
<1>2. ASSUME ThemeInv, UNCHANGED theme PROVE ThemeInv'
    BY <1>2 DEF theme, ThemeInv, DocumentOK
<1>3. ASSUME ThemeInv, T!SystemChange PROVE ThemeInv'
    BY <1>3 DEF T!SystemChange, ThemeInv, DocumentOK
<1> QED
    BY <1>1, <1>2, <1>3, PaintStep, MountStep, SystemStep, SetStep DEF T!Next

\* Whatever number of tabs change the theme, reload and follow the system, in any
\* order: what a tab shows is what it would show after a reload (theme.svelte.ts).
THEOREM ThemeIsShownAsReloaded == Spec => []ShownAsReloaded
<1>1. Init => T!Start
    BY DEF Init
<1>2. [Next]_<<input, migrations, theme>> => [T!Next]_theme
    BY DEF Next
<1>3. ASSUME ThemeInv PROVE ShownAsReloaded
  <2> SUFFICES ASSUME NEW t \in Tab,
                      \/ /\ document[t].phase = "painted" /\ ~refused
                         /\ document[t].paintedFor = <<stored, os>>
                      \/ /\ document[t].phase = "mounted" /\ ~document[t].behind
                         /\ document[t].systemDark = os
               PROVE  /\ document[t].dark = T!Dark(T!NormalizePreference(stored), os)
                      /\ document[t].dark = T!Painted(stored, os)
      BY DEF ShownAsReloaded, T!ShownAsReloaded
  <2>1. document[t] \in ThemeDocument /\ DocumentOK(document[t]) /\ os \in BOOLEAN
      BY <1>3 DEF ThemeInv
  <2>2. PICK b \in BOOLEAN : b = document[t].dark
      BY <2>1 DEF ThemeDocument
  <2>3. b <=> T!Dark(T!NormalizePreference(stored), os)
      BY <2>1, <2>2 DEF DocumentOK
  <2>4. b = T!Dark(T!NormalizePreference(stored), os)
      BY <2>1, <2>3, DarkFacts
  <2>5. T!Painted(stored, os) = T!Dark(T!NormalizePreference(stored), os)
      BY <2>1, PaintedFacts
  <2> QED
      BY <2>2, <2>4, <2>5
<1> QED
    BY <1>1, <1>2, <1>3, ThemeInductive, PTL DEF Spec

-----------------------------------------------------------------------------
(* The migrations.                                                          *)

IsEntry(e) == e = M!Entry(e.version, e.slug) /\ e.version \in Nat

\* Entries as a developer may find them: one migration for a version, and versions
\* that have a bound, as a finite set's have.
EntriesOK(entries) ==
    /\ \A e \in entries : IsEntry(e)
    /\ \A e, f \in M!Numbered(entries) : e.version = f.version => e = f
    /\ \E b \in Nat : \A e \in entries : e.version <= b

IsCreator(r) == /\ r = [step |-> r.step, version |-> r.version, slug |-> r.slug]
                /\ r.step \in {"idle", "read"} /\ r.version \in Nat

\* With a file, every one below it.
ClosedIn(files, all) == \A e \in files, f \in all : f.version <= e.version => f \in files

TreesOK ==
    /\ tree = [d \in Developer |-> tree[d]]
    /\ \A d \in Developer : \A e \in tree[d] : IsEntry(e)
    /\ \A e \in embedded \cup applied : IsEntry(e) /\ e.version > 0
    /\ \E b \in Nat : /\ \A d \in Developer : \A e \in tree[d] : e.version <= b
                      /\ \A e \in embedded \cup applied : e.version <= b

\* With creates made in turn there is one history, of which every tree, the binary and
\* the database hold a beginning; whoever is about to add to it holds it all.
OneHistory ==
    /\ \A e, f \in M!Existing : e.version = f.version => e = f
    /\ \A d \in Developer : ClosedIn(M!Numbered(tree[d]), M!Existing)
    /\ ClosedIn(embedded, M!Existing)
    /\ ClosedIn(applied, M!Existing)
    /\ \A d \in Developer : creator[d].step = "read" =>
         /\ M!Existing \subseteq tree[d]
         /\ \A e \in M!Existing : e.version < creator[d].version
         /\ \A f \in Developer \ {d} : creator[f].step = "idle"

MigrationsInv ==
    /\ TreesOK
    /\ creator = [d \in Developer |-> creator[d]]
    /\ \A d \in Developer : IsCreator(creator[d])
    /\ linear \in BOOLEAN
    /\ linear => OneHistory

\* Bounded numbers have a greatest one: the bound has a least distance to them.
LEMMA GreatestNatural ==
    ASSUME NEW S \in SUBSET Nat, S # {}, NEW b \in Nat, \A v \in S : v <= b
    PROVE  M!Max(S) \in S /\ \A v \in S : v <= M!Max(S)
<1>1. PICK gaps : gaps = {b - v : v \in S}
    OBVIOUS
<1>2. gaps \in SUBSET Nat /\ gaps # {}
  <2>1. ASSUME NEW v \in S PROVE b - v \in Nat /\ b - v \in gaps
    <3>1. v \in Nat /\ v <= b
        OBVIOUS
    <3>2. b - v \in Nat
        BY <3>1
    <3> QED
        BY <1>1, <3>2
  <2>2. \A gap \in gaps : gap \in Nat
      BY <1>1, <2>1
  <2>3. gaps # {}
      BY <2>1
  <2> QED
      BY <2>2, <2>3
<1>3. PICK gap \in gaps : \A k \in gaps : gap <= k
    BY <1>2, LeastNatural
<1>4. PICK v \in S : gap = b - v
    BY <1>1, <1>3
<1>5. ASSUME NEW w \in S PROVE v >= w
  <2>1. gap <= b - w
      BY <1>1, <1>3
  <2> QED
      BY <1>4, <2>1
<1>6. \E x \in S : \A y \in S : x >= y
    BY <1>5
<1>7. M!Max(S) \in S /\ \A y \in S : M!Max(S) >= y
    BY <1>6 DEF M!Max
<1> QED
    BY <1>7

\* nextVersion is above every version in the directory.
LEMMA NextVersionFacts ==
    ASSUME NEW entries, \A e \in entries : IsEntry(e),
           NEW b \in Nat, \A e \in entries : e.version <= b
    PROVE  /\ M!NextVersion(entries) \in Nat /\ M!NextVersion(entries) > 0
           /\ \A e \in entries : e.version < M!NextVersion(entries)
<1>1. PICK S : S = M!Version(M!Numbered(entries))
    OBVIOUS
<1>2. \A e \in entries : e.version \in Nat
    BY DEF IsEntry
<1>3. /\ S \in SUBSET Nat /\ \A v \in S : v <= b
      /\ \A e \in entries : e.version > 0 => e.version \in S
    BY <1>1, <1>2 DEF M!Version, M!Numbered
<1>4. CASE M!Numbered(entries) = {}
  <2>1. M!NextVersion(entries) = 1
      BY <1>4 DEF M!NextVersion
  <2>2. \A e \in entries : e.version = 0
      BY <1>2, <1>4 DEF M!Numbered
  <2> QED
      BY <2>1, <2>2
<1>5. CASE M!Numbered(entries) # {}
  <2>1. S # {}
      BY <1>1, <1>5 DEF M!Version
  <2>2. M!Max(S) \in S /\ \A v \in S : v <= M!Max(S)
      BY <1>3, <2>1, GreatestNatural
  <2>3. M!NextVersion(entries) = M!Max(S) + 1 /\ M!Max(S) \in Nat
      BY <1>1, <1>3, <1>5, <2>2 DEF M!NextVersion
  <2>4. \A e \in entries : e.version < M!NextVersion(entries)
      BY <1>2, <1>3, <2>2, <2>3
  <2> QED
      BY <2>3, <2>4
<1> QED
    BY <1>4, <1>5

\* The database's version is its latest migration's, or 0.
LEMMA CurrentFacts ==
    ASSUME TreesOK
    PROVE  /\ M!Current \in Nat /\ \A e \in applied : e.version <= M!Current
           /\ M!Current > 0 => \E e \in applied : e.version = M!Current
<1>1. PICK S : S = M!Version(applied) \cup {0}
    OBVIOUS
<1>2. PICK b \in Nat : \A e \in applied : e.version <= b
    BY DEF TreesOK
<1>3. \A e \in applied : e.version \in Nat
    BY DEF TreesOK, IsEntry
<1>4. /\ S \in SUBSET Nat /\ S # {} /\ \A v \in S : v <= b
      /\ \A e \in applied : e.version \in S
      /\ \A v \in S : v > 0 => \E e \in applied : e.version = v
    BY <1>1, <1>2, <1>3 DEF M!Version
<1>5. M!Max(S) \in S /\ \A v \in S : v <= M!Max(S)
    BY <1>2, <1>4, GreatestNatural
<1>6. M!Current = M!Max(S)
    BY <1>1 DEF M!Current
<1> QED
    BY <1>4, <1>5, <1>6

\* What there is: numbered entries.
LEMMA ExistingFacts ==
    ASSUME TreesOK
    PROVE  /\ \A e : e \in M!Existing <=>
                       \/ e \in embedded \/ e \in applied
                       \/ \E d \in Developer : e \in tree[d] /\ e.version > 0
           /\ \A e \in M!Existing : IsEntry(e) /\ e.version \in Nat /\ e.version > 0
<1>1. \A e : e \in M!Existing <=>
                \/ e \in embedded \/ e \in applied
                \/ \E d \in Developer : e \in tree[d] /\ e.version > 0
    BY DEF M!Existing, M!Numbered
<1> QED
    BY <1>1 DEF TreesOK, IsEntry

\* With one history no binary skips, or mistakes, what the database has.
LEMMA HistorySkipsNone ==
    ASSUME MigrationsInv
    PROVE  M!NoneSkipped
<1> SUFFICES ASSUME linear
             PROVE  /\ M!Unambiguous
                    /\ \A e \in embedded : e.version <= M!Current => e \in applied
    BY DEF M!NoneSkipped
<1>1. TreesOK /\ OneHistory
    BY DEF MigrationsInv
<1>2. /\ embedded \subseteq M!Existing
      /\ \A e \in embedded : e.version \in Nat /\ e.version > 0
    BY <1>1, ExistingFacts
<1>3. M!Unambiguous
    BY <1>1, <1>2 DEF M!Unambiguous, OneHistory
<1>4. ASSUME NEW e \in embedded, e.version <= M!Current
      PROVE  e \in applied
  <2>1. PICK c \in applied : c.version = M!Current
      BY <1>1, <1>2, <1>4, CurrentFacts
  <2> QED
      BY <1>1, <1>2, <1>4, <2>1 DEF OneHistory, ClosedIn
<1> QED
    BY <1>3, <1>4

\* Nothing is created: what each has is still a beginning of what there was.
LEMMA NothingCreated ==
    ASSUME MigrationsInv, TreesOK', UNCHANGED <<creator, linear>>,
           \A d \in Developer : creator[d].step = "read" => tree'[d] = tree[d],
           linear => /\ \A d \in Developer : /\ M!Numbered(tree'[d]) \subseteq M!Existing
                                             /\ ClosedIn(M!Numbered(tree'[d]), M!Existing)
                     /\ embedded' \subseteq M!Existing /\ applied' \subseteq M!Existing
                     /\ ClosedIn(embedded', M!Existing) /\ ClosedIn(applied', M!Existing)
    PROVE  MigrationsInv'
<1>1. ASSUME linear PROVE OneHistory'
  <2>1. OneHistory
      BY <1>1 DEF MigrationsInv
  <2>2. M!Existing' \subseteq M!Existing
      BY <1>1 DEF M!Existing
  <2>3. \A files : ClosedIn(files, M!Existing) => ClosedIn(files, M!Existing')
      BY <2>2 DEF ClosedIn
  <2>4. \A e, f \in M!Existing' : e.version = f.version => e = f
      BY <2>1, <2>2 DEF OneHistory
  <2>5. \A d \in Developer : creator'[d].step = "read" =>
          /\ M!Existing' \subseteq tree'[d]
          /\ \A e \in M!Existing' : e.version < creator'[d].version
          /\ \A f \in Developer \ {d} : creator'[f].step = "idle"
      BY <2>1, <2>2 DEF OneHistory
  <2>6. /\ \A d \in Developer : ClosedIn(M!Numbered(tree'[d]), M!Existing')
        /\ ClosedIn(embedded', M!Existing') /\ ClosedIn(applied', M!Existing')
      BY <1>1, <2>3
  <2>7. \A d \in Developer : M!Numbered(tree[d])' = M!Numbered(tree'[d])
      BY DEF M!Numbered
  <2> QED
      BY <2>4, <2>5, <2>6, <2>7 DEF OneHistory, ClosedIn
<1>2. /\ creator' = creator /\ linear' = linear
      /\ creator = [d \in Developer |-> creator[d]]
      /\ \A d \in Developer : IsCreator(creator[d])
      /\ linear \in BOOLEAN
    BY DEF MigrationsInv
<1> QED
    BY <1>1, <1>2 DEF MigrationsInv

\* What everyone had before is a beginning of what there was.
LEMMA Beginnings ==
    ASSUME TreesOK
    PROVE  /\ \A d \in Developer : M!Numbered(tree[d]) \subseteq M!Existing
           /\ embedded \subseteq M!Existing /\ applied \subseteq M!Existing
           /\ OneHistory =>
                /\ \A d \in Developer : ClosedIn(M!Numbered(tree[d]), M!Existing)
                /\ ClosedIn(embedded, M!Existing) /\ ClosedIn(applied, M!Existing)
    BY DEF M!Existing, OneHistory

\* A create that reads takes a version above all in its tree; if that is all there is
\* and nobody else creates, the history stays one.
LEMMA ReadStep ==
    ASSUME MigrationsInv, NEW d \in Developer, NEW name \in Name, M!Read(d, name)
    PROVE  MigrationsInv'
<1>1. PICK slug, v : slug = M!Slugify(name) /\ v = M!NextVersion(tree[d])
    OBVIOUS
<1>2. PICK r : r = [step |-> "read", version |-> v, slug |-> slug]
    OBVIOUS
<1>3. /\ creator' = [creator EXCEPT ![d] = r]
      /\ UNCHANGED <<tree, embedded, applied>>
      /\ linear' = (/\ linear /\ M!Existing \subseteq tree[d]
                    /\ \A e \in Developer \ {d} : creator[e].step = "idle")
    BY <1>1, <1>2 DEF M!Read
<1>4. TreesOK
    BY DEF MigrationsInv
<1>5. /\ v \in Nat /\ \A e \in tree[d] : e.version < v
  <2>1. PICK b \in Nat : \A e \in tree[d] : e.version <= b
      BY <1>4 DEF TreesOK
  <2>2. \A e \in tree[d] : IsEntry(e)
      BY <1>4 DEF TreesOK
  <2> QED
      BY <1>1, <2>1, <2>2, NextVersionFacts
<1>6. r.step = "read" /\ r.version = v /\ IsCreator(r)
    BY <1>2, <1>5 DEF IsCreator
<1>7. /\ creator' = [e \in Developer |-> creator'[e]]
      /\ creator'[d] = r /\ \A e \in Developer \ {d} : creator'[e] = creator[e]
    BY <1>3 DEF MigrationsInv
<1>8. \A e \in Developer : IsCreator(creator'[e])
    BY <1>6, <1>7 DEF MigrationsInv
<1>9. TreesOK'
    BY <1>3, <1>4 DEF TreesOK
<1>10. linear' \in BOOLEAN
    BY <1>3
<1>11. ASSUME linear' PROVE OneHistory'
  <2>1. /\ linear /\ M!Existing \subseteq tree[d]
        /\ \A e \in Developer \ {d} : creator[e].step = "idle"
      BY <1>3, <1>11
  <2>2. OneHistory
      BY <2>1 DEF MigrationsInv
  <2>3. M!Existing' = M!Existing
      BY <1>3 DEF M!Existing
  <2>4. ASSUME NEW e \in Developer, creator'[e].step = "read"
        PROVE  /\ M!Existing \subseteq tree[e]
               /\ \A f \in M!Existing : f.version < creator'[e].version
               /\ \A f \in Developer \ {e} : creator'[f].step = "idle"
    <3>1. e = d
        BY <1>7, <2>1, <2>4
    <3> QED
        BY <1>5, <1>6, <1>7, <2>1, <3>1
  <2>5. /\ \A e, f \in M!Existing : e.version = f.version => e = f
        /\ \A e \in Developer : ClosedIn(M!Numbered(tree[e]), M!Existing)
        /\ ClosedIn(embedded, M!Existing) /\ ClosedIn(applied, M!Existing)
      BY <2>2 DEF OneHistory
  <2> QED
      BY <1>3, <2>3, <2>4, <2>5 DEF OneHistory
<1> QED
    BY <1>7, <1>8, <1>9, <1>10, <1>11 DEF MigrationsInv

\* A create that writes adds an entry: with one history, at its end.
LEMMA WriteMigrationStep ==
    ASSUME MigrationsInv, NEW d \in Developer, M!Write(d)
    PROVE  MigrationsInv'
<1>1. PICK v, slug : v = creator[d].version /\ slug = creator[d].slug
    OBVIOUS
<1>2. PICK E : E = M!Entry(v, slug)
    OBVIOUS
<1>3. /\ creator[d].step = "read"
      /\ tree' = [tree EXCEPT ![d] = tree[d] \cup {E}]
      /\ creator' = [creator EXCEPT ![d] = M!Idle]
      /\ UNCHANGED <<embedded, applied, linear>>
    BY <1>1, <1>2 DEF M!Write
<1>4. TreesOK /\ v \in Nat
    BY <1>1 DEF MigrationsInv, IsCreator
<1>5. E.version = v /\ IsEntry(E)
    BY <1>2, <1>4 DEF M!Entry, IsEntry
<1>6. M!Idle.step = "idle" /\ IsCreator(M!Idle)
  <2>1. PICK z \in Nat : z = 0
      OBVIOUS
  <2>2. PICK empty : empty = <<>>
      OBVIOUS
  <2>3. M!Idle = [step |-> "idle", version |-> z, slug |-> empty]
      BY <2>1, <2>2 DEF M!Idle
  <2> QED
      BY <2>3 DEF IsCreator
<1>7. /\ creator' = [e \in Developer |-> creator'[e]]
      /\ creator'[d] = M!Idle /\ \A e \in Developer \ {d} : creator'[e] = creator[e]
    BY <1>3 DEF MigrationsInv
<1>8. \A e \in Developer : IsCreator(creator'[e])
    BY <1>6, <1>7 DEF MigrationsInv
<1>9. /\ tree' = [e \in Developer |-> tree'[e]]
      /\ tree'[d] = tree[d] \cup {E} /\ \A e \in Developer \ {d} : tree'[e] = tree[e]
    BY <1>3, <1>4 DEF TreesOK
<1>10. TreesOK'
  <2>1. PICK b \in Nat : /\ \A e \in Developer : \A f \in tree[e] : f.version <= b
                         /\ \A f \in embedded \cup applied : f.version <= b
      BY <1>4 DEF TreesOK
  <2>2. \A e \in Developer : \A f \in tree[e] : IsEntry(f) /\ f.version \in Nat
      BY <1>4 DEF TreesOK, IsEntry
  <2>3. \A f \in embedded \cup applied : IsEntry(f) /\ f.version > 0 /\ f.version \in Nat
      BY <1>4 DEF TreesOK, IsEntry
  <2>4. b + v \in Nat /\ b <= b + v /\ v <= b + v
      BY <1>4
  <2>5. ASSUME NEW e \in Developer, NEW f \in tree'[e]
        PROVE  IsEntry(f) /\ f.version <= b + v
    <3>1. f \in tree[e] \/ f = E
        BY <1>9
    <3> QED
        BY <1>4, <1>5, <2>1, <2>2, <3>1
  <2>6. \A f \in embedded' \cup applied' : f.version <= b + v
      BY <1>3, <1>4, <2>1, <2>3
  <2> QED
      BY <1>3, <1>9, <2>3, <2>4, <2>5, <2>6 DEF TreesOK
<1>11. ASSUME linear PROVE OneHistory'
  <2>1. OneHistory
      BY <1>11 DEF MigrationsInv
  <2>2. /\ M!Existing \subseteq tree[d] /\ \A e \in M!Existing : e.version < v
        /\ \A e \in Developer \ {d} : creator[e].step = "idle"
      BY <1>1, <1>3, <2>1 DEF OneHistory
  <2>3. PICK all : all = M!Existing
      OBVIOUS
  <2>4. PICK all2 : all2 = M!Existing'
      OBVIOUS
  <2>5. all2 \subseteq all \cup {E}
      BY <1>3, <1>9, <2>3, <2>4 DEF M!Existing, M!Numbered
  <2>6. \A e \in all : e.version \in Nat /\ e.version > 0
      BY <1>4, <2>3, ExistingFacts
  <2>7. \A e, f \in all2 : e.version = f.version => e = f
      BY <1>4, <1>5, <2>1, <2>2, <2>3, <2>5, <2>6 DEF OneHistory
  <2>8. ASSUME NEW files, files \subseteq all, ClosedIn(files, all)
        PROVE  ClosedIn(files, all2)
      BY <1>4, <1>5, <2>2, <2>3, <2>5, <2>6, <2>8 DEF ClosedIn
  <2>9. ClosedIn(embedded', all2) /\ ClosedIn(applied', all2)
      BY <1>3, <1>4, <2>1, <2>3, <2>8, Beginnings
  <2>10. ASSUME NEW e \in Developer
         PROVE  ClosedIn(M!Numbered(tree'[e]), all2)
    <3>1. CASE e = d
      <4>1. ASSUME NEW f \in all2, f.version > 0 PROVE f \in M!Numbered(tree'[e])
          BY <1>9, <2>2, <2>3, <2>5, <3>1, <4>1 DEF M!Numbered
      <4>2. ASSUME NEW f \in all2, NEW g \in M!Numbered(tree'[e]), f.version <= g.version
            PROVE  f.version > 0
        <5>1. f \in all \/ f = E
            BY <2>5
        <5>2. f \in all => f.version > 0
            BY <2>6
        <5>3. f = E => f.version > 0
          <6>1. f \in M!Existing'
              BY <2>4
          <6>2. \A h \in M!Existing' : h.version > 0
              BY <1>10 DEF TreesOK, M!Existing, M!Numbered
          <6> QED
              BY <6>1, <6>2
        <5> QED
            BY <5>1, <5>2, <5>3
      <4> QED
          BY <4>1, <4>2 DEF ClosedIn
    <3>2. CASE e # d
      <4>1. tree'[e] = tree[e] /\ M!Numbered(tree[e]) \subseteq all
          BY <1>4, <1>9, <2>3, <3>2, Beginnings
      <4> QED
          BY <2>1, <2>3, <2>8, <4>1 DEF OneHistory
    <3> QED
        BY <3>1, <3>2
  <2>11. \A e \in Developer : creator'[e].step = "idle"
      BY <1>6, <1>7, <2>2
  <2>12. \A e \in Developer : M!Numbered(tree[e])' = M!Numbered(tree'[e])
      BY DEF M!Numbered
  <2> QED
      BY <2>4, <2>7, <2>9, <2>10, <2>11, <2>12 DEF OneHistory, ClosedIn
<1>12. linear' = linear /\ linear \in BOOLEAN
    BY <1>3 DEF MigrationsInv
<1> QED
    BY <1>7, <1>8, <1>10, <1>11, <1>12 DEF MigrationsInv

\* A tree takes over another's entries, with or without its own.
LEMMA BranchStep ==
    ASSUME MigrationsInv, NEW d \in Developer, NEW e \in Developer,
           M!Merge(d, e) \/ M!Checkout(d, e)
    PROVE  MigrationsInv'
<1>1. PICK files : /\ files = tree[d] \cup tree[e] \/ files = tree[e]
                   /\ tree' = [tree EXCEPT ![d] = files]
    BY DEF M!Merge, M!Checkout
<1>2. creator[d].step = "idle" /\ UNCHANGED <<creator, embedded, applied, linear>>
    BY DEF M!Merge, M!Checkout
<1>3. TreesOK
    BY DEF MigrationsInv
<1>4. /\ tree' = [f \in Developer |-> tree'[f]]
      /\ tree'[d] = files /\ \A f \in Developer \ {d} : tree'[f] = tree[f]
    BY <1>1, <1>3 DEF TreesOK
<1>5. TreesOK'
    BY <1>1, <1>2, <1>3, <1>4 DEF TreesOK
<1>6. \A f \in Developer : M!Numbered(tree'[f]) \subseteq M!Existing
    BY <1>1, <1>4 DEF M!Existing, M!Numbered
<1>7. ASSUME linear, NEW f \in Developer
      PROVE  ClosedIn(M!Numbered(tree'[f]), M!Existing)
  <2>1. \A g \in Developer : ClosedIn(M!Numbered(tree[g]), M!Existing)
      BY <1>7 DEF MigrationsInv, OneHistory
  <2>2. CASE f = d
    <3>1. ASSUME NEW x \in M!Numbered(files), NEW y \in M!Existing, y.version <= x.version
          PROVE  y \in M!Numbered(files)
      <4>1. PICK g \in {d, e} : tree[g] \subseteq files /\ x \in M!Numbered(tree[g])
          BY <1>1 DEF M!Numbered
      <4>2. y \in M!Numbered(tree[g])
          BY <2>1, <3>1, <4>1 DEF ClosedIn
      <4> QED
          BY <4>1, <4>2 DEF M!Numbered
    <3> QED
        BY <1>4, <2>2, <3>1 DEF ClosedIn
  <2>3. CASE f # d
      BY <1>4, <2>1, <2>3
  <2> QED
      BY <2>2, <2>3
<1>8. linear => OneHistory
    BY DEF MigrationsInv
<1> QED
    BY <1>2, <1>3, <1>4, <1>5, <1>6, <1>7, <1>8, Beginnings, NothingCreated

\* A binary takes a tree's migrations.
LEMMA BuildStep ==
    ASSUME MigrationsInv, NEW d \in Developer, M!Build(d)
    PROVE  MigrationsInv'
<1>1. embedded' = M!Numbered(tree[d]) /\ UNCHANGED <<tree, creator, applied, linear>>
    BY DEF M!Build
<1>2. TreesOK /\ (linear => OneHistory)
    BY DEF MigrationsInv
<1>3. TreesOK'
    BY <1>1, <1>2 DEF TreesOK, M!Numbered
<1> QED
    BY <1>1, <1>2, <1>3, Beginnings, NothingCreated

\* Up and down move the database along the binary's migrations.
LEMMA AppliedStep ==
    ASSUME MigrationsInv, M!Up \/ M!Down
    PROVE  MigrationsInv'
<1>1. UNCHANGED <<tree, creator, embedded, linear>> /\ applied' \subseteq applied \cup embedded
    BY DEF M!Up, M!Down
<1>2. TreesOK /\ (linear => OneHistory)
    BY DEF MigrationsInv
<1>3. TreesOK'
    BY <1>1, <1>2 DEF TreesOK
<1>4. /\ M!Current \in Nat /\ \A e \in applied : e.version <= M!Current
      /\ M!Current > 0 => \E e \in applied : e.version = M!Current
    BY <1>2, CurrentFacts
<1>5. \A e \in M!Existing : e.version \in Nat /\ e.version > 0
    BY <1>2, ExistingFacts
<1>6. applied \subseteq M!Existing /\ embedded \subseteq M!Existing
    BY <1>2, Beginnings
<1>7. ASSUME linear, NEW x \in applied', NEW y \in M!Existing, y.version <= x.version
      PROVE  y \in applied'
  <2>1. ClosedIn(embedded, M!Existing) /\ ClosedIn(applied, M!Existing)
      BY <1>2, <1>7 DEF OneHistory
  <2>2. CASE M!Up
    <3>1. PICK last \in M!Version({e \in embedded : e.version > M!Current}) :
              applied' = applied \cup {e \in embedded : e.version \in M!Current + 1 .. last}
        BY <2>2 DEF M!Up
    <3>2. last \in Nat
        BY <1>5, <1>6, <3>1 DEF M!Version
    <3>3. CASE x \in applied
        BY <1>7, <2>1, <3>1, <3>3 DEF ClosedIn
    <3>4. CASE x \notin applied
      <4>1. x \in embedded /\ x.version \in M!Current + 1 .. last
          BY <1>7, <3>1, <3>4
      <4>2. y \in embedded
          BY <1>7, <2>1, <4>1 DEF ClosedIn
      <4>3. CASE y.version > M!Current
        <5>1. y.version \in M!Current + 1 .. last
            BY <1>4, <1>5, <1>6, <1>7, <3>2, <4>1, <4>3
        <5> QED
            BY <3>1, <4>2, <5>1
      <4>4. CASE y.version <= M!Current
        <5>1. PICK c \in applied : c.version = M!Current
            BY <1>4, <1>5, <4>4
        <5> QED
            BY <2>1, <3>1, <4>4, <5>1 DEF ClosedIn
      <4> QED
          BY <1>4, <1>5, <4>3, <4>4
    <3> QED
        BY <3>3, <3>4
  <2>3. CASE M!Down
    <3>1. applied' = {e \in applied : e.version # M!Current}
        BY <2>3 DEF M!Down
    <3>2. y \in applied
        BY <1>7, <2>1, <3>1 DEF ClosedIn
    <3>3. y.version # M!Current
        BY <1>4, <1>5, <1>6, <1>7, <3>1
    <3> QED
        BY <3>1, <3>2, <3>3
  <2> QED
      BY <2>2, <2>3
<1>8. linear => ClosedIn(applied', M!Existing)
    BY <1>7 DEF ClosedIn
<1> QED
    BY <1>1, <1>2, <1>3, <1>6, <1>8, Beginnings, NothingCreated

\* Clones of one tree, a binary and a database that lag behind it.
LEMMA MigrationsStart ==
    ASSUME NEW entries, EntriesOK(entries), M!InitFrom(entries)
    PROVE  MigrationsInv
<1>1. /\ tree = [d \in Developer |-> entries] /\ creator = [d \in Developer |-> M!Idle]
      /\ embedded \in M!Earlier(M!Numbered(entries))
      /\ applied \in M!Earlier(M!Numbered(entries)) /\ linear = TRUE
    BY DEF M!InitFrom
<1>2. PICK files : files = M!Numbered(entries)
    OBVIOUS
<1>3. /\ files \subseteq entries /\ \A e \in files : e.version > 0
      /\ \A e, f \in files : e.version = f.version => e = f
    BY <1>2 DEF EntriesOK, M!Numbered
<1>4. ASSUME NEW some \in M!Earlier(files)
      PROVE  some \subseteq files /\ ClosedIn(some, files)
    BY DEF M!Earlier, ClosedIn
<1>5. /\ embedded \subseteq files /\ applied \subseteq files
      /\ ClosedIn(embedded, files) /\ ClosedIn(applied, files)
    BY <1>1, <1>2, <1>4
<1>6. TreesOK
  <2>1. \A d \in Developer : tree[d] = entries
      BY <1>1
  <2>2. tree = [d \in Developer |-> tree[d]]
      BY <1>1
  <2> QED
      BY <1>3, <1>5, <2>1, <2>2 DEF TreesOK, EntriesOK
<1>7. M!Idle.step = "idle" /\ IsCreator(M!Idle)
  <2>1. PICK z \in Nat : z = 0
      OBVIOUS
  <2>2. PICK empty : empty = <<>>
      OBVIOUS
  <2>3. M!Idle = [step |-> "idle", version |-> z, slug |-> empty]
      BY <2>1, <2>2 DEF M!Idle
  <2> QED
      BY <2>3 DEF IsCreator
<1>8. \A d \in Developer : creator[d].step = "idle" /\ IsCreator(creator[d])
    BY <1>1, <1>7
<1>9. creator = [d \in Developer |-> creator[d]]
    BY <1>1
<1>10. M!Existing \subseteq files /\ \A d \in Developer : M!Numbered(tree[d]) = files
    BY <1>1, <1>2, <1>5 DEF M!Existing
<1>11. OneHistory
  <2>1. \A some : ClosedIn(some, files) => ClosedIn(some, M!Existing)
      BY <1>10 DEF ClosedIn
  <2>2. ClosedIn(files, files)
      BY DEF ClosedIn
  <2> QED
      BY <1>3, <1>5, <1>8, <1>10, <2>1, <2>2 DEF OneHistory
<1> QED
    BY <1>1, <1>6, <1>8, <1>9, <1>11 DEF MigrationsInv

\* MigrationsInv is kept by every step of developers, binary and database.
LEMMA MigrationsInductive == MigrationsInv /\ [M!Next]_migrations => MigrationsInv'
<1>1. ASSUME MigrationsInv, UNCHANGED migrations PROVE MigrationsInv'
    BY <1>1 DEF migrations, MigrationsInv, TreesOK, OneHistory, M!Existing
<1> QED
    BY <1>1, ReadStep, WriteMigrationStep, BranchStep, BuildStep, AppliedStep DEF M!Next

\* From whatever entries, and whatever any number of developers create, merge, switch
\* to, build and apply: as long as creates are made in turn, each on top of all there
\* is, goose skips no migration and mistakes none for another (migrate.go 40-56, 89).
THEOREM InTurnNoneIsSkipped ==
    ASSUME NEW entries, EntriesOK(entries)
    PROVE  M!InitFrom(entries) /\ [][M!Next]_migrations => []NoneSkipped
<1>1. M!InitFrom(entries) => MigrationsInv
    BY MigrationsStart
<1>2. MigrationsInv => NoneSkipped
    BY HistorySkipsNone DEF NoneSkipped
<1> QED
    BY <1>1, <1>2, MigrationsInductive, PTL

\* The entries that the run starts from among them.
THEOREM EnumeratedNoneIsSkipped == Spec => []NoneSkipped
<1>1. ASSUME Init PROVE MigrationsInv
  <2>1. PICK entries : M!InitFrom(entries) /\ (entries = {} \/ entries \in Listings)
      BY <1>1 DEF Init, Inputs
  <2>2. PICK zero \in Nat, two \in Nat : zero = 0 /\ two = 2
      OBVIOUS
  <2>3. PICK x, b : x = <<"x">> /\ b = <<"b">>
      OBVIOUS
  <2>4. \A e \in entries : e = M!Entry(zero, x) \/ e = M!Entry(two, b)
      BY <2>1, <2>2, <2>3 DEF Listings
  <2>5. ASSUME NEW v \in Nat, NEW slug, NEW e, e = M!Entry(v, slug)
        PROVE  IsEntry(e) /\ e.version = v
      BY <2>5 DEF M!Entry, IsEntry
  <2>6. \A e \in entries : IsEntry(e) /\ e.version \in {zero, two}
      BY <2>4, <2>5
  <2>7. \A e, f \in M!Numbered(entries) : e.version = f.version => e = f
    <3>1. \A e \in M!Numbered(entries) : e = M!Entry(two, b)
        BY <2>2, <2>4, <2>5 DEF M!Numbered
    <3> QED
        BY <3>1
  <2>8. EntriesOK(entries)
      BY <2>2, <2>6, <2>7 DEF EntriesOK
  <2> QED
      BY <2>1, <2>8, MigrationsStart
<1>2. [Next]_<<input, migrations, theme>> => [M!Next]_migrations
    BY DEF Next
<1>3. MigrationsInv => NoneSkipped
    BY HistorySkipsNone DEF NoneSkipped
<1> QED
    BY <1>1, <1>2, <1>3, MigrationsInductive, PTL DEF Spec

-----------------------------------------------------------------------------
(* The configuration.                                                       *)

\* What the kinds of checks name and ask for.
LEMMA KindFields ==
    ASSUME NEW env, NEW k
    PROVE  /\ Within(env, k).key = k
           /\ Within(env, k).holds <=> Getenv(env, k) \in Good(k)
           /\ Without(env, k).key = k
           /\ Without(env, k).holds <=> Getenv(env, k) \notin Bad(k)
           /\ Parses(env, k).key = k
           /\ Parses(env, k).holds <=> Getenv(env, k) \in DOMAIN Minutes
           /\ Positive(env, k).key = k
           /\ Positive(env, k).holds <=> Amount(env, k) > 0
<1>1. /\ Within(env, k).key = k
      /\ Within(env, k).holds <=> Getenv(env, k) \in Good(k)
    BY DEF Within, Check
<1>2. /\ Without(env, k).key = k
      /\ Without(env, k).holds <=> Getenv(env, k) \notin Bad(k)
    BY DEF Without, Check
<1>3. /\ Parses(env, k).key = k
      /\ Parses(env, k).holds <=> Getenv(env, k) \in DOMAIN Minutes
    BY DEF Parses, Check
<1>4. /\ Positive(env, k).key = k
      /\ Positive(env, k).holds <=> Amount(env, k) > 0
    BY DEF Positive, Check
<1> QED
    BY <1>1, <1>2, <1>3, <1>4

\* The development URL is asked for in development.
LEMMA ViteFields ==
    ASSUME NEW env
    PROVE  /\ ViteDevURL(env).key = "VITE_DEV_URL"
           /\ ViteDevURL(env).holds <=>
                (Getenv(env, "ENV") = "dev" =>
                   Getenv(env, "VITE_DEV_URL") \in Good("VITE_DEV_URL"))
<1>1. CASE Getenv(env, "ENV") = "dev"
    BY <1>1, KindFields DEF ViteDevURL, RequireAbsURL
<1>2. CASE Getenv(env, "ENV") # "dev"
    BY <1>2 DEF ViteDevURL, Check
<1> QED
    BY <1>1, <1>2

\* The two timeouts are compared as amounts.
LEMMA IdleFields ==
    ASSUME NEW env
    PROVE  /\ IdleInAbsolute(env).key = "SESSION_IDLE_TIMEOUT"
           /\ IdleInAbsolute(env).holds <=>
                Amount(env, "SESSION_IDLE_TIMEOUT") <= Amount(env, "SESSION_ABSOLUTE_TIMEOUT")
    BY DEF IdleInAbsolute, Check

\* The checks by number.
ChecksAre(env) ==
    /\ DOMAIN Checks(env) = 1 .. 19
    /\ Checks(env)[1] = Without(env, "HTTP_PORT")
    /\ Checks(env)[2] = Parses(env, "SESSION_IDLE_TIMEOUT")
    /\ Checks(env)[3] = Parses(env, "SESSION_ABSOLUTE_TIMEOUT")
    /\ Checks(env)[4] = Within(env, "ENV")
    /\ Checks(env)[5] = Without(env, "HTTP_HOST")
    /\ Checks(env)[6] = Within(env, "HTTP_PORT")
    /\ Checks(env)[7] = Within(env, "LOG_LEVEL")
    /\ Checks(env)[8] = ViteDevURL(env)
    /\ Checks(env)[9] = Within(env, "DB_DSN")
    /\ Checks(env)[10] = Within(env, "OIDC_ISSUER")
    /\ Checks(env)[11] = Without(env, "OIDC_CLIENT_ID")
    /\ Checks(env)[12] = Without(env, "OIDC_CLIENT_SECRET")
    /\ Checks(env)[13] = Within(env, "OIDC_REDIRECT_URL")
    /\ Checks(env)[14] = Within(env, "OIDC_POST_LOGOUT_REDIRECT_URL")
    /\ Checks(env)[15] = Without(env, "SESSION_COOKIE_NAME")
    /\ Checks(env)[16] = Positive(env, "SESSION_IDLE_TIMEOUT")
    /\ Checks(env)[17] = Positive(env, "SESSION_ABSOLUTE_TIMEOUT")
    /\ Checks(env)[18] = IdleInAbsolute(env)
    /\ Checks(env)[19] = Without(env, "CSRF_SECRET")

\* As a tuple has them.
LEMMA TheChecks == \A env : ChecksAre(env)
    BY DEF ChecksAre, Checks, RequireAbsURL

\* The variables that they name.
KeysAre(env) ==
    /\ \A j \in {1, 6} : Checks(env)[j].key = "HTTP_PORT"
    /\ \A j \in {2, 16, 18} : Checks(env)[j].key = "SESSION_IDLE_TIMEOUT"
    /\ \A j \in {3, 17} : Checks(env)[j].key = "SESSION_ABSOLUTE_TIMEOUT"
    /\ Checks(env)[4].key = "ENV" /\ Checks(env)[5].key = "HTTP_HOST"
    /\ Checks(env)[7].key = "LOG_LEVEL" /\ Checks(env)[8].key = "VITE_DEV_URL"
    /\ Checks(env)[9].key = "DB_DSN" /\ Checks(env)[10].key = "OIDC_ISSUER"
    /\ Checks(env)[11].key = "OIDC_CLIENT_ID"
    /\ Checks(env)[12].key = "OIDC_CLIENT_SECRET"
    /\ Checks(env)[13].key = "OIDC_REDIRECT_URL"
    /\ Checks(env)[14].key = "OIDC_POST_LOGOUT_REDIRECT_URL"
    /\ Checks(env)[15].key = "SESSION_COOKIE_NAME"
    /\ Checks(env)[19].key = "CSRF_SECRET"

\* By the kind of each.
LEMMA TheKeys ==
    ASSUME NEW env
    PROVE  KeysAre(env)
<1>1. ChecksAre(env)
    BY TheChecks
<1>2. /\ \A k : Within(env, k).key = k /\ Without(env, k).key = k
      /\ \A k : Parses(env, k).key = k /\ Positive(env, k).key = k
      /\ ViteDevURL(env).key = "VITE_DEV_URL"
      /\ IdleInAbsolute(env).key = "SESSION_IDLE_TIMEOUT"
    BY KindFields, ViteFields, IdleFields
<1> QED
    BY <1>1, <1>2 DEF ChecksAre, KeysAre

\* The durations that parse.
LEMMA MinutesFacts ==
    /\ DOMAIN Minutes = {"-1m", "0", "10m", "30m", "12h", "24h"}
    /\ Minutes["-1m"] = -1 /\ Minutes["0"] = 0 /\ Minutes["10m"] = 10
    /\ Minutes["30m"] = 30 /\ Minutes["12h"] = 720 /\ Minutes["24h"] = 1440
    BY DEF Minutes

\* The environment with one variable set anew.
Repaired(env, k, w) == [x \in DOMAIN env \cup {k} |-> IF x = k THEN w ELSE env[x]]

\* A repair changes one variable.
LEMMA RepairedFacts ==
    ASSUME NEW env, NEW k, NEW w
    PROVE  /\ Getenv(Repaired(env, k, w), k) = w
           /\ \A x : x # k => Getenv(Repaired(env, k, w), x) = Getenv(env, x)
    BY DEF Getenv, Repaired

\* A check depends on the variable that it names, but for two of them.
LEMMA Untouched ==
    ASSUME NEW env, NEW k, NEW w, NEW j \in 1 .. 19, Checks(env)[j].key # k,
           k = "ENV" => j < 8, k = "SESSION_ABSOLUTE_TIMEOUT" => j < 18
    PROVE  Checks(Repaired(env, k, w))[j] = Checks(env)[j]
<1>1. PICK e : e = Repaired(env, k, w)
    OBVIOUS
<1>2. \A x : x # k => Getenv(e, x) = Getenv(env, x) /\ Amount(e, x) = Amount(env, x)
    BY <1>1, RepairedFacts DEF Amount
<1>3. \A x : x # k => /\ Within(e, x) = Within(env, x)
                      /\ Without(e, x) = Without(env, x)
                      /\ Parses(e, x) = Parses(env, x)
                      /\ Positive(e, x) = Positive(env, x)
    BY <1>2 DEF Within, Without, Parses, Positive
<1>4. k \notin {"ENV", "VITE_DEV_URL"} => ViteDevURL(e) = ViteDevURL(env)
    BY <1>2, <1>3 DEF ViteDevURL, RequireAbsURL
<1>5. k \notin {"SESSION_IDLE_TIMEOUT", "SESSION_ABSOLUTE_TIMEOUT"} =>
        IdleInAbsolute(e) = IdleInAbsolute(env)
    BY <1>2 DEF IdleInAbsolute
<1>6. ChecksAre(e) /\ ChecksAre(env) /\ KeysAre(env)
    BY TheChecks, TheKeys
<1>7. Checks(e)[j] = Checks(env)[j]
  <2>1. CASE j \in {8, 18}
      BY <1>4, <1>5, <1>6, <2>1 DEF ChecksAre, KeysAre
  <2>2. CASE j \in {1, 2, 3, 4, 5, 6, 7}
      BY <1>3, <1>6, <2>2 DEF ChecksAre, KeysAre
  <2>3. CASE j \in {9, 10, 11, 12, 13}
      BY <1>3, <1>6, <2>3 DEF ChecksAre, KeysAre
  <2>4. CASE j \in {14, 15, 16, 17, 19}
      BY <1>3, <1>6, <2>4 DEF ChecksAre, KeysAre
  <2> QED
      BY <2>1, <2>2, <2>3, <2>4
<1> QED
    BY <1>1, <1>7

\* The defaults are good.
LEMMA DefaultFacts ==
    /\ \A k \in {"ENV", "HTTP_PORT", "LOG_LEVEL", "VITE_DEV_URL", "DB_DSN", "OIDC_ISSUER",
                 "OIDC_REDIRECT_URL", "OIDC_POST_LOGOUT_REDIRECT_URL"} :
         Default[k] \in Good(k)
    /\ \A k \in {"HTTP_PORT", "HTTP_HOST", "OIDC_CLIENT_ID", "OIDC_CLIENT_SECRET",
                 "SESSION_COOKIE_NAME", "CSRF_SECRET"} :
         Default[k] \notin Bad(k)
    /\ \A k \in {"SESSION_IDLE_TIMEOUT", "SESSION_ABSOLUTE_TIMEOUT"} :
         Default[k] \in {"30m", "12h"}
<1>1. Default["ENV"] \in Good("ENV")
    BY DEF Default, Good
<1>2. Default["HTTP_PORT"] \in Good("HTTP_PORT")
    BY DEF Default, Good
<1>3. Default["LOG_LEVEL"] \in Good("LOG_LEVEL")
    BY DEF Default, Good
<1>4. Default["DB_DSN"] \in Good("DB_DSN")
    BY DEF Default, Good, Postgres
<1>5. Default["VITE_DEV_URL"] \in Good("VITE_DEV_URL")
    BY DEF Default, Good
<1>6. Default["OIDC_ISSUER"] \in Good("OIDC_ISSUER")
    BY DEF Default, Good
<1>7. Default["OIDC_REDIRECT_URL"] \in Good("OIDC_REDIRECT_URL")
    BY DEF Default, Good
<1>8. Default["OIDC_POST_LOGOUT_REDIRECT_URL"] \in Good("OIDC_POST_LOGOUT_REDIRECT_URL")
    BY DEF Default, Good
<1>9. Default["HTTP_PORT"] \notin Bad("HTTP_PORT")
    BY DEF Default, Bad
<1>10. Default["HTTP_HOST"] \notin Bad("HTTP_HOST")
    BY DEF Default, Bad
<1>11. Default["OIDC_CLIENT_ID"] \notin Bad("OIDC_CLIENT_ID")
    BY DEF Default, Bad
<1>12. Default["OIDC_CLIENT_SECRET"] \notin Bad("OIDC_CLIENT_SECRET")
    BY DEF Default, Bad
<1>13. Default["SESSION_COOKIE_NAME"] \notin Bad("SESSION_COOKIE_NAME")
    BY DEF Default, Bad
<1>14. Default["CSRF_SECRET"] \notin Bad("CSRF_SECRET")
    BY DEF Default, Bad
<1>15. Default["SESSION_IDLE_TIMEOUT"] = "30m"
    BY DEF Default
<1>16. Default["SESSION_ABSOLUTE_TIMEOUT"] = "12h"
    BY DEF Default
<1> QED
    BY <1>1, <1>2, <1>3, <1>4, <1>5, <1>6, <1>7, <1>8,
       <1>9, <1>10, <1>11, <1>12, <1>13, <1>14, <1>15, <1>16

\* The default of a variable passes every check that names it, but that of the two
\* timeouts against each other.
LEMMA DefaultsPass ==
    ASSUME NEW e, NEW j \in 1 .. 19 \ {18},
           Getenv(e, Checks(e)[j].key) = Default[Checks(e)[j].key]
    PROVE  Checks(e)[j].holds
<1>1. ChecksAre(e) /\ KeysAre(e)
    BY TheChecks, TheKeys
<1>2. PICK k : k = Checks(e)[j].key /\ Getenv(e, k) = Default[k]
    OBVIOUS
<1>3. CASE j \in {4, 6, 7, 9, 10, 13, 14}
  <2>1. Checks(e)[j] = Within(e, k)
      BY <1>1, <1>2, <1>3 DEF ChecksAre, KeysAre
  <2>2. k \in {"ENV", "HTTP_PORT", "LOG_LEVEL", "DB_DSN", "OIDC_ISSUER",
               "OIDC_REDIRECT_URL", "OIDC_POST_LOGOUT_REDIRECT_URL"}
      BY <1>1, <1>2, <1>3 DEF KeysAre
  <2>3. Default[k] \in Good(k)
      BY <2>2, DefaultFacts
  <2> QED
      BY <1>2, <2>1, <2>3, KindFields
<1>4. CASE j \in {1, 5, 11, 12, 15, 19}
  <2>1. Checks(e)[j] = Without(e, k)
      BY <1>1, <1>2, <1>4 DEF ChecksAre, KeysAre
  <2>2. k \in {"HTTP_PORT", "HTTP_HOST", "OIDC_CLIENT_ID", "OIDC_CLIENT_SECRET",
               "SESSION_COOKIE_NAME", "CSRF_SECRET"}
      BY <1>1, <1>2, <1>4 DEF KeysAre
  <2>3. Default[k] \notin Bad(k)
      BY <2>2, DefaultFacts
  <2> QED
      BY <1>2, <2>1, <2>3, KindFields
<1>5. CASE j \in {2, 3, 16, 17}
  <2>1. Checks(e)[j] \in {Parses(e, k), Positive(e, k)}
      BY <1>1, <1>2, <1>5 DEF ChecksAre, KeysAre
  <2>2. k \in {"SESSION_IDLE_TIMEOUT", "SESSION_ABSOLUTE_TIMEOUT"}
      BY <1>1, <1>2, <1>5 DEF KeysAre
  <2>3. Getenv(e, k) \in {"30m", "12h"}
      BY <1>2, <2>2, DefaultFacts
  <2>4. Getenv(e, k) \in DOMAIN Minutes /\ Amount(e, k) > 0
      BY <2>3, MinutesFacts DEF Amount
  <2> QED
      BY <2>1, <2>4, KindFields
<1>6. CASE j = 8
  <2>1. Checks(e)[j] = ViteDevURL(e) /\ k = "VITE_DEV_URL"
      BY <1>1, <1>2, <1>6 DEF ChecksAre, KeysAre
  <2>2. Getenv(e, "VITE_DEV_URL") \in Good("VITE_DEV_URL")
      BY <1>2, <2>1, DefaultFacts
  <2> QED
      BY <2>1, <2>2, ViteFields
<1> QED
    BY <1>3, <1>4, <1>5, <1>6

\* A variable that fails a check first can be given a value that passes it and all before.
LEMMA Repairable ==
    ASSUME NEW env, NEW i \in 1 .. 19, \A j \in 1 .. i - 1 : Checks(env)[j].holds,
           NEW k, k = Checks(env)[i].key
    PROVE  \E w \in Value(k) : \A j \in 1 .. i : Checks(Repaired(env, k, w))[j].holds
<1>1. CASE i # 18
  <2>1. PICK w \in Value(k) : w = Default[k]
      BY DEF Value
  <2>2. PICK e : e = Repaired(env, k, w)
      OBVIOUS
  <2>3. ASSUME NEW j \in 1 .. i PROVE Checks(e)[j].holds
    <3>1. j \in 1 .. 19 /\ (k = "ENV" => j < 8)
          /\ (k = "SESSION_ABSOLUTE_TIMEOUT" => j < 18)
        BY <1>1, TheKeys DEF KeysAre
    <3>2. CASE Checks(env)[j].key # k
      <4>1. Checks(e)[j] = Checks(env)[j]
          BY <2>2, <3>1, <3>2, Untouched
      <4> QED
          BY <3>2, <4>1
    <3>3. CASE Checks(env)[j].key = k
      <4>1. Checks(e)[j].key = k
          BY <3>1, <3>3, TheKeys DEF KeysAre
      <4>2. j # 18
          BY <1>1, <3>3, TheKeys DEF KeysAre
      <4> QED
          BY <2>1, <2>2, <3>1, <4>1, <4>2, RepairedFacts, DefaultsPass
    <3> QED
        BY <3>2, <3>3
  <2> QED
      BY <2>2, <2>3
<1>2. CASE i = 18
  <2>1. k = "SESSION_IDLE_TIMEOUT"
      BY <1>2, TheKeys DEF KeysAre
  <2>2. PICK w \in Value(k) : w = "10m"
      BY <2>1 DEF Value
  <2>3. PICK e : e = Repaired(env, k, w)
      OBVIOUS
  <2>4. Getenv(e, k) = w /\ Amount(e, k) = 10
      BY <2>2, <2>3, RepairedFacts, MinutesFacts DEF Amount
  <2>5. Amount(e, "SESSION_ABSOLUTE_TIMEOUT") = Amount(env, "SESSION_ABSOLUTE_TIMEOUT")
      BY <2>1, <2>3, RepairedFacts DEF Amount
  <2>c. ChecksAre(e) /\ ChecksAre(env) /\ Checks(env)[17].holds
      BY <1>2, TheChecks
  <2>6. Amount(env, "SESSION_ABSOLUTE_TIMEOUT") > 0
      BY <2>c, KindFields DEF ChecksAre
  <2>7. Amount(env, "SESSION_ABSOLUTE_TIMEOUT") \in {-1, 0, 10, 30, 720, 1440}
      BY MinutesFacts DEF Amount
  <2>8. Checks(e)[18].holds
      BY <2>1, <2>4, <2>5, <2>6, <2>7, <2>c, IdleFields DEF ChecksAre
  <2>9. Checks(e)[2].holds /\ Checks(e)[16].holds
      BY <2>1, <2>2, <2>4, <2>c, KindFields, MinutesFacts DEF ChecksAre
  <2>10. ASSUME NEW j \in 1 .. 17, j \notin {2, 16} PROVE Checks(e)[j].holds
    <3>1. Checks(env)[j].key # k
        BY <2>1, <2>10, TheKeys DEF KeysAre
    <3>2. Checks(e)[j] = Checks(env)[j]
        BY <2>1, <2>3, <3>1, Untouched
    <3> QED
        BY <1>2, <3>2
  <2> QED
      BY <1>2, <2>3, <2>8, <2>9, <2>10
<1> QED
    BY <1>1, <1>2

\* Whatever is wrong with an environment: the variable that its refusal names can be
\* given a value that passes, with which nothing before it fails (Load, validate).
THEOREM EveryRefusalNamesItsCulprit == \A env : RefusalNamesCulprit(env)
<1> SUFFICES ASSUME NEW env, Refusing(env) # {} PROVE RefusalNamesCulprit(env)
    BY DEF RefusalNamesCulprit
<1>1. \A e : Refusing(e) = {j \in 1 .. 19 : ~Checks(e)[j].holds}
    BY TheChecks DEF ChecksAre, Refusing
<1>2. ASSUME NEW e, Refusing(e) # {}
      PROVE  Min(Refusing(e)) \in Refusing(e) /\ \A j \in Refusing(e) : Min(Refusing(e)) <= j
  <2>1. Refusing(e) \in SUBSET Nat
      BY <1>1
  <2>2. \E i \in Refusing(e) : \A j \in Refusing(e) : i <= j
      BY <1>2, <2>1, LeastNatural
  <2> QED
      BY <2>2 DEF Min
<1>3. PICK i : i = Min(Refusing(env))
    OBVIOUS
<1>4. /\ i \in 1 .. 19 /\ \A j \in 1 .. i - 1 : Checks(env)[j].holds
    BY <1>1, <1>2, <1>3
<1>5. PICK k : k = Checks(env)[i].key
    OBVIOUS
<1>6. PICK w \in Value(k) : \A j \in 1 .. i : Checks(Repaired(env, k, w))[j].holds
    BY <1>4, <1>5, Repairable
<1>7. PICK e : e = Repaired(env, k, w)
    OBVIOUS
<1>8. Refusing(e) = {} \/ Min(Refusing(e)) > i
  <2>1. \A j \in Refusing(e) : j \in 1 .. 19 /\ j > i
      BY <1>1, <1>4, <1>6, <1>7
  <2> QED
      BY <1>2, <2>1
<1> QED
    BY <1>3, <1>5, <1>7, <1>8 DEF RefusalNamesCulprit, Repaired

\* The environments that the run enumerates among them.
THEOREM EnumeratedRefusalsNameTheirs == Spec => []RefusalsNameCulprits
<1>1. RefusalsNameCulprits
    BY EveryRefusalNamesItsCulprit DEF RefusalsNameCulprits
<1> QED
    BY <1>1, PTL

-----------------------------------------------------------------------------
(* The scopes.                                                              *)

\* f is what the loop of splitScopes keeps of the first m parts.
Keeps(f, parts, m) ==
    f = [n \in 0 .. m |-> IF n = 0 THEN <<>> ELSE KeepScope(f[n - 1], parts[n])]

KeepsUpTo(parts, m) == \E f : Keeps(f, parts, m)

\* The loop can be run over any list.
LEMMA Keeping ==
    ASSUME NEW parts, NEW L \in Nat
    PROVE  KeepsUpTo(parts, L)
<1> DEFINE S == {m \in 0 .. L : KeepsUpTo(parts, m)}
<1>1. KeepsUpTo(parts, 0)
  <2>1. Keeps([n \in {0} |-> <<>>], parts, 0)
      BY DEF Keeps
  <2> QED
      BY <2>1 DEF KeepsUpTo
<1>2. ASSUME NEW m \in 0 .. L, KeepsUpTo(parts, m) PROVE KeepsUpTo(parts, m + 1)
  <2>1. PICK g : Keeps(g, parts, m)
      BY <1>2 DEF KeepsUpTo
  <2>2. PICK h : h = [n \in 0 .. m + 1 |-> IF n = m + 1 THEN KeepScope(g[m], parts[m + 1])
                                          ELSE g[n]]
      OBVIOUS
  <2>3. /\ m \in Nat /\ m \in 0 .. m /\ m + 1 # 0 /\ (m + 1) - 1 = m
        /\ m + 1 \in 0 .. m + 1
        /\ \A n \in 0 .. m : n \in 0 .. m + 1 /\ n # m + 1
      OBVIOUS
  <2>4. /\ h[m + 1] = KeepScope(g[m], parts[m + 1])
        /\ \A n \in 0 .. m : h[n] = g[n]
      BY <2>2, <2>3
  <2>5. ASSUME NEW n \in 0 .. m + 1
        PROVE  h[n] = IF n = 0 THEN <<>> ELSE KeepScope(h[n - 1], parts[n])
    <3>1. CASE n = m + 1
        BY <2>3, <2>4, <3>1
    <3>2. CASE n # m + 1
      <4>1. n \in 0 .. m /\ h[n] = g[n] /\ (n # 0 => n - 1 \in 0 .. m)
          BY <2>4, <3>2
      <4>2. g[n] = IF n = 0 THEN <<>> ELSE KeepScope(g[n - 1], parts[n])
          BY <2>1, <4>1 DEF Keeps
      <4> QED
          BY <2>4, <4>1, <4>2
    <3> QED
        BY <3>1, <3>2
  <2>6. Keeps(h, parts, m + 1)
      BY <2>2, <2>5 DEF Keeps
  <2> QED
      BY <2>6 DEF KeepsUpTo
<1>3. \A n \in 0 .. L : n \in S
  <2>1. 0 \in S /\ \A n \in 0 .. L : n \in S /\ n < L => n + 1 \in S
      BY <1>1, <1>2
  <2> HIDE DEF S
  <2> QED
      BY <2>1, UpTo
<1> QED
    BY <1>3

Unpadded(W) == [word : W, padded : {FALSE}]

\* What is kept of the first n parts: each of their words once, in order.
KeptInOrder(W, parts, n, out) ==
    /\ out \in Seq(Unpadded(W))
    /\ \A i \in 1 .. Len(out) : out[i].word # ""
    /\ \A i \in 1 .. Len(out) : \E k \in 1 .. n : parts[k].word = out[i].word
    /\ \A k \in 1 .. n : parts[k].word # "" =>
          \E i \in 1 .. Len(out) : parts[k].word = out[i].word
    /\ \A i \in 1 .. Len(out) : \A j \in 1 .. i - 1 :
          \E k \in 1 .. n : /\ parts[k].word = out[j].word
                            /\ \A l \in 1 .. k : parts[l].word # out[i].word

\* A text without blanks around it is known by its word.
LEMMA SameWord ==
    ASSUME NEW W, NEW x \in Unpadded(W), NEW y \in Unpadded(W)
    PROVE  x.word = y.word <=> x = y
<1>1. PICK N : N = {FALSE}
    OBVIOUS
<1>2. x \in [word : W, padded : N] /\ y \in [word : W, padded : N]
    BY <1>1 DEF Unpadded
<1>3. x.padded \in N /\ y.padded \in N
    BY <1>2
<1>4. x.padded = y.padded
    BY <1>1, <1>3
<1> QED
    BY <1>2, <1>4

\* A text without the blanks around it.
LEMMA Trims ==
    ASSUME NEW W, NEW p \in [word : W, padded : BOOLEAN]
    PROVE  Trimmed(p) \in Unpadded(W) /\ Trimmed(p).word = p.word
<1>1. PICK no : no = FALSE
    OBVIOUS
<1>2. PICK B : B = BOOLEAN
    OBVIOUS
<1>3. p \in [word : W, padded : B]
    BY <1>2
<1>4. PICK t : t = [p EXCEPT !.padded = no]
    OBVIOUS
<1>5. t = [word |-> p.word, padded |-> no] /\ t.word = p.word
    BY <1>3, <1>4
<1>6. p.word \in W /\ no \in {FALSE}
    BY <1>1, <1>3
<1>7. PICK N : N = {FALSE}
    OBVIOUS
<1>8. t \in [word : W, padded : N]
    BY <1>5, <1>6, <1>7
<1> QED
    BY <1>1, <1>4, <1>5, <1>7, <1>8 DEF Trimmed, Unpadded

\* One turn of the loop.
LEMMA KeepStep ==
    ASSUME NEW W, NEW parts \in Seq([word : W, padded : BOOLEAN]),
           NEW n \in 0 .. Len(parts) - 1, NEW out, KeptInOrder(W, parts, n, out)
    PROVE  KeptInOrder(W, parts, n + 1, KeepScope(out, parts[n + 1]))
<1>a. PICK R : R = [word : W, padded : BOOLEAN]
    OBVIOUS
<1>b. PICK ps \in Seq(R) : ps = parts
    BY <1>a
<1>1. n \in Nat /\ n + 1 \in 1 .. Len(ps) /\ ps[n + 1] \in R
    BY <1>b
<1>2. PICK p \in [word : W, padded : BOOLEAN] : p = parts[n + 1]
    BY <1>a, <1>b, <1>1
<1>3. PICK t \in Unpadded(W) : t = Trimmed(p) /\ t.word = p.word
    BY Trims
<1>4. PICK U : U = Unpadded(W)
    OBVIOUS
<1>k. out \in Seq(U)
    BY <1>4 DEF KeptInOrder
<1>l. Len(out) \in Nat /\ DOMAIN out = 1 .. Len(out)
    BY <1>k
<1>5. \A i \in 1 .. Len(out) : out[i].word # ""
    BY DEF KeptInOrder
<1>6. \A i \in 1 .. Len(out) : \E k \in 1 .. n : parts[k].word = out[i].word
    BY DEF KeptInOrder
<1>7. \A k \in 1 .. n : parts[k].word # "" =>
          \E i \in 1 .. Len(out) : parts[k].word = out[i].word
    BY DEF KeptInOrder
<1>8. \A i \in 1 .. Len(out) : \A j \in 1 .. i - 1 :
          \E k \in 1 .. n : /\ parts[k].word = out[j].word
                            /\ \A l \in 1 .. k : parts[l].word # out[i].word
    BY DEF KeptInOrder
<1>9. t \in ToSet(out) <=> \E i \in 1 .. Len(out) : out[i].word = p.word
  <2>1. \A i \in 1 .. Len(out) : out[i] \in Unpadded(W)
      BY <1>4, <1>k
  <2>2. \A x \in Unpadded(W) : x.word = t.word => x = t
      BY <1>3, SameWord
  <2>3. t \in ToSet(out) <=> \E i \in 1 .. Len(out) : out[i] = t
      BY <1>l DEF ToSet
  <2> QED
      BY <1>3, <2>1, <2>2, <2>3
<1>10. \A k \in 1 .. n : k \in 1 .. n + 1
    BY <1>1
<1>11. \A k \in 1 .. n + 1 : k \in 1 .. n \/ k = n + 1
    BY <1>1
<1>12. n + 1 \in 1 .. n + 1
    BY <1>1
<1>13. CASE p.word = "" \/ t \in ToSet(out)
  <2>1. KeepScope(out, parts[n + 1]) = out
      BY <1>2, <1>3, <1>13 DEF KeepScope
  <2>2. ASSUME NEW k \in 1 .. n + 1, parts[k].word # ""
        PROVE  \E i \in 1 .. Len(out) : parts[k].word = out[i].word
    <3>1. CASE k \in 1 .. n
        BY <1>7, <2>2, <3>1
    <3>2. CASE k = n + 1
      <4>1. parts[k].word = p.word
          BY <1>2, <3>2
      <4> QED
          BY <1>9, <1>13, <2>2, <4>1
    <3> QED
        BY <1>11, <3>1, <3>2
  <2>3. \A i \in 1 .. Len(out) : \E k \in 1 .. n + 1 : parts[k].word = out[i].word
      BY <1>6, <1>10
  <2>4. ASSUME NEW i \in 1 .. Len(out), NEW j \in 1 .. i - 1
        PROVE  \E k \in 1 .. n + 1 : /\ parts[k].word = out[j].word
                                     /\ \A l \in 1 .. k : parts[l].word # out[i].word
      BY <1>8, <1>10
  <2>5. KeptInOrder(W, parts, n + 1, out)
      BY <1>4, <1>k, <1>5, <2>2, <2>3, <2>4 DEF KeptInOrder
  <2> QED
      BY <2>1, <2>5
<1>14. CASE p.word # "" /\ t \notin ToSet(out)
  <2>1. PICK new : new = Append(out, t)
      OBVIOUS
  <2>2. KeepScope(out, parts[n + 1]) = new
      BY <1>2, <1>3, <1>14, <2>1 DEF KeepScope
  <2>3. /\ new \in Seq(U) /\ Len(new) = Len(out) + 1
        /\ new[Len(out) + 1] = t
        /\ \A i \in 1 .. Len(out) : new[i] = out[i]
      BY <1>3, <1>4, <1>k, <2>1
  <2>4. /\ \A i \in 1 .. Len(new) : i \in 1 .. Len(out) \/ i = Len(out) + 1
        /\ Len(out) + 1 \in 1 .. Len(new)
        /\ \A i \in 1 .. Len(out) : i \in 1 .. Len(new)
      BY <1>l, <2>3
  <2>5. /\ \A i \in 1 .. Len(out) : new[i].word = out[i].word
        /\ new[Len(out) + 1].word = p.word
      BY <1>3, <2>3
  <2>6. \A i \in 1 .. Len(new) : new[i].word # ""
      BY <1>5, <1>14, <2>4, <2>5
  <2>7. ASSUME NEW i \in 1 .. Len(new)
        PROVE  \E k \in 1 .. n + 1 : parts[k].word = new[i].word
    <3>1. CASE i \in 1 .. Len(out)
        BY <1>6, <1>10, <2>5, <3>1
    <3>2. CASE i = Len(out) + 1
        BY <1>2, <1>12, <2>5, <3>2
    <3> QED
        BY <2>4, <3>1, <3>2
  <2>8. ASSUME NEW k \in 1 .. n + 1, parts[k].word # ""
        PROVE  \E i \in 1 .. Len(new) : parts[k].word = new[i].word
    <3>1. CASE k \in 1 .. n
      <4>1. PICK i \in 1 .. Len(out) : parts[k].word = out[i].word
          BY <1>7, <2>8, <3>1
      <4> QED
          BY <2>4, <2>5, <4>1
    <3>2. CASE k = n + 1
        BY <1>2, <2>4, <2>5, <3>2
    <3> QED
        BY <1>11, <3>1, <3>2
  <2>9. ASSUME NEW i \in 1 .. Len(new), NEW j \in 1 .. i - 1
        PROVE  \E k \in 1 .. n + 1 : /\ parts[k].word = new[j].word
                                     /\ \A l \in 1 .. k : parts[l].word # new[i].word
    <3>1. j \in 1 .. Len(out) /\ new[j].word = out[j].word
        BY <1>l, <2>3, <2>5
    <3>2. CASE i \in 1 .. Len(out)
      <4>1. new[i].word = out[i].word
          BY <2>5, <3>2
      <4>2. PICK k \in 1 .. n : /\ parts[k].word = out[j].word
                                /\ \A l \in 1 .. k : parts[l].word # out[i].word
          BY <1>8, <3>2
      <4> QED
          BY <1>10, <3>1, <4>1, <4>2
    <3>3. CASE i = Len(out) + 1
      <4>1. new[i].word = p.word
          BY <2>5, <3>3
      <4>2. PICK k \in 1 .. n : parts[k].word = out[j].word
          BY <1>6, <3>1
      <4>3. ASSUME NEW l \in 1 .. k PROVE parts[l].word # p.word
        <5>1. l \in 1 .. n
            BY <1>1, <4>2
        <5>2. parts[l].word # "" =>
                \E m \in 1 .. Len(out) : parts[l].word = out[m].word
            BY <1>7, <5>1
        <5> QED
            BY <1>9, <1>14, <5>2
      <4> QED
          BY <1>10, <3>1, <4>1, <4>2, <4>3
    <3> QED
        BY <2>4, <3>2, <3>3
  <2>10. KeptInOrder(W, parts, n + 1, new)
      BY <1>4, <2>3, <2>6, <2>7, <2>8, <2>9 DEF KeptInOrder
  <2> QED
      BY <2>2, <2>10
<1> QED
    BY <1>13, <1>14

\* What the loop makes of the whole list.
LEMMA KeptFacts ==
    ASSUME NEW W, NEW parts \in Seq([word : W, padded : BOOLEAN])
    PROVE  \E out : /\ KeptInOrder(W, parts, Len(parts), out)
                    /\ SplitScopes(parts) =
                         IF [word |-> "openid", padded |-> FALSE] \in ToSet(out) THEN out
                         ELSE <<[word |-> "openid", padded |-> FALSE]>> \o out
<1>0. PICK L \in Nat : L = Len(parts)
    OBVIOUS
<1>1. PICK f : f = CHOOSE g : Keeps(g, parts, L)
    OBVIOUS
<1>2. Keeps(f, parts, L)
    BY <1>1, Keeping DEF KeepsUpTo
<1>3. SplitScopes(parts) =
          IF [word |-> "openid", padded |-> FALSE] \in ToSet(f[L]) THEN f[L]
          ELSE <<[word |-> "openid", padded |-> FALSE]>> \o f[L]
    BY <1>0, <1>1 DEF SplitScopes, Keeps
<1> DEFINE S == {n \in 0 .. L : KeptInOrder(W, parts, n, f[n])}
<1>4. 0 \in S
  <2>1. f[0] = <<>>
      BY <1>2 DEF Keeps
  <2>2. KeptInOrder(W, parts, 0, <<>>)
      BY DEF KeptInOrder
  <2> QED
      BY <2>1, <2>2
<1>5. ASSUME NEW n \in 0 .. L, n \in S, n < L PROVE n + 1 \in S
  <2>1. n + 1 \in 0 .. L /\ n + 1 # 0 /\ (n + 1) - 1 = n
      BY <1>5
  <2>2. f[n + 1] = KeepScope(f[n], parts[n + 1])
      BY <1>2, <2>1 DEF Keeps
  <2>3. n \in 0 .. Len(parts) - 1 /\ KeptInOrder(W, parts, n, f[n])
      BY <1>0, <1>5
  <2>4. KeptInOrder(W, parts, n + 1, KeepScope(f[n], parts[n + 1]))
      BY <2>3, KeepStep
  <2> QED
      BY <2>1, <2>2, <2>4
<1>6. \A n \in 0 .. L : n \in S
  <2> HIDE DEF S
  <2> QED
      BY <1>4, <1>5, UpTo
<1>7. KeptInOrder(W, parts, Len(parts), f[L])
    BY <1>0, <1>6
<1> QED
    BY <1>3, <1>7

\* Where a word is listed first, or the index past the list.
FirstListed(words, w) == Min({i \in DOMAIN words : words[i] = w} \cup {Len(words) + 1})

\* It is the least of the indices that list the word, if any does.
LEMMA FirstIsLeast ==
    ASSUME NEW words, NEW L \in Nat, Len(words) = L, DOMAIN words = 1 .. L, NEW w
    PROVE  /\ FirstListed(words, w) \in 1 .. L + 1
           /\ \A k \in 1 .. L : words[k] = w => FirstListed(words, w) <= k
           /\ FirstListed(words, w) \in 1 .. L => words[FirstListed(words, w)] = w
<1>1. PICK S : S = {i \in DOMAIN words : words[i] = w} \cup {Len(words) + 1}
    OBVIOUS
<1>2. /\ \A i \in S : i \in 1 .. L + 1
      /\ L + 1 \in S
      /\ \A k \in 1 .. L : words[k] = w <=> k \in S
    BY <1>1
<1>3. S \in SUBSET Nat /\ S # {}
    BY <1>2
<1>4. \E m \in S : \A k \in S : m <= k
    BY <1>3, LeastNatural
<1>5. PICK m \in S : m = FirstListed(words, w) /\ \A k \in S : m <= k
    BY <1>1, <1>4 DEF FirstListed, Min
<1> QED
    BY <1>2, <1>5

\* Whatever the list, however long and with whatever blanks: the login asks for openid
\* and for every scope of it, each once, in the order they were listed in
\* (splitScopes, config.go 295-297).
THEOREM EveryScopeIsAsked ==
    \A W, parts : parts \in Seq([word : W, padded : BOOLEAN]) => ScopesOnceInOrder(parts)
<1> SUFFICES ASSUME NEW W, NEW parts \in Seq([word : W, padded : BOOLEAN])
             PROVE  ScopesOnceInOrder(parts)
    OBVIOUS
<1>1. PICK L \in Nat : L = Len(parts) /\ DOMAIN parts = 1 .. L
  <2>1. PICK R : R = [word : W, padded : BOOLEAN]
      OBVIOUS
  <2>2. parts \in Seq(R)
      BY <2>1
  <2> QED
      BY <2>2
<1>2. PICK words : words = [i \in DOMAIN parts |-> parts[i].word]
    OBVIOUS
<1>3. DOMAIN words = 1 .. L /\ \A i \in 1 .. L : words[i] = parts[i].word
    BY <1>1, <1>2
<1>4. Len(words) = L
  <2>1. words \in [1 .. L -> {words[i] : i \in 1 .. L}]
      BY <1>2, <1>3
  <2> QED
      BY <2>1
<1>5. PICK openid : openid = [word |-> "openid", padded |-> FALSE]
    OBVIOUS
<1>6. PICK out : /\ KeptInOrder(W, parts, L, out)
                 /\ SplitScopes(parts) = IF openid \in ToSet(out) THEN out
                                         ELSE <<openid>> \o out
    BY <1>1, <1>5, KeptFacts
<1>7. PICK U : U = Unpadded(W)
    OBVIOUS
<1>8. out \in Seq(U)
    BY <1>6, <1>7 DEF KeptInOrder
<1>9. Len(out) \in Nat /\ DOMAIN out = 1 .. Len(out)
    BY <1>8
<1>10. \A i \in 1 .. Len(out) : out[i].word # ""
    BY <1>6 DEF KeptInOrder
<1>11. \A i \in 1 .. Len(out) : \E k \in 1 .. L : words[k] = out[i].word
  <2>1. \A i \in 1 .. Len(out) : \E k \in 1 .. L : parts[k].word = out[i].word
      BY <1>6 DEF KeptInOrder
  <2> QED
      BY <1>3, <2>1
<1>12. \A k \in 1 .. L : words[k] # "" => \E i \in 1 .. Len(out) : words[k] = out[i].word
  <2>1. \A k \in 1 .. L : parts[k].word # "" =>
          \E i \in 1 .. Len(out) : parts[k].word = out[i].word
      BY <1>6 DEF KeptInOrder
  <2> QED
      BY <1>3, <2>1
<1>13. ASSUME NEW i \in 1 .. Len(out), NEW j \in 1 .. i - 1
       PROVE  FirstListed(words, out[j].word) < FirstListed(words, out[i].word)
  <2>1. PICK k \in 1 .. L : /\ parts[k].word = out[j].word
                            /\ \A l \in 1 .. k : parts[l].word # out[i].word
      BY <1>6 DEF KeptInOrder
  <2>2. words[k] = out[j].word /\ \A l \in 1 .. k : words[l] # out[i].word
      BY <1>3, <2>1
  <2>3. FirstListed(words, out[j].word) <= k /\ FirstListed(words, out[j].word) \in 1 .. L + 1
      BY <1>3, <1>4, <2>2, FirstIsLeast
  <2>4. PICK f \in 1 .. L + 1 : f = FirstListed(words, out[i].word)
      BY <1>3, <1>4, FirstIsLeast
  <2>5. f \in 1 .. L => words[f] = out[i].word
      BY <1>3, <1>4, <2>4, FirstIsLeast
  <2>6. k < f
      BY <2>2, <2>4, <2>5
  <2> QED
      BY <2>3, <2>4, <2>6
<1>14. \A i \in 1 .. Len(out) : ~out[i].padded
  <2>1. \A x \in Unpadded(W) : ~x.padded
    <3>1. PICK N : N = {FALSE}
        OBVIOUS
    <3>2. \A x \in [word : W, padded : N] : x.padded \in N
        OBVIOUS
    <3> QED
        BY <3>1, <3>2 DEF Unpadded
  <2>2. \A i \in 1 .. Len(out) : out[i] \in U
      BY <1>8
  <2> QED
      BY <1>7, <2>1, <2>2
<1>15. (\E i \in 1 .. Len(out) : out[i].word = "openid") => openid \in ToSet(out)
  <2>1. SUFFICES ASSUME NEW i \in 1 .. Len(out), out[i].word = "openid"
                 PROVE  openid \in ToSet(out)
      OBVIOUS
  <2>2. PICK N : N = {FALSE}
      OBVIOUS
  <2>3. PICK x \in [word : W, padded : N] : x = out[i]
    <3>1. out[i] \in U
        BY <1>8
    <3> QED
        BY <1>7, <2>2, <3>1 DEF Unpadded
  <2>4. x = [word |-> x.word, padded |-> x.padded] /\ x.padded \in N
      BY <2>3
  <2>5. x = openid
      BY <1>5, <2>1, <2>2, <2>3, <2>4
  <2> QED
      BY <1>9, <2>3, <2>5 DEF ToSet
<1>16. openid.word = "openid" /\ ~openid.padded
    BY <1>5
<1>17. PICK scopes : scopes = SplitScopes(parts)
    OBVIOUS
<1>18. {out[i].word : i \in 1 .. Len(out)} = ToSet(words) \ {""}
  <2>1. ASSUME NEW i \in 1 .. Len(out) PROVE out[i].word \in ToSet(words) \ {""}
      BY <1>3, <1>10, <1>11 DEF ToSet
  <2>2. ASSUME NEW w \in ToSet(words) \ {""}
        PROVE  \E i \in 1 .. Len(out) : w = out[i].word
    <3>1. PICK k \in 1 .. L : words[k] = w
        BY <1>3 DEF ToSet
    <3> QED
        BY <1>12, <2>2, <3>1
  <2> QED
      BY <2>1, <2>2
<1>19. CASE openid \in ToSet(out)
  <2>1. scopes = out
      BY <1>6, <1>17, <1>19
  <2>2. {s.word : s \in ToSet(scopes)} = {out[i].word : i \in 1 .. Len(out)}
      BY <1>9, <2>1 DEF ToSet
  <2>3. "openid" \in {out[i].word : i \in 1 .. Len(out)}
      BY <1>9, <1>16, <1>19 DEF ToSet
  <2>4. {s.word : s \in ToSet(scopes)} = (ToSet(words) \ {""}) \cup {"openid"}
      BY <1>18, <2>2, <2>3
  <2>5. ASSUME NEW i \in DOMAIN scopes
        PROVE  /\ ~scopes[i].padded
               /\ \A j \in 1 .. i - 1 :
                    \/ FirstListed(words, scopes[j].word) < FirstListed(words, scopes[i].word)
                    \/ "openid" \notin ToSet(words) /\ j = 1
    <3>1. i \in 1 .. Len(out)
        BY <1>9, <2>1
    <3> QED
        BY <1>13, <1>14, <2>1, <3>1
  <2> QED
      BY <1>2, <1>17, <2>4, <2>5 DEF ScopesOnceInOrder, FirstListed
<1>20. CASE openid \notin ToSet(out)
  <2>1. scopes = <<openid>> \o out
      BY <1>6, <1>17, <1>20
  <2>2. /\ DOMAIN scopes = 1 .. Len(out) + 1
        /\ scopes[1] = openid
        /\ \A i \in 1 .. Len(out) : scopes[i + 1] = out[i]
    <3>1. PICK V : V = U \cup {openid}
        OBVIOUS
    <3>2. out \in Seq(V) /\ <<openid>> \in Seq(V)
        BY <1>8, <3>1
    <3> QED
        BY <2>1, <3>2
  <2>3. \A i \in DOMAIN scopes : \/ i = 1
                                 \/ i - 1 \in 1 .. Len(out) /\ scopes[i] = out[i - 1]
    <3>1. ASSUME NEW i \in DOMAIN scopes, i # 1
          PROVE  i - 1 \in 1 .. Len(out) /\ scopes[i] = out[i - 1]
      <4>1. i - 1 \in 1 .. Len(out) /\ (i - 1) + 1 = i
          BY <1>9, <2>2, <3>1
      <4> QED
          BY <2>2, <4>1
    <3> QED
        BY <3>1
  <2>4. "openid" \notin ToSet(words)
    <3>1. SUFFICES ASSUME "openid" \in ToSet(words) PROVE FALSE
        OBVIOUS
    <3>2. PICK k \in 1 .. L : words[k] = "openid"
        BY <1>3, <3>1 DEF ToSet
    <3>3. words[k] # ""
        BY <3>2
    <3> QED
        BY <1>12, <1>15, <1>20, <3>2, <3>3
  <2>5. {s.word : s \in ToSet(scopes)} = {out[i].word : i \in 1 .. Len(out)} \cup {"openid"}
    <3>1. \A s \in ToSet(scopes) :
            s.word \in {out[i].word : i \in 1 .. Len(out)} \cup {"openid"}
        BY <1>16, <2>2, <2>3 DEF ToSet
    <3>2. 1 \in DOMAIN scopes /\ \A i \in 1 .. Len(out) : i + 1 \in DOMAIN scopes
        BY <1>9, <2>2
    <3>3. openid \in ToSet(scopes) /\ \A i \in 1 .. Len(out) : out[i] \in ToSet(scopes)
      <4>1. \A i \in DOMAIN scopes : scopes[i] \in ToSet(scopes)
          BY DEF ToSet
      <4> QED
          BY <2>2, <3>2, <4>1
    <3> QED
        BY <1>16, <3>1, <3>3
  <2>6. {s.word : s \in ToSet(scopes)} = (ToSet(words) \ {""}) \cup {"openid"}
      BY <1>18, <2>5
  <2>7. ASSUME NEW i \in DOMAIN scopes
        PROVE  /\ ~scopes[i].padded
               /\ \A j \in 1 .. i - 1 :
                    \/ FirstListed(words, scopes[j].word) < FirstListed(words, scopes[i].word)
                    \/ j = 1
    <3>1. CASE i = 1
        BY <1>16, <2>2, <3>1
    <3>2. CASE i # 1
      <4>1. i - 1 \in 1 .. Len(out) /\ scopes[i] = out[i - 1]
          BY <2>3, <3>2
      <4>2. ASSUME NEW j \in 1 .. i - 1, j # 1
            PROVE  FirstListed(words, scopes[j].word) < FirstListed(words, scopes[i].word)
        <5>1. j - 1 \in 1 .. (i - 1) - 1 /\ j \in DOMAIN scopes
            BY <1>9, <2>2, <4>1, <4>2
        <5>2. scopes[j] = out[j - 1]
            BY <2>3, <4>2, <5>1
        <5> QED
            BY <1>13, <4>1, <5>1, <5>2
      <4> QED
          BY <1>14, <4>1, <4>2
    <3> QED
        BY <3>1, <3>2
  <2> QED
      BY <1>2, <1>17, <2>4, <2>6, <2>7 DEF ScopesOnceInOrder, FirstListed
<1> QED
    BY <1>19, <1>20

\* The lists that the run enumerates among them.
THEOREM EnumeratedScopesAreAsked == Spec => []ScopesAsListed
<1> DEFINE Enumerated == input.of = "scopes" => input.parts \in BoundedSeq(Scope, 4)
<1>1. Init => Enumerated
    BY DEF Init, Inputs
<1>2. Enumerated /\ [Next]_<<input, migrations, theme>> => Enumerated'
    BY DEF Next
<1>3. ASSUME NEW parts \in BoundedSeq(Scope, 4)
      PROVE  \E W : parts \in Seq([word : W, padded : BOOLEAN])
  <2>1. PICK R : R = Scope
      OBVIOUS
  <2>2. BoundedSeq(R, 4) = UNION {[1 .. m -> R] : m \in 0 .. 4}
      BY DEF BoundedSeq, SeqOf
  <2>3. PICK m \in 0 .. 4 : parts \in [1 .. m -> R]
      BY <2>1, <2>2
  <2>4. parts \in Seq(R)
      BY <2>3
  <2> QED
      BY <2>1, <2>4 DEF Scope
<1>4. Enumerated => ScopesAsListed
    BY <1>3, EveryScopeIsAsked DEF ScopesAsListed
<1> QED
    BY <1>1, <1>2, <1>4, PTL DEF Spec
=============================================================================
