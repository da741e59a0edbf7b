-------------------------------- MODULE Router --------------------------------
(***************************************************************************)
(* Which handler answers a request (internal/server/routes.go, spa.go).    *)
(* The router compares the path as it was sent, escapes and all, segment   *)
(* by segment; the handler of the single-page application looks at the     *)
(* path without its escapes.  A path is a sequence of segments, a segment  *)
(* the words it has between slashes once the escapes are gone (more than   *)
(* one when a slash was escaped) and whether it was sent without escapes.  *)
(***************************************************************************)
EXTENDS Naturals, Sequences, SequencesExt

CONSTANT Files   \* the paths of the files in spa_dist

Safe == {"GET", "HEAD", "OPTIONS", "TRACE"}
Method == {"GET", "HEAD", "OPTIONS", "POST", "DELETE", "BREW"}

\* reservedPrefixes
Reserved == {"api", "auth", "healthz", "readyz"}

(* A request: path; whether it carries a session that Resolve accepts and a *)
(* CSRF token that valid accepts, in cookie and header; whether the server  *)
(* has a database pool and runs in development, and the Vite server is up.  *)
Route(method, path, handler) == [method |-> method, path |-> path, handler |-> handler]

Routes == { Route("GET", <<"healthz">>, "live"), Route("GET", <<"readyz">>, "ready"),
            Route("GET", <<"auth", "login">>, "login"),
            Route("GET", <<"auth", "callback">>, "callback"),
            Route("POST", <<"auth", "logout">>, "logout"),
            Route("GET", <<"auth", "me">>, "identity"),
            Route("GET", <<"api", "me">>, "user") }

Decoded(q) == FlattenSeq([i \in DOMAIN q.path |-> q.path[i].words])

\* Segment i of the path is the literal w of a pattern.
Literal(q, i, w) == q.path[i].plain /\ q.path[i].words = <<w>>

Matches(q, r) == /\ Len(q.path) = Len(r.path)
                 /\ \A i \in DOMAIN r.path : Literal(q, i, r.path[i])

\* mountAuth: /auth and /api with all that is under them, if there is a pool.  A
\* method the router has never heard of does not get that far.
Mounted(q, prefix) == q.pool /\ q.method # "BREW" /\ Literal(q, 1, prefix)

IsReservedPath(words) == words[1] \in Reserved

\* path.Clean: no empty element and no dot, and two dots take one back.
Clean(words) ==
    FoldLeft(LAMBDA out, w : CASE w \in {"", "."} -> out
                              [] w = ".." -> SubSeq(out, 1, Len(out) - 1)
                              [] OTHER -> Append(out, w), <<>>, words)

\* The handler beyond its guard: the Vite server, or a file and else index.html (the
\* placeholder where there is none).
Page(q) ==
    CASE q.dev -> IF q.vite THEN "proxy" ELSE "502"
      [] ~q.dev /\ q.method \notin {"GET", "HEAD"} -> "405"
      [] ~q.dev /\ q.method \in {"GET", "HEAD"} ->
           IF Clean(Decoded(q)) \in Files THEN "file" ELSE "index"

\* The handler for whatever has no route, by path or by method: newDevProxy and
\* prodSPA.ServeHTTP.
SPA(q) ==
    CASE IsReservedPath(Decoded(q)) -> "404"
      [] OTHER -> Page(q)

\* Mutant: without a session there is nothing to protect.
CSRFRefusesSession(q) == /\ Mounted(q, "auth") \/ Mounted(q, "api")
                         /\ q.method \notin Safe /\ ~q.token /\ q.session

\* The CSRF middleware of both mounts.
CSRFRefuses(q) == /\ Mounted(q, "auth") \/ Mounted(q, "api")
                  /\ q.method \notin Safe /\ ~q.token

RequireAuthRefuses(q) == Mounted(q, "api") /\ ~q.session

Matching(q) == {r \in Routes : /\ r.method = q.method /\ Matches(q, r)
                               /\ r.path[1] \in {"auth", "api"} => q.pool}

\* NewRouter: the middleware of a mount comes before its routes are looked at.
Answer(q) ==
    CASE CSRFRefuses(q) -> "403"
      [] ~CSRFRefuses(q) /\ RequireAuthRefuses(q) -> "401"
      [] OTHER -> IF Matching(q) = {} THEN SPA(q)
                  ELSE (CHOOSE r \in Matching(q) : TRUE).handler

-----------------------------------------------------------------------------
Handlers == {r.handler : r \in Routes}

\* What the server owns is never answered with a page, a file or the development
\* server, and nothing else is answered by the server: whatever the method and
\* however the path is escaped, the router's and the page handler's idea of a
\* reserved path agree (spa.go 10-12 and 47-49).
ReservedStaysReserved(q) ==
    IsReservedPath(Decoded(q)) <=> Answer(q) \in Handlers \cup {"401", "403", "404"}

\* No handler runs for an unsafe method without a CSRF token, nor for /api without a
\* session; and whoever has no session is not told which paths /api has.
Guarded(q) ==
    /\ Answer(q) \in Handlers /\ q.method \notin Safe => q.token
    /\ Answer(q) = "user" => q.session
    /\ Mounted(q, "api") /\ ~q.session => Answer(q) \in {"401", "403"}
=============================================================================
