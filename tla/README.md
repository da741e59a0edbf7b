# A TLA+ model of go-svelte-template

The repository is a template for a web application: one Go binary that serves a
Svelte single-page application, signs users in with OpenID Connect, and keeps
their sessions in PostgreSQL. This directory holds TLA+ modules that model the
parts of it in which order, concurrency and failure matter, the TLC
configurations that check them on small instances, and TLAPS proofs of the
safety properties for all values of the constants.

    tlc -config MCSessionsLedger.cfg MCSessions.tla     # one run
    tlapm SessionsProofs.tla                            # one proof module

`PROJECT.json` lists the runs, the mutants that show each property can fail, the
source lines behind every definition, the hazards and the findings.

## The system

| Component | State | Operations | What makes it hard |
|---|---|---|---|
| Session store (`internal/auth/session.go`, `internal/store`) | table `sessions`, the session cookie | `Create`, `Resolve`, `Destroy`, `RefreshSession` | a request is several round trips to the database, others run in between; failing or silently committed queries; clocks of the replicas and of the database |
| Session guard (`middleware.go`) | none | `RequireAuth` | inherits `Resolve` |
| Provider client (`oidc.go`) | `provider`, `verifier`, `oauth2` behind a mutex | `ensure` and the operations that call it | a network request under a mutex, retry after failure |
| Login flow (`handlers.go`) | the signed flow cookie | `Login`, `Callback` | tabs share one cookie; reload, back, lost answers, expiry |
| CSRF protection (`csrf.go`) | the CSRF cookie, the secret | `Middleware`, `ensureCookie` | concurrent first requests each issue a token; secret changes |
| Browser auth store (`web/src/lib/auth`, `web/src/lib/api`) | `auth.status`, `auth.user` per document | `load`, `login`, `logout`, `requireAuth`, `apiFetch` | answers out of order, lost, or for a document that is going away |
| Rate limiter (`internal/server/middleware.go`) | `visitors` behind a mutex | `allow`, `janitor` | the clock is read before the lock; eviction |
| Process and server (`cmd/server`, `server.go`, `db.go`) | the listener, connections, the pool | `run`, `Run` | signal against failure, drain deadline, pool closed under handlers |
| Middleware chain and probes (`routes.go`, `middleware.go`, `health`) | none | logger, recoverer, headers, limiter, `/healthz`, `/readyz` | panics before and after the first byte, a pool that is used up |
| SPA handler, dev proxy (`spa.go`) | none | file, index, 404 or 405; proxy | the router compares escaped paths, the handler unescaped ones |
| Identity mapping (`identity.go`) | none | claims to roles and name | any JSON type at any path, blanks, an empty admin role |
| Configuration (`config.go`) | read once | `Load`, validation, `splitScopes` | checks over two variables, one of them unset; which variable an error names |
| Migrations (`migrate.go`) | files in each working tree, files in the binary, goose's table | `up`, `down`, `status`, `create` | `create` looks at one tree, `up` runs what was embedded at build time: branches, older binaries, gaps and foreign files |
| Theme store (`web/src/lib/theme`, `app.html`) | preference, class on the document | `init`, `set`, the system's change | the logic exists twice; tabs share storage but no event; storage may throw |

How they interact. A request passes the chain RequestID, RequestLogger,
Recoverer, SecureHeaders, RateLimit; then health, or `/auth` behind CSRF, or
`/api` behind CSRF and RequireAuth, or the SPA. `Callback` joins the login flow,
the provider client and the session store; `Logout` joins the store and the
provider client. The browser's store talks to `/auth/me` and `/auth/logout` and
shares three cookies with every other tab: the session, the flow and the CSRF
cookie. The theme's preference in local storage is shared the same way, and the root
layout starts the theme's store before the auth store. Everything else is joined by the database pool, which `run` opens first
and closes last.

## Modules

| Module | Models | Checked by | Proofs |
|---|---|---|---|
| `SessionLedger` | abstract specification: sessions are opened once, closed for good, and a request is answered for a session that was open while it was served | as `ImplementsLedger` | `SessionsProofs` |
| `Sessions` | `Create`, `Resolve`, `Destroy`, cookies, two clocks | `MCSessions` | `SessionsProofs` |
| `SessionRefresh` | extends `Sessions` with `RefreshSession` and rotating tokens | `MCSessionRefresh` | `SessionsProofs` |
| `RateLimiter` | `allow` and `janitor` | `MCRateLimiter` | `RateLimiterProofs` |
| `Consents` | abstract specification: a tab is in a login of its own, a consent is redeemed once and opens one session, and the tab is shown as signed in once for it | as `ImplementsConsents` | `LoginFlowProofs` |
| `Authenticator` | `ensure` and its callers | `MCAuthenticator` | `AuthenticatorProofs` |
| `LoginFlow` | `Login`, `Callback`, flow cookie, tabs | `MCLoginFlow` | `LoginFlowProofs` |
| `WebAuth` | CSRF middleware and the browser's auth store | `MCWebAuth` | `WebAuthProofs` |
| `Server` | `run`, `Run`, pool, middleware chain, probes | `MCServer` | `ServerProofs` |
| `SignOut` | the browser's auth store, the session cookie and the session handlers together | `MCSignOut` | `SignOutProofs` |
| `Router` | `NewRouter`, `mountAuth`, the page handler in both modes | `MCComponents` | `ComponentsProofs` |
| `Settings` | `Load`, `validate`, `splitScopes` | `MCComponents` | `ComponentsProofs` |
| `Identity` | `userFromIDToken`, `NewIdentity` and its helpers | `MCComponents` | `ComponentsProofs` |
| `Migrations` | `migrate create` in working trees, `up` and `down` of a binary | `MCComponents` | `ComponentsProofs` |
| `Theme` | `app.html`'s script and the theme store, in tabs | `MCComponents` | `ComponentsProofs` |

### Sessions

`rows` is the table by primary key, `jar` the browsers' session cookies, `req`
the local variables of the goroutine that serves a request, `now` the database's
clock. Each round trip of a handler is one action, named for its place in the
handler: `StartLogin`, `Insert` (Create); `StartResolve`, `Get`, `Check`,
`DeleteExpired` or `Touch` (Resolve); `StartLogout`, `Destroy`. `Deliver` is the
answer with its `Set-Cookie`. Under `Faults` a statement may fail before or
after it took effect (`Outcome`), an answer may be lost and a handler may die
(`Abandon`). `owner` and `late` are history. A row keeps its user, for the
claims, and its three times.

Abstractions. `now()` of PostgreSQL is the time of the statement, since every
query is a transaction of its own. Ids are fresh and unguessable
(`randomToken`), so a cookie names an id that was issued. Deadlines are compared
with the replica's clock, `now + Skew[r]`; `Drift` bounds the differences.
Everything `Resolve` reports as unauthenticated is one outcome. A user agent's
cookie may vanish at any time (`Forget`).

### SessionRefresh

Extends `Sessions`, so the refresh runs beside all other handlers. A refresh
token is the login it comes from and a rotation number; `idp` is the rotation
the provider accepts. `GetForRefresh`, `Exchange` and `Rotate` are the three
stages. When the provider keeps the token nothing changes, as in the code. No
route calls `RefreshSession`; the module shows what an application that does
gets.

### RateLimiter

`Arrive` reads the clock, `Allow` is the critical section, `Wake` and `Evict`
are the two halves of the janitor. Time is counted in the time one unit of refill takes, a
request costs `Cost` units: with these units the code's `float64` arithmetic is
integer arithmetic. `Delay` bounds the wait between clock reading and lock (Go's
mutex hands over to a waiter after 1 ms). `EvictionAssumption` says that the
time to live is long enough to fill a bucket; with the router's values it is 300
times longer. `admitted` is history.

### Authenticator

`Lock` is `ensure` with the mutex, `Discovered` and `DiscoveryFailed` its end;
`Use` and `UseFails` the operation after it. A callback makes two calls. The
provider (`idp`) is up, down or silent and changes at will; a silent one answers
nothing until the client that waits for it goes (`GiveUp`).

### LoginFlow

`jar` is the flow cookie, `tab` what each tab shows and waits for, `req` the
requests in flight. An attempt stands for state, nonce and PKCE verifier, which
are drawn together. The provider binds a code to the attempt that asked for it
and redeems it once. The user may cancel, reload, go back, and open any number
of logins; `solo` is the history of a login nothing interfered with.

`Consents` is what a user may expect of it, without cookies, requests and answers: tabs
with the attempt each is in, and codes as consents, each `none`, `given`, `redeemed`,
with a `session` whose answer is on its way, or `over`. Under the refinement mapping
(`StageOf`) an attempt is a tab's from the moment the provider's page is in it, and a
consent is over when its answer was delivered or cannot be shown any more. Only the tab in
the attempt may show what came of a consent. Which request redeems it, and with whose
verifier, is no part of the promise: that is `OwnVerifierOnly`. An insert that commits
while its answer is lost makes `Callback` answer 500 (`Create`): the session is there and
nobody is told, which the promise admits as a step of its own, `Strand`.

### WebAuth

`call` holds requests from the script that builds them (`Fetch`, where
`document.cookie` is read) to their departure (`Attach`, where the browser adds
the cookies), the server's answer (`Me`, `Login`, `Logout`) and the resumption
of the script (`Deliver`, after `Set-Cookie`). Whether the session exists is
left open: `/auth/me` says yes or no. A document that is unloaded takes its
requests with it, and until then it runs on: after `location.assign` (`GoToLogin`,
`Assigned`) answers are still delivered, and a second change of location replaces the
first. The redirect to the provider and back is one request of the
browser. What a page shows while its `requireAuth` waits, and goes on showing when that
throws, is no part of the state; navigation within a document to a protected page loads
once more (`GotoProtected`).
`theme.init` is assumed not to throw here; in `SignOut` it may.

### Server

`phase` is where `run` is: `connect`, `build`, `select` (Run waits), `drain`
(Shutdown), `close` (the deferred `pool.Close`), `exited`. `req` holds
connections: idle, in a handler, past the logger. `kind` tells the two probes from
application handlers, which may ask for connections, write, panic, return, or
never do anything again. `sent` and `log` are the status on the wire and in the
log. `Cut` is a connection that goes, whose context net/http then cancels; the
requests of the application carry no body, so the cancellation is immediate.
Hijacked connections of the dev proxy, write timeouts and the retry of database connections
are left out.

### SignOut

The composition of `WebAuth`'s browser with `Sessions`' server, each made coarser: a
handler is one step, the CSRF token is only a reason to refuse a logout. `row` is the
table, `cookie` the session cookie, `tab` the auth store in each tab, `call` the requests
with their answers. `Open` is the layout's `onMount`, `Guard` `requireAuth`, whose checks
run side by side; `Me`, `Logout` and `Login` are the handlers, each with its failing
database; `Deliver` and `Lose` are the two ways a request can end. A document that has
changed its location (`Assigned`) takes answers until it goes (`Unload`). `seen`, `failed`,
`over`, `leaving`, `maker` and `excused` are history. `excused` names each way in which a
session can be cut off from the browser, so that `LiveIsHeld` says there is no other: a
delete that failed, an insert that was reported as failed, an answer that was lost, a
login over a live session, and another tab's late logout. A login's answer is taken in one
step with the document that it brings.

### Router, Settings, Identity

Functions, checked for every input within bounds. `Router` takes a request as method,
segments and what the middleware will find of it; a segment keeps its words after
unescaping and whether it was sent plain, which is all that tells chi's view of a path from
`IsReservedPath`'s. `Settings` takes an environment as a function on the variables that
are set. `Checks` lists the checks in the code's order with the variable each error
names. `Identity` takes claims as JSON with their types, and roles as a set: the answer's
order of roles is of no interest. The loops over segments, claims and scopes are
recursive functions over the prefixes, which the proofs can take apart.

### Migrations

`tree` is the directory in each developer's working tree, with files that are no
migrations in it, `creator` the `migrate create` that runs there, `embedded` the files that
`go:embed` put into the binary, `applied` what the database has run. `Read` ends with
`nextVersion`'s answer, `Write` is `os.WriteFile`; `Merge` and `Checkout` are what git does
to a tree, `Build` is the compiler. `Up` and `Down` work on `embedded`, which may have been
built from an older tree or from another branch. goose is external: it panics on two
embedded files with one version, refuses one that it skipped, and records versions only.
`linear` is history: so far every create ran in a tree that had all migrations there are,
and no other create ran beside it. What developers write into a file is left out, and so is
a `.sql` file without a number.

### Theme

`stored` is local storage, `refused` whether it throws, `os` the system's preference,
`document` the class and the store of each tab. `Paint` is the script in `app.html`,
`Init` the store's `init`; between the two anything may happen. The logic exists twice in
the code and in the model: `Painted` is the script's, `NormalizePreference` and `Dark` are
the store's, and `ShownAsReloaded` holds each against the other.

## Runs

| Run | Instance | Shows |
|---|---|---|
| `sessions_ledger` | 2 handlers on replicas one unit apart, 1 user, 2 ids, 1 browser, all faults, `Absolute` 1, `Idle` 1, clock to 3 | the ledger is implemented; cookies are backed by rows, the dead stay dead; no request is let through past a deadline, up to the clocks' difference |
| `idle_check_race` (violation) | 2 handlers, equal clocks, no faults | `Resolve` deletes a session that is in use |
| `session_refresh` | 2 handlers, 3 ids, all faults | two refreshes, or refresh and logout, leave at most one row |
| `refresh_outlives_absolute` (violation) | 1 handler, no faults | a refreshed session outlives the absolute timeout |
| `logout_misses_rotation` (violation) | 2 handlers, no faults | a logout with the cookie of before a rotation ends nothing |
| `rate_limiter` | 3 requests, cost 2, burst 4, delay 1, clock to 9 | the limit holds in every window; no one is denied unearned |
| `discovery` | 3 requests, 1 restart | one discovery, no one waits for ever, failures are retried |
| `login_flow` | 2 tabs, 2 requests, 2 attempts, 1 code each | codes meet their own verifier, one session for a code, tabs land where asked; `Consents` is implemented |
| `web_auth` | 2 tabs, 2 secrets, 3 requests under the first and 2 under the second | logouts have a token and are refused only for a stated reason |
| `server` | 2 connections, a pool of 1 | clean exits are clean, draining ends, probes are answered |
| `sign_out` | 2 tabs, 2 requests, 2 sessions | a live session is in the cookie or its loss has a named cause; what a tab shows has a reason; an acknowledged logout is final for the tab's later documents |
| `components` | environments with up to 2 variables set, scope lists up to 4, paths of up to 2 segments under 6 methods, claims two objects deep, 2 developers and versions to 3, 2 tabs with a theme | the router and the page handler agree on reserved paths and nothing gets around the guards; refusals name a culprit; who is admin; names; scopes; no migration skipped; one theme |

The bounds. Races need two actors, and the third in `discovery` and
`rate_limiter` lets two overtake one. Two session ids let an answer for an old
session arrive after a new one was opened; three let a refresh go on from a
rotated session. Attempts and CSRF serials are reused once nobody holds them, so
the number of logins and tokens in a behaviour is unbounded. Two sessions in `sign_out` are
two logins, which is what one that replaces another takes, and two requests are two checks
of one document, or a check beside a logout. `web_auth` has three requests, so that a
document with its two loads meets another tab's logout; the constraint
`FewerUnderNewKey` cuts off the states with three after the secret has changed, where two
are enough for a token of the old secret to meet one of the new. `QuietLogoutsPass` has
neither bound. Migrations start from none and from version 2 alone, so that the numbers have a gap,
with a binary and a database that have any beginning of them. In the other parts of
`components` one variable is wrong and another, or its default, is in conflict with it; the
first segment of a path selects the mount, and the second what is under it.
`MaxTime` lets a
session live through its whole absolute timeout with the skew added, and in
`rate_limiter` lets a visitor be evicted and come back. `MaxRestarts`, `MaxKey` and
`MaxCodes` bound how often the environment acts. Symmetry is used only in runs
without liveness.

Deadlock is not checked: idle systems stop where the clock, the ids or the
process end.

### Fairness

Only two specifications state fairness, both called `FairSpec`.

- `Authenticator`: goroutines run; the mutex is granted to a waiter
  (`sync.Mutex` switches to starvation mode), hence strong fairness of `Lock`; a
  client does not wait for ever for an answer that does not come. The provider
  owes nothing. `RetriedUntilFound` names what it needs in its premise.
- `Server`: the drain's and the ping's timers fire, the steps of the probes are
  taken, a request whose connection is gone has its wait and its query
  cancelled, and the process ends when the pool is closed. Application handlers,
  queries and clients owe nothing.

## What the violations say

1. `internal/auth/session.go:114`: `Resolve` compares a copy of the row and
   deletes by id. A request that stalls between the two deletes a session that
   another request renewed meanwhile, and the user is signed out early.
2. `internal/auth/session.go:169`: every rotation sets `expires_at` from now, so
   the "maximum lifetime of a session regardless of activity"
   (`config.go:86`) is no limit for a session that is refreshed.
3. `internal/auth/session.go:131`: a logout that arrives with the id of before a
   concurrent rotation deletes nothing and answers 200.

## Observations no run is about

Where a doc or comment and the code differ:

- `health.go:3` calls `/healthz` "always 200". The limiter is in front of it
  (`routes.go:49`), so a probe from an address that sends too much gets 429.
- `session.go:126`: `Destroy` is said to return the session's refresh token; it
  returns nothing.
- `identity.go:51` puts given and family name before the user name. `userFromIDToken`
  stores `preferred_username` as the name when there is no name, so a user with both
  is shown under the user name.
- `web/src/lib/api/types.ts:19` says that `/api/me` echoes a subset of the identity;
  the handler encodes the session's user, whose raw claims are no part of it.
- `web/src/lib/auth/guard.ts:3` says that `requireAuth` "ensures the session is
  resolved". A check that fails otherwise than with 401 makes it throw (line 11), nobody
  catches that, and the page says "Checking your session…" (`dashboard/+page.svelte:33`)
  for as long as it is open.
- `web/src/lib/auth/auth.svelte.ts:4` calls the store "hydrated once". A protected page's
  check runs beside the layout's, `load` takes every answer (line 24), and one that comes
  after a logout makes the store authenticated again, until the document gives way to the
  next. `SignedOutAfresh` excepts exactly that document.

What the models show the code to do, without a promise against it:

- A handler that panics after it has written gets the error envelope after its body
  and 500 in the log where 200 was sent (`middleware.go:133`); the dev proxy panics
  this way when its upstream breaks off. `LoggedAsSent` excludes this case by name.
- A login over a live session leaves the old row to its deadlines, and so does a
  logout whose delete fails, and an insert that commits while `Create` reports an error;
  another tab's late logout answer clears a newer cookie. These are entries of `excused` in
  `SignOut`.
- A guard whose check is refused after a logout was acknowledged goes for the login while
  the browser is on its way to the provider's logout, and takes its place.
- After a failed logout the page is anonymous over a live session, and offers to log in.
- Where storage is refused, `theme.init` throws in the layout before `auth.load`: the
  status stays unknown. `theme.set` then changes the preference and not the class.
- A `name` claim of blanks is shown blank; a padded `OIDC_ADMIN_ROLE` matches no role.
- With only `SESSION_ABSOLUTE_TIMEOUT=10m` set, the refusal names
  `SESSION_IDLE_TIMEOUT`, whose default it is in conflict with. `RefusalNamesCulprit` holds: setting that
  variable repairs it. The check of `config.go:223` cannot fail.
- `//api/x` and `/x/../api` are not reserved, for either the router or the page
  handler, and are answered by the page.
- `migrate create` on two branches gives two files one version. A binary with both panics
  until one is renamed; a binary with one of them, against a database that has run the
  other, takes it for applied. `NoneSkipped` is about creates that run in turn, each in a
  tree that has all migrations there are.

## What is proved

All theorems are for arbitrary values of the constants, under the named
assumptions of each module, and are checked without appeal to the library's induction
theorems, `ENABLED` or liveness. Where a loop over a list is reasoned about, the
induction over its prefixes is `UpTo`, from the well-foundedness of the naturals.

- `SessionsProofs`. `OwnershipInv` adds to the types that a row belongs to the
  user its id was issued for, that ids in circulation were issued, that a late
  request's session is over, and what each stage of a handler knows. The
  properties alone are not inductive: `EndedMeansDenied` needs that a request at
  `touch` carries the owner's name and arrived in time. From it: `TypeCorrect`,
  `CookiesAreBacked`, `EndedIsDenied`, `DeletedStaysDeleted`. `DeadlineInv` adds
  that each deadline was set by some replica's clock and that the copy in a
  handler is never newer than the row; from it `AbsoluteHolds` and `IdleHolds`.
  `SessionsImplementLedger`: under the refinement mapping
  (`holder` is `owner`, `live` the ids with a row, `ask` the requests that carry
  an id) each step of `Sessions` is a step of the ledger or a stutter; the user a
  handler answers with is one it may answer with because of `OwnershipInv`.
  With `RefreshSession` beside the store, `RefreshInv` adds that an id descends from a
  login (`root`) whose id was issued (`Rooted`), so that a new login's row has no
  relatives, and that no token, stored or carried, is ahead of the provider's
  (`TokensIssued`, `RefSound`): an exchange then leaves every other copy behind, which
  is why two refreshes that read the same row cannot both hold the newest token. From it
  `LoginsHaveOneRow`, `TokensHaveOneHolder`, `RotatedStaysGone`, and
  `EndedIsDeniedUnderRefresh`: the steps of the refresh keep `OwnershipInv`, so what it
  gives the store is not lost by refreshing. `TokenAssumption` says that `None` is no token.
- `RateLimiterProofs`. `BucketInv` speaks of a visitor's level, tokens minus the
  time of the last fill, which no refill raises. `Paid` bounds what was admitted
  in any window by the level (for an evicted visitor by the time), `Spent` says
  that nothing else lowered it. From it `LimitHolds`, `DenialsAreEarned`,
  `LimiterTypeCorrect`.
- `AuthenticatorProofs`. `EnsureInv` ties the mutex to the one request that
  discovers; from it `DiscoveryIsSingle` and `ProviderIsStable`.
- `LoginFlowProofs`. The properties of `LoginFlow` are far from inductive: `FlowInv`
  ties the pieces of a login together. A code belongs to the attempt of the URL it
  came with, and a request past `Check` has the cookie of that attempt
  (`RequestsSound`), which gives `CodesMeetTheirVerifier`. Of the requests at `create`
  no two have one code, and the code of each is redeemed and without a session
  (`OneRedeemer`, `SessionsRedeemed`), which gives `CodesMakeOneSession`. Every copy
  of a cookie, in the jar, with a request or on its way back, has the page that a tab
  in its attempt was asked to return to (`PagesAgree`, because `Login` takes a fresh
  attempt), and a tab agrees with the request it waits for (`TabsSound`), which gives
  `TabsLandWhereAsked`. While nothing interferes there is one request, and the jar has
  the signed cookie of its attempt (`SoloOnTrack`); a callback is refused by `Check`
  only (`RefusedByCheck`), which gives `SoloLoginsPass`. `LoginTypeCorrect` goes along.
  `LoginImplementsConsents`: every step of `LoginFlow` is a step of `Consents` or a
  stutter; an insert reported as failed is `Strand`. `PromiseInv` adds what that needs. An answer with a session has its code to
  itself (`PageAnswers`), so that delivering it ends the consent, and no code is in use
  before it was issued (`CodesIssued`). An attempt on its way to a tab is nobody's and has
  no codes (`NewAttempts`), no two tabs are in one attempt (`AttemptsApart`), and a tab is
  in the attempt of the request it waits for (`SameAttempt`): entering a login is then
  entering one that nobody has, and a tab lands for a consent of its own.
- `WebAuthProofs`. `WebInv` adds to the types that a logout built when nothing was
  afoot still has the jar's token (`Calm`), that what is signed in has a cookie or one
  on its way (`PageSound`, `CallSound`). From it `LogoutsHaveTokens`,
  `QuietLogoutsPass`.
- `ServerProofs`. `LifeInv` adds to the safety properties that a pool which is not
  open belongs to a process without requests or past `Run` (`Ordered`), and that a step of a
  request needs a request, which a clean exit excludes. From it `CleanExits`,
  `PoolOutlivesDrain`, `LogsTellTheAnswer`. `ServerTypeCorrect` adds that no more than
  `MaxConns` connections are held: nothing but `Acquire` puts a request in possession of
  one, and it looks whether one is left (`LimitStep`, from the theorems on finite sets).
- `SignOutProofs`. `SignOutInv` has a part for each place where a session is known.
  `CallOK`: an answer clears the cookie for a logout only, whose row is gone or given up;
  it names a session for a login only, in the tab that the session was made for; and a check
  refused without a failure was for no row. `TabOK`: a document's status agrees
  with its last answer, and a session that it was told is over is in no answer and not in
  the cookie, and in none of its checks unless the document is the one that logged out, or
  a later document could show it as signed in again. `Travelling`: while an answer brings a
  new session, no request carries it, or a logout could end it before it arrives.
  `LogoutCurrent`: a tab's logout carries the cookie if the cookie was made for that
  tab, so that a late answer costs no later login of the same tab its cookie. From these
  `LiveSessionsAreHeld`, `StatusHasReason`, `OverIsOver`, `SignOutTypeCorrect`.
  `SentinelAssumption` keeps the two marks apart from tabs and sessions.
- `ComponentsProofs`. `EveryRequestIsGuarded` is about every request, with paths of any
  length, where the run has two segments, and `EveryNameIsShown` about all claims: a name
  is the first given among several, so a case for each suffices.
  `EveryReservedPathStaysReserved` is about paths of any length too, whose segments have
  any number of words once unescaped: the path without its escapes begins with the first
  word of its first segment (`FlatHead`), which is what both sides look at.
  `EveryAdminIsGranted` takes claims from any set of JSON values that has the members of
  its arrays and objects (`JSONValues`): the walk along the path stays in the set or is
  missing (`LeafIsJSON`), and trimming keeps a string's word. `EveryScopeIsAsked` is about
  lists of any length; the invariant of the loop (`KeptInOrder`) says that what is kept has
  every word of the prefix once and that of two kept words the earlier was listed before
  the later was. `ThemeInv` says of a
  painted document that it shows what it was painted for, of a mounted one that it shows
  what its store holds, which is the stored preference unless another tab has replaced that; from
  it `ThemeIsShownAsReloaded`, with the lemma that the script and the store agree on
  whatever is stored (`PaintedFacts`). `NoneSkipped` is not inductive: a binary could be
  right today and miss what a branch brings. `OneHistory` says that while creates run in
  turn all files anyone has, in a tree, the binary or the database, have distinct versions,
  that each of these has with a migration every one below it, and that whoever is about to
  write has them all and a version above; merging, switching, building and applying pass
  beginnings of the history on. From it `InTurnNoneIsSkipped`, for any number of developers
  and any migrations, one for a version, whose versions have a bound. That bounded
  versions have a greatest one comes from the well-foundedness of the naturals.
  `EveryRefusalNamesItsCulprit` is about every environment, with any number of wrong
  variables, where the run has two at a time: what replaces a variable by its default
  leaves the tables `Good` and `Bad` of every other as they were, and makes the check that
  named it pass.  Two checks read two variables: the development URL is wanted in one
  environment only, and the idle timeout is repaired against any absolute one.

`RefreshInv`, `SignOutInv`, `PromiseInv`, `ThemeInv`, `WebInv` and `OneHistory` were checked by
TLC as invariants of the instances of the runs before they were proved.

Model-checked only: liveness (`EveryCallReturns`, `RetriedUntilFound`,
`DrainEnds`, `ProbesAnswered`), which is beyond the prover. Every other property of a
passing run is stated by a theorem. The type invariants are proved as
parts of the inductive ones; `RateLimiter`'s, which bounds what a bucket may owe, is in a
run too. That a theorem holds for all values of the constants
says nothing of what the models leave out: the abstractions named above, and the data
they stand for.

## Not modelled

Pages, UI components, logging, version, generated types,
`bootstrap.sh` and the Taskfile have no behaviour a property here could be
about. `DeleteExpiredSessions` has no caller,
so the table is not bounded. The response headers of `SecureHeaders` and request ids are
data. `migrate status` changes nothing. The contents of tokens, URLs and
error bodies are data. PostgreSQL, pgx, net/http, chi, goose, the browser and
the provider appear as the code uses them and are marked external.

## Plan

The modules were written in this order: `SessionLedger`, `Sessions`, `SessionRefresh`,
`RateLimiter`, `Authenticator`, `LoginFlow`, `WebAuth`, `Server`, `Settings`, `Router`,
`Identity`, `Migrations`, `Theme`, `SignOut`, `Consents`. An abstract limiter was
considered and left out: `NoOverAdmission` and `DenialEarned` together already say what it
would. What an application that calls `RefreshSession` should do about a token that the
provider has taken while the process died is open in the code, and so in the model.
