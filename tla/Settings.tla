------------------------------- MODULE Settings -------------------------------
(***************************************************************************)
(* Configuration (internal/config/config.go): an environment is a function *)
(* from the variables that are set, under their names without the prefix,  *)
(* to values.  Values are representatives: the URLs, drivers and levels    *)
(* that validation tells apart, durations in minutes, secrets by length.   *)
(***************************************************************************)
EXTENDS Integers, Sequences, SequencesExt

Default ==
    [ENV |-> "dev", HTTP_HOST |-> "host", LOG_LEVEL |-> "info",
     VITE_DEV_URL |-> "http://host", DB_DSN |-> "postgres://host",
     OIDC_ISSUER |-> "http://host", OIDC_CLIENT_ID |-> "text",
     OIDC_CLIENT_SECRET |-> "text", OIDC_REDIRECT_URL |-> "http://host",
     OIDC_POST_LOGOUT_REDIRECT_URL |-> "http://host",
     SESSION_COOKIE_NAME |-> "text", CSRF_SECRET |-> "38 bytes",
     HTTP_PORT |-> "8080", SESSION_IDLE_TIMEOUT |-> "30m",
     SESSION_ABSOLUTE_TIMEOUT |-> "12h"]

Key == DOMAIN Default

\* The values a variable is given in the environments that are enumerated.
Value(k) ==
    {"", Default[k]} \cup
    CASE k = "ENV" -> {"prod", "staging"}
      [] k = "LOG_LEVEL" -> {"INFO", "verbose"}
      [] k = "HTTP_PORT" -> {"0", "65535", "65536", "text"}
      [] k = "DB_DSN" -> {"postgresql://host", "http://host", "%zz"}
      [] k \in {"SESSION_IDLE_TIMEOUT", "SESSION_ABSOLUTE_TIMEOUT"} ->
           {"-1m", "0", "10m", "24h", "text"}
      [] k = "CSRF_SECRET" -> {"31 bytes", "32 bytes"}
      [] OTHER -> {"text"}

Minutes == [text \in {"-1m", "0", "10m", "30m", "12h", "24h"} |->
              CASE text = "-1m" -> -1 [] text = "0" -> 0 [] text = "10m" -> 10
                [] text = "30m" -> 30 [] text = "12h" -> 720 [] text = "24h" -> 1440]

\* getenv, getenvInt, getenvDuration: a default only for what is not set at all.
Getenv(env, k) == IF k \in DOMAIN env THEN env[k] ELSE Default[k]

\* A duration that does not parse is none, and is refused before it is compared.
Amount(env, k) ==
    IF Getenv(env, k) \in DOMAIN Minutes THEN Minutes[Getenv(env, k)] ELSE 0

Check(k, holds) == [key |-> k, holds |-> holds]

Postgres == {"postgres://host", "postgresql://host"}

\* What a variable may be, and what it may not be.
Good(k) == CASE k = "ENV" -> {"dev", "prod"}
             [] k = "HTTP_PORT" -> {"8080", "65535"}
             [] k = "LOG_LEVEL" -> {"info", "INFO"}
             [] k = "DB_DSN" -> Postgres
             [] OTHER -> {"http://host"} \cup Postgres
Bad(k) == CASE k = "HTTP_PORT" -> {"", "text"}
            [] k = "CSRF_SECRET" -> {"", "31 bytes"}
            [] OTHER -> {""}

Within(env, k) == Check(k, Getenv(env, k) \in Good(k))
Without(env, k) == Check(k, Getenv(env, k) \notin Bad(k))
Parses(env, k) == Check(k, Getenv(env, k) \in DOMAIN Minutes)
Positive(env, k) == Check(k, Amount(env, k) > 0)

\* Mutant: every URL is reported as the issuer.
RequireAbsURLIssuer(env, k) == Check("OIDC_ISSUER", Getenv(env, k) \in Good(k))

\* requireAbsURL: a scheme and a host.
RequireAbsURL(env, k) == Within(env, k)

\* The development server's URL is of no interest in production.
ViteDevURL(env) == IF Getenv(env, "ENV") = "dev" THEN RequireAbsURL(env, "VITE_DEV_URL")
                                                 ELSE Check("VITE_DEV_URL", TRUE)

IdleInAbsolute(env) ==
    Check("SESSION_IDLE_TIMEOUT",
          Amount(env, "SESSION_IDLE_TIMEOUT") <= Amount(env, "SESSION_ABSOLUTE_TIMEOUT"))

(* The checks of Load, of validate and of validateAuth in their order, each *)
(* with the variable its error names.  The scopes are never empty, so that  *)
(* check cannot fail.                                                       *)
Checks(env) ==
    << Without(env, "HTTP_PORT"),
       Parses(env, "SESSION_IDLE_TIMEOUT"),
       Parses(env, "SESSION_ABSOLUTE_TIMEOUT"),
       Within(env, "ENV"),
       Without(env, "HTTP_HOST"),
       Within(env, "HTTP_PORT"),
       Within(env, "LOG_LEVEL"),
       ViteDevURL(env),
       Within(env, "DB_DSN"),
       RequireAbsURL(env, "OIDC_ISSUER"),
       Without(env, "OIDC_CLIENT_ID"), Without(env, "OIDC_CLIENT_SECRET"),
       RequireAbsURL(env, "OIDC_REDIRECT_URL"),
       RequireAbsURL(env, "OIDC_POST_LOGOUT_REDIRECT_URL"),
       Without(env, "SESSION_COOKIE_NAME"),
       Positive(env, "SESSION_IDLE_TIMEOUT"), Positive(env, "SESSION_ABSOLUTE_TIMEOUT"),
       IdleInAbsolute(env),
       Without(env, "CSRF_SECRET") >>

\* Load: the checks that refuse the environment; the first is reported.
Refusing(env) == {i \in DOMAIN Checks(env) : ~Checks(env)[i].holds}

\* Every refusal names a variable that can be given a value which passes the check
\* and brings no earlier one into play, whatever else is wrong: an operator who
\* goes from message to message gets a configuration that starts (config.go 158).
RefusalNamesCulprit(env) ==
    LET Reported(e) == Min(Refusing(e))
        k == Checks(env)[Reported(env)].key
    IN Refusing(env) # {} =>
         \E w \in Value(k) :
            LET repaired == [x \in DOMAIN env \cup {k} |-> IF x = k THEN w ELSE env[x]]
            IN Refusing(repaired) = {} \/ Reported(repaired) > Reported(env)

-----------------------------------------------------------------------------
(* The scopes: the text between two commas is a word, with blanks around it *)
(* or not.                                                                  *)

Trimmed(p) == [p EXCEPT !.padded = FALSE]

\* Mutant: blanks are trimmed off only after the search for a repetition.
KeepScopeUntrimmed(out, p) ==
    IF p.word = "" \/ p \in ToSet(out) THEN out ELSE Append(out, Trimmed(p))

\* The loop of splitScopes.
KeepScope(out, p) ==
    IF p.word = "" \/ Trimmed(p) \in ToSet(out) THEN out ELSE Append(out, Trimmed(p))

SplitScopes(parts) ==
    LET openid == [word |-> "openid", padded |-> FALSE]
        kept[n \in 0 .. Len(parts)] ==
          IF n = 0 THEN <<>> ELSE KeepScope(kept[n - 1], parts[n])
        out == kept[Len(parts)]
    IN IF openid \in ToSet(out) THEN out ELSE <<openid>> \o out

\* The login asks for openid and for every scope of the list, each once and without
\* blanks, in the order they were listed in.
ScopesOnceInOrder(parts) ==
    LET words == [i \in DOMAIN parts |-> parts[i].word]
        scopes == SplitScopes(parts)
        First(w) == Min({i \in DOMAIN words : words[i] = w} \cup {Len(words) + 1})
        openidAdded == "openid" \notin ToSet(words)
    IN /\ {s.word : s \in ToSet(scopes)} = (ToSet(words) \ {""}) \cup {"openid"}
       /\ \A i \in DOMAIN scopes :
            /\ ~scopes[i].padded
            /\ \A j \in 1 .. i - 1 :
                 \/ First(scopes[j].word) < First(scopes[i].word)
                 \/ openidAdded /\ j = 1
=============================================================================
