---------------------------- MODULE MCComponents ----------------------------
(* Components that share nothing with the rest while they work: those that  *)
(* are functions of their input, each over a bounded set of inputs, and the *)
(* migrations directory and the theme, each from a few situations.          *)
EXTENDS Settings, Router, Identity

CONSTANTS MaxDeviations,  \* bound on the variables an environment sets
          Developer, Name, MaxVersion, Tab

VARIABLES input, tree, creator, embedded, applied, linear, stored, os, refused, document

migrations == <<tree, creator, embedded, applied, linear>>
theme == <<stored, os, refused, document>>

M == INSTANCE Migrations
T == INSTANCE Theme

Environments ==
    {env \in UNION {[keys -> UNION {Value(k) : k \in keys}] :
                      keys \in {k \in SUBSET Key : Cardinality(k) <= MaxDeviations}} :
       \A k \in DOMAIN env : env[k] \in Value(k)}

Scope == [word : {"", "openid", "email"}, padded : BOOLEAN]

MCFiles == {<<"index.html">>, <<"app.js">>}
Plain == [words : {<<w>> : w \in Reserved \cup {"me", "logout", "page", "app.js", "", ".."}},
          plain : {TRUE}]
Escaped == [words : {<<w>> : w \in {"api", "me", "healthz"}}
                    \cup ({"api", "auth", ""} \X {"me", "logout", ""}),
            plain : {FALSE}]
Requests == [method : Method, session : BOOLEAN, token : BOOLEAN, dev : BOOLEAN,
             vite : BOOLEAN, pool : BOOLEAN, path : BoundedSeq(Plain \cup Escaped, 2) \ {<<>>}]

String(t) == JSON("string", t)
Admin == [word |-> "admin", upper |-> TRUE, padded |-> TRUE]
Blank == [Empty EXCEPT !.padded = TRUE]
Leaves == {String(t) : t \in {Empty, Blank, Lower("admin"), Admin, Lower("user")}}
          \cup {JSON("number", 0)}
Values == Leaves \cup {JSON("array", s) : s \in BoundedSeq(Leaves, 2)}
                 \cup {JSON("array", <<JSON("array", <<String(Admin)>>)>>)}
Objects(keys, values) == {JSON("object", f) : f \in [keys -> values]}
RoleClaims == Objects({"roles"}, Values \cup Objects({"roles"}, Values))
              \cup Objects({"realm_access"}, Objects({"roles"}, Values) \cup Values)
RolePaths == {<<>>, <<"roles">>, <<"realm_access", "roles">>, <<"roles", "x">>}

NameKeys == {"name", "given_name", "family_name", "preferred_username", "email"}
NameClaims == UNION {Objects(keys, {String(Empty), String(Blank), String(Lower("x")),
                                    JSON("number", 0)}) : keys \in SUBSET NameKeys}

MCName == {<<"a">>, <<"-", "a", " ">>, <<"a", "-", " ", "b">>, <<" ">>}
Listings == {{M!Entry(0, <<"x">>)}, {M!Entry(0, <<"x">>), M!Entry(2, <<"b">>)}}

Inputs ==
    [of : {"environment"}, env : Environments]
    \cup [of : {"scopes"}, parts : BoundedSeq(Scope, 4)]
    \cup [of : {"request"}, request : Requests]
    \cup [of : {"roles"}, claims : RoleClaims, path : RolePaths,
          adminRole : {Empty, Blank, Lower("admin"), Admin}]
    \cup [of : {"names"}, claims : NameClaims]
    \cup [of : {"listing"}, entries : Listings]

Init == \/ /\ input \in Inputs
           /\ M!InitFrom(IF input.of = "listing" THEN input.entries ELSE {})
           /\ T!Start /\ stored = "none" /\ ~os /\ ~refused
        \/ /\ input = [of |-> "theme"]
           /\ M!InitFrom({}) /\ T!Start

Next == \/ /\ input.of = "listing" /\ M!Next
           /\ UNCHANGED <<input, theme>>
        \/ /\ input.of = "theme" /\ T!Next
           /\ UNCHANGED <<input, migrations>>

Spec == Init /\ [][Next]_<<input, migrations, theme>>

-----------------------------------------------------------------------------
\* Every refusal of the configuration can be repaired at the variable it names.
RefusalsNameCulprits == input.of = "environment" => RefusalNamesCulprit(input.env)

\* A login asks for openid and the listed scopes, each once.
ScopesAsListed == input.of = "scopes" => ScopesOnceInOrder(input.parts)

\* Reserved paths are the server's, others the page handler's.
ReservedKept == input.of = "request" => ReservedStaysReserved(input.request)

\* No handler runs without the token or the session it needs.
HandlersGuarded == input.of = "request" => Guarded(input.request)

\* Admin is who was granted the role.
AdminsGranted ==
    input.of = "roles" => AdminAsGranted(input.claims, input.path, input.adminRole)

\* Whoever has any name is shown with one.
NamesShown == input.of = "names" => NameShown(input.claims)

\* With creates made in turn, goose applies every binary's migrations, each as itself.
NoneSkipped == M!NoneSkipped

\* A tab shows the theme a reload would show.
ShownAsReloaded == T!ShownAsReloaded
=============================================================================
