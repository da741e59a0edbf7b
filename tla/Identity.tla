------------------------------- MODULE Identity -------------------------------
(***************************************************************************)
(* From the claims of an ID token to the identity the browser shows: the   *)
(* user a login stores (userFromIDToken), the user a session gives back    *)
(* (userFromSession) and NewIdentity (internal/auth/identity.go).          *)
(*                                                                         *)
(* A text is a word, in capitals or not, with blanks around it or not; the *)
(* word may be empty.  A JSON value is a record with a type and a value.   *)
(***************************************************************************)
EXTENDS Naturals, Sequences, SequencesExt, Functions

Text(words) == [word : words, upper : BOOLEAN, padded : BOOLEAN]

Lower(w) == [word |-> w, upper |-> FALSE, padded |-> FALSE]
Empty == Lower("")

JSON(type, value) == [type |-> type, value |-> value]
Missing == JSON("missing", 0)

TrimSpace(t) == IF t.word = "" THEN Empty ELSE [t EXCEPT !.padded = FALSE]

\* strings.EqualFold
EqualFold(s, t) == s.word = t.word /\ s.padded = t.padded

\* The member k of a JSON object.
Member(json, k) ==
    IF json.type = "object" /\ k \in DOMAIN json.value THEN json.value[k] ELSE Missing

\* claimString, and the decoding of a claim into a string field.
ClaimString(claims, k) ==
    LET v == Member(claims, k) IN IF v.type = "string" THEN v.value ELSE Empty

FirstGiven(texts) ==
    LET given == {i \in DOMAIN texts : texts[i] # Empty}
    IN IF given = {} THEN Empty ELSE texts[CHOOSE i \in given : \A j \in given : i <= j]

\* userFromIDToken, and the row's columns as userFromSession reads them.
User(claims) ==
    [email |-> ClaimString(claims, "email"),
     name |-> FirstGiven(<<ClaimString(claims, "name"),
                           ClaimString(claims, "preferred_username")>>),
     claims |-> claims]

\* given + " " + family, trimmed: one of the two, or both with a blank between.
FullName(given, family) ==
    CASE TrimSpace(family) = Empty -> TrimSpace(given)
      [] TrimSpace(given) = Empty -> TrimSpace(family)
      [] OTHER -> Lower("given family")

\* lookupPath, for a path that was split at its dots; the empty path has no segment.
LookupPath(claims, path) ==
    LET cur[n \in 0 .. Len(path)] ==
          IF n = 0 THEN claims ELSE Member(cur[n - 1], path[n])
    IN IF path = <<>> THEN Missing ELSE cur[Len(path)]

\* The strings there: one that is the value itself, or those of an array.
Strings(v) ==
    CASE v.type = "string" -> {v.value}
      [] v.type = "array" -> {e.value : e \in {x \in ToSet(v.value) : x.type = "string"}}
      [] OTHER -> {}

\* Mutant: a blank entry is a role like another.
RolesFromClaimsBlank(claims, path) ==
    {TrimSpace(t) : t \in Strings(LookupPath(claims, path))}

\* rolesFromClaims: trimmed, without the empty ones; their order is of no interest.
RolesFromClaims(claims, path) ==
    {TrimSpace(t) : t \in Strings(LookupPath(claims, path))} \ {Empty}

\* Mutant: the name is the user's or the full name.
DisplayNameShort(u, email) ==
    FirstGiven(<<u.name, FullName(ClaimString(u.claims, "given_name"),
                                  ClaimString(u.claims, "family_name"))>>)

\* The precedence of names.
DisplayName(u, email) ==
    FirstGiven(<<u.name, ClaimString(u.claims, "name"),
                 FullName(ClaimString(u.claims, "given_name"),
                          ClaimString(u.claims, "family_name")),
                 ClaimString(u.claims, "preferred_username"), email>>)

NewIdentity(u, path, adminRole) ==
    LET email == FirstGiven(<<u.email, ClaimString(u.claims, "email")>>)
        roles == RolesFromClaims(u.claims, path)
    IN [email |-> email, name |-> DisplayName(u, email), roles |-> roles,
        is_admin |-> \E t \in roles : EqualFold(t, adminRole)]

\* What Me answers in a session whose login brought the claims.
Me(claims, path, adminRole) == NewIdentity(User(claims), path, adminRole)

-----------------------------------------------------------------------------
\* The value that path names: every segment is a member of an object.
Leaf(claims, path) ==
    LET at[n \in 0 .. Len(path)] ==
          IF n = 0 THEN claims
          ELSE IF at[n - 1].type = "object" /\ path[n] \in DOMAIN at[n - 1].value
               THEN at[n - 1].value[path[n]] ELSE Missing
    IN IF path = <<>> THEN Missing ELSE at[Len(path)]

\* Admin is who has the role, as the claim itself or as a string among its elements,
\* in any case and with blanks around it or not, and nobody else: not by an object,
\* a number or a nested array, and nobody at all while OIDC_ADMIN_ROLE is empty
\* (identity.go 18-21 and 105-107).
AdminAsGranted(claims, path, adminRole) ==
    LET Grants(v) == /\ v.type = "string"
                     /\ v.value.word = adminRole.word /\ v.value.word # ""
        leaf == Leaf(claims, path)
    IN Me(claims, path, adminRole).is_admin <=>
         /\ ~adminRole.padded
         /\ \/ Grants(leaf)
            \/ leaf.type = "array" /\ \E e \in ToSet(leaf.value) : Grants(e)

\* Who logs in with any of a name, a given or a family name, a user name or a mail
\* address is shown with a name, if the name and the user name are not blanks only
\* (identity.go 51).
NameShown(claims) ==
    LET Blank == [Empty EXCEPT !.padded = TRUE]
        Present(k) == ClaimString(claims, k).word # ""
    IN /\ \E k \in {"name", "given_name", "family_name", "preferred_username", "email"} :
            Present(k)
       /\ \A k \in {"name", "preferred_username"} : ClaimString(claims, k) # Blank
       => Me(claims, <<>>, Empty).name.word # ""
=============================================================================
