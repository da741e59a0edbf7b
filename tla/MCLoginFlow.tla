----------------------------- MODULE MCLoginFlow -----------------------------
(* Two tabs, two requests in flight and two logins at a time, one code for  *)
(* each login: enough for one tab's login to overwrite the other's cookie.  *)
EXTENDS LoginFlow, TLC

Interchangeable == Permutations(Request) \cup Permutations(Tab)
                     \cup Permutations(Attempt)
=============================================================================
