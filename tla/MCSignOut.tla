------------------------------ MODULE MCSignOut ------------------------------
(* Two tabs of one browser, with as many logins as there are sessions.      *)
EXTENDS SignOut, TLC

Symmetry == Permutations(Tab) \cup Permutations(Call) \cup Permutations(Session)
=============================================================================
