------------------------------ MODULE MCWebAuth ------------------------------
(* Two tabs and three requests at a time: a document with its two loads     *)
(* beside the other tab's logout or login.  Under the second secret, two.   *)
EXTENDS WebAuth, TLC

Symmetry == Permutations(Tab) \cup Permutations(Call)

FewerUnderNewKey == key = 1 \/ \E c \in Call : Free(c)
=============================================================================
