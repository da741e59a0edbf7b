----------------------------- MODULE MCSessions -----------------------------
(* Two handlers on two replicas, the second one's clock an hour ahead, so   *)
(* to speak: one unit of the model's time.                                  *)
EXTENDS Sessions, TLC

CONSTANTS r1, r2

MCSkew == [r \in Request |-> IF r = r2 THEN 1 ELSE 0]
Interchangeable == Permutations(SessionId)

MCNoSkew == [r \in Request |-> 0]
=============================================================================
