------------------------------ MODULE MCServer ------------------------------
(* Two connections and a pool of one: a query that hangs beside a probe, a  *)
(* handler that is still asking beside one that has answered.               *)
EXTENDS Server
=============================================================================
