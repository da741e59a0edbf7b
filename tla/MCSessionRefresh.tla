-------------------------- MODULE MCSessionRefresh --------------------------
(* Two handlers, so two refreshes, or a refresh and any other request, run  *)
(* side by side; ids are interchangeable, and so are the handlers.          *)
EXTENDS SessionRefresh, TLC

Interchangeable == Permutations(SessionId) \cup Permutations(Request)

MCNoSkew == [r \in Request |-> 0]

\* Both replicas a unit ahead of the database, so that a session created at 0
\* is already past its idle limit at 1.
MCAhead == [r \in Request |-> 1]
=============================================================================
