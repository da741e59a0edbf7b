--------------------------- MODULE MCAuthenticator ---------------------------
(* Three requests and one restart: two wait while the third discovers.      *)
EXTENDS Authenticator
=============================================================================
