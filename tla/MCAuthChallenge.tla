-------------------------- MODULE MCAuthChallenge --------------------------
(* A small instance of AuthChallenge. *)
EXTENDS AuthChallenge, TLC

CONSTANTS a, b
=============================================================================
