------------------------ MODULE MCInboundDataPlane ------------------------
(* A small instance of InboundDataPlane. *)
EXTENDS InboundDataPlane, TLC

CONSTANTS w1, w2, r1

Symmetry == Permutations(Workers)
=============================================================================
