------------------------ MODULE MCOutboundDataPlane ------------------------
(* A small instance of OutboundDataPlane. *)
EXTENDS OutboundDataPlane, TLC

CONSTANTS a, b, x, y

Symmetry == Permutations(Callers) \cup Permutations(Completions)
=============================================================================
