------------------------- MODULE MCDataPacketQueue -------------------------
(* A small instance of DataPacketQueue.  The producers and the consumers are *)
(* told apart: symmetry would not be sound for the liveness property.        *)
EXTENDS DataPacketQueue

CONSTANTS p1, p2, c1, c2
=============================================================================
