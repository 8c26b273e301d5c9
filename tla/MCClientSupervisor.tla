------------------------ MODULE MCClientSupervisor ------------------------
(* Small instances of ClientSupervisor. *)
EXTENDS ClientSupervisor, TLC
=============================================================================
