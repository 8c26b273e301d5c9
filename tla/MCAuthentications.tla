-------------------------- MODULE MCAuthentications --------------------------
(* Two servers, the first of which the client is configured with. *)
EXTENDS Authentications

Server1 == "server1"
Server2 == "server2"
MCEndpoints == {Server1, Server2}
=============================================================================
