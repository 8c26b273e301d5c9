--------------------------- MODULE MCTunnelSessions ---------------------------
(* Small instances of TunnelSessions. *)
EXTENDS TunnelSessions

\* A Pulse session does more of its own accord than the others: dials, probes and
\* writes fail, and ESP is tried again, without an event.
MCMaxEvents == [f \in Flavors |-> IF f \in {"pulse", "ppp"} THEN 1 ELSE 2]
\* Once the writer is done nothing reads the wire any more: states that differ
\* only in which packets went out, none of them twice, are one to TLC.
SessionView ==
    <<flavor, client, session, conn, channels, keys, pc, local, link,
      IF pc["writer"] \in {"done", "terminating"} /\ \A p \in Packets : wire[p] <= 1
      THEN <<>> ELSE wire>>

LiveMaxEvents == [f \in Flavors |-> IF f \in {"nc", "pulse", "ppp"} THEN 0 ELSE 1]
=============================================================================
