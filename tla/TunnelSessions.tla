---------------------------- MODULE TunnelSessions ----------------------------
(********************************************************************************)
(* A tunnel session of any protocol, from Start to Close: the goroutines        *)
(* of the session, the workers of its channels, and the client that starts,     *)
(* fails, writes to and closes it.                                              *)
(********************************************************************************)
EXTENDS AnyConnectSession, GlobalProtectSession, NetworkConnectSession,
        PulseSession, PPPSession

InitAll == Init /\ link = NewLink

SessionStep == ACNext \/ GPNext \/ NCNext \/ PulseNext

\* A session whose goroutines have all ended stays as it is.
Next ==
    \/ PPPNext
    \/ /\ \/ SessionStep
          \/ \E a \in Actors : TerminateReturns(a)
          \/ Fail
          \/ ClientCloses
          \/ ChannelProceeds
          \/ ChannelActs
       /\ UNCHANGED link

\* What a session does only so often: Start, Close, terminate and its return, and
\* the end of a channel's workers.  That is what makes one condition fair to all
\* of them: none of them can be passed over for ever in favour of the others.
OnceForAll ==
    \/ PPPStarts \/ PPPCloses \/ PPPTerminates
    \/ /\ \/ ACStarts \/ NCStarts \/ PulseStarts
          \/ ACCloses \/ GPCloses \/ NCCloses \/ PulseCloses
          \/ ACTerminates \/ GPTerminates \/ NCTerminates \/ PulseTerminates
          \/ \E a \in Actors : TerminateReturns(a)
          \/ ChannelProceeds
       /\ UNCHANGED link

\* So it is with a wait for a mutex, or for a select that a timer keeps busy.
Unstarved ==
    \/ PPPUnstarved
    \/ /\ \/ ACUnstarved \/ NCUnstarved \/ PulseUnstarved
          \/ NCSelects \/ \E m \in Monitors : PulseSelects(m)
       /\ UNCHANGED link

\* A session has one protocol, so a disjunction over the protocols is fair to the
\* goroutine of the one at hand.  Start of GlobalProtect probes again and again.
Reads == PPPReads(1) \/ ((ACReads \/ GPStarts \/ NCReads \/ PulseReads) /\ UNCHANGED link)
Times == PPPTimes \/ ((ACTimes \/ PulseMonitors("timer")) /\ UNCHANGED link)
Controls ==
    \/ PPPControls
    \/ (ACControls \/ GPControls \/ NCControls \/ PulseMonitors("control")) /\ UNCHANGED link
Writes == PPPWrites \/ ((ACWrites \/ NCWrites \/ PulseWrites) /\ UNCHANGED link)

Fairness ==
    /\ WF_allVars(OnceForAll)
    /\ WF_allVars(Reads)
    /\ WF_allVars(PPPReads(2))
    /\ WF_allVars(Times)
    /\ WF_allVars(Controls)
    /\ WF_allVars(Writes)
    /\ SF_allVars(Unstarved)

Spec == InitAll /\ [][Next]_allVars /\ Fairness

----------------------------------------------------------------------------
(* Properties. *)

\* Close of Network Connect and Pulse does not wait for a Start that is still
\* setting up its connection; that Start finds the session closed and gives
\* back what it has.
StartUnderWay ==
    flavor \in {"nc", "pulse"} /\ pc["start"] \notin {"none", "failed", "running"}

\* When Close has returned, nothing the session opened is left: its connection
\* and every channel that was started are closed, the ESP keys are destroyed,
\* the client shows no transport of it and it does not count as ready.  A
\* channel dtlsLoop made but never started holds nothing.  Start of Network
\* Connect and of Pulse may set ready between terminate's first step, which
\* clears it, and the next, which marks the session closed (nc_session.go:650),
\* and Start of a PPP session after terminate (ppp_session.go:160), so their ready
\* says nothing here; a write asks for closed, or for the link, as well.
CloseLeavesNothing ==
    pc["closer"] = "done" /\ ~StartUnderWay =>
        /\ conn.st = "closed"
        /\ \A c \in 1 .. MaxChannels : channels[c].st \in {"none", "new", "closed"}
        /\ keys # "live"
        /\ client.transportSession # Self
        /\ flavor \in {"nc", "pulse", "ppp"} \/ ~session.ready
        /\ ~link.ready /\ \A g \in Carriers : link.st[g] # "open"

\* Data goes over a carrier, and a link counts as ready, only when the peer has
\* agreed over that very carrier to everything the link wants: what was said over
\* the carrier before does not carry over a change of carrier (ppp_link.go:290).
NegotiatedFirst == link.ready \/ link.carried => Negotiated(link)

\* Once a link has been ready its addresses are those the client was told, over
\* every later carrier too; a peer that wants others ends the session.
AddressKept ==
    link.ready => \A n \in link.want : link.address[n] = link.first[n]

\* No packet of a batch is handed to the networks twice, whichever channel
\* fails while the batch is written (anyconnect_session.go:205: "Do not replay
\* the whole batch over CSTP and duplicate those packets").
NoPacketTwice == \A p \in Packets : wire[p] <= 1

\* The client names a transport that has no live channel behind it.
TransportDead ==
    \/ /\ client.activeTransport = "datagram" /\ flavor # "ppp"
       /\ ~\E c \in 1 .. MaxChannels : channels[c].ready /\ channels[c].kind # "gpst"
    \/ /\ client.activeTransport = "stream" /\ flavor = "gp"
       /\ ~\E c \in 1 .. MaxChannels : channels[c].ready /\ channels[c].kind = "gpst"
    \/ /\ client.activeTransport # "none" /\ flavor = "ppp"
       /\ ~link.ready

\* Network Connect and Pulse write to the server without a deadline where
\* AnyConnect has one: Network Connect inside espControlAccess, which Close takes
\* before it sets its own (nc_session.go:613-615), Pulse in Close itself
\* (pulse_session.go:411).  A server that never reads again stops them there.
ServerStuck == flavor \in {"nc", "pulse"} /\ conn.holder # Nobody /\ ~Interrupted

\* A PPP link that was asked to terminate, or to change its carrier, writes to the
\* server; no timer of the link ends that write, as Close does.
LinkStuck == link.holder # Nobody /\ ~\E g \in Carriers : Moving(link, g)

\* A transport whose channel died does not stay on show: dtlsLoop and
\* controlLoop notice, or the session ends.
DeadTransportIsWithdrawn ==
    []<>~(ServerStuck \/ LinkStuck) => (TransportDead ~> ~TransportDead)

\* Close returns, whatever the server does: a stuck write is interrupted by the
\* deadline or by the closed connection, every dial and check by the context.
\* Only a write no deadline covers may keep it (ServerStuck).
CloseReturns == []<>~ServerStuck => (pc["closer"] # "none" ~> pc["closer"] = "done")

----------------------------------------------------------------------------
(* What the client sees of the session. *)

\* The workers the waitGroup of the session counts.
Workers ==
    CASE flavor \in {"anyconnect", "pulse"} -> {"reader", "timer", "control"}
      [] flavor = "nc" -> {"reader", "control"}
      [] OTHER -> {"control"}

Life ==
    CASE session.term = "no" -> "open"
      [] session.term = "done" -> "over"
      [] OTHER -> "ending"

\* A tunnel session is what the client takes it for.
Contract == INSTANCE ClientSession
    WITH life <- Life, tied <- client.transportSession = Self,
         transport <- client.activeTransport,
         working <- \E a \in Workers : ~Finished(a),
         returned <- pc["closer"] = "done"

\* Every session, of each of the five protocols, behaves as the supervisor expects of
\* a clientSession: Done is closed once, after the transport was given up; no worker
\* shows one later; Close returns when Done is closed and the workers are gone.
IsClientSession == Contract!Spec
=============================================================================
