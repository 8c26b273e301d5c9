------------------------------- MODULE PPPLink -------------------------------
(********************************************************************************)
(* The PPP link of a Fortinet or F5 session (ppp_link.go, ppp_negotiation.go).  *)
(* A link runs over a carrier, a TLS or DTLS connection, and may change to      *)
(* another one, over which everything is negotiated again.  Carriers are        *)
(* numbered as their generations are: 1, and 2 after the one change there is.   *)
(* A control protocol is done when the peer has acknowledged our request and    *)
(* we have acknowledged the peer's.                                             *)
(*                                                                              *)
(* Every operator is a function from a link's state to the next one; the        *)
(* goroutines that apply them are in PPPSession.                                *)
(********************************************************************************)
EXTENDS Naturals

CONSTANT Networks       \* network control protocols the client asks for (IPCP, IP6CP)

Protocols == {"lcp"} \cup Networks
Carriers == 1 .. 2
NoCarrier == 0
Addresses == 1 .. 2     \* what a peer may assign; 0 is the unspecified address
LinkPhases == {"establishing", "network", "terminating", "closed"}
\* A readLoop: waiting for a frame, writing what a frame calls for, or about to
\* conclude it.
ReaderLabels == {"none", "starting", "read", "lock", "writing", "conclude", "exited"}

Link == [
    phase     : LinkPhases,
    started   : BOOLEAN,
    carrier   : {NoCarrier} \cup Carriers,                \* its generation
    st        : [Carriers -> {"none", "open", "closed"}], \* the connections
    dtls      : BOOLEAN,              \* the first carrier is DTLS; the second always is
    sent      : SUBSET Networks,      \* requestSent, which LCP is from the start
    acked     : SUBSET Protocols,     \* requestAcknowledged
    peerAcked : SUBSET Protocols,     \* peerRequestAcknowledged
    want      : SUBSET Networks,      \* wantIPv4, wantIPv6
    address   : [Networks -> {0} \cup Addresses],   \* localIPv4, localIPv6
    locked    : BOOLEAN,              \* addressesLocked
    pending   : BOOLEAN,              \* networkPending
    ready     : BOOLEAN,
    announced : BOOLEAN,              \* readyWait is closed
    termAcked : BOOLEAN,
    readers   : [Carriers -> ReaderLabels],
    ending    : [Carriers -> BOOLEAN],    \* the frame at hand ends the link
    holder    : STRING,               \* who holds writeAccess
    deadline  : {NoCarrier} \cup Carriers,    \* the carrier Close interrupts
    failed    : SUBSET Carriers,      \* writeFailed
    closing   : {"no", "try", "lock", "write", "await", "join"},   \* where Close is
    captured  : {NoCarrier} \cup Carriers,    \* the carrier Close works on
    tries     : Nat,                  \* Terminate-Requests sent
    \* For the properties: what the peer said over the current carrier, whether
    \* data went over it, and the addresses the link first became ready with.
    heard     : SUBSET (Protocols \X {"ack", "request"}),
    carried   : BOOLEAN,
    first     : [Networks -> {0} \cup Addresses] ]

NewLink == [
    phase |-> "establishing", started |-> FALSE, carrier |-> NoCarrier,
    st |-> [g \in Carriers |-> "none"], dtls |-> FALSE, sent |-> {}, acked |-> {},
    peerAcked |-> {}, want |-> Networks, address |-> [n \in Networks |-> 0],
    locked |-> FALSE, pending |-> FALSE, ready |-> FALSE, announced |-> FALSE,
    termAcked |-> FALSE, readers |-> [g \in Carriers |-> "none"],
    ending |-> [g \in Carriers |-> FALSE], holder |-> "nobody", deadline |-> NoCarrier,
    failed |-> {}, closing |-> "no", captured |-> NoCarrier, tries |-> 0,
    heard |-> {}, carried |-> FALSE, first |-> [n \in Networks |-> 0] ]

\* newPPPLink over a first carrier; an address from an earlier session is kept.
LinkOver(dtls, address, locked) ==
    [NewLink EXCEPT !.carrier = 1, !.st[1] = "open", !.dtls = dtls,
                    !.address = [n \in Networks |-> address], !.locked = locked]

Started(l) == [l EXCEPT !.started = TRUE, !.readers[1] = "read"]

Datagram(l, g) == g = 2 \/ l.dtls

----------------------------------------------------------------------------
(* Negotiation. *)

ResetNegotiation(l) ==
    [l EXCEPT !.phase = "establishing", !.sent = {}, !.acked = {}, !.peerAcked = {},
              !.pending = FALSE, !.ready = FALSE, !.announced = FALSE, !.termAcked = FALSE]

\* SwitchCarrier, up to the end of the old connection.
Switched(l) ==
    [ResetNegotiation(l) EXCEPT !.carrier = 2, !.readers[2] = "starting",
                                !.heard = {}, !.carried = FALSE]

\* Mutant: the peer's own request is not waited for.
DoneWhenAcknowledged(l, p) == p \in l.acked

Done(l, p) == p \in l.acked \cap l.peerAcked

\* Once LCP is done the other requests go out; an acknowledgement that came before
\* its request does not count.
Due(l) == IF Done(l, "lcp") THEN l.want \ l.sent ELSE {}
Requested(l) == [l EXCEPT !.sent = @ \cup Due(l), !.acked = @ \ Due(l)]

\* advanceNegotiation fails when nothing is left to negotiate, or when it is
\* complete without an address.
Complete(l) == Done(l, "lcp") /\ \A n \in l.want : Done(l, n)
AdvanceFails(l) ==
    /\ Done(l, "lcp")
    /\ l.want = {} \/ (Complete(Requested(l)) /\ \E n \in l.want : l.address[n] = 0)
Advanced(l) ==
    IF Complete(Requested(l)) THEN [l EXCEPT !.pending = TRUE] ELSE Requested(l)

\* A Configure-Acknowledgement or an acceptable Configure-Request over carrier g.
Heard(l, g, what) == [l EXCEPT !.heard = IF g = l.carrier THEN @ \cup {what} ELSE @]
PeerAcknowledges(l, g, p) == [Heard(l, g, <<p, "ack">>) EXCEPT !.acked = @ \cup {p}]
PeerRequests(l, g, p) == [Heard(l, g, <<p, "request">>) EXCEPT !.peerAcked = @ \cup {p}]

\* A Nak of our request: it is sent again with the address the peer wants.  A
\* locked address stays what it is.
MayAssign(l, n, address) == ~l.locked \/ l.address[n] \in {0, address}
Assigned(l, n, address) ==
    [l EXCEPT !.sent = @ \cup {n}, !.acked = @ \ {n}, !.address[n] = address]

\* Mutant: the addresses are not locked.
ConcludeUnlocked(l) ==
    IF l.pending
    THEN [l EXCEPT !.phase = "network", !.pending = FALSE, !.ready = TRUE, !.announced = TRUE,
                   !.first = [n \in Networks |-> IF @[n] = 0 THEN l.address[n] ELSE @[n]]]
    ELSE l

\* The last step of handleFrame, for a frame of the current carrier: what was
\* negotiated takes effect.
Conclude(l) ==
    IF l.pending
    THEN [l EXCEPT !.phase = "network", !.pending = FALSE, !.ready = TRUE, !.locked = TRUE,
                   !.announced = TRUE,
                   !.first = [n \in Networks |-> IF @[n] = 0 THEN l.address[n] ELSE @[n]]]
    ELSE l

----------------------------------------------------------------------------
(* The end of a link. *)

\* terminate: the first call closes the carrier.  What was negotiated is not
\* looked at again.
Forgotten(l) ==
    [l EXCEPT !.sent = {}, !.acked = {}, !.peerAcked = {}, !.pending = FALSE,
              !.locked = FALSE, !.address = NewLink.address, !.first = NewLink.first,
              !.termAcked = FALSE, !.heard = {}, !.carried = FALSE, !.failed = {}]
LinkClosed(l) ==
    IF l.phase = "closed" THEN l
    ELSE [Forgotten(l) EXCEPT !.phase = "closed", !.ready = FALSE, !.carrier = NoCarrier,
              !.st = [g \in Carriers |-> IF g = l.carrier THEN "closed" ELSE l.st[g]]]

\* terminateCarrier: what happened on carrier g ends the link only while g is
\* the current one.
EndsLink(l, g, phases) == l.phase \in phases /\ l.carrier = g
CarrierTerminated(l, g, phases) == IF EndsLink(l, g, phases) THEN LinkClosed(l) ELSE l

Live == {"establishing", "network"}

\* A write to carrier g is interrupted.  A datagram does not wait for the peer.
Interruptible(l, g) == l.st[g] = "closed" \/ l.deadline = g
Moving(l, g) == Interruptible(l, g) \/ Datagram(l, g)

\* The peer has agreed over the current carrier to everything that is still wanted.
Negotiated(l) == ({"lcp"} \cup l.want) \X {"ack", "request"} \subseteq l.heard
=============================================================================
