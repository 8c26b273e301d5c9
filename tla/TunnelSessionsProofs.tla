------------------------- MODULE TunnelSessionsProofs -------------------------
(********************************************************************************)
(* The tunnel sessions of all protocols, proved for any number of channels,     *)
(* events, packets and retries: a PPP link carries data only over a carrier     *)
(* that was agreed on (NegotiatedFirst) and keeps its addresses (AddressKept),  *)
(* no packet is written twice (NoPacketTwice), Close leaves nothing open        *)
(* (CloseLeavesNothing), and the client can take any of them for a              *)
(* ClientSession (IsClientSession).                                             *)
(*                                                                              *)
(* A link is Sound when what it counts was heard over its carrier; every step   *)
(* but the change of carrier leaves it so and keeps what was agreed (Steps).    *)
(* The writer's part of the invariant says which packets are still untouched.   *)
(* For Close, CloseInv says of every connection, channel and key that is open   *)
(* which goroutine is answerable for it.  The invariants and the rules for the  *)
(* steps are in TunnelInvariants.                                               *)
(********************************************************************************)
EXTENDS TunnelInvariants, FiniteSetTheorems, TLAPS

(* The steps of a PPP link. *)

LEMMA KeepsTransitive ==
    ASSUME NEW l, NEW m, NEW n, Steps(l, m), Steps(m, n)
    PROVE  Steps(l, n)
BY DEF Keeps, Closes, Steps

LEMMA Carried ==
    ASSUME NEW l, Sound(l)
    PROVE Steps(l, l)
BY DEF Keeps, Closes, Steps

LEMMA SameSteps ==
    ASSUME NEW l, NEW m, Sound(l), LinkShape(m), Same(l, m)
    PROVE  Steps(l, m)
<1>1. Negotiated(l) => Negotiated(m)
  BY Zenon DEF Same, Negotiated
<1>2. Addressed(l) => Addressed(m)
  BY Zenon DEF Same, Addressed
<1> QED
  BY <1>1, <1>2 DEF Steps, Keeps, Closes, Sound, Same, LinkShape

LEMMA ShapeOverCarrier ==
    ASSUME NEW l, LinkShape(l), NEW g \in {NoCarrier} \cup Carriers,
           NEW st \in [Carriers -> {"none", "open", "closed"}], NEW dtls \in BOOLEAN,
           NEW address \in [Networks -> {0} \cup Addresses], NEW locked \in BOOLEAN
    PROVE  LinkShape([l EXCEPT !.carrier = g, !.st = st, !.dtls = dtls, !.address = address,
                               !.locked = locked])
BY ZenonT(30) DEF LinkShape

LEMMA LinkOverShape ==
    ASSUME NEW dtls \in BOOLEAN, NEW a \in {0, 1}, NEW locked \in BOOLEAN, LinkShape(NewLink)
    PROVE  LinkShape(LinkOver(dtls, a, locked))
<1>1. PICK l : l = NewLink
  OBVIOUS
<1>2. LinkShape(l)
  BY <1>1
<1>0. a \in {0} \cup Addresses
  BY DEF Addresses
<1>3. PICK address \in [Networks -> {0} \cup Addresses] : address = [n \in Networks |-> a]
  BY Zenon, <1>0
<1>4. PICK st \in [Carriers -> {"none", "open", "closed"}] : st = [l.st EXCEPT ![1] = "open"]
  BY Zenon, <1>2 DEF LinkShape, Carriers
<1>5. PICK g \in {NoCarrier} \cup Carriers : g = 1
  BY DEF Carriers
<1>6. LinkShape([l EXCEPT !.carrier = g, !.st = st, !.dtls = dtls, !.address = address,
                          !.locked = locked])
  BY Zenon, <1>2, ShapeOverCarrier
<1> QED
  BY <1>1, <1>3, <1>4, <1>5, <1>6 DEF LinkOver

LEMMA NewLinkIsSound ==
    /\ Sound(NewLink)
    /\ \A dtls \in BOOLEAN, a \in {0, 1}, locked \in BOOLEAN :
          Sound(LinkOver(dtls, a, locked)) /\ LinkOver(dtls, a, locked).carrier = 1
<1>1. Sound(NewLink)
  BY DEF Sound, NewLink, LinkShape, NoCarrier, Carriers, Protocols, Addresses, ReaderLabels
<1>2. ASSUME NEW dtls \in BOOLEAN, NEW a \in {0, 1}, NEW locked \in BOOLEAN
      PROVE  Sound(LinkOver(dtls, a, locked)) /\ LinkOver(dtls, a, locked).carrier = 1
  <2>1. LinkShape(NewLink)
    BY <1>1 DEF Sound
  <2>2. PICK m : m = LinkOver(dtls, a, locked)
    OBVIOUS
  <2>5. /\ m.acked = {} /\ m.peerAcked = {} /\ ~m.pending /\ ~m.ready /\ ~m.carried
        /\ m.first = [n \in Networks |-> 0] /\ m.carrier = 1
    <3>1. /\ NewLink.acked = {} /\ NewLink.peerAcked = {} /\ ~NewLink.pending /\ ~NewLink.ready
          /\ ~NewLink.carried /\ NewLink.first = [n \in Networks |-> 0]
      BY DEF NewLink
    <3> QED
      BY <2>1, <2>2, <3>1 DEF LinkOver, LinkShape
  <2>6. LinkShape(m)
    BY <2>1, <2>2, LinkOverShape, Zenon
  <2> QED
    BY <2>2, <2>5, <2>6 DEF Sound
<1> QED
  BY <1>1, <1>2

\* The peer is heard to say more, and what is counted was heard.
LEMMA MoreSteps ==
    ASSUME NEW l, NEW m, Sound(l), LinkShape(m), Rest(l, m), m.want = l.want,
           l.heard \subseteq m.heard,
           \A p \in m.acked : <<p, "ack">> \in m.heard,
           \A p \in m.peerAcked : <<p, "request">> \in m.heard
    PROVE  Steps(l, m)
<1>1. Negotiated(l) => Negotiated(m)
  BY Zenon DEF Negotiated
<1>2. Addressed(l) => Addressed(m)
  BY Zenon DEF Rest, Addressed
<1> QED
  BY <1>1, <1>2 DEF Steps, Keeps, Closes, Sound, Rest, LinkShape

\* What the peer says over the current carrier counts.
LEMMA HeardSteps ==
    ASSUME NEW l, Sound(l), NEW p \in Protocols, NEW g, g = l.carrier
    PROVE  /\ Steps(l, PeerAcknowledges(l, g, p)) /\ PeerAcknowledges(l, g, p).carrier = g
           /\ PeerAcknowledges(l, g, p).want = l.want
           /\ Steps(l, PeerRequests(l, g, p)) /\ PeerRequests(l, g, p).carrier = g
           /\ PeerRequests(l, g, p).want = l.want
<1>1. PICK m : m = PeerAcknowledges(l, g, p)
  OBVIOUS
<1>2. /\ LinkShape(m) /\ Rest(l, m) /\ m.want = l.want
      /\ m.heard = l.heard \cup {<<p, "ack">>}
      /\ m.acked = l.acked \cup {p} /\ m.peerAcked = l.peerAcked
  <2>1. PICK h, a : h = l.heard \cup {<<p, "ack">>} /\ a = l.acked \cup {p}
    BY Zenon
  <2>2. h \in SUBSET (Protocols \X {"ack", "request"}) /\ a \in SUBSET Protocols
    BY <2>1 DEF Sound, LinkShape
  <2>3. m = [l EXCEPT !.heard = h, !.acked = a]
    BY <1>1, <2>1 DEF PeerAcknowledges, Heard, Sound, LinkShape
  <2>4. LinkShape(m)
    BY <2>2, <2>3, ZenonT(30) DEF Sound, LinkShape
  <2> QED
    BY <2>1, <2>3, <2>4 DEF Sound, LinkShape, Rest
<1>3. Steps(l, m)
  <2>1. \A q \in m.acked : <<q, "ack">> \in m.heard
    BY Zenon, <1>2 DEF Sound
  <2>2. \A q \in m.peerAcked : <<q, "request">> \in m.heard
    BY Zenon, <1>2 DEF Sound
  <2> QED
    BY <1>2, <2>1, <2>2, MoreSteps
<1>4. PICK n : n = PeerRequests(l, g, p)
  OBVIOUS
<1>5. /\ LinkShape(n) /\ Rest(l, n) /\ n.want = l.want
      /\ n.heard = l.heard \cup {<<p, "request">>}
      /\ n.peerAcked = l.peerAcked \cup {p} /\ n.acked = l.acked
  <2>1. PICK h, a : h = l.heard \cup {<<p, "request">>} /\ a = l.peerAcked \cup {p}
    BY Zenon
  <2>2. h \in SUBSET (Protocols \X {"ack", "request"}) /\ a \in SUBSET Protocols
    BY <2>1 DEF Sound, LinkShape
  <2>3. n = [l EXCEPT !.heard = h, !.peerAcked = a]
    BY <1>4, <2>1 DEF PeerRequests, Heard, Sound, LinkShape
  <2>4. LinkShape(n)
    BY <2>2, <2>3, ZenonT(30) DEF Sound, LinkShape
  <2> QED
    BY <2>1, <2>3, <2>4 DEF Sound, LinkShape, Rest
<1>6. Steps(l, n)
  <2>1. \A q \in n.acked : <<q, "ack">> \in n.heard
    BY Zenon, <1>5 DEF Sound
  <2>2. \A q \in n.peerAcked : <<q, "request">> \in n.heard
    BY Zenon, <1>5 DEF Sound
  <2> QED
    BY <1>5, <2>1, <2>2, MoreSteps
<1> QED
  BY <1>1, <1>2, <1>3, <1>4, <1>5, <1>6 DEF Rest

\* A Nak changes no address that the link was ready with.
LEMMA AssignedSteps ==
    ASSUME NEW l, Sound(l), NEW n \in l.want, NEW a \in Addresses, MayAssign(l, n, a)
    PROVE  Steps(l, Assigned(l, n, a))
<1>1. PICK m : m = Assigned(l, n, a)
  OBVIOUS
<1>2. /\ LinkShape(m) /\ m.carrier = l.carrier /\ m.st = l.st /\ m.locked = l.locked
      /\ m.want = l.want /\ m.heard = l.heard /\ m.acked \subseteq l.acked
      /\ m.peerAcked = l.peerAcked /\ m.pending = l.pending /\ m.ready = l.ready
      /\ m.carried = l.carried /\ m.first = l.first /\ m.phase = l.phase /\ m.closing = l.closing
      /\ m.address = [l.address EXCEPT ![n] = a]
  BY <1>1, ZenonT(30) DEF Assigned, Sound, LinkShape
<1>3. Negotiated(l) = Negotiated(m)
  BY <1>2, Zenon DEF Negotiated
<1>4. \A k \in Networks : m.address[k] # l.address[k] => k = n /\ (l.locked => l.address[n] = 0)
  BY <1>2 DEF MayAssign, Sound, LinkShape
<1>5. Addressed(l) => Addressed(m)
  BY <1>2 DEF Addressed, Addresses, Sound, LinkShape
<1>6. \A k \in Networks : l.first[k] # 0 => m.locked /\ m.first[k] = m.address[k]
  BY <1>2, <1>4 DEF Sound
<1>7. l.ready => \A k \in m.want : m.first[k] = m.address[k]
  BY <1>2, <1>4, Addressed(l) \/ ~l.ready DEF Sound, Addressed, LinkShape
<1> QED
  BY <1>1, <1>2, <1>3, <1>5, <1>6, <1>7 DEF Steps, Keeps, Closes, Sound

LEMMA EverythingHeard ==
    ASSUME NEW l
    PROVE  Negotiated(l) <=> \A p \in {"lcp"} \cup l.want :
                                <<p, "ack">> \in l.heard /\ <<p, "request">> \in l.heard
<1>1. ASSUME Negotiated(l), NEW p \in {"lcp"} \cup l.want
      PROVE  <<p, "ack">> \in l.heard /\ <<p, "request">> \in l.heard
  BY <1>1 DEF Negotiated
<1>2. ASSUME \A p \in {"lcp"} \cup l.want : <<p, "ack">> \in l.heard /\ <<p, "request">> \in l.heard
      PROVE  Negotiated(l)
  <2>1. ASSUME NEW x \in ({"lcp"} \cup l.want) \X {"ack", "request"}
        PROVE  x \in l.heard
    <3>1. x = <<x[1], x[2]>> /\ x[1] \in {"lcp"} \cup l.want /\ x[2] \in {"ack", "request"}
      BY <2>1
    <3>2. <<x[1], "ack">> \in l.heard /\ <<x[1], "request">> \in l.heard
      BY <1>2, <3>1, Zenon
    <3> QED
      BY <3>1, <3>2, Zenon
  <2> QED
    BY <2>1, Zenon DEF Negotiated
<1> QED
  BY <1>1, <1>2

\* A negotiation that is complete has heard everything.
LEMMA AdvancedSteps ==
    ASSUME NEW l, Sound(l), ~AdvanceFails(l), l.carrier # NoCarrier
    PROVE  Steps(l, Advanced(l))
<1>1. PICK r : r = Requested(l)
  OBVIOUS
<1>2. /\ LinkShape(r) /\ Rest(l, r) /\ r.want = l.want /\ r.heard = l.heard
      /\ r.acked \subseteq l.acked /\ r.peerAcked = l.peerAcked
  <2>1. PICK sent, acked : sent = l.sent \cup Due(l) /\ acked = l.acked \ Due(l)
    BY Zenon
  <2>2. r = [l EXCEPT !.sent = sent, !.acked = acked]
    BY <1>1, <2>1 DEF Requested, Sound, LinkShape
  <2>3. acked \in SUBSET Protocols /\ acked \subseteq l.acked
    BY <2>1 DEF Sound, LinkShape
  <2>4. LinkShape(r)
    BY <2>2, <2>3, ZenonT(30) DEF Sound, LinkShape
  <2> QED
    BY <2>2, <2>3, <2>4 DEF Sound, LinkShape, Rest
<1>3. CASE ~Complete(r)
  <2>1. Same(l, r)
    BY <1>2 DEF Same, Rest
  <2> QED
    BY <1>1, <1>2, <1>3, <2>1, SameSteps, Advanced(l) = r DEF Advanced
<1>4. CASE Complete(r)
  <2>1. \A p \in {"lcp"} \cup l.want : p \in l.acked /\ p \in l.peerAcked
    BY <1>2, <1>4 DEF Complete, Done
  <2>2. Negotiated(l)
    BY <2>1, EverythingHeard DEF Sound
  <2>3. Addressed(l)
    BY <1>1, <1>2, <1>4 DEF AdvanceFails, Complete, Done, Addressed
  <2>4. PICK m : m = [l EXCEPT !.pending = TRUE]
    BY Zenon
  <2>5. /\ LinkShape(m) /\ m.carrier = l.carrier /\ m.st = l.st /\ m.address = l.address
        /\ m.locked = l.locked /\ m.pending /\ m.ready = l.ready /\ m.carried = l.carried
        /\ m.first = l.first /\ m.want = l.want /\ m.heard = l.heard /\ m.acked = l.acked
        /\ m.peerAcked = l.peerAcked /\ m.phase = l.phase /\ m.closing = l.closing
    BY <2>4, ZenonT(30) DEF Sound, LinkShape
  <2>6. Negotiated(m) /\ Addressed(m)
    BY <2>2, <2>3, <2>5, Zenon DEF Negotiated, Addressed
  <2>7. Sound(m)
    BY <2>5, <2>6 DEF Sound
  <2>8. Advanced(l) = m
    BY <1>1, <1>4, <2>4 DEF Advanced
  <2> QED
    BY <2>2, <2>5, <2>6, <2>7, <2>8 DEF Steps, Keeps, Closes
<1> QED
  BY <1>3, <1>4

\* What was negotiated takes effect.
LEMMA ConcludeSteps ==
    ASSUME NEW l, Sound(l), l.phase # "closed"
    PROVE  Steps(l, Conclude(l))
<1>1. CASE ~l.pending
  BY <1>1, Carried DEF Conclude
<1>2. CASE l.pending
  <2>1. PICK m : m = Conclude(l)
    OBVIOUS
  <2>0. PICK first \in [Networks -> {0} \cup Addresses] :
            first = [n \in Networks |-> IF l.first[n] = 0 THEN l.address[n] ELSE l.first[n]]
    BY DEF Sound, LinkShape
  <2>2. /\ m.carrier = l.carrier /\ m.st = l.st /\ m.address = l.address
        /\ m.locked /\ ~m.pending /\ m.ready /\ m.carried = l.carried
        /\ m.first = [n \in Networks |-> IF l.first[n] = 0 THEN l.address[n] ELSE l.first[n]]
        /\ m.want = l.want /\ m.heard = l.heard /\ m.acked = l.acked
        /\ m.peerAcked = l.peerAcked /\ m.phase = "network" /\ m.closing = l.closing
    BY <1>2, <2>1 DEF Conclude, Sound, LinkShape
  <2>3. LinkShape(m)
    <3>1. m = [l EXCEPT !.phase = "network", !.pending = FALSE, !.ready = TRUE, !.locked = TRUE,
                        !.announced = TRUE, !.first = first]
      BY <1>2, <2>0, <2>1, Zenon DEF Conclude
    <3>2. LinkShape(l)
      BY DEF Sound
    <3>3. LinkShape([l EXCEPT !.phase = "network", !.pending = FALSE, !.ready = TRUE, !.locked = TRUE,
                              !.announced = TRUE, !.first = first])
      BY ONLY <3>2, <2>0, ZenonT(30) DEF LinkShape
    <3> QED
      BY <3>1, <3>3, Zenon
  <2>4. Negotiated(m) /\ Addressed(m)
    BY <1>2, <2>2, ZenonT(30) DEF Negotiated, Addressed, Sound
  <2>5. \A n \in Networks : m.first[n] # 0 => m.first[n] = m.address[n]
    BY <2>2 DEF Sound
  <2>6. \A n \in m.want : m.first[n] = m.address[n]
    BY <2>2, <2>4 DEF Sound, Addressed, LinkShape
  <2>7. m.carrier # NoCarrier
    BY <1>2, <2>2 DEF Sound
  <2>8. Sound(m)
    BY <2>2, <2>3, <2>4, <2>5, <2>6, <2>7 DEF Sound
  <2> QED
    BY <2>1, <2>2, <2>4, <2>8 DEF Steps, Keeps, Closes
<1> QED
  BY <1>1, <1>2 DEF Sound, LinkShape

\* A link that has ended promises nothing.
LEMMA ClosedSteps ==
    ASSUME NEW l, Sound(l)
    PROVE  Steps(l, LinkClosed(l))
<1>1. CASE l.phase = "closed"
  BY <1>1, Carried DEF LinkClosed
<1>2. CASE l.phase # "closed"
  <2>1. PICK m : m = LinkClosed(l)
    OBVIOUS
  <2>0. PICK k : k = Forgotten(l)
    OBVIOUS
  <2>9. LinkShape(k)
    <3>1. /\ NewLink.address \in [Networks -> {0} \cup Addresses]
          /\ NewLink.first \in [Networks -> {0} \cup Addresses]
      BY DEF NewLink
    <3>2. LinkShape(l)
      BY DEF Sound
    <3>3. LinkShape(Forgotten(l))
      BY ONLY <3>1, <3>2, ZenonT(30) DEF Forgotten, LinkShape
    <3> QED
      BY <2>0, <3>3, Zenon
  <2>2. /\ m.carrier = NoCarrier /\ m.acked = {} /\ m.peerAcked = {} /\ ~m.pending /\ ~m.ready
        /\ ~m.carried /\ m.first = [n \in Networks |-> 0]
        /\ m.st = [g \in Carriers |-> IF g = l.carrier THEN "closed" ELSE l.st[g]]
        /\ m.phase = "closed"
    BY <1>2, <2>1 DEF LinkClosed, Forgotten, NewLink, Sound, LinkShape
  <2>3. LinkShape(m)
    <3>1. PICK st \in [Carriers -> {"none", "open", "closed"}] :
              st = [g \in Carriers |-> IF g = l.carrier THEN "closed" ELSE l.st[g]]
      BY Zenon DEF Sound, LinkShape
    <3>2. m = [k EXCEPT !.phase = "closed", !.ready = FALSE, !.carrier = NoCarrier, !.st = st]
      BY <1>2, <2>0, <2>1, <3>1, Zenon DEF LinkClosed
    <3>3. LinkShape([k EXCEPT !.phase = "closed", !.ready = FALSE, !.carrier = NoCarrier, !.st = st])
      BY ONLY <2>9, <3>1, ZenonT(30) DEF LinkShape
    <3> QED
      BY <3>2, <3>3, Zenon
  <2>4. Sound(m)
    BY <2>2, <2>3 DEF Sound
  <2> QED
    BY <2>1, <2>2, <2>4 DEF Steps, Keeps, Closes, Carriers
<1> QED
  BY <1>1, <1>2

LEMMA TerminatedSteps ==
    ASSUME NEW l, Sound(l), NEW g, NEW phases
    PROVE  Steps(l, CarrierTerminated(l, g, phases))
BY ClosedSteps, Carried DEF CarrierTerminated

----------------------------------------------------------------------------
(* The steps of the goroutines of a PPP session. *)

LEMMA ReaderGoesSteps ==
    ASSUME NEW l, Sound(l), NEW g \in Carriers, NEW label \in ReaderLabels
    PROVE  Steps(l, ReaderGoes(l, g, label))
<1>1. LinkShape(l)
  BY DEF Sound
<1>2. LinkShape(ReaderGoes(l, g, label))
  BY <1>1, ZenonT(30) DEF LinkShape, ReaderGoes
<1>3. Same(l, ReaderGoes(l, g, label))
  BY <1>1 DEF LinkShape, ReaderGoes, Same
<1> QED
  BY <1>2, <1>3, SameSteps

LEMMA WriteLockSteps ==
    ASSUME NEW l, Sound(l), NEW a, NEW failed
    PROVE  /\ Steps(l, Locked(l, a)) /\ Steps(l, Released(l))
           /\ Steps(l, Released([l EXCEPT !.failed = failed]))
<1>1. LinkShape(l)
  BY DEF Sound
<1>2. LinkShape(Locked(l, a)) /\ Same(l, Locked(l, a))
  BY <1>1 DEF LinkShape, Locked, Same
<1>3. LinkShape(Released(l)) /\ Same(l, Released(l))
  BY <1>1 DEF LinkShape, Released, Same
<1>4. /\ LinkShape(Released([l EXCEPT !.failed = failed]))
      /\ Same(l, Released([l EXCEPT !.failed = failed]))
  BY <1>1, ZenonT(30) DEF LinkShape, Released, Same
<1> QED
  BY <1>2, <1>3, <1>4, SameSteps

LEMMA AfterWriteSteps ==
    ASSUME Sound(link), NEW g, NEW result
    PROVE  Steps(link, AfterWrite(g, result))
BY WriteLockSteps DEF AfterWrite

\* The write that ends may end the link.
LEMMA WriteEndsSteps ==
    ASSUME Sound(link), NEW g, NEW result, NEW phases
    PROVE  Steps(link, CarrierTerminated(AfterWrite(g, result), g, phases))
<1>1. Steps(link, AfterWrite(g, result))
  BY AfterWriteSteps
<1>2. Steps(AfterWrite(g, result), CarrierTerminated(AfterWrite(g, result), g, phases))
  BY <1>1, TerminatedSteps DEF Steps
<1> QED
  BY <1>1, <1>2, KeepsTransitive DEF Steps

\* A frame that was heard, up to the packets it calls for.
LEMMA HandledSteps ==
    ASSUME Sound(link), NEW g \in Carriers, NEW l, Steps(link, l), l.carrier = g,
           NEW answer, Handled(g, l, answer)
    PROVE  Steps(link, link')
<1>1. Sound(l) /\ l.carrier # NoCarrier
  BY DEF Steps, Carriers, NoCarrier
<1>2. CASE AdvanceFails(l)
  <2>1. Steps(l, CarrierTerminated(l, g, Live))
    BY <1>1, TerminatedSteps
  <2>2. Steps(CarrierTerminated(l, g, Live), ReaderGoes(CarrierTerminated(l, g, Live), g, "exited"))
    BY <2>1, ReaderGoesSteps DEF Steps, ReaderLabels
  <2>3. link' = ReaderGoes(CarrierTerminated(l, g, Live), g, "exited")
    BY <1>2 DEF Handled
  <2> QED
    BY <2>1, <2>2, <2>3, KeepsTransitive DEF Steps
<1>3. CASE ~AdvanceFails(l)
  <2>1. Steps(l, Advanced(l))
    BY <1>1, <1>3, AdvancedSteps
  <2>2. PICK label \in ReaderLabels : link' = ReaderGoes(Advanced(l), g, label)
    BY <1>3 DEF Handled, ReaderLabels
  <2>3. Steps(Advanced(l), ReaderGoes(Advanced(l), g, label))
    BY <2>1, ReaderGoesSteps DEF Steps
  <2> QED
    BY <2>1, <2>2, <2>3, KeepsTransitive DEF Steps
<1> QED
  BY <1>2, <1>3

LEMMA FrameSteps ==
    ASSUME Sound(link), NEW g \in Carriers, PPPFrame(g)
    PROVE  Steps(link, link')
<1>1. link.carrier = g
  BY DEF PPPFrame, FrameIsFor
<1>2. ASSUME NEW p \in {"lcp"} \cup link.want, Handled(g, PeerAcknowledges(link, g, p), FALSE)
      PROVE  Steps(link, link')
  <2>1. p \in Protocols
    BY DEF Sound, LinkShape, Protocols
  <2>2. Steps(link, PeerAcknowledges(link, g, p)) /\ PeerAcknowledges(link, g, p).carrier = g
    BY <1>1, <2>1, HeardSteps
  <2> QED
    BY <1>2, <2>2, HandledSteps, Zenon
<1>3. ASSUME NEW p \in {"lcp"} \cup link.want, Handled(g, PeerRequests(link, g, p), TRUE)
      PROVE  Steps(link, link')
  <2>1. p \in Protocols
    BY DEF Sound, LinkShape, Protocols
  <2>2. Steps(link, PeerRequests(link, g, p)) /\ PeerRequests(link, g, p).carrier = g
    BY <1>1, <2>1, HeardSteps
  <2> QED
    BY <1>3, <2>2, HandledSteps, Zenon
<1>4. CASE link' = [link EXCEPT !.termAcked = TRUE]
  <2>1. LinkShape([link EXCEPT !.termAcked = TRUE]) /\ Same(link, [link EXCEPT !.termAcked = TRUE])
    BY ZenonT(30) DEF Sound, LinkShape, Same
  <2> QED
    BY <1>4, <2>1, SameSteps
<1> QED
  BY Zenon, <1>2, <1>3, <1>4 DEF PPPFrame

LEMMA FrameEventSteps ==
    ASSUME Sound(link), NEW g \in Carriers, PPPFrameEvent(g)
    PROVE  Steps(link, link')
<1>1. link.carrier = g /\ LinkShape(link)
  BY DEF PPPFrameEvent, FrameIsFor, Sound
<1>2. ASSUME NEW p \in {"lcp"} \cup link.want, Handled(g, PeerAcknowledges(link, g, p), FALSE)
      PROVE  Steps(link, link')
  <2>1. p \in Protocols
    BY DEF Sound, LinkShape, Protocols
  <2>2. Steps(link, PeerAcknowledges(link, g, p)) /\ PeerAcknowledges(link, g, p).carrier = g
    BY <1>1, <2>1, HeardSteps
  <2> QED
    BY <1>2, <2>2, HandledSteps, Zenon
<1>3. ASSUME NEW p \in {"lcp"} \cup link.want, Handled(g, PeerRequests(link, g, p), TRUE)
      PROVE  Steps(link, link')
  <2>1. p \in Protocols
    BY DEF Sound, LinkShape, Protocols
  <2>2. Steps(link, PeerRequests(link, g, p)) /\ PeerRequests(link, g, p).carrier = g
    BY <1>1, <2>1, HeardSteps
  <2> QED
    BY <1>3, <2>2, HandledSteps, Zenon
<1>4. CASE link' = ReaderGoes([link EXCEPT !.acked = @ \ {"lcp"}], g, "lock")
  <2>1. PICK acked \in SUBSET Protocols : acked = link.acked \ {"lcp"}
    BY Zenon, <1>1 DEF LinkShape
  <2>2. LinkShape([link EXCEPT !.acked = acked]) /\ Same(link, [link EXCEPT !.acked = acked])
    BY <1>1, <2>1 DEF LinkShape, Same
  <2>3. Steps(link, [link EXCEPT !.acked = acked])
    BY <2>2, SameSteps
  <2>4. Steps([link EXCEPT !.acked = acked], ReaderGoes([link EXCEPT !.acked = acked], g, "lock"))
    BY <2>3, ReaderGoesSteps DEF Steps, ReaderLabels
  <2> QED
    BY <1>4, <2>1, <2>3, <2>4, KeepsTransitive DEF Steps
<1>5. ASSUME NEW n \in link.want, NEW a \in Addresses, MayAssign(link, n, a),
             link' = ReaderGoes(Assigned(link, n, a), g, "lock")
      PROVE  Steps(link, link')
  <2>1. Steps(link, Assigned(link, n, a))
    BY <1>5, AssignedSteps
  <2>2. Steps(Assigned(link, n, a), link')
    BY <1>5, <2>1, ReaderGoesSteps DEF Steps, ReaderLabels
  <2> QED
    BY <2>1, <2>2, KeepsTransitive DEF Steps
<1>6. ASSUME NEW n \in link.want, Handled(g, [link EXCEPT !.want = @ \ {n}], FALSE)
      PROVE  Steps(link, link')
  <2>1. PICK want \in SUBSET Networks : want = link.want \ {n}
    BY Zenon, <1>1 DEF LinkShape
  <2>2. /\ LinkShape([link EXCEPT !.want = want]) /\ Same(link, [link EXCEPT !.want = want])
        /\ [link EXCEPT !.want = want].carrier = g
    BY <1>1, <2>1 DEF LinkShape, Same
  <2>3. Steps(link, [link EXCEPT !.want = want])
    BY <2>2, SameSteps
  <2> QED
    BY <1>6, <2>1, <2>2, <2>3, HandledSteps, Zenon
<1>7. CASE link' = ReaderGoes(link, g, "lock")
  BY <1>7, ReaderGoesSteps DEF ReaderLabels
<1>8. CASE link' = [ReaderGoes(link, g, "lock") EXCEPT !.phase = "terminating", !.ending[g] = TRUE]
  <2>1. Steps(link, ReaderGoes(link, g, "lock"))
    BY ReaderGoesSteps DEF ReaderLabels
  <2>0. link.phase # "closed" /\ ReaderGoes(link, g, "lock").phase = link.phase
    BY <1>1 DEF PPPFrameEvent, FrameIsFor, LinkShape, ReaderGoes
  <2>2. ASSUME NEW l, Sound(l), l.phase # "closed"
        PROVE  Steps(l, [l EXCEPT !.phase = "terminating", !.ending[g] = TRUE])
    <3>1. LinkShape(l)
      BY <2>2 DEF Sound
    <3>2. LinkShape([l EXCEPT !.phase = "terminating", !.ending[g] = TRUE])
      BY <3>1, ZenonT(30) DEF LinkShape
    <3>3. Same(l, [l EXCEPT !.phase = "terminating", !.ending[g] = TRUE])
      BY <2>2, <3>1 DEF LinkShape, Same
    <3> QED
      BY <2>2, <3>2, <3>3, SameSteps
  <2>3. Steps(ReaderGoes(link, g, "lock"), link')
    BY <1>8, <2>0, <2>1, <2>2, Zenon DEF Steps
  <2> QED
    BY <2>1, <2>3, KeepsTransitive DEF Steps
<1>9. CASE link' = ReaderGoes(CarrierTerminated(link, g, Live), g, "exited")
  <2>1. Steps(link, CarrierTerminated(link, g, Live))
    BY TerminatedSteps
  <2>2. Steps(CarrierTerminated(link, g, Live), link')
    BY <1>9, <2>1, ReaderGoesSteps DEF Steps, ReaderLabels
  <2> QED
    BY <2>1, <2>2, KeepsTransitive DEF Steps
<1> QED
  BY Zenon, <1>2, <1>3, <1>4, <1>5, <1>6, <1>7, <1>8, <1>9 DEF PPPFrameEvent

LEMMA ReaderSteps ==
    ASSUME Sound(link), NEW g \in Carriers, PPPReaderStep(g)
    PROVE  Steps(link, link')
<1>1. CASE PPPReadEnds(g)
  <2>1. Steps(link, CarrierTerminated(link, g, Live))
    BY TerminatedSteps
  <2>2. Steps(CarrierTerminated(link, g, Live), link')
    BY <1>1, <2>1, ReaderGoesSteps DEF PPPReadEnds, Steps, ReaderLabels
  <2> QED
    BY <2>1, <2>2, KeepsTransitive DEF Steps
<1>2. CASE PPPReaderLocks(g)
  <2>1. CASE g = link.carrier
    <3>1. Steps(link, Locked(link, ReaderName(g)))
      BY Zenon, WriteLockSteps
    <3>2. Steps(Locked(link, ReaderName(g)), link')
      BY <1>2, <2>1, <3>1, ReaderGoesSteps DEF PPPReaderLocks, Steps, ReaderLabels
    <3> QED
      BY <3>1, <3>2, KeepsTransitive DEF Steps
  <2>2. CASE g # link.carrier
    BY <1>2, <2>2, ReaderGoesSteps DEF PPPReaderLocks, ReaderLabels
  <2> QED
    BY <2>1, <2>2
<1>3. CASE PPPReaderWritten(g)
  <2>1. PICK result : link' = IF result = "ok" THEN ReaderGoes(AfterWrite(g, result), g, "conclude")
                    ELSE ReaderGoes(CarrierTerminated(AfterWrite(g, result), g, ReaderPhases(g)),
                                    g, "exited")
    BY <1>3 DEF PPPReaderWritten
  <2>2. CASE result = "ok"
    <3>1. Steps(link, AfterWrite(g, result))
      BY AfterWriteSteps
    <3>2. Steps(AfterWrite(g, result), link')
      BY <2>1, <2>2, <3>1, ReaderGoesSteps DEF Steps, ReaderLabels
    <3> QED
      BY <3>1, <3>2, KeepsTransitive DEF Steps
  <2>3. CASE result # "ok"
    <3>1. PICK l : l = CarrierTerminated(AfterWrite(g, result), g, ReaderPhases(g))
      OBVIOUS
    <3>2. Steps(link, l)
      BY <3>1, WriteEndsSteps
    <3>3. Steps(l, link')
      BY <2>1, <2>3, <3>1, <3>2, ReaderGoesSteps DEF Steps, ReaderLabels
    <3> QED
      BY <3>2, <3>3, KeepsTransitive DEF Steps
  <2> QED
    BY <2>2, <2>3
<1>4. CASE PPPConclude(g)
  <2>1. PICK l : l = IF FrameIsFor(g) THEN Conclude(link) ELSE link
    OBVIOUS
  <2>2. Steps(link, l)
    BY <2>1, ConcludeSteps, Carried DEF FrameIsFor
  <2>3. link' = IF link.ending[g]
                THEN ReaderGoes(CarrierTerminated(l, g, Live \cup {"terminating"}), g, "exited")
                ELSE ReaderGoes(l, g, "read")
    BY <1>4, <2>1 DEF PPPConclude
  <2>4. CASE link.ending[g]
    <3>1. PICK m : m = CarrierTerminated(l, g, Live \cup {"terminating"})
      OBVIOUS
    <3>2. Steps(l, m)
      BY <2>2, <3>1, TerminatedSteps DEF Steps
    <3>3. Steps(m, link')
      BY <2>3, <2>4, <3>1, <3>2, ReaderGoesSteps DEF Steps, ReaderLabels
    <3> QED
      BY <2>2, <3>2, <3>3, KeepsTransitive DEF Steps
  <2>5. CASE ~link.ending[g]
    <3>1. Steps(l, link')
      BY <2>2, <2>3, <2>5, ReaderGoesSteps DEF Steps, ReaderLabels
    <3> QED
      BY <2>2, <3>1, KeepsTransitive DEF Steps
  <2> QED
    BY <2>4, <2>5
<1> QED
  BY <1>1, <1>2, <1>3, <1>4 DEF PPPReaderStep

LEMMA StartSteps ==
    ASSUME Sound(link),
           \/ PPPStart \/ PPPInstall \/ PPPStartLink \/ PPPFirstRequest \/ PPPStartWaits
           \/ PPPCarrierError \/ PPPPublish \/ PPPReport
    PROVE  Steps(link, link')
<1>1. Steps(link, link)
  BY Carried
<1>2. CASE PPPInstall
  BY <1>1, <1>2, ClosedSteps DEF PPPInstall
<1>3. CASE PPPStartLink
  <2>1. LinkShape(Started(link)) /\ Same(link, Started(link))
    BY ZenonT(30) DEF Sound, LinkShape, Started, Same, Carriers, ReaderLabels
  <2>2. Steps(link, Started(link))
    BY <2>1, SameSteps
  <2> QED
    BY <1>1, <1>3, <2>2 DEF PPPStartLink
<1>4. CASE PPPFirstRequest
  BY Zenon, <1>1, <1>4, WriteLockSteps, AfterWriteSteps, WriteEndsSteps DEF PPPFirstRequest, PPPLocks
<1>5. CASE PPPCarrierError
  BY <1>5, TerminatedSteps DEF PPPCarrierError
<1>6. CASE PPPStart \/ PPPStartWaits \/ PPPPublish \/ PPPReport
  BY <1>1, <1>6 DEF PPPStart, PPPStartWaits, PPPPublish, PPPReport
<1> QED
  BY <1>2, <1>3, <1>4, <1>5, <1>6

LEMMA ControlSteps ==
    ASSUME Sound(link), PPPControlStep, ~PPPSwitch
    PROVE  Steps(link, link')
<1>1. Steps(link, link)
  BY Carried
<1>2. CASE PPPCloseOld
  <2>1. PICK m : m = [link EXCEPT !.st[1] = "closed", !.readers[2] = "read"]
    OBVIOUS
  <2>3. PICK st, readers : st = [link.st EXCEPT ![1] = "closed"]
                           /\ readers = [link.readers EXCEPT ![2] = "read"]
    BY Zenon
  <2>4. /\ st \in [Carriers -> {"none", "open", "closed"}] /\ st[2] = link.st[2]
        /\ \A g \in Carriers : st[g] = "open" => link.st[g] = "open"
        /\ readers \in [Carriers -> ReaderLabels]
    BY <2>3 DEF Sound, LinkShape, Carriers, ReaderLabels
  <2>5. m = [link EXCEPT !.st = st, !.readers = readers]
    BY <2>1, <2>3 DEF Sound, LinkShape
  <2>6. LinkShape(m)
    BY <2>4, <2>5, ZenonT(30) DEF Sound, LinkShape
  <2>2. LinkShape(m) /\ Same(link, m)
    BY <2>4, <2>5, <2>6 DEF Sound, LinkShape, Same
  <2> QED
    BY <1>2, <2>1, <2>2, SameSteps DEF PPPCloseOld
<1>3. CASE PPPSwitchRequest
  BY Zenon, <1>1, <1>3, WriteLockSteps, AfterWriteSteps, WriteEndsSteps DEF PPPSwitchRequest, PPPLocks
<1>4. CASE PPPSwitchTimeout
  BY <1>4, ClosedSteps DEF PPPSwitchTimeout
<1>6. CASE PPPWithdraw
  <2>1. PICK m : m = [link EXCEPT !.st[2] = "closed"]
    BY Zenon
  <2>2. LinkShape(m) /\ Same(link, m)
    BY <2>1 DEF Sound, LinkShape, Same, Carriers
  <2>3. Steps(link, m)
    BY <2>2, SameSteps
  <2> QED
    BY <1>1, <1>6, <2>1, <2>3 DEF PPPWithdraw
<1>8. CASE PPPCancelled \/ PPPLinkDone \/ PPPSwitchWaits \/ PPPSwitched
  BY <1>1, <1>8 DEF PPPCancelled, PPPLinkDone, PPPSwitchWaits, PPPSwitched
<1> QED
  BY <1>2, <1>3, <1>4, <1>6, <1>8 DEF PPPControlStep

\* A connection that is made is not the link's yet.
LEMMA RetrySteps ==
    ASSUME Sound(link), PPPRetryDTLS
    PROVE  /\ Sound(link') /\ Keeps(link, link')
           /\ link' = link \/ link' = [link EXCEPT !.st[2] = "open"]
<1>1. Sound(link) /\ Keeps(link, link)
  BY Carried DEF Steps
<1>2. PICK m : m = [link EXCEPT !.st[2] = "open"]
  BY Zenon
<1>3. /\ LinkShape(m) /\ m.carrier = link.carrier /\ m.st[2] = "open"
      /\ m.acked = link.acked /\ m.peerAcked = link.peerAcked /\ m.want = link.want
      /\ m.address = link.address /\ m.locked = link.locked /\ m.pending = link.pending
      /\ m.ready = link.ready /\ m.heard = link.heard /\ m.carried = link.carried
      /\ m.first = link.first
  BY <1>2 DEF Sound, LinkShape, Carriers
<1>4. Negotiated(m) = Negotiated(link) /\ Addressed(m) = Addressed(link)
  BY <1>3, Zenon DEF Negotiated, Addressed
<1>5. Sound(m) /\ Keeps(link, m)
  BY <1>3, <1>4 DEF Sound, Keeps
<1> QED
  BY <1>1, <1>2, <1>5 DEF PPPRetryDTLS

LEMMA TimerSteps ==
    ASSUME Sound(link), PPPTick \/ PPPTimerStep
    PROVE  Steps(link, link')
<1>1. Steps(link, link)
  BY Carried
<1>2. CASE PPPTick \/ PPPTimerStops
  BY <1>1, <1>2 DEF PPPTick, PPPTimerStops
<1>3. CASE PPPHandleTimer
  BY <1>1, <1>3, TerminatedSteps, Zenon DEF PPPHandleTimer
<1>4. CASE PPPTimerWrites
  BY Zenon, <1>1, <1>4, WriteLockSteps, AfterWriteSteps, WriteEndsSteps DEF PPPTimerWrites, PPPLocks
<1> QED
  BY <1>2, <1>3, <1>4 DEF PPPTimerStep

LEMMA WriterWrittenSteps ==
    ASSUME Sound(link), PPPWriteBegins \/ PPPWriterWritten
    PROVE  Steps(link, link')
BY Carried, AfterWriteSteps, WriteEndsSteps DEF PPPWriteBegins, PPPWriterWritten

LEMMA EndedSteps ==
    ASSUME NEW l, Sound(l)
    PROVE  Steps(l, Ended(l))
<1>1. PICK k : k = LinkClosed(l)
  OBVIOUS
<1>2. Steps(l, k)
  BY <1>1, ClosedSteps
<1>3. LinkShape(k) /\ k.phase = "closed"
  BY ZenonT(30), <1>1, <1>2 DEF Steps, Sound, LinkClosed, Forgotten, LinkShape
<1>4. PICK m : m = [k EXCEPT !.closing = "join", !.captured = NoCarrier,
                             !.deadline = NoCarrier, !.tries = 0]
  OBVIOUS
<1>5. LinkShape(m) /\ Same(k, m)
  BY <1>3, <1>4, ZenonT(30) DEF LinkShape, Same
<1>6. Steps(k, m)
  BY <1>2, <1>5, SameSteps DEF Steps
<1>7. Ended(l) = m
  BY <1>1, <1>4, Zenon DEF Ended
<1> QED
  BY <1>2, <1>6, <1>7, KeepsTransitive

LEMMA CloseSteps ==
    ASSUME Sound(link),
           \/ PPPClose \/ PPPJoin \/ PPPTerminateStep
    PROVE  Steps(link, link')
<1>1. Steps(link, link) /\ LinkShape(link)
  BY Carried DEF Sound
<1>2. CASE PPPCloseBegins
  <2>1. ASSUME link.phase = "closed"
        PROVE  Steps(link, [link EXCEPT !.closing = "join"])
    <3>1. LinkShape([link EXCEPT !.closing = "join"])
      BY <1>1 DEF LinkShape
    <3>2. Same(link, [link EXCEPT !.closing = "join"])
      BY <1>1, <2>1 DEF LinkShape, Same
    <3> QED
      BY <3>1, <3>2, SameSteps
  <2>2. PICK m : m = [link EXCEPT !.closing = "try", !.phase = "terminating", !.ready = FALSE,
                                  !.captured = link.carrier]
    OBVIOUS
  <2>3. LinkShape(m) /\ (link.phase # "closed" => Same(link, m))
    BY <1>1, <2>2, ZenonT(30) DEF LinkShape, Same
  <2>4. CASE link.phase = "closed"
    BY <1>2, <2>1, <2>4 DEF PPPCloseBegins
  <2>5. CASE link.phase # "closed"
    BY <1>2, <2>2, <2>3, <2>5, SameSteps DEF PPPCloseBegins
  <2> QED
    BY <2>4, <2>5
<1>3. CASE PPPCloseTries
  <2>1. Steps(link, Ended(link))
    BY EndedSteps
  <2>2. ASSUME NEW l, Sound(l), NEW label \in {"lock", "write"}, NEW g
        PROVE  Steps(l, [l EXCEPT !.closing = label, !.deadline = g])
    <3>1. LinkShape(l)
      BY <2>2 DEF Sound
    <3>2. LinkShape([l EXCEPT !.closing = label, !.deadline = g])
      BY <3>1, ZenonT(30) DEF LinkShape
    <3>3. Same(l, [l EXCEPT !.closing = label, !.deadline = g])
      BY <3>1 DEF LinkShape, Same
    <3> QED
      BY <2>2, <3>2, <3>3, SameSteps
  <2>3. Steps(link, Locked(link, "close"))
    BY Zenon, WriteLockSteps
  <2>4. Steps(link, [Locked(link, "close") EXCEPT !.closing = "write", !.deadline = link.captured])
    <3>1. PICK l : l = Locked(link, "close")
      OBVIOUS
    <3>2. Steps(l, [l EXCEPT !.closing = "write", !.deadline = link.captured])
      BY Zenon, <2>2, <2>3, <3>1 DEF Steps
    <3> QED
      BY <2>3, <3>1, <3>2, KeepsTransitive DEF Steps
  <2>5. Steps(link, [link EXCEPT !.closing = "lock", !.deadline = link.captured])
    BY Zenon, <2>2
  <2> QED
    BY <1>3, <2>1, <2>4, <2>5 DEF PPPCloseTries
<1>4. CASE PPPCloseLocks
  <2>1. ASSUME link' = Ended([link EXCEPT !.st[link.captured] = "closed"])
        PROVE  Steps(link, link')
    <3>1. PICK m : m = [link EXCEPT !.st[link.captured] = "closed"]
      BY Zenon
    <3>2. LinkShape(m) /\ Same(link, m)
      BY <1>1, <3>1, SMTT(30) DEF LinkShape, Same, Carriers
    <3>3. Steps(link, m)
      BY <3>2, SameSteps
    <3>4. Steps(m, link')
      BY <2>1, <3>1, <3>3, EndedSteps DEF Steps
    <3> QED
      BY <3>3, <3>4, KeepsTransitive DEF Steps
  <2>2. PICK m : m = [Locked(link, "close") EXCEPT !.closing = "write"]
    BY Zenon
  <2>3. LinkShape(m) /\ Same(link, m)
    BY <1>1, <2>2, ZenonT(30) DEF LinkShape, Same, Locked
  <2> QED
    BY <1>4, <2>1, <2>2, <2>3, SameSteps DEF PPPCloseLocks
<1>5. CASE PPPCloseWritten
  <2>1. Steps(link, Released(link))
    BY Zenon, WriteLockSteps
  <2>2. Steps(Released(link), Ended(Released(link)))
    BY <2>1, EndedSteps DEF Steps
  <2>3. PICK m : m = [Released(link) EXCEPT !.closing = "await", !.tries = @ + 1]
    OBVIOUS
  <2>4. LinkShape(m) /\ Same(link, m)
    BY <1>1, <2>3, ZenonT(30) DEF LinkShape, Same, Released
  <2>5. Steps(link, m)
    BY <2>4, SameSteps
  <2> QED
    BY <1>5, <2>1, <2>2, <2>3, <2>5, KeepsTransitive DEF PPPCloseWritten, Steps
<1>6. CASE PPPCloseAwaits
  <2>1. LinkShape([link EXCEPT !.closing = "try"]) /\ Same(link, [link EXCEPT !.closing = "try"])
    BY <1>1 DEF LinkShape, Same
  <2> QED
    BY <1>6, <2>1, SameSteps, EndedSteps DEF PPPCloseAwaits
<1>7. CASE PPPClose \/ PPPJoin \/ PPPCloseJoins \/ PPPTerminate
  BY <1>1, <1>7 DEF PPPClose, PPPJoin, PPPCloseJoins, PPPTerminate
<1> QED
  BY <1>2, <1>3, <1>4, <1>5, <1>6, <1>7 DEF PPPTerminateStep

\* The change of carrier forgets what was agreed.
LEMMA SwitchIsSound ==
    ASSUME Sound(link)
    PROVE  /\ Sound(Switched(link)) /\ Switched(link).carrier = 2
           /\ Switched(link).st = link.st /\ Switched(link).closing = link.closing
           /\ Switched(link).phase = "establishing"
<1>1. PICK r : r = ResetNegotiation(link)
  OBVIOUS
<1>2. LinkShape(link)
  BY DEF Sound
<1>3. LinkShape(ResetNegotiation(link))
  BY ONLY <1>2, ZenonT(30) DEF LinkShape, ResetNegotiation
<1>4. /\ r.acked = {} /\ r.peerAcked = {} /\ ~r.pending /\ ~r.ready /\ r.st = link.st
      /\ r.first = link.first /\ r.locked = link.locked /\ r.address = link.address
      /\ r.closing = link.closing /\ r.phase = "establishing"
  BY <1>1, <1>2 DEF LinkShape, ResetNegotiation
<1>5. PICK m : m = [r EXCEPT !.carrier = 2, !.readers[2] = "starting", !.heard = {}, !.carried = FALSE]
  OBVIOUS
<1>6. LinkShape(m)
  <2>1. PICK readers \in [Carriers -> ReaderLabels] : readers = [r.readers EXCEPT ![2] = "starting"]
    BY Zenon, <1>1, <1>3 DEF LinkShape, Carriers, ReaderLabels
  <2>2. PICK g \in {NoCarrier} \cup Carriers : g = 2
    BY DEF Carriers
  <2>3. m = [r EXCEPT !.carrier = g, !.readers = readers, !.heard = {}, !.carried = FALSE]
    BY <1>1, <1>3, <1>5, <2>1, <2>2 DEF LinkShape
  <2>4. LinkShape(r)
    BY <1>1, <1>3
  <2>5. LinkShape([r EXCEPT !.carrier = g, !.readers = readers, !.heard = {}, !.carried = FALSE])
    BY ONLY <2>4, <2>1, ZenonT(30) DEF LinkShape
  <2> QED
    BY <2>3, <2>5, Zenon
<1>7. /\ m.acked = {} /\ m.peerAcked = {} /\ ~m.pending /\ ~m.ready /\ m.st = link.st
      /\ m.first = link.first /\ m.locked = link.locked /\ m.address = link.address
      /\ m.carrier = 2 /\ ~m.carried /\ m.closing = link.closing /\ m.phase = "establishing"
  BY <1>1, <1>3, <1>4, <1>5 DEF LinkShape
<1>8. Sound(m)
  BY <1>6, <1>7 DEF Sound, NoCarrier
<1>9. Switched(link) = m
  BY <1>1, <1>5, Zenon DEF Switched
<1> QED
  BY <1>7, <1>8, <1>9

----------------------------------------------------------------------------
(* The inductive invariant (Inv). *)

LEMMA ShapeIsRecord ==
    ASSUME NEW v, LocalShape(v)
    PROVE  LocalRecord(v)
BY DEF LocalShape, LocalRecord

LEMMA QuietInv ==
    ASSUME Inv, Quiet
    PROVE  WriterInv'
BY DEF Inv, Quiet, WriterInv, Untouched

LEMMA InitInv ==
    ASSUME TunnelAssumption, InitAll
    PROVE  Inv
<1>1. Sound(link) /\ link = NewLink
  BY NewLinkIsSound DEF InitAll
<1>2. PcShape(pc) /\ LocalShape(local)
  BY DEF InitAll, Init, PcShape, LocalShape, Nil
<1>3. WriterInv
  BY DEF InitAll, Init, WriterInv, Untouched, Packets, Actors, TunnelAssumption
<1>4. PPPInv
  <2>1. SessionShape(session) /\ ~session.connected
    BY DEF InitAll, Init, SessionShape
  <2>2. link.carrier # 2
    BY <1>1 DEF NewLink, NoCarrier
  <2> QED
    BY <1>2, <2>1, <2>2 DEF PPPInv, InitAll, Init, Actors, Nil
<1> QED
  BY <1>1, <1>2, <1>3, <1>4, ShapeIsRecord DEF Inv

----------------------------------------------------------------------------
(* The steps of a PPP session keep it. *)

LEMMA SessionShapes ==
    ASSUME NEW s, SessionShape(s)
    PROVE  /\ SessionShape(Called(s)) /\ Called(s).connected = s.connected
           /\ SessionShape(Counted(s)) /\ Counted(s).connected = s.connected
           /\ SessionShape(PPPTerminated(s)) /\ PPPTerminated(s).connected = s.connected
           /\ SessionShape(Called(Counted(s))) /\ Called(Counted(s)).connected = s.connected
<1>1. SessionShape(Called(s)) /\ Called(s).connected = s.connected
  BY DEF SessionShape, Called
<1>2. SessionShape(Counted(s)) /\ Counted(s).connected = s.connected
  BY DEF SessionShape, Counted
<1>3. SessionShape(PPPTerminated(s)) /\ PPPTerminated(s).connected = s.connected
  BY Zenon DEF SessionShape, PPPTerminated
<1>4. \A t : SessionShape(t) => SessionShape(Called(t)) /\ Called(t).connected = t.connected
  BY DEF SessionShape, Called
<1> QED
  BY <1>1, <1>2, <1>3, <1>4

LEMMA LinkQuietInv ==
    ASSUME Inv, flavor = "ppp", Quiet, LinkQuiet
    PROVE  Inv'
<1>1. PPPInv'
  BY DEF Inv, PPPInv, Quiet, LinkQuiet, Keeps, NoCarrier, Nil
<1>2. LocalRecord(local')
  BY ShapeIsRecord DEF Quiet
<1> QED
  BY <1>1, <1>2, QuietInv DEF Inv, Quiet, LinkQuiet

LEMMA PPPStartInv ==
    ASSUME Inv, flavor = "ppp",
           \/ PPPStart \/ PPPInstall \/ PPPStartLink \/ PPPFirstRequest \/ PPPStartWaits
           \/ PPPCarrierError \/ PPPPublish \/ PPPReport
    PROVE  Inv'
<1>1. Sound(link') /\ Keeps(link, link')
  BY StartSteps DEF Inv, Steps
<1>2. PcShape(pc) /\ SessionShape(session) /\ LocalShape(local)
  BY DEF Inv, PPPInv
<1>3. CASE PPPStart
  <2>1. Quiet
    BY <1>2, <1>3 DEF PPPStart, At, Goto, CallTerminate, PcShape, Quiet, Actors
  <2>2. LinkQuiet
    BY <1>1, <1>2, <1>3, SessionShapes
    DEF Inv, PPPInv, PPPStart, At, Goto, CallTerminate, PcShape, LinkQuiet, Actors
  <2> QED
    BY <2>1, <2>2, LinkQuietInv
<1>4. CASE PPPInstall
  <2>1. Quiet
    BY <1>2, <1>4 DEF PPPInstall, At, Goto, PcShape, Quiet, Actors
  <2>2. SessionShape(session')
    BY Zenon, <1>2, <1>4 DEF PPPInstall, SessionShape
  <2>3. LinkQuiet
    BY <1>1, <1>2, <1>4, <2>2
    DEF Inv, PPPInv, PPPInstall, At, Goto, PcShape, LinkQuiet, Actors
  <2> QED
    BY <2>1, <2>3, LinkQuietInv
<1>5. CASE PPPStartLink
  <2>1. Quiet
    BY <1>2, <1>5 DEF PPPStartLink, At, Goto, CallTerminate, PcShape, Quiet, Actors
  <2>2. LinkQuiet
    BY <1>1, <1>2, <1>5, SessionShapes
    DEF PPPStartLink, At, Goto, CallTerminate, PcShape, LinkQuiet, Actors
  <2> QED
    BY <2>1, <2>2, LinkQuietInv
<1>6. CASE PPPFirstRequest
  <2>1. Quiet
    BY <1>2, <1>6 DEF PPPFirstRequest, PPPLocks, At, Goto, PcShape, Quiet, Actors
  <2>2. SessionShape(session')
    BY <1>2, <1>6, SessionShapes DEF PPPFirstRequest, PPPLocks, PPPWriteEnds
  <2>3. LinkQuiet
    BY <1>1, <1>2, <1>6, <2>2
    DEF PPPFirstRequest, PPPLocks, At, Goto, PcShape, LinkQuiet, Actors
  <2> QED
    BY <2>1, <2>3, LinkQuietInv
<1>7. CASE PPPStartWaits
  <2>1. Quiet
    BY <1>2, <1>7 DEF PPPStartWaits, At, Goto, CallTerminate, PcShape, Quiet, Actors
  <2>2. LinkQuiet
    BY <1>1, <1>2, <1>7, SessionShapes
    DEF PPPStartWaits, At, Goto, CallTerminate, PcShape, LinkQuiet, Actors
  <2> QED
    BY <2>1, <2>2, LinkQuietInv
<1>8. CASE PPPCarrierError
  <2>1. Quiet
    BY Zenon, <1>2, <1>8 DEF PPPCarrierError, At, Goto, PcShape, Quiet, Actors
  <2>2. LinkQuiet
    BY <1>1, <1>2, <1>8, SessionShapes
    DEF PPPCarrierError, At, Goto, PcShape, LinkQuiet, Actors
  <2> QED
    BY <2>1, <2>2, LinkQuietInv
<1>9. CASE PPPPublish
  <2>1. Quiet
    BY Zenon, <1>2, <1>9 DEF PPPPublish, At, Goto, PcShape, Quiet, Actors
  <2>2. SessionShape(session')
    BY Zenon, <1>2, <1>9 DEF PPPPublish, SessionShape
  <2>3. LinkQuiet
    BY <1>1, <1>2, <1>9, <2>2 DEF PPPPublish, At, Goto, PcShape, LinkQuiet, Actors
  <2> QED
    BY <2>1, <2>3, LinkQuietInv
<1>10. CASE PPPReport
  <2>1. Quiet
    BY Zenon, <1>2, <1>10 DEF PPPReport, At, PcShape, Quiet, Actors
  <2>2. LinkQuiet
    BY <1>1, <1>2, <1>10 DEF PPPReport, At, PcShape, LinkQuiet, Actors
  <2> QED
    BY <2>1, <2>2, LinkQuietInv
<1> QED
  BY <1>3, <1>4, <1>5, <1>6, <1>7, <1>8, <1>9, <1>10

\* While a PPP session is being set up, nothing else runs.
LEMMA PPPControlInv ==
    ASSUME Inv, flavor = "ppp", PPPControlStep \/ PPPRetryDTLS, ~PPPSwitch
    PROVE  Inv'
<1>1. Sound(link') /\ Keeps(link, link')
  BY ControlSteps, RetrySteps DEF Inv, Steps
<1>2. /\ PcShape(pc) /\ SessionShape(session) /\ LocalShape(local)
      /\ pc["control"] # "none" => pc["start"] \notin {"none", "prepare", "install"}
  BY DEF Inv, PPPInv
<1>3. CASE PPPCancelled
  <2>1. Quiet
    BY Zenon, <1>2, <1>3 DEF PPPCancelled, At, Goto, PcShape, LocalShape, Quiet, Actors
  <2>2. LinkQuiet
    BY <1>1, <1>2, <1>3, SessionShapes
    DEF PPPCancelled, At, Goto, PcShape, LinkQuiet, Actors
  <2> QED
    BY <2>1, <2>2, LinkQuietInv
<1>4. CASE PPPLinkDone
  <2>1. Quiet
    BY Zenon, <1>2, <1>4 DEF PPPLinkDone, CallTerminate, At, Goto, PcShape, LocalShape, Quiet, Actors
  <2>2. LinkQuiet
    BY <1>1, <1>2, <1>4, SessionShapes
    DEF PPPLinkDone, CallTerminate, At, Goto, PcShape, LinkQuiet, Actors
  <2> QED
    BY <2>1, <2>2, LinkQuietInv
<1>5. CASE PPPRetryDTLS
  <2>1. Quiet
    BY <1>2, <1>5 DEF PPPRetryDTLS, Ends, At, Goto, PcShape, LocalShape, Quiet, Actors
  <2>2. LinkQuiet
    <3>1. [link EXCEPT !.st[2] = "open"].st[2] = "open"
      BY DEF Inv, Sound, LinkShape, Carriers
    <3>2. pc'["control"] = "switch" => link.st[2] = "none" /\ link'.st[2] # "none"
      BY Zenon, <1>2, <1>5, <3>1 DEF PPPRetryDTLS, Ends, Goto, PcShape, Actors
    <3> QED
      BY <1>1, <1>2, <1>5, <3>2, SessionShapes
      DEF PPPRetryDTLS, Ends, At, Goto, PcShape, LinkQuiet, Actors
  <2> QED
    BY <2>1, <2>2, LinkQuietInv
<1>6. CASE PPPCloseOld
  <2>1. Quiet
    BY Zenon, <1>2, <1>6 DEF PPPCloseOld, At, Goto, PcShape, LocalShape, Quiet, Actors
  <2>2. LinkQuiet
    BY <1>1, <1>2, <1>6, SessionShapes
    DEF PPPCloseOld, At, Goto, PcShape, LinkQuiet, Actors
  <2> QED
    BY <2>1, <2>2, LinkQuietInv
<1>7. CASE PPPSwitchRequest
  <2>1. Quiet
    BY <1>2, <1>7 DEF PPPSwitchRequest, PPPLocks, PPPWriteEnds, At, Goto, PcShape, LocalShape, Quiet, Actors
  <2>2. LinkQuiet
    BY <1>1, <1>2, <1>7, SessionShapes
    DEF PPPSwitchRequest, PPPLocks, PPPWriteEnds, At, Goto, PcShape, LinkQuiet, Actors
  <2> QED
    BY <2>1, <2>2, LinkQuietInv
<1>8. CASE PPPSwitchWaits
  <2>1. Quiet
    BY <1>2, <1>8 DEF PPPSwitchWaits, At, Goto, PcShape, LocalShape, Quiet, Actors
  <2>2. LinkQuiet
    BY <1>1, <1>2, <1>8, SessionShapes
    DEF PPPSwitchWaits, At, Goto, PcShape, LinkQuiet, Actors
  <2> QED
    BY <2>1, <2>2, LinkQuietInv
<1>9. CASE PPPSwitchTimeout
  <2>1. Quiet
    BY Zenon, <1>2, <1>9 DEF PPPSwitchTimeout, At, Goto, PcShape, LocalShape, Quiet, Actors
  <2>2. LinkQuiet
    BY <1>1, <1>2, <1>9, SessionShapes
    DEF PPPSwitchTimeout, At, Goto, PcShape, LinkQuiet, Actors
  <2> QED
    BY <2>1, <2>2, LinkQuietInv
<1>10. CASE PPPWithdraw
  <2>1. Quiet
    BY Zenon, <1>2, <1>10 DEF PPPWithdraw, CallTerminate, At, Goto, PcShape, LocalShape, Quiet, Actors
  <2>2. LinkQuiet
    BY <1>1, <1>2, <1>10, SessionShapes
    DEF PPPWithdraw, CallTerminate, At, Goto, PcShape, LinkQuiet, Actors
  <2> QED
    BY <2>1, <2>2, LinkQuietInv
<1>11. CASE PPPSwitched
  <2>1. Quiet
    BY Zenon, <1>2, <1>11 DEF PPPSwitched, At, Goto, PcShape, LocalShape, Quiet, Actors
  <2>2. LinkQuiet
    BY <1>1, <1>2, <1>11, SessionShapes
    DEF PPPSwitched, At, Goto, PcShape, LinkQuiet, Actors
  <2> QED
    BY <2>1, <2>2, LinkQuietInv
<1> QED
  BY <1>3, <1>4, <1>5, <1>6, <1>7, <1>8, <1>9, <1>10, <1>11 DEF PPPControlStep

LEMMA PPPReaderInv ==
    ASSUME Inv, flavor = "ppp", NEW g \in Carriers,
           PPPFrame(g) \/ PPPFrameEvent(g) \/ PPPReaderStep(g)
    PROVE  Inv'
<1>1. Sound(link') /\ Keeps(link, link')
  BY FrameSteps, FrameEventSteps, ReaderSteps DEF Inv, Steps
<1>2. PcShape(pc) /\ SessionShape(session) /\ LocalShape(local)
  BY DEF Inv, PPPInv
<1>3. UNCHANGED <<flavor, pc, local, wire>>
  BY Zenon DEF PPPFrame, PPPFrameEvent, PPPReaderStep, PPPReadEnds, PPPReaderLocks, PPPReaderWritten,
         PPPConclude, vars
<1>4. SessionShape(session') /\ session'.connected = session.connected
  BY Zenon, <1>2, SessionShapes
  DEF PPPFrame, PPPFrameEvent, PPPReaderStep, PPPReadEnds, PPPReaderLocks, PPPReaderWritten,
      PPPConclude, PPPWriteEnds, vars
<1>5. Quiet
  BY <1>2, <1>3 DEF Quiet
<1>6. LinkQuiet
  BY <1>1, <1>3, <1>4 DEF Inv, PPPInv, LinkQuiet
<1> QED
  BY <1>5, <1>6, LinkQuietInv

LEMMA PPPTimerInv ==
    ASSUME Inv, flavor = "ppp", PPPTick \/ PPPTimerStep
    PROVE  Inv'
<1>1. Sound(link') /\ Keeps(link, link')
  BY TimerSteps DEF Inv, Steps
<1>2. PcShape(pc) /\ SessionShape(session) /\ LocalShape(local)
  BY DEF Inv, PPPInv
<1>3. link.carrier \in Nat
  BY DEF Inv, Sound, LinkShape, NoCarrier, Carriers
<1>4. /\ UNCHANGED <<flavor, wire>> /\ pc' = [pc EXCEPT !["timer"] = pc'["timer"]]
      /\ \/ UNCHANGED local
         \/ \E c \in Nat : Holding("timer", c)
  BY <1>2, <1>3
  DEF PPPTick, PPPTimerStep, PPPTimerStops, PPPHandleTimer, PPPTimerWrites, PPPLocks, Goto, Nil,
      PcShape, Actors
<1>5. SessionShape(session') /\ session'.connected = session.connected
  BY <1>2, SessionShapes
  DEF PPPTick, PPPTimerStep, PPPTimerStops, PPPHandleTimer, PPPTimerWrites, PPPLocks, PPPWriteEnds
<1>6. Quiet
  BY <1>2, <1>4 DEF Quiet, PcShape, LocalShape, Holding, Actors
<1>7. LinkQuiet
  BY <1>1, <1>2, <1>4, <1>5 DEF Inv, PPPInv, LinkQuiet, PcShape, Actors
<1> QED
  BY <1>6, <1>7, LinkQuietInv

LEMMA PPPCloseInv ==
    ASSUME Inv, flavor = "ppp", PPPClose \/ PPPJoin \/ PPPTerminateStep
    PROVE  Inv'
<1>1. Sound(link') /\ Keeps(link, link')
  BY CloseSteps DEF Inv, Steps
<1>2. PcShape(pc) /\ SessionShape(session) /\ LocalShape(local)
  BY DEF Inv, PPPInv
<1>3. CASE PPPClose
  <2>1. Quiet
    BY Zenon, <1>2, <1>3 DEF PPPClose, CallTerminate, Goto, PcShape, Quiet, Actors
  <2>2. LinkQuiet
    BY <1>1, <1>2, <1>3, SessionShapes
    DEF Inv, PPPInv, PPPClose, CallTerminate, Goto, PcShape, LinkQuiet, Actors
  <2> QED
    BY <2>1, <2>2, LinkQuietInv
<1>4. CASE PPPJoin
  <2>1. Quiet
    BY Zenon, <1>2, <1>4 DEF PPPJoin, Goto, PcShape, Quiet, Actors
  <2>2. LinkQuiet
    BY <1>1, <1>2, <1>4 DEF Inv, PPPInv, PPPJoin, Goto, PcShape, LinkQuiet, Actors
  <2> QED
    BY <2>1, <2>2, LinkQuietInv
<1>5. CASE PPPTerminateStep
  <2>1. UNCHANGED <<flavor, pc, local, wire>>
    BY <1>5
    DEF PPPTerminateStep, PPPCloseBegins, PPPCloseTries, PPPCloseLocks, PPPCloseWritten,
        PPPCloseAwaits, PPPCloseJoins, vars
  <2>2. SessionShape(session') /\ session'.connected = session.connected
    <3>1. CASE PPPTerminate
      <4>1. SessionShape([session EXCEPT !.term = "taken", !.ready = FALSE, !.closed = TRUE])
        BY Zenon, <1>2 DEF SessionShape
      <4>2. SessionShape([session EXCEPT !.term = "closing"])
        BY <1>2 DEF SessionShape
      <4>3. \/ session' = [session EXCEPT !.term = "taken", !.ready = FALSE, !.closed = TRUE]
            \/ session' = [session EXCEPT !.term = "closing"]
            \/ session' = PPPTerminated(session)
        BY <3>1 DEF PPPTerminate
      <4>4. /\ [session EXCEPT !.term = "taken", !.ready = FALSE, !.closed = TRUE].connected
                  = session.connected
            /\ [session EXCEPT !.term = "closing"].connected = session.connected
        BY <1>2 DEF SessionShape
      <4> QED
        BY Zenon, <1>2, <4>1, <4>2, <4>3, <4>4, SessionShapes
    <3>2. CASE ~PPPTerminate
      BY <1>2, <1>5, <3>2, SessionShapes
      DEF PPPTerminateStep, PPPCloseBegins, PPPCloseTries, PPPCloseLocks, PPPCloseWritten,
          PPPCloseAwaits, PPPCloseJoins, vars
    <3> QED
      BY <3>1, <3>2
  <2>3. Quiet
    BY <1>2, <2>1 DEF Quiet
  <2>4. LinkQuiet
    BY <1>1, <2>1, <2>2 DEF Inv, PPPInv, LinkQuiet
  <2> QED
    BY <2>3, <2>4, LinkQuietInv
<1> QED
  BY <1>3, <1>4, <1>5

LEMMA PPPPrepareInv ==
    ASSUME Inv, flavor = "ppp", PPPPrepare
    PROVE  Inv'
<1>1. PcShape(pc) /\ SessionShape(session) /\ LocalShape(local)
  BY DEF Inv, PPPInv
<1>2. Quiet
  BY Zenon, <1>1 DEF PPPPrepare, CallTerminate, Goto, PcShape, Quiet, Actors
<1>3. /\ pc["start"] = "prepare" /\ pc["control"] = "none" /\ pc["writer"] = "none"
      /\ ~session.connected /\ local.channel["writer"] = Nil
  BY DEF Inv, PPPInv, PPPPrepare, At
<1>4. CASE UNCHANGED link
  <2>1. LinkQuiet
    BY <1>1, <1>3, <1>4, SessionShapes, Carried, ZenonT(30)
    DEF Inv, PPPPrepare, CallTerminate, Goto, PcShape, LinkQuiet, Steps, Actors
  <2> QED
    BY <1>2, <2>1, LinkQuietInv
<1>5. CASE ~UNCHANGED link
  <2>1. PICK dtls \in BOOLEAN, a \in {0, 1}, locked \in BOOLEAN : link' = LinkOver(dtls, a, locked)
    <3>1. session.udp \in BOOLEAN
      BY <1>1 DEF SessionShape
    <3> QED
      BY Zenon, <1>5, <3>1 DEF PPPPrepare
  <2>2. Sound(link') /\ link'.carrier = 1
    BY <2>1, NewLinkIsSound
  <2>3. UNCHANGED session
    BY Zenon, <1>5 DEF PPPPrepare
  <2>4. pc'["control"] = "none" /\ pc'["writer"] = "none" /\ local'.channel["writer"] = Nil
    BY Zenon, <1>1, <1>3 DEF PPPPrepare, CallTerminate, Goto, PcShape, Actors
  <2>5. PPPInv'
    BY <1>1, <1>2, <1>3, <2>2, <2>3, <2>4 DEF PPPInv, Quiet, Nil
  <2> QED
    BY <1>2, <2>2, <2>5, QuietInv, ShapeIsRecord DEF Inv, Quiet
<1> QED
  BY <1>4, <1>5

\* The second carrier is taken over by a link no writer has seen it of.
LEMMA PPPSwitchInv ==
    ASSUME Inv, flavor = "ppp", PPPSwitch
    PROVE  Inv'
<1>1. PcShape(pc) /\ SessionShape(session) /\ LocalShape(local)
  BY DEF Inv, PPPInv
<1>2. Quiet
  BY <1>1 DEF PPPSwitch, Goto, PcShape, Quiet, Actors
<1>3. pc["control"] = "switch" /\ UNCHANGED <<session, local>>
  BY DEF PPPSwitch, At
<1>4. CASE UNCHANGED link
  <2>1. LinkQuiet
    BY <1>1, <1>3, <1>4, Carried
    DEF Inv, PPPInv, PPPSwitch, Goto, PcShape, LinkQuiet, Steps, Actors
  <2> QED
    BY <1>2, <2>1, LinkQuietInv
<1>5. CASE ~UNCHANGED link
  <2>1. link' = Switched(link) /\ Goto("control", "closeOld")
    BY <1>5 DEF PPPSwitch
  <2>2. Sound(link') /\ link'.carrier = 2 /\ link'.st = link.st
    BY <2>1, SwitchIsSound DEF Inv
  <2>3. link.st[2] # "none"
    BY <1>3 DEF Inv, PPPInv
  <2>4. /\ pc'["control"] = "closeOld" /\ pc'["start"] = pc["start"]
        /\ pc'["writer"] = pc["writer"]
    BY <1>1, <2>1 DEF Goto, PcShape, Actors
  <2>5. PPPInv'
    BY <1>3, <2>2, <2>3, <2>4 DEF Inv, PPPInv
  <2> QED
    BY <1>2, <2>2, <2>5, QuietInv, ShapeIsRecord DEF Inv, Quiet
<1> QED
  BY <1>4, <1>5

\* A batch goes out over a carrier that was agreed on, once.
LEMMA WrittenShape ==
    ASSUME LocalShape(local)
    PROVE  /\ LocalShape(Written(local)) /\ Written(local).next = 1 /\ Written(local).pending = 0
           /\ Written(local).channel["writer"] = Nil
BY Zenon DEF LocalShape, Written, Actors, Nil

LEMMA SentOnce ==
    ASSUME wire \in [Packets -> 0 .. 1], NEW ps, \A p \in ps \cap Packets : wire[p] = 0, Sent(ps)
    PROVE  /\ wire' \in [Packets -> 0 .. 1]
           /\ \A p \in Packets : p \notin ps => wire'[p] = wire[p]
BY DEF Sent

LEMMA CarriedShape ==
    ASSUME NEW l, LinkShape(l)
    PROVE  LinkShape([l EXCEPT !.carried = TRUE])
BY ZenonT(30) DEF LinkShape

LEMMA PPPWriterInv ==
    ASSUME Inv, flavor = "ppp", PPPWriteBegins \/ PPPWriterLocks \/ PPPWriterWritten
    PROVE  Inv'
<1>1. PcShape(pc) /\ SessionShape(session) /\ LocalShape(local) /\ Sound(link)
  BY DEF Inv, PPPInv
<1>2. /\ LocalShape(Written(local)) /\ Written(local).next = 1 /\ Written(local).pending = 0
      /\ Written(local).channel["writer"] = Nil
  BY <1>1, WrittenShape
<1>3. CASE PPPWriteBegins
  <2>1. /\ link.ready /\ session.connected /\ pc["writer"] = "none"
        /\ UNCHANGED <<flavor, session, wire, link>>
    BY <1>3 DEF PPPWriteBegins, At
  <2>2. Negotiated(link) /\ link.carrier # Nil /\ link.carrier \in Nat
    BY <1>1, <2>1 DEF Sound, LinkShape, Nil, NoCarrier, Carriers
  <2>3. PcShape(pc') /\ pc' = [pc EXCEPT !["writer"] = "lock"]
    BY Zenon, <1>1, <1>3 DEF PPPWriteBegins, Goto, PcShape, Actors
  <2>4. /\ pc'["writer"] = "lock" /\ pc'["control"] = pc["control"] /\ pc'["start"] = pc["start"]
    BY <1>1, <2>3 DEF PcShape, Actors
  <2>5. /\ LocalShape(local') /\ local'.channel["writer"] = link.carrier
        /\ local'.next = local.next /\ local'.pending = local.pending
    BY <1>1, <1>3, <2>2 DEF PPPWriteBegins, Holding, LocalShape, Actors
  <2>6. WriterInv'
    BY <2>1, <2>4, <2>5 DEF Inv, WriterInv, Untouched
  <2>7. PPPInv'
    BY <2>1, <2>2, <2>4, <2>5 DEF Inv, PPPInv
  <2> QED
    BY <1>1, <2>1, <2>3, <2>5, <2>6, <2>7, ShapeIsRecord DEF Inv
<1>4. CASE PPPWriterLocks
  <2>1. pc["writer"] = "lock" /\ UNCHANGED <<flavor, session, wire>>
    BY <1>4 DEF PPPWriterLocks, At
  <2>2. CASE link.carrier = local.channel["writer"]
    <3>1. /\ link' = [Locked(link, "writer") EXCEPT !.carried = TRUE]
          /\ pc' = [pc EXCEPT !["writer"] = "writing"] /\ UNCHANGED local
      BY <1>4, <2>2 DEF PPPWriterLocks, Goto
    <3>2. Negotiated(link)
      BY <2>1, <2>2 DEF Inv, PPPInv
    <3>3. PICK l : l = Locked(link, "writer")
      OBVIOUS
    <3>4. Steps(link, l)
      BY Zenon, <1>1, <3>3, WriteLockSteps
    <3>5. /\ LinkShape(l) /\ l.carrier = link.carrier /\ l.want = link.want
          /\ l.heard = link.heard /\ l.st = link.st
      BY <1>1, <3>3, <3>4, SMTT(30) DEF Steps, Sound, Locked, LinkShape
    <3>6. Negotiated(l)
      BY <3>2, <3>5 DEF Negotiated
    <3>7. LinkShape([l EXCEPT !.carried = TRUE])
      BY <3>5, CarriedShape
    <3>8. Sound([l EXCEPT !.carried = TRUE])
      <4>1. PICK m : m = [l EXCEPT !.carried = TRUE]
        BY Zenon
      <4>2. /\ m.acked = l.acked /\ m.peerAcked = l.peerAcked /\ m.heard = l.heard
            /\ m.pending = l.pending /\ m.ready = l.ready /\ m.want = l.want
            /\ m.address = l.address /\ m.locked = l.locked /\ m.first = l.first
            /\ m.carrier = l.carrier
        BY <3>5, <4>1 DEF LinkShape
      <4>3. Sound(l)
        BY <3>4 DEF Steps
      <4>4. Sound(m)
        BY <3>6, <3>7, <4>1, <4>2, <4>3 DEF Sound, Negotiated, Addressed
      <4> QED
        BY <4>1, <4>4
    <3>9. /\ link'.carrier = link.carrier /\ link'.st = link.st
      BY <3>1, <3>3, <3>5 DEF LinkShape
    <3>10. /\ PcShape(pc') /\ pc'["writer"] = "writing" /\ pc'["control"] = pc["control"]
           /\ pc'["start"] = pc["start"]
      BY Zenon, <1>1, <3>1 DEF PcShape, Actors
    <3>11. WriterInv'
      BY <1>1, <2>1, <3>1, <3>10 DEF Inv, WriterInv, Untouched
    <3>12. PPPInv'
      BY <2>1, <3>1, <3>9, <3>10 DEF Inv, PPPInv
    <3> QED
      BY <1>1, <2>1, <3>1, <3>3, <3>8, <3>10, <3>11, <3>12, ShapeIsRecord DEF Inv
  <2>3. CASE link.carrier # local.channel["writer"]
    <3>1. pc' = [pc EXCEPT !["writer"] = "done"] /\ local' = Written(local) /\ UNCHANGED link
      BY <1>4, <2>3 DEF PPPWriterLocks, WriterReturns, Goto
    <3>2. /\ PcShape(pc') /\ pc'["writer"] = "done" /\ pc'["control"] = pc["control"]
          /\ pc'["start"] = pc["start"]
      BY Zenon, <1>1, <3>1 DEF PcShape, Actors
    <3>3. WriterInv'
      BY <1>2, <2>1, <3>1, <3>2 DEF Inv, WriterInv
    <3>4. PPPInv'
      BY <1>2, <2>1, <3>1, <3>2 DEF Inv, PPPInv, Nil
    <3> QED
      BY <1>1, <1>2, <2>1, <3>1, <3>2, <3>3, <3>4, ShapeIsRecord DEF Inv
  <2> QED
    BY <2>2, <2>3
<1>5. CASE PPPWriterWritten
  <2>1. pc["writer"] = "writing" /\ UNCHANGED flavor
    BY <1>5 DEF PPPWriterWritten, At
  <2>2. Steps(link, link')
    BY <1>1, <1>5, WriterWrittenSteps
  <2>3. SessionShape(session') /\ session'.connected = session.connected
    BY <1>1, <1>5, SessionShapes DEF PPPWriterWritten, PPPWriteEnds
  <2>4. pc' = [pc EXCEPT !["writer"] = "done"] /\ local' = Written(local)
    BY <1>5 DEF PPPWriterWritten, WriterReturns, Goto
  <2>5. /\ PcShape(pc') /\ pc'["writer"] = "done" /\ pc'["control"] = pc["control"]
        /\ pc'["start"] = pc["start"]
    BY Zenon, <1>1, <2>4 DEF PcShape, Actors
  <2>6. wire' \in [Packets -> 0 .. 1]
    <3>1. wire \in [Packets -> 0 .. 1] /\ \A p \in Packets : wire[p] = 0
      BY <2>1 DEF Inv, WriterInv, Untouched, Packets
    <3>2. PICK ps : Sent(ps)
      BY <1>5 DEF PPPWriterWritten
    <3> QED
      BY <3>1, <3>2, SentOnce
  <2>7. WriterInv'
    BY <1>2, <2>1, <2>4, <2>5, <2>6 DEF Inv, WriterInv
  <2>8. PPPInv'
    BY <1>2, <2>1, <2>2, <2>3, <2>4, <2>5 DEF Inv, PPPInv, Steps, Keeps, NoCarrier, Nil
  <2> QED
    BY <1>1, <1>2, <2>1, <2>2, <2>4, <2>5, <2>7, <2>8, ShapeIsRecord DEF Inv, Steps
<1> QED
  BY <1>3, <1>4, <1>5

LEMMA PPPNextInv ==
    ASSUME Inv, PPPNext
    PROVE  Inv'
<1>1. flavor = "ppp"
  BY DEF PPPNext
<1>2. CASE PPPSwitch
  BY <1>1, <1>2, PPPSwitchInv
<1>3. CASE PPPPrepare
  BY <1>1, <1>3, PPPPrepareInv
<1>4. CASE PPPControlStep \/ PPPRetryDTLS
  BY <1>1, <1>2, <1>4, PPPControlInv
<1>5. CASE PPPStart \/ PPPStartStep \/ PPPCarrierError
  BY <1>1, <1>3, <1>5, PPPStartInv DEF PPPStartStep
<1>6. CASE \E g \in Carriers : PPPFrame(g) \/ PPPFrameEvent(g) \/ PPPReaderStep(g)
  BY <1>1, <1>6, PPPReaderInv
<1>7. CASE PPPTick \/ PPPTimerStep
  BY <1>1, <1>7, PPPTimerInv
<1>8. CASE PPPWriteBegins \/ PPPWriterStep
  BY <1>1, <1>8, PPPWriterInv DEF PPPWriterStep
<1>9. CASE PPPClose \/ PPPJoin \/ PPPTerminateStep
  BY <1>1, <1>9, PPPCloseInv
<1> QED
  BY <1>4, <1>5, <1>6, <1>7, <1>8, <1>9 DEF PPPNext

----------------------------------------------------------------------------
(* The sessions of the other protocols have no link.  A step of theirs that is *)
(* not the writer's is calm.                                                   *)

LEMMA CalmInv ==
    ASSUME Inv, flavor # "ppp", UNCHANGED link, Calm
    PROVE  Inv'
BY DEF Inv, Calm, WriterInv, Untouched

LEMMA ACCalm ==
    ASSUME Inv, flavor = "anyconnect",
           \/ ACStart \/ ACLaunch \/ ACInitialResult \/ ACBecomeReady \/ ACDTLSLoop
           \/ ACInstall \/ ACDial \/ ACDTLSUp \/ ACFallback \/ ACReportCSTP \/ ACDecide
           \/ ACReadEnds \/ ACTimerEnds \/ ACClose \/ ACCloseLocks \/ ACDisconnect \/ ACJoin
           \/ ACTerminateStep
    PROVE  Calm
<1>1. PcShape(pc) /\ LocalRecord(local)
  BY DEF Inv
<1>2. CASE ACStart
  BY <1>1, <1>2 DEF ACStart, Goto, Calm, PcShape, LocalRecord, Actors
<1>3. CASE ACLaunch
  BY Zenon, <1>1, <1>3 DEF ACLaunch, Calm, PcShape, LocalRecord, Actors
<1>4. CASE ACInitialResult
  BY Zenon, <1>1, <1>4 DEF ACInitialResult, Goto, Calm, PcShape, LocalRecord, Actors
<1>5. CASE ACBecomeReady
  BY <1>1, <1>5 DEF ACBecomeReady, Goto, Calm, PcShape, LocalRecord, Actors
<1>6. CASE ACDTLSLoop
  BY <1>1, <1>6 DEF ACDTLSLoop, Goto, Holding, Calm, PcShape, LocalRecord, Actors
<1>7. CASE ACInstall
  BY <1>1, <1>7 DEF ACInstall, Goto, Calm, PcShape, LocalRecord, Actors
<1>8. CASE ACDial
  BY <1>1, <1>8 DEF ACDial, Goto, DialEnds, Calm, PcShape, LocalRecord, Actors
<1>9. CASE ACDTLSUp
  BY Zenon, <1>1, <1>9 DEF ACDTLSUp, Goto, Calm, PcShape, LocalRecord, Actors
<1>10. CASE ACFallback
  BY <1>1, <1>10 DEF ACFallback, Goto, Calm, PcShape, LocalRecord, Actors
<1>11. CASE ACReportCSTP
  BY Zenon, <1>1, <1>11 DEF ACReportCSTP, Goto, Calm, PcShape, LocalRecord, Actors
<1>12. CASE ACDecide
  BY <1>1, <1>12 DEF ACDecide, Goto, CallTerminate, Holding, Calm, PcShape, LocalRecord, Actors
<1>13. CASE ACReadEnds
  BY Zenon, <1>1, <1>13 DEF ACReadEnds, Goto, Ends, Calm, PcShape, LocalRecord, Actors
<1>14. CASE ACTimerEnds
  BY <1>1, <1>14 DEF ACTimerEnds, Goto, Ends, Calm, PcShape, LocalRecord, Actors
<1>15. CASE ACClose
  BY <1>1, <1>15 DEF ACClose, Goto, CallTerminate, Calm, PcShape, LocalRecord, Actors
<1>16. CASE ACCloseLocks
  BY <1>1, <1>16 DEF ACCloseLocks, Goto, CallTerminate, Calm, PcShape, LocalRecord, Actors
<1>17. CASE ACDisconnect
  BY Zenon, <1>1, <1>17 DEF ACDisconnect, Goto, CallTerminate, Calm, PcShape, LocalRecord, Actors
<1>18. CASE ACJoin
  BY Zenon, <1>1, <1>18 DEF ACJoin, Goto, Calm, PcShape, LocalRecord, Actors
<1>19. CASE ACTerminateStep
  BY <1>1, <1>19 DEF ACTerminateStep, ACTerminate, Calm, PcShape, LocalRecord, Actors
<1> QED
  BY <1>2, <1>3, <1>4, <1>5, <1>6, <1>7, <1>8, <1>9, <1>10, <1>11, <1>12, <1>13, <1>14, <1>15,
      <1>16, <1>17, <1>18, <1>19

LEMMA ACPacketCalm ==
    ASSUME Inv, flavor = "anyconnect", NEW a,
           \/ ACWritePacket(a) \/ ACPacketLocks(a) \/ ACPacketWritten(a)
    PROVE  Calm
<1>1. PcShape(pc) /\ LocalRecord(local)
  BY DEF Inv
<1>2. CASE ACWritePacket(a)
  BY Zenon, <1>1, <1>2 DEF ACWritePacket, Goto, Calm, PcShape, LocalRecord, Actors
<1>3. CASE ACPacketLocks(a)
  BY <1>1, <1>3 DEF ACPacketLocks, Goto, Calm, PcShape, LocalRecord, Actors
<1>4. CASE ACPacketWritten(a)
  BY Zenon, <1>1, <1>4 DEF ACPacketWritten, Goto, Ends, Calm, PcShape, LocalRecord, Actors
<1> QED
  BY <1>2, <1>3, <1>4

LEMMA GPStartCalm ==
    ASSUME Inv, flavor = "gp",
           \/ GPStart \/ GPFetch \/ GPCheck \/ GPNoCandidate \/ GPCandidate \/ GPDialESP
           \/ GPProbe \/ GPAwait \/ GPRejoin \/ GPPublishESP \/ GPReportESP \/ GPFinish
    PROVE  Calm
<1>1. PcShape(pc) /\ LocalRecord(local)
  BY DEF Inv
<1>2. CASE GPStart
  BY Zenon, <1>1, <1>2 DEF GPStart, Goto, Calm, PcShape, LocalRecord, Actors
<1>3. CASE GPFetch
  BY <1>1, <1>3 DEF GPFetch, Goto, CallTerminate, Calm, PcShape, LocalRecord, Actors
<1>4. CASE GPCheck
  BY <1>1, <1>4 DEF GPCheck, Goto, CallTerminate, Calm, PcShape, LocalRecord, Actors
<1>5. CASE GPNoCandidate
  BY Zenon, <1>1, <1>5 DEF GPNoCandidate, Goto, Calm, PcShape, LocalRecord, Actors
<1>6. CASE GPCandidate
  BY <1>1, <1>6 DEF GPCandidate, Goto, Holding, Calm, PcShape, LocalRecord, Actors
<1>7. CASE GPDialESP
  BY <1>1, <1>7 DEF GPDialESP, Goto, DialEnds, Calm, PcShape, LocalRecord, Actors
<1>8. CASE GPProbe
  BY <1>1, <1>8 DEF GPProbe, Goto, Calm, PcShape, LocalRecord, Actors
<1>9. CASE GPAwait
  BY <1>1, <1>9 DEF GPAwait, Goto, CallTerminate, Calm, PcShape, LocalRecord, Actors
<1>10. CASE GPRejoin
  BY Zenon, <1>1, <1>10 DEF GPRejoin, Goto, Calm, PcShape, LocalRecord, Actors
<1>11. CASE GPPublishESP
  BY <1>1, <1>11 DEF GPPublishESP, Goto, Calm, PcShape, LocalRecord, Actors
<1>12. CASE GPReportESP
  BY Zenon, <1>1, <1>12 DEF GPReportESP, Goto, Calm, PcShape, LocalRecord, Actors
<1>13. CASE GPFinish
  BY <1>1, <1>13 DEF GPFinish, Goto, Calm, PcShape, LocalRecord, Actors
<1> QED
  BY <1>2, <1>3, <1>4, <1>5, <1>6, <1>7, <1>8, <1>9, <1>10, <1>11, <1>12, <1>13

LEMMA GPOpenCalm ==
    ASSUME Inv, flavor = "gp", NEW a \in {"start", "control"},
           \/ GPClaim(a) \/ GPCloseOld(a) \/ GPJoinOld(a) \/ GPNoGPST(a) \/ GPNewGPST(a)
           \/ GPDialGPST(a) \/ GPGPSTDown(a) \/ GPGPSTUp(a) \/ GPAbandon(a)
           \/ GPReportGPST(a)
    PROVE  Calm
<1>1. PcShape(pc) /\ LocalRecord(local)
  BY DEF Inv
<1>2. CASE GPClaim(a)
  BY Zenon, <1>1, <1>2 DEF GPClaim, Goto, CallTerminate, Calm, PcShape, LocalRecord, Actors
<1>3. CASE GPCloseOld(a)
  BY Zenon, <1>1, <1>3 DEF GPCloseOld, Goto, Calm, PcShape, LocalRecord, Actors
<1>4. CASE GPJoinOld(a)
  BY Zenon, <1>1, <1>4 DEF GPJoinOld, Goto, Calm, PcShape, LocalRecord, Actors
<1>5. CASE GPNoGPST(a)
  BY Zenon, <1>1, <1>5 DEF GPNoGPST, Goto, CallTerminate, Calm, PcShape, LocalRecord, Actors
<1>6. CASE GPNewGPST(a)
  BY <1>1, <1>6 DEF GPNewGPST, Goto, CallTerminate, Holding, Calm, PcShape, LocalRecord, Actors
<1>7. CASE GPDialGPST(a)
  BY <1>1, <1>7 DEF GPDialGPST, Goto, DialEnds, Calm, PcShape, LocalRecord, Actors
<1>8. CASE GPGPSTDown(a)
  BY Zenon, <1>1, <1>8 DEF GPGPSTDown, Goto, Calm, PcShape, LocalRecord, Actors
<1>9. CASE GPGPSTUp(a)
  BY <1>1, <1>9 DEF GPGPSTUp, Goto, Calm, PcShape, LocalRecord, Actors
<1>10. CASE GPAbandon(a)
  BY Zenon, <1>1, <1>10 DEF GPAbandon, Goto, CallTerminate, Calm, PcShape, LocalRecord, Actors
<1>11. CASE GPReportGPST(a)
  BY Zenon, <1>1, <1>11 DEF GPReportGPST, Goto, Calm, PcShape, LocalRecord, Actors
<1> QED
  BY <1>2, <1>3, <1>4, <1>5, <1>6, <1>7, <1>8, <1>9, <1>10, <1>11

LEMMA GPControlCalm ==
    ASSUME Inv, flavor = "gp",
           \/ GPLoop \/ GPTransportDone \/ GPCancelled \/ GPCheckAgain \/ GPRekey
           \/ GPPeriodicCheck \/ GPClose \/ GPJoin \/ GPTerminateStep
    PROVE  Calm
<1>1. PcShape(pc) /\ LocalRecord(local)
  BY DEF Inv
<1>2. CASE GPLoop
  BY Zenon, <1>1, <1>2 DEF GPLoop, Goto, Calm, PcShape, LocalRecord, Actors
<1>3. CASE GPTransportDone
  BY <1>1, <1>3 DEF GPTransportDone, Goto, CallTerminate, Calm, PcShape, LocalRecord, Actors
<1>4. CASE GPCancelled
  BY Zenon, <1>1, <1>4 DEF GPCancelled, Goto, Calm, PcShape, LocalRecord, Actors
<1>5. CASE GPCheckAgain
  BY <1>1, <1>5 DEF GPCheckAgain, Goto, CallTerminate, Calm, PcShape, LocalRecord, Actors
<1>6. CASE GPRekey
  BY Zenon, <1>1, <1>6 DEF GPRekey, Goto, Ends, Calm, PcShape, LocalRecord, Actors
<1>7. CASE GPPeriodicCheck
  BY Zenon, <1>1, <1>7 DEF GPPeriodicCheck, Goto, Calm, PcShape, LocalRecord, Actors
<1>8. CASE GPClose
  BY Zenon, <1>1, <1>8 DEF GPClose, Goto, CallTerminate, Calm, PcShape, LocalRecord, Actors
<1>9. CASE GPJoin
  BY Zenon, <1>1, <1>9 DEF GPJoin, Goto, Calm, PcShape, LocalRecord, Actors
<1>10. CASE GPTerminateStep
  BY <1>1, <1>10 DEF GPTerminateStep, GPTerminate, Calm, PcShape, LocalRecord, Actors
<1> QED
  BY <1>2, <1>3, <1>4, <1>5, <1>6, <1>7, <1>8, <1>9, <1>10

LEMMA NCStartCalm ==
    ASSUME Inv, flavor = "nc",
           \/ NCStart \/ NCDial \/ NCRequest \/ NCConfigure \/ NCInstall \/ NCReport
           \/ NCSetupFails("request") \/ NCSetupFails("configure")
    PROVE  Calm
<1>1. PcShape(pc) /\ LocalRecord(local)
  BY DEF Inv
<1>2. CASE NCStart
  BY <1>1, <1>2 DEF NCStart, Goto, CallTerminate, Calm, PcShape, LocalRecord, Actors
<1>3. CASE NCDial
  BY <1>1, <1>3 DEF NCDial, Goto, CallTerminate, Calm, PcShape, LocalRecord, Actors
<1>4. CASE NCRequest
  BY Zenon, <1>1, <1>4 DEF NCRequest, Goto, Calm, PcShape, LocalRecord, Actors
<1>5. CASE NCConfigure
  BY Zenon, <1>1, <1>5 DEF NCConfigure, Goto, Calm, PcShape, LocalRecord, Actors
<1>6. CASE NCInstall
  BY <1>1, <1>6 DEF NCInstall, Goto, Calm, PcShape, LocalRecord, Actors
<1>7. CASE NCReport
  BY Zenon, <1>1, <1>7 DEF NCReport, Calm, PcShape, LocalRecord, Actors
<1>8. CASE NCSetupFails("request")
  BY Zenon, <1>1, <1>8 DEF NCSetupFails, Goto, CallTerminate, Calm, PcShape, LocalRecord, Actors
<1>9. CASE NCSetupFails("configure")
  BY Zenon, <1>1, <1>9 DEF NCSetupFails, Goto, CallTerminate, Calm, PcShape, LocalRecord, Actors
<1> QED
  BY <1>2, <1>3, <1>4, <1>5, <1>6, <1>7, <1>8, <1>9

LEMMA NCReaderCalm ==
    ASSUME Inv, flavor = "nc",
           \/ NCReadEnds \/ NCReadRekey \/ NCRekey \/ NCInstallKeys \/ NCCloseESP
           \/ NCRespond \/ NCReadDisable \/ NCDisable \/ NCDisabled
    PROVE  Calm
<1>1. PcShape(pc) /\ LocalRecord(local)
  BY DEF Inv
<1>2. CASE NCReadEnds
  BY <1>1, <1>2 DEF NCReadEnds, Goto, Ends, Calm, PcShape, LocalRecord, Actors
<1>3. CASE NCReadRekey
  BY <1>1, <1>3 DEF NCReadRekey, Goto, Holding, Calm, PcShape, LocalRecord, Actors
<1>4. CASE NCRekey
  BY <1>1, <1>4 DEF NCRekey, Goto, CallTerminate, Calm, PcShape, LocalRecord, Actors
<1>5. CASE NCInstallKeys
  BY <1>1, <1>5 DEF NCInstallKeys, Goto, Calm, PcShape, LocalRecord, Actors
<1>6. CASE NCCloseESP
  BY Zenon, <1>1, <1>6 DEF NCCloseESP, Goto, Holding, Calm, PcShape, LocalRecord, Actors
<1>7. CASE NCRespond
  BY Zenon, <1>1, <1>7 DEF NCRespond, Goto, Holding, Calm, PcShape, LocalRecord, Actors
<1>8. CASE NCReadDisable
  BY Zenon, <1>1, <1>8 DEF NCReadDisable, Goto, Calm, PcShape, LocalRecord, Actors
<1>9. CASE NCDisable
  BY Zenon, <1>1, <1>9 DEF NCDisable, Goto, Calm, PcShape, LocalRecord, Actors
<1>10. CASE NCDisabled
  BY Zenon, <1>1, <1>10 DEF NCDisabled, Goto, Calm, PcShape, LocalRecord, Actors
<1> QED
  BY <1>2, <1>3, <1>4, <1>5, <1>6, <1>7, <1>8, <1>9, <1>10

LEMMA NCControlCalm ==
    ASSUME Inv, flavor = "nc",
           \/ NCNoESP \/ NCNewESP \/ NCDialESP \/ NCFirstProbe \/ NCStartFailed
           \/ NCInstallESP \/ NCCancelled \/ NCEstablished \/ NCFallback \/ NCEnable
           \/ NCEnabled \/ NCFallenBack \/ NCRelease \/ NCReportONCP \/ NCProbed \/ NCProbe
           \/ NCPeriodicCheckFails
    PROVE  Calm
<1>1. PcShape(pc) /\ LocalRecord(local)
  BY DEF Inv
<1>2. CASE NCNoESP
  BY Zenon, <1>1, <1>2 DEF NCNoESP, Goto, Calm, PcShape, LocalRecord, Actors
<1>3. CASE NCNewESP
  BY Zenon, <1>1, <1>3 DEF NCNewESP, Goto, Holding, Calm, PcShape, LocalRecord, Actors
<1>4. CASE NCDialESP
  BY <1>1, <1>4 DEF NCDialESP, Goto, DialEnds, Calm, PcShape, LocalRecord, Actors
<1>5. CASE NCFirstProbe
  BY <1>1, <1>5 DEF NCFirstProbe, Goto, ProbeEnds, Calm, PcShape, LocalRecord, Actors
<1>6. CASE NCStartFailed
  BY Zenon, <1>1, <1>6 DEF NCStartFailed, Goto, Holding, Calm, PcShape, LocalRecord, Actors
<1>7. CASE NCInstallESP
  BY <1>1, <1>7 DEF NCInstallESP, Goto, Calm, PcShape, LocalRecord, Actors
<1>8. CASE NCCancelled
  BY Zenon, <1>1, <1>8 DEF NCCancelled, Goto, Calm, PcShape, LocalRecord, Actors
<1>9. CASE NCEstablished
  BY <1>1, <1>9 DEF NCEstablished, Goto, CallTerminate, Calm, PcShape, LocalRecord, Actors
<1>10. CASE NCFallback
  BY Zenon, <1>1, <1>10 DEF NCFallback, Goto, Calm, PcShape, LocalRecord, Actors
<1>11. CASE NCEnable
  BY <1>1, <1>11 DEF NCEnable, Goto, CallTerminate, Calm, PcShape, LocalRecord, Actors
<1>12. CASE NCEnabled
  BY Zenon, <1>1, <1>12 DEF NCEnabled, Goto, Calm, PcShape, LocalRecord, Actors
<1>13. CASE NCFallenBack
  BY Zenon, <1>1, <1>13 DEF NCFallenBack, Goto, Calm, PcShape, LocalRecord, Actors
<1>14. CASE NCRelease
  BY Zenon, <1>1, <1>14 DEF NCRelease, Goto, Calm, PcShape, LocalRecord, Actors
<1>15. CASE NCReportONCP
  BY Zenon, <1>1, <1>15 DEF NCReportONCP, Goto, Holding, Calm, PcShape, LocalRecord, Actors
<1>16. CASE NCProbed
  BY Zenon, <1>1, <1>16 DEF NCProbed, Goto, Calm, PcShape, LocalRecord, Actors
<1>17. CASE NCProbe
  BY <1>1, <1>17 DEF NCProbe, Goto, ProbeEnds, Calm, PcShape, LocalRecord, Actors
<1>18. CASE NCPeriodicCheckFails
  BY Zenon, <1>1, <1>18 DEF NCPeriodicCheckFails, Goto, Ends, Calm, PcShape, LocalRecord, Actors
<1> QED
  BY <1>2, <1>3, <1>4, <1>5, <1>6, <1>7, <1>8, <1>9, <1>10, <1>11, <1>12, <1>13, <1>14, <1>15,
      <1>16, <1>17, <1>18

LEMMA NCCloserCalm ==
    ASSUME Inv, flavor = "nc",
           \/ NCClose \/ NCGoodbye \/ NCSaidGoodbye \/ NCJoin \/ NCTerminateStep
    PROVE  Calm
<1>1. PcShape(pc) /\ LocalRecord(local)
  BY DEF Inv
<1>2. CASE NCClose
  BY <1>1, <1>2 DEF NCClose, Goto, CallTerminate, Calm, PcShape, LocalRecord, Actors
<1>3. CASE NCGoodbye
  BY Zenon, <1>1, <1>3 DEF NCGoodbye, Goto, Calm, PcShape, LocalRecord, Actors
<1>4. CASE NCSaidGoodbye
  BY Zenon, <1>1, <1>4 DEF NCSaidGoodbye, Goto, Calm, PcShape, LocalRecord, Actors
<1>5. CASE NCJoin
  BY Zenon, <1>1, <1>5 DEF NCJoin, Goto, Calm, PcShape, LocalRecord, Actors
<1>6. CASE NCTerminateStep
  BY <1>1, <1>6 DEF NCTerminateStep, NCTerminate, Calm, PcShape, LocalRecord, Actors
<1> QED
  BY <1>2, <1>3, <1>4, <1>5, <1>6

LEMMA NCLockCalm ==
    ASSUME Inv, flavor = "nc", NEW a \in {"reader", "control", "closer"}, NEW from, NEW to,
           \/ NCLock(a, from, to)
    PROVE  Calm
<1>1. PcShape(pc) /\ LocalRecord(local)
  BY DEF Inv
<1>2. CASE NCLock(a, from, to)
  BY Zenon, <1>1, <1>2 DEF NCLock, Goto, Calm, PcShape, LocalRecord, Actors
<1> QED
  BY <1>2

LEMMA PulseLaunchedShape ==
    ASSUME PcShape(pc), NEW a \in Actors \ {"writer"}, NEW label, PulseLaunched(a, label)
    PROVE  PcShape(pc') /\ pc'["writer"] = pc["writer"]
<1>1. CASE Goto(a, label)
  BY Zenon, <1>1 DEF Goto, PcShape, Actors
<1>2. CASE ~Goto(a, label)
  <2>1. PICK free : free = {m \in Monitors : pc[m] = "none"}
    BY Zenon
  <2>2. free # {} /\ pc' = [pc EXCEPT ![a] = label, ![CHOOSE m \in free : TRUE] = "launched"]
    BY <1>2, <2>1 DEF PulseLaunched
  <2>3. (CHOOSE m \in free : TRUE) \in free
    BY <2>2
  <2>4. PICK m \in Monitors : pc' = [pc EXCEPT ![a] = label, ![m] = "launched"]
    BY Zenon, <2>1, <2>2, <2>3
  <2>5. m \in Actors /\ m # "writer"
    BY DEF Monitors, Actors
  <2> QED
    BY Zenon, <2>4, <2>5 DEF PcShape, Actors
<1> QED
  BY <1>1, <1>2

LEMMA PulseStartCalm ==
    ASSUME Inv, flavor = "pulse",
           \/ PulseStart \/ PulseReconnect \/ PulseConfigure \/ PulseInstall \/ PulseReport
           \/ PulseLaunch
    PROVE  Calm
<1>1. PcShape(pc) /\ LocalRecord(local)
  BY DEF Inv
<1>2. CASE PulseStart
  BY <1>1, <1>2 DEF PulseStart, Goto, CallTerminate, Calm, PcShape, LocalRecord, Actors
<1>3. CASE PulseReconnect
  BY <1>1, <1>3 DEF PulseReconnect, Goto, CallTerminate, Calm, PcShape, LocalRecord, Actors
<1>4. CASE PulseConfigure
  BY <1>1, <1>4 DEF PulseConfigure, Goto, CallTerminate, Calm, PcShape, LocalRecord, Actors
<1>5. CASE PulseInstall
  BY <1>1, <1>5 DEF PulseInstall, Goto, Calm, PcShape, LocalRecord, Actors
<1>6. CASE PulseReport
  BY Zenon, <1>1, <1>6 DEF PulseReport, Calm, PcShape, LocalRecord, Actors
<1>7. CASE PulseLaunch
  BY <1>1, <1>7, PulseLaunchedShape DEF PulseLaunch, Calm, Actors
<1> QED
  BY <1>2, <1>3, <1>4, <1>5, <1>6, <1>7

LEMMA PulseReaderCalm ==
    ASSUME Inv, flavor = "pulse",
           \/ PulseReadEnds \/ PulseReadRekey \/ PulseRespond \/ PulseSuppress
           \/ PulseSuppressed \/ PulseCloseESP \/ PulseReadLicense
    PROVE  Calm
<1>1. PcShape(pc) /\ LocalRecord(local)
  BY DEF Inv
<1>2. CASE PulseReadEnds
  BY <1>1, <1>2 DEF PulseReadEnds, Goto, Ends, Calm, PcShape, LocalRecord, Actors
<1>3. CASE PulseReadRekey
  BY <1>1, <1>3 DEF PulseReadRekey, Goto, Holding, Calm, PcShape, LocalRecord, Actors
<1>4. CASE PulseRespond
  <2>1. PcShape(pc') /\ pc'["writer"] = pc["writer"]
    <3>1. CASE PulseLaunched("reader", "read")
      BY <1>1, <3>1, PulseLaunchedShape DEF Actors
    <3>2. CASE ~PulseLaunched("reader", "read")
      BY Zenon, <1>1, <1>4, <3>2 DEF PulseRespond, Goto, PcShape, Actors
    <3> QED
      BY <3>1, <3>2
  <2>2. Holding("reader", Nil) /\ UNCHANGED <<flavor, wire>>
    BY <1>4 DEF PulseRespond
  <2> QED
    BY <1>1, <2>1, <2>2 DEF Holding, Calm, LocalRecord
<1>5. CASE PulseSuppress
  BY <1>1, <1>5 DEF PulseSuppress, Goto, Holding, Calm, PcShape, LocalRecord, Actors
<1>6. CASE PulseSuppressed
  BY Zenon, <1>1, <1>6 DEF PulseSuppressed, Goto, Calm, PcShape, LocalRecord, Actors
<1>7. CASE PulseCloseESP
  BY Zenon, <1>1, <1>7 DEF PulseCloseESP, Goto, Holding, Calm, PcShape, LocalRecord, Actors
<1>8. CASE PulseReadLicense
  <2>1. PcShape(pc') /\ pc'["writer"] = pc["writer"]
    <3>1. CASE PulseLaunched("reader", "read")
      BY <1>1, <3>1, PulseLaunchedShape DEF Actors
    <3>2. CASE ~PulseLaunched("reader", "read")
      BY <1>1, <1>8, <3>2 DEF PulseReadLicense, ProbeEnds, Goto, PcShape, Actors
    <3> QED
      BY <3>1, <3>2
  <2>2. UNCHANGED <<flavor, wire, local>>
    BY <1>8 DEF PulseReadLicense
  <2> QED
    BY <1>1, <2>1, <2>2 DEF Calm
<1> QED
  BY <1>2, <1>3, <1>4, <1>5, <1>6, <1>7, <1>8

LEMMA PulseMonitorCalm ==
    ASSUME Inv, flavor = "pulse", NEW m \in Monitors,
           \/ PulseStartESP(m) \/ PulseDialESP(m) \/ PulseProbe(m) \/ PulseAwait(m)
           \/ PulseEstablished(m) \/ PulseMonitor(m) \/ PulseFinish(m) \/ PulseFallback(m)
           \/ PulseRejoin(m) \/ PulseRetry(m) \/ PulseProbeTimer(m) \/ PulseRetryTimer(m)
    PROVE  Calm
<1>1. PcShape(pc) /\ LocalRecord(local)
  BY DEF Inv
<1>2. CASE PulseStartESP(m)
  BY <1>1, <1>2
  DEF PulseStartESP, Goto, Holding, MonitorEnds, MonitorReturns, Calm, PcShape, LocalRecord,
      Actors, Monitors
<1>3. CASE PulseDialESP(m)
  BY <1>1, <1>3 DEF PulseDialESP, Goto, DialEnds, Calm, PcShape, LocalRecord, Actors, Monitors
<1>4. CASE PulseProbe(m)
  BY <1>1, <1>4
  DEF PulseProbe, Goto, Holding, ProbeEnds, MonitorEnds, MonitorReturns, Calm, PcShape,
      LocalRecord, Actors, Monitors
<1>5. CASE PulseAwait(m)
  BY <1>1, <1>5
  DEF PulseAwait, Goto, Holding, MonitorEnds, MonitorReturns, Calm, PcShape, LocalRecord,
      Actors, Monitors
<1>6. CASE PulseEstablished(m)
  BY <1>1, <1>6
  DEF PulseEstablished, Goto, Holding, MonitorEnds, MonitorReturns, Calm, PcShape, LocalRecord,
      Actors, Monitors
<1>7. CASE PulseMonitor(m)
  BY <1>1, <1>7
  DEF PulseMonitor, Goto, Holding, MonitorEnds, MonitorReturns, Calm, PcShape, LocalRecord,
      Actors, Monitors
<1>8. CASE PulseFinish(m)
  BY <1>1, <1>8
  DEF PulseFinish, Goto, Holding, MonitorEnds, MonitorReturns, Calm, PcShape, LocalRecord,
      Actors, Monitors
<1>9. CASE PulseFallback(m)
  BY Zenon, <1>1, <1>9 DEF PulseFallback, Goto, Calm, PcShape, LocalRecord, Actors, Monitors
<1>10. CASE PulseRejoin(m)
  BY Zenon, <1>1, <1>10 DEF PulseRejoin, Goto, Holding, Calm, PcShape, LocalRecord, Actors, Monitors
<1>11. CASE PulseRetry(m)
  BY Zenon, <1>1, <1>11
  DEF PulseRetry, Goto, Holding, MonitorEnds, MonitorReturns, Calm, PcShape, LocalRecord,
      Actors, Monitors
<1>12. CASE PulseProbeTimer(m)
  BY Zenon, <1>1, <1>12 DEF PulseProbeTimer, Goto, Calm, PcShape, LocalRecord, Actors, Monitors
<1>13. CASE PulseRetryTimer(m)
  BY Zenon, <1>1, <1>13 DEF PulseRetryTimer, Goto, Calm, PcShape, LocalRecord, Actors, Monitors
<1> QED
  BY <1>2, <1>3, <1>4, <1>5, <1>6, <1>7, <1>8, <1>9, <1>10, <1>11, <1>12, <1>13

LEMMA PulseCloserCalm ==
    ASSUME Inv, flavor = "pulse",
           \/ PulseClose \/ PulseBye \/ PulseJoin \/ PulseTerminateStep
    PROVE  Calm
<1>1. PcShape(pc) /\ LocalRecord(local)
  BY DEF Inv
<1>2. CASE PulseClose
  BY <1>1, <1>2 DEF PulseClose, Goto, CallTerminate, Calm, PcShape, LocalRecord, Actors
<1>3. CASE PulseBye
  BY Zenon, <1>1, <1>3 DEF PulseBye, Goto, CallTerminate, Calm, PcShape, LocalRecord, Actors
<1>4. CASE PulseJoin
  BY Zenon, <1>1, <1>4 DEF PulseJoin, Goto, Calm, PcShape, LocalRecord, Actors
<1>5. CASE PulseTerminateStep
  BY <1>1, <1>5 DEF PulseTerminateStep, PulseTerminate, Calm, PcShape, LocalRecord, Actors
<1> QED
  BY <1>2, <1>3, <1>4, <1>5

LEMMA PulseLockCalm ==
    ASSUME Inv, flavor = "pulse", NEW a \in {"reader", "closer"}, NEW from, NEW to,
           \/ PulseLock(a, from, to)
    PROVE  Calm
<1>1. PcShape(pc) /\ LocalRecord(local)
  BY DEF Inv
<1>2. CASE PulseLock(a, from, to)
  BY Zenon, <1>1, <1>2 DEF PulseLock, Goto, Calm, PcShape, LocalRecord, Actors
<1> QED
  BY <1>2

----------------------------------------------------------------------------
(* What the writers of these protocols hand to the networks. *)

LEMMA DeliversInv ==
    ASSUME Inv, flavor # "ppp", UNCHANGED link, Delivers
    PROVE  Inv'
BY DEF Inv, Delivers

LEMMA WrittenRecord ==
    ASSUME LocalRecord(local)
    PROVE  LocalRecord(Written(local)) /\ Written(local).pending = 0
BY Zenon DEF LocalRecord, Written

\* The writer goes elsewhere.
LEMMA WriterGoes ==
    ASSUME PcShape(pc), NEW label, Goto("writer", label)
    PROVE  PcShape(pc') /\ pc'["writer"] = label
BY Zenon DEF Goto, PcShape, Actors

\* A writer that is done owes nothing.
LEMMA WriterReturnsDelivers ==
    ASSUME Inv, flavor # "ppp", UNCHANGED flavor, wire' \in [Packets -> 0 .. 1],
           NEW label \in {"done", "terminating"}, Goto("writer", label),
           \/ local' = Written(local)
           \/ flavor # "pulse" /\ UNCHANGED local
    PROVE  Delivers
<1>1. PcShape(pc') /\ pc'["writer"] = label
  BY WriterGoes DEF Inv
<1>2. LocalRecord(local')
  BY WrittenRecord DEF Inv
<1>3. local'.pending = 0 \/ (flavor # "pulse" /\ local'.pending = local.pending)
  BY WrittenRecord DEF Inv
<1>4. WriterInv'
  BY <1>1, <1>3 DEF Inv, WriterInv
<1> QED
  BY <1>1, <1>2, <1>4 DEF Delivers

\* One packet more.
LEMMA NextPacketDelivers ==
    ASSUME TunnelAssumption, Inv, flavor \notin {"ppp", "pulse"}, UNCHANGED flavor,
           pc["writer"] \in {"packets", "write", "esp", "writing"},
           ~(flavor = "nc" /\ pc["writer"] = "writing"),
           Sent({local.next}), NextPacket
    PROVE  Delivers
<1>1. PcShape(pc) /\ LocalRecord(local) /\ local.next \in Nat
  BY DEF Inv, LocalRecord
<1>2. local.pending = 0 /\ Untouched(local.next) /\ wire \in [Packets -> 0 .. 1]
  BY <1>1 DEF Inv, WriterInv, Untouched
<1>3. /\ wire' \in [Packets -> 0 .. 1]
      /\ \A p \in Packets : p # local.next => wire'[p] = wire[p]
  <2>1. \A p \in {local.next} \cap Packets : wire[p] = 0
    BY <1>1, <1>2 DEF Untouched
  <2> QED
    BY <1>2, <2>1, SentOnce
<1>4. CASE WriterReturns
  BY <1>3, <1>4, WriterReturnsDelivers DEF WriterReturns
<1>5. CASE ~WriterReturns
  <2>1. local' = [local EXCEPT !.next = @ + 1] /\ UNCHANGED pc
    BY <1>5 DEF NextPacket
  <2>2. /\ LocalRecord(local') /\ local'.next = local.next + 1 /\ local'.pending = 0
    BY <1>1, <1>2, <2>1 DEF LocalRecord
  <2>3. \A p \in Packets : p >= local.next + 1 => wire'[p] = 0
    BY <1>1, <1>2, <1>3 DEF Untouched, Packets
  <2>4. WriterInv'
    BY <1>1, <1>3, <2>1, <2>2, <2>3 DEF Inv, WriterInv, Untouched
  <2> QED
    BY <1>1, <2>1, <2>2, <2>4 DEF Delivers
<1> QED
  BY <1>4, <1>5

LEMMA WriteToChannelDelivers ==
    ASSUME TunnelAssumption, Inv, flavor \in {"gp", "nc"}, UNCHANGED flavor,
           pc["writer"] \in {"write", "esp"}, WriteToChannel
    PROVE  Delivers
<1>1. CASE Sent({local.next}) /\ NextPacket
  BY <1>1, NextPacketDelivers
<1>2. CASE WriterReturns /\ UNCHANGED wire
  <2>1. wire' \in [Packets -> 0 .. 1]
    BY <1>2 DEF Inv, WriterInv
  <2> QED
    BY <1>2, <2>1, WriterReturnsDelivers DEF WriterReturns
<1> QED
  BY <1>1, <1>2 DEF WriteToChannel

\* Nothing is sent, and the writer is still at the same packet.
LEMMA WriterMovesDelivers ==
    ASSUME Inv, flavor # "ppp", UNCHANGED <<flavor, wire>>,
           pc["writer"] \notin {"done", "terminating"},
           NEW label, Goto("writer", label),
           label \notin {"none", "batch"} \/ local.next = 1,
           label = "esp" => local.pending = 0,
           flavor = "nc" /\ label \in {"lock", "writing"} => local.next = 1,
           LocalRecord(local'), local'.next = local.next, local'.pending = local.pending
    PROVE  Delivers
<1>1. PcShape(pc') /\ pc'["writer"] = label
  BY WriterGoes DEF Inv
<1>2. WriterInv'
  BY <1>1 DEF Inv, WriterInv, Untouched
<1> QED
  BY <1>1, <1>2 DEF Delivers

LEMMA HoldingRecord ==
    ASSUME LocalRecord(local), NEW a, NEW c, Holding(a, c)
    PROVE  LocalRecord(local') /\ local'.next = local.next /\ local'.pending = local.pending
BY DEF LocalRecord, Holding

\* A whole batch, or the first part of it, that nothing was sent of before.
LEMMA BatchOnce ==
    ASSUME Inv, local.next = 1, local.pending = 0, pc["writer"] \notin {"done", "terminating"},
           NEW ps, Sent(ps)
    PROVE  wire' \in [Packets -> 0 .. 1]
<1>1. wire \in [Packets -> 0 .. 1] /\ \A p \in Packets : wire[p] = 0
  BY DEF Inv, WriterInv, Untouched, Packets
<1> QED
  BY <1>1, SentOnce

LEMMA ACWriterDelivers ==
    ASSUME TunnelAssumption, Inv, flavor = "anyconnect", ACWriteBegins \/ ACWriterStep
    PROVE  Delivers
<1>1. PcShape(pc) /\ LocalRecord(local) /\ local.pending = 0
  BY DEF Inv, WriterInv
<1>2. UNCHANGED flavor
  BY Zenon DEF ACWriteBegins, ACWriterStep, ACWriteBatch, ACWritePacketDTLS, ACWriteLocks, ACWriteCSTP
<1>3. CASE ACWriteBegins
  <2>1. pc["writer"] = "none" /\ local.next = 1 /\ UNCHANGED wire
    BY <1>3 DEF ACWriteBegins, At, Inv, WriterInv
  <2>2. PICK label \in {"batch", "packets"} : Goto("writer", label)
    BY <1>3 DEF ACWriteBegins
  <2>3. LocalRecord(local') /\ local'.next = local.next /\ local'.pending = local.pending
    BY <1>1, <1>3, HoldingRecord DEF ACWriteBegins
  <2> QED
    BY <1>1, <1>2, <2>1, <2>2, <2>3, WriterMovesDelivers
<1>4. CASE ACWriteBatch
  <2>1. pc["writer"] = "batch" /\ local.next = 1
    BY <1>4 DEF ACWriteBatch, At, Inv, WriterInv
  <2>2. CASE Goto("writer", "packets") /\ Holding("writer", Nil) /\ UNCHANGED wire
    BY <1>1, <1>2, <2>1, <2>2, HoldingRecord, WriterMovesDelivers
  <2>3. CASE WriterReturns /\ \E ps : Sent(ps)
    BY <1>1, <1>2, <2>1, <2>3, BatchOnce, WriterReturnsDelivers DEF WriterReturns
  <2> QED
    BY <1>4, <2>2, <2>3 DEF ACWriteBatch
<1>5. CASE ACWritePacketDTLS
  <2>1. pc["writer"] = "packets"
    BY <1>5 DEF ACWritePacketDTLS, At
  <2>2. CASE Sent({local.next}) /\ NextPacket
    BY <1>2, <2>1, <2>2, NextPacketDelivers
  <2>3. CASE WriterReturns /\ UNCHANGED wire
    <3>1. wire' \in [Packets -> 0 .. 1]
      BY <2>3 DEF Inv, WriterInv
    <3> QED
      BY <1>2, <2>3, <3>1, WriterReturnsDelivers DEF WriterReturns
  <2>4. CASE Goto("writer", "lock") /\ UNCHANGED <<local, wire>>
    BY <1>1, <1>2, <2>1, <2>4, WriterMovesDelivers
  <2> QED
    BY <1>5, <2>2, <2>3, <2>4 DEF ACWritePacketDTLS
<1>6. CASE ACWriteLocks
  <2>1. pc["writer"] = "lock" /\ UNCHANGED wire
    BY <1>6 DEF ACWriteLocks, At
  <2>2. CASE WriterReturns
    <3>1. wire' \in [Packets -> 0 .. 1]
      BY <2>1 DEF Inv, WriterInv
    <3> QED
      BY <1>2, <2>2, <3>1, WriterReturnsDelivers DEF WriterReturns
  <2>3. CASE Goto("writer", "writing") /\ UNCHANGED local
    BY <1>1, <1>2, <2>1, <2>3, WriterMovesDelivers
  <2> QED
    BY <1>6, <2>2, <2>3 DEF ACWriteLocks
<1>7. CASE ACWriteCSTP
  <2>1. pc["writer"] = "writing"
    BY <1>7 DEF ACWriteCSTP, At
  <2>2. CASE Sent({local.next}) /\ NextPacket
    BY <1>2, <2>1, <2>2, NextPacketDelivers
  <2>3. CASE Goto("writer", "terminating") /\ local' = Written(local) /\ UNCHANGED wire
    <3>1. wire' \in [Packets -> 0 .. 1]
      BY <2>3 DEF Inv, WriterInv
    <3> QED
      BY <1>2, <2>3, <3>1, WriterReturnsDelivers
  <2>4. CASE WriterReturns /\ UNCHANGED wire
    <3>1. wire' \in [Packets -> 0 .. 1]
      BY <2>4 DEF Inv, WriterInv
    <3> QED
      BY <1>2, <2>4, <3>1, WriterReturnsDelivers DEF WriterReturns
  <2> QED
    BY Zenon, <1>7, <2>2, <2>3, <2>4 DEF ACWriteCSTP, Ends
<1> QED
  BY <1>3, <1>4, <1>5, <1>6, <1>7 DEF ACWriterStep

LEMMA GPWriterDelivers ==
    ASSUME TunnelAssumption, Inv, flavor = "gp", GPWriterStep
    PROVE  Delivers
<1>1. PcShape(pc) /\ LocalRecord(local) /\ local.pending = 0 /\ UNCHANGED flavor
  BY DEF Inv, WriterInv, GPWriterStep, GPWriteBegins, GPWritePacket
<1>2. CASE GPWriteBegins
  <2>1. pc["writer"] = "none" /\ Goto("writer", "write") /\ UNCHANGED wire
    BY <1>2 DEF GPWriteBegins, At
  <2>2. LocalRecord(local') /\ local'.next = local.next /\ local'.pending = local.pending
    BY <1>1, <1>2, HoldingRecord DEF GPWriteBegins
  <2> QED
    BY <1>1, <2>1, <2>2, WriterMovesDelivers
<1>3. CASE GPWritePacket
  BY <1>1, <1>3, WriteToChannelDelivers DEF GPWritePacket, At
<1> QED
  BY <1>2, <1>3 DEF GPWriterStep

LEMMA NCWriterDelivers ==
    ASSUME TunnelAssumption, Inv, flavor = "nc", NCWriteBegins \/ NCWriterStep
    PROVE  Delivers
<1>1. PcShape(pc) /\ LocalRecord(local) /\ local.pending = 0 /\ UNCHANGED flavor
  BY Zenon DEF Inv, WriterInv, NCWriteBegins, NCWriterStep, NCWriteESP, NCLock, NCWriteONCP
<1>2. CASE NCWriteBegins
  <2>1. pc["writer"] = "none" /\ local.next = 1 /\ UNCHANGED wire
    BY <1>2 DEF NCWriteBegins, At, Inv, WriterInv
  <2>2. PICK label \in {"esp", "lock"} : Goto("writer", label)
    BY <1>2 DEF NCWriteBegins
  <2>3. LocalRecord(local') /\ local'.next = local.next /\ local'.pending = local.pending
    BY <1>1, <1>2, HoldingRecord DEF NCWriteBegins
  <2> QED
    BY <1>1, <2>1, <2>2, <2>3, WriterMovesDelivers
<1>3. CASE NCWriteESP
  BY <1>1, <1>3, WriteToChannelDelivers DEF NCWriteESP, At
<1>4. CASE NCLock("writer", "lock", "writing")
  <2>1. /\ pc["writer"] = "lock" /\ Goto("writer", "writing") /\ UNCHANGED <<wire, local>>
    BY <1>4 DEF NCLock, At
  <2>2. local.next = 1
    BY <2>1 DEF Inv, WriterInv
  <2> QED
    BY <1>1, <2>1, <2>2, WriterMovesDelivers
<1>5. CASE NCWriteONCP
  <2>1. pc["writer"] = "writing" /\ local.next = 1
    BY <1>5 DEF NCWriteONCP, At, Inv, WriterInv
  <2>2. wire' \in [Packets -> 0 .. 1]
    BY Zenon, <1>1, <1>5, <2>1, BatchOnce DEF NCWriteONCP
  <2>3. CASE WriterReturns
    BY <1>1, <2>2, <2>3, WriterReturnsDelivers DEF WriterReturns
  <2>4. CASE Goto("writer", "terminating") /\ UNCHANGED local
    BY <1>1, <2>2, <2>4, WriterReturnsDelivers
  <2> QED
    BY Zenon, <1>5, <2>3, <2>4 DEF NCWriteONCP, Ends
<1> QED
  BY <1>2, <1>3, <1>4, <1>5 DEF NCWriterStep

LEMMA CountersRecord ==
    ASSUME NEW v, LocalRecord(v), NEW n \in Nat, NEW k \in Nat
    PROVE  LocalRecord([v EXCEPT !.next = n, !.pending = k])
BY Zenon DEF LocalRecord

LEMMA PendRecord ==
    ASSUME LocalRecord(local), Pend
    PROVE  /\ LocalRecord(local') /\ local'.next = local.next + 1
           /\ local'.pending = local.pending + 1
<1>1. local.next + 1 \in Nat /\ local.pending + 1 \in Nat
  BY DEF LocalRecord
<1>2. local' = [local EXCEPT !.next = local.next + 1, !.pending = local.pending + 1]
  BY DEF Pend
<1>3. local'.next = local.next + 1 /\ local'.pending = local.pending + 1
  BY <1>2 DEF LocalRecord
<1> QED
  BY Zenon, <1>1, <1>2, <1>3, CountersRecord

\* A Pulse batch mixes the two ways: what waits is not yet sent.
LEMMA PulseWriterDelivers ==
    ASSUME TunnelAssumption, Inv, flavor = "pulse", PulseWriteBegins \/ PulseWriterStep
    PROVE  Delivers
<1>1. /\ PcShape(pc) /\ LocalRecord(local) /\ UNCHANGED flavor
      /\ local.next \in Nat /\ local.pending \in Nat /\ wire \in [Packets -> 0 .. 1]
  BY Zenon DEF Inv, LocalRecord, WriterInv, PulseWriteBegins, PulseWriterStep, PulseWritePacket, PulseWriteESP,
         PulseLock, PulseFlush
<1>2. CASE PulseWriteBegins
  <2>1. pc["writer"] = "none" /\ Goto("writer", "packet") /\ UNCHANGED wire
    BY <1>2 DEF PulseWriteBegins, At
  <2>2. LocalRecord(local') /\ local'.next = local.next /\ local'.pending = local.pending
    BY <1>1, <1>2, HoldingRecord DEF PulseWriteBegins
  <2> QED
    BY <1>1, <2>1, <2>2, WriterMovesDelivers
<1>3. CASE PulseWritePacket
  <2>1. pc["writer"] = "packet" /\ UNCHANGED wire
    BY <1>3 DEF PulseWritePacket, At
  <2>2. Untouched(local.next - local.pending) /\ local.pending < local.next
    BY <2>1 DEF Inv, WriterInv
  <2>3. CASE Pend /\ UNCHANGED pc
    <3>1. /\ LocalRecord(local') /\ local'.next = local.next + 1
          /\ local'.pending = local.pending + 1
      BY <1>1, <2>3, PendRecord
    <3>2. Untouched(local.next - local.pending)'
      BY <1>1, <2>1, <2>2, <3>1 DEF Untouched
    <3>3. WriterInv'
      BY <1>1, <2>1, <2>2, <2>3, <3>1, <3>2 DEF WriterInv
    <3> QED
      BY <1>1, <2>3, <3>1, <3>3 DEF Delivers
  <2>4. CASE UNCHANGED local /\ Goto("writer", IF local.pending > 0 THEN "lock" ELSE "esp")
    BY <1>1, <2>1, <2>4, WriterMovesDelivers
  <2>5. CASE Goto("writer", "lock") /\ Holding("writer", Nil)
    BY <1>1, <2>1, <2>5, HoldingRecord, WriterMovesDelivers
  <2>6. CASE WriterReturns
    BY <1>1, <2>1, <2>6, WriterReturnsDelivers DEF WriterReturns
  <2> QED
    BY <1>3, <2>3, <2>4, <2>5, <2>6 DEF PulseWritePacket
<1>4. CASE PulseWriteESP
  <2>1. pc["writer"] = "esp" /\ Goto("writer", "packet")
    BY <1>4 DEF PulseWriteESP, At
  <2>2. PcShape(pc') /\ pc'["writer"] = "packet"
    BY <1>1, <2>1, WriterGoes
  <2>3. local.pending = 0 /\ Untouched(local.next) /\ 0 < local.next
    BY <1>1, <2>1 DEF Inv, WriterInv, Untouched
  <2>4. CASE Sent({local.next}) /\ local' = [local EXCEPT !.next = @ + 1]
    <3>1. LocalRecord(local') /\ local'.next = local.next + 1 /\ local'.pending = 0
      BY <1>1, <2>3, <2>4 DEF LocalRecord
    <3>2. \A p \in {local.next} \cap Packets : wire[p] = 0
      BY <1>1, <2>3 DEF Untouched
    <3>3. /\ wire' \in [Packets -> 0 .. 1]
          /\ \A p \in Packets : p # local.next => wire'[p] = wire[p]
      BY <1>1, <2>4, <3>2, SentOnce
    <3>4. Untouched(local.next - local.pending)'
      BY <1>1, <2>3, <3>1, <3>3 DEF Untouched, Packets
    <3>5. WriterInv'
      BY <1>1, <2>2, <3>1, <3>3, <3>4 DEF WriterInv
    <3> QED
      BY <1>1, <2>2, <3>1, <3>5 DEF Delivers
  <2>5. CASE Pend /\ UNCHANGED wire
    <3>1. LocalRecord(local') /\ local'.next = local.next + 1 /\ local'.pending = 1
      BY <1>1, <2>3, <2>5, PendRecord
    <3>2. Untouched(local.next - local.pending)'
      BY <1>1, <2>3, <2>5, <3>1 DEF Untouched
    <3>3. WriterInv'
      BY <1>1, <2>2, <2>3, <2>5, <3>1, <3>2 DEF WriterInv
    <3> QED
      BY <1>1, <2>2, <3>1, <3>3 DEF Delivers
  <2> QED
    BY <1>4, <2>4, <2>5 DEF PulseWriteESP
<1>5. CASE PulseLock("writer", "lock", "writing")
  BY <1>1, <1>5, WriterMovesDelivers DEF PulseLock, At
<1>6. CASE PulseFlush
  <2>1. pc["writer"] = "writing"
    BY <1>6 DEF PulseFlush, At
  <2>2. Untouched(local.next - local.pending) /\ local.pending < local.next
    BY <2>1 DEF Inv, WriterInv
  <2>3. PICK last \in Nat : Sent(local.next - local.pending .. last) /\ last < local.next
    <3>1. CASE Sent(local.next - local.pending .. local.next - 1)
      BY <1>1, <2>2, <3>1
    <3>2. CASE \E n \in local.next - local.pending - 1 .. local.next - 1 :
                  Sent(local.next - local.pending .. n)
      <4>1. PICK n \in local.next - local.pending - 1 .. local.next - 1 :
                  Sent(local.next - local.pending .. n)
        BY <3>2
      <4>2. n \in Nat /\ n < local.next
        BY <1>1, <2>2
      <4> QED
        BY <4>1, <4>2
    <3> QED
      BY Zenon, <1>6, <3>1, <3>2 DEF PulseFlush
  <2>4. /\ wire' \in [Packets -> 0 .. 1]
        /\ \A p \in Packets : p >= local.next => wire'[p] = wire[p]
    <3>1. \A p \in (local.next - local.pending .. last) \cap Packets : wire[p] = 0
      BY <1>1, <2>2 DEF Untouched
    <3> QED
      BY <1>1, <2>3, <3>1, SentOnce DEF Packets
  <2>5. CASE Goto("writer", "esp") /\ local' = [local EXCEPT !.pending = 0]
    <3>1. LocalRecord(local') /\ local'.next = local.next /\ local'.pending = 0
      BY <1>1, <2>5 DEF LocalRecord
    <3>2. PcShape(pc') /\ pc'["writer"] = "esp"
      BY <1>1, <2>5, WriterGoes
    <3>3. Untouched(local.next - local.pending)'
      BY <1>1, <2>2, <2>4, <3>1 DEF Untouched, Packets
    <3>4. WriterInv'
      BY <1>1, <2>2, <2>4, <3>1, <3>2, <3>3 DEF WriterInv
    <3> QED
      BY <1>1, <3>1, <3>2, <3>4 DEF Delivers
  <2>6. CASE WriterReturns
    BY <1>1, <2>4, <2>6, WriterReturnsDelivers DEF WriterReturns
  <2>7. CASE Goto("writer", "terminating") /\ local' = Written(local)
    BY <1>1, <2>4, <2>7, WriterReturnsDelivers
  <2> QED
    BY Zenon, <1>6, <2>5, <2>6, <2>7 DEF PulseFlush, Ends
<1> QED
  BY <1>2, <1>3, <1>4, <1>5, <1>6 DEF PulseWriterStep
----------------------------------------------------------------------------
(* What happens to the sessions of all protocols. *)

LEMMA OthersInv ==
    ASSUME Inv, Others, UNCHANGED link
    PROVE  Inv'
<1>1. UNCHANGED <<flavor, pc, local, wire>>
  BY DEF Others, Fail, ClientCloses, ChannelProceeds, WorkersReturn, ChannelActs, ReadProbeResponse,
         ReadFails, TimerEnds
<1>2. PcShape(pc) /\ LocalRecord(local) /\ Sound(link)
  BY DEF Inv
<1>3. CASE flavor # "ppp"
  BY <1>1, <1>2, <1>3, CalmInv DEF Calm
<1>4. CASE flavor = "ppp"
  <2>1. SessionShape(session) /\ LocalShape(local)
    BY <1>4 DEF Inv, PPPInv
  <2>2. /\ SessionShape([Counted(session) EXCEPT !.cancelled = TRUE])
        /\ [Counted(session) EXCEPT !.cancelled = TRUE].connected = session.connected
    <3>1. PICK s : s = Counted(session)
      OBVIOUS
    <3>2. SessionShape(s) /\ s.connected = session.connected
      BY <2>1, <3>1, SessionShapes
    <3>3. SessionShape([s EXCEPT !.cancelled = TRUE])
      BY Zenon, <3>2 DEF SessionShape
    <3>4. [s EXCEPT !.cancelled = TRUE].connected = s.connected
      BY <3>2 DEF SessionShape
    <3> QED
      BY <3>1, <3>2, <3>3, <3>4
  <2>3. \/ session' = Called(Counted(session))
        \/ session' = [Counted(session) EXCEPT !.cancelled = TRUE]
        \/ session' = Counted(session)
        \/ session' = session
    BY DEF Others, Fail, ClientCloses, ChannelProceeds, WorkersReturn, ChannelActs,
           ReadProbeResponse, ReadFails, TimerEnds
  <2>4. SessionShape(session') /\ session'.connected = session.connected
    BY Zenon, <2>1, <2>2, <2>3, SessionShapes
  <2>5. Quiet
    BY <1>1, <1>2, <2>1 DEF Quiet
  <2>6. LinkQuiet
    BY <1>1, <1>2, <1>4, <2>4, Carried DEF Inv, PPPInv, LinkQuiet, Steps
  <2> QED
    BY <1>4, <2>5, <2>6, LinkQuietInv
<1> QED
  BY <1>3, <1>4

LEMMA TerminateReturnsInv ==
    ASSUME Inv, NEW a \in Actors, TerminateReturns(a), UNCHANGED link
    PROVE  Inv'
<1>1. PcShape(pc) /\ LocalRecord(local) /\ Sound(link)
  BY DEF Inv
<1>2. /\ pc[a] = "terminating" /\ UNCHANGED <<flavor, session, wire>>
      /\ wire' \in [Packets -> 0 .. 1]
  BY DEF TerminateReturns, At, Inv, WriterInv
<1>3. CASE a = "writer"
  <2>1. Goto("writer", "done") /\ local' = Written(local)
    BY <1>3 DEF TerminateReturns
  <2>2. CASE flavor # "ppp"
    <3>1. Delivers
      BY <1>2, <2>1, <2>2, WriterReturnsDelivers
    <3> QED
      BY <2>2, <3>1, DeliversInv
  <2>3. CASE flavor = "ppp"
    <3>1. SessionShape(session) /\ LocalShape(local)
      BY <2>3 DEF Inv, PPPInv
    <3>2. /\ LocalShape(Written(local)) /\ Written(local).next = 1 /\ Written(local).pending = 0
          /\ Written(local).channel["writer"] = Nil
      BY <3>1, WrittenShape
    <3>3. /\ PcShape(pc') /\ pc'["writer"] = "done" /\ pc'["control"] = pc["control"]
          /\ pc'["start"] = pc["start"]
      BY Zenon, <1>1, <2>1 DEF Goto, PcShape, Actors
    <3>4. WriterInv'
      BY <1>2, <2>1, <3>2, <3>3 DEF Inv, WriterInv
    <3>5. PPPInv'
      BY <1>2, <1>3, <2>1, <2>3, <3>2, <3>3 DEF Inv, PPPInv, Nil
    <3> QED
      BY <1>1, <1>2, <2>1, <3>2, <3>3, <3>4, <3>5, ShapeIsRecord DEF Inv
  <2> QED
    BY <2>2, <2>3
<1>4. CASE a # "writer"
  <2>1. PICK label \in {"failed", "join", "exited"} :
            Goto(a, label) /\ (a = "start" => label = "failed")
    BY <1>4 DEF TerminateReturns
  <2>2. local' = [local EXCEPT !.channel[a] = Nil]
    BY <1>4 DEF TerminateReturns
  <2>3. /\ PcShape(pc') /\ pc'["writer"] = pc["writer"] /\ pc'[a] = label
        /\ \A b \in Actors : b # a => pc'[b] = pc[b]
    BY Zenon, <1>1, <1>4, <2>1 DEF Goto, PcShape, Actors
  <2>4. CASE flavor # "ppp"
    <3>1. Calm
      BY <1>1, <1>2, <2>2, <2>3 DEF Calm, LocalRecord
    <3> QED
      BY <2>4, <3>1, CalmInv
  <2>5. CASE flavor = "ppp"
    <3>1. SessionShape(session) /\ LocalShape(local)
      BY <2>5 DEF Inv, PPPInv
    <3>2. /\ LocalShape(local') /\ local'.next = local.next /\ local'.pending = local.pending
          /\ local'.channel["writer"] = local.channel["writer"]
      BY <1>4, <2>2, <3>1 DEF LocalShape, Actors, Nil
    <3>3. Quiet
      BY <1>2, <2>3, <3>2 DEF Quiet
    <3>4. LinkQuiet
      <4>1. pc'["start"] \in {"none", "prepare", "install"} => a # "start"
        BY <2>1, <2>3
      <4>2. pc'["start"] \in {"none", "prepare", "install"} =>
              ~session'.connected /\ pc'["control"] = "none" /\ pc'["writer"] = "none"
        BY <1>2, <2>3, <2>5, <4>1 DEF Inv, PPPInv, Actors
      <4>3. pc'["control"] = "switch" => pc["control"] = "switch"
        BY <2>1, <2>3 DEF Actors
      <4> QED
        BY <1>1, <1>2, <3>1, <4>2, <4>3, Carried DEF LinkQuiet, Steps
    <3> QED
      BY <2>5, <3>3, <3>4, LinkQuietInv
  <2> QED
    BY <2>4, <2>5
<1> QED
  BY <1>3, <1>4

----------------------------------------------------------------------------
(* Every step keeps the invariant. *)

LEMMA ACNextInv ==
    ASSUME TunnelAssumption, Inv, ACNext, UNCHANGED link
    PROVE  Inv'
<1>1. flavor = "anyconnect"
  BY DEF ACNext
<1>2. CASE ACWriteBegins \/ ACWriterStep
  BY <1>1, <1>2, ACWriterDelivers, DeliversInv
<1>3. CASE ~(ACWriteBegins \/ ACWriterStep)
  <2>1. Calm
    BY <1>1, <1>3, ACCalm, ACPacketCalm
    DEF ACNext, ACStartStep, ACReaderStep, ACTimerStep, ACControlStep, ACCloserStep
  <2> QED
    BY <1>1, <2>1, CalmInv
<1> QED
  BY <1>2, <1>3

LEMMA GPNextInv ==
    ASSUME TunnelAssumption, Inv, GPNext, UNCHANGED link
    PROVE  Inv'
<1>1. flavor = "gp"
  BY DEF GPNext
<1>2. CASE GPWriterStep
  BY <1>1, <1>2, GPWriterDelivers, DeliversInv
<1>3. CASE ~GPWriterStep
  <2>1. CASE GPOpen("start") \/ GPOpen("control")
    BY <1>1, <2>1, GPOpenCalm, CalmInv DEF GPOpen
  <2>2. CASE ~(GPOpen("start") \/ GPOpen("control"))
    BY <1>1, <1>3, <2>2, GPStartCalm, GPControlCalm, CalmInv
    DEF GPNext, GPStartStep, GPControlStep, GPTimers
  <2> QED
    BY <2>1, <2>2
<1> QED
  BY <1>2, <1>3

LEMMA NCNextInv ==
    ASSUME TunnelAssumption, Inv, NCNext, UNCHANGED link
    PROVE  Inv'
<1>1. flavor = "nc"
  BY DEF NCNext
<1>2. CASE NCWriteBegins \/ NCWriterStep
  BY <1>1, <1>2, NCWriterDelivers, DeliversInv
<1>3. CASE ~(NCWriteBegins \/ NCWriterStep)
  <2>1. CASE NCStart \/ NCStartStep \/ NCReaderStep
    BY <1>1, <2>1, NCStartCalm, NCReaderCalm, NCLockCalm, CalmInv DEF NCStartStep, NCReaderStep
  <2>2. CASE NCControlStep \/ NCTimers
    BY <1>1, <2>2, NCControlCalm, NCLockCalm, CalmInv DEF NCControlStep, NCSelected, NCTimers
  <2>3. CASE NCClose \/ NCCloserStep \/ NCTerminateStep
    BY <1>1, <2>3, NCCloserCalm, NCLockCalm, CalmInv DEF NCCloserStep
  <2> QED
    BY <1>3, <2>1, <2>2, <2>3 DEF NCNext
<1> QED
  BY <1>2, <1>3

LEMMA PulseNextInv ==
    ASSUME TunnelAssumption, Inv, PulseNext, UNCHANGED link
    PROVE  Inv'
<1>1. flavor = "pulse"
  BY DEF PulseNext
<1>2. CASE PulseWriteBegins \/ PulseWriterStep
  BY <1>1, <1>2, PulseWriterDelivers, DeliversInv
<1>3. CASE ~(PulseWriteBegins \/ PulseWriterStep)
  <2>1. CASE PulseStart \/ PulseStartStep \/ PulseReaderStep
    BY <1>1, <2>1, PulseStartCalm, PulseReaderCalm, PulseLockCalm, CalmInv
    DEF PulseStartStep, PulseReaderStep
  <2>2. CASE (\E m \in Monitors : PulseMonitorStep(m)) \/ PulseTimers
    BY <1>1, <2>2, PulseMonitorCalm, CalmInv DEF PulseMonitorStep, PulseTimers
  <2>3. CASE PulseClose \/ PulseCloserStep \/ PulseTerminateStep
    BY <1>1, <2>3, PulseCloserCalm, PulseLockCalm, CalmInv DEF PulseCloserStep
  <2> QED
    BY <1>3, <2>1, <2>2, <2>3 DEF PulseNext
<1> QED
  BY <1>2, <1>3

LEMMA NextInv ==
    ASSUME TunnelAssumption, Inv, [Next]_allVars
    PROVE  Inv'
<1>1. CASE UNCHANGED allVars
  BY <1>1 DEF allVars, vars, Inv, WriterInv, Untouched, PPPInv
<1>2. CASE PPPNext
  BY <1>2, PPPNextInv
<1>3. CASE SessionStep /\ UNCHANGED link
  BY <1>3, ACNextInv, GPNextInv, NCNextInv, PulseNextInv DEF SessionStep
<1>4. CASE (\E a \in Actors : TerminateReturns(a)) /\ UNCHANGED link
  BY <1>4, TerminateReturnsInv
<1>5. CASE Others /\ UNCHANGED link
  BY <1>5, OthersInv
<1> QED
  BY <1>1, <1>2, <1>3, <1>4, <1>5 DEF Next, Others

\* What the proofs rest on: links are sound, the writer has handed out what it has
\* counted and no more, and a PPP session starts its goroutines in order.
THEOREM Invariant == Spec => []Inv
<1>1. InitAll => Inv
  BY InitInv, TunnelAssumption
<1>2. Inv /\ [Next]_allVars => Inv'
  BY NextInv, TunnelAssumption
<1> QED
  BY <1>1, <1>2, PTL DEF Spec

----------------------------------------------------------------------------
\* Data goes over a carrier, and a link counts as ready, only when the peer has agreed
\* over that very carrier to everything the link wants (finishNegotiationLocked and
\* SwitchCarrier, ppp_link.go), in whatever order frames, timers and the change of
\* carrier come.
THEOREM LinkNegotiatedFirst == Spec => []NegotiatedFirst
<1>1. Inv => NegotiatedFirst
  BY DEF Inv, Sound, NegotiatedFirst
<1> QED
  BY <1>1, Invariant, PTL

\* Once a link has been ready its addresses are those the client was told, over every
\* later carrier too (the addresses are locked, ppp_link.go).
THEOREM LinkAddressKept == Spec => []AddressKept
<1>1. Inv => AddressKept
  BY DEF Inv, Sound, AddressKept
<1> QED
  BY <1>1, Invariant, PTL

\* No packet of a batch is handed to the networks twice, by any of the five protocols,
\* whichever channel or connection fails while the batch is written.
THEOREM BatchWrittenOnce == Spec => []NoPacketTwice
<1>1. Inv => NoPacketTwice
  BY DEF Inv, WriterInv, NoPacketTwice
<1> QED
  BY <1>1, Invariant, PTL

----------------------------------------------------------------------------
(* What a session that is closed leaves behind.  First, what a step does to the *)
(* channels. *)

LEMMA NextChannelType ==
    ASSUME TunnelAssumption
    PROVE  /\ NextChannel \in Nat \ {0}
           /\ MayCreateChannel => NextChannel \in 1 .. MaxChannels /\ NextChannel \in 0 .. MaxChannels
<1>1. IsFiniteSet({c \in 1 .. MaxChannels : channels[c].st # "none"})
  <2>1. IsFiniteSet(1 .. MaxChannels)
    BY FS_Interval DEF TunnelAssumption
  <2>2. {c \in 1 .. MaxChannels : channels[c].st # "none"} \in SUBSET (1 .. MaxChannels)
    OBVIOUS
  <2> QED
    BY <2>1, <2>2, FS_Subset, Zenon
<1>2. Cardinality({c \in 1 .. MaxChannels : channels[c].st # "none"}) \in Nat
  BY <1>1, FS_CardinalityType
<1> QED
  BY <1>2 DEF NextChannel, MayCreateChannel, TunnelAssumption

LEMMA TerminatedType ==
    ASSUME NEW c \in Channel, NEW err \in Endings \ {"open"}
    PROVE  /\ Terminated(c, Delivered(err)) \in Channel
           /\ ~Alive(Terminated(c, Delivered(err)))
BY ZenonT(30) DEF Terminated, Delivered, Alive, Channel, Endings

LEMMA ConnectedType ==
    ASSUME NEW c \in Channel
    PROVE  /\ Connected(c) \in Channel /\ Connected(c).done = c.done
           /\ Alive(Connected(c)) <=> Alive(c)
BY Zenon DEF Connected, Channel, Alive

LEMMA DialingType ==
    ASSUME NEW c \in Channel
    PROVE  /\ Dialing(c) \in Channel /\ Dialing(c).done = c.done
           /\ Alive(Dialing(c)) <=> Alive(c)
BY DEF Dialing, Channel, Alive

LEMMA ForgottenType ==
    ASSUME NEW c \in Channel
    PROVE  [c EXCEPT !.done = "nil"] \in Channel /\ [c EXCEPT !.done = "nil"].st = c.st
BY DEF Channel, Endings

LEMMA TerminateWinds ==
    ASSUME CloseShape, NEW c \in Nat, NEW err \in Endings \ {"open"}, TerminateChannel(c, err)
    PROVE  Winds /\ \A d \in 1 .. MaxChannels : Running(d)' => d # c
<1>1. CASE c = Nil
  BY <1>1 DEF CloseShape, TerminateChannel, Winds, Running, Nil
<1>2. CASE c # Nil
  <2>1. channels' = [channels EXCEPT ![c] = Terminated(channels[c], Delivered(err))]
    BY <1>2 DEF TerminateChannel
  <2>2. \A d \in 1 .. MaxChannels : d # c => channels'[d] = channels[d]
    BY <2>1 DEF CloseShape
  <2>3. c \in 1 .. MaxChannels => channels'[c] = Terminated(channels[c], Delivered(err))
    BY <2>1 DEF CloseShape
  <2>4. channels' \in [1 .. MaxChannels -> Channel]
    BY Zenon, <2>1, TerminatedType DEF CloseShape
  <2>5. \A d \in 1 .. MaxChannels : Alive(channels'[d]) => d # c /\ channels'[d] = channels[d]
    BY <2>2, <2>3, TerminatedType DEF CloseShape
  <2>6. keys' \in {keys, "destroyed"}
    BY <1>2 DEF TerminateChannel
  <2> QED
    BY Zenon, <2>4, <2>5, <2>6 DEF CloseShape, Winds, Running, Alive
<1> QED
  BY <1>1, <1>2

LEMMA UnchangedWinds ==
    ASSUME CloseShape, UNCHANGED <<channels, keys>>
    PROVE  Winds
BY DEF CloseShape, Winds, Running

\* A dial that ends.
LEMMA DialWinds ==
    ASSUME CloseShape, NEW a, NEW c \in Nat, NEW up, NEW down, NEW failures \in SUBSET {"err", "fatal"},
           DialEnds(a, c, up, down, failures)
    PROVE  /\ Winds
           /\ Goto(a, up) \/ (Goto(a, down) /\ \A d \in 1 .. MaxChannels : Running(d)' => d # c)
<1>1. CASE channels[c].st = "dialing" /\ channels' = [channels EXCEPT ![c] = Connected(@)]
           /\ Goto(a, up) /\ UNCHANGED keys
  <2>1. \A d \in 1 .. MaxChannels : /\ Connected(channels[d]) \in Channel
                                    /\ Connected(channels[d]).done = channels[d].done
                                    /\ Alive(Connected(channels[d])) <=> Alive(channels[d])
    BY ConnectedType DEF CloseShape
  <2>2. channels' \in [1 .. MaxChannels -> Channel]
    BY Zenon, <1>1, <2>1 DEF CloseShape
  <2>3. \A d \in 1 .. MaxChannels : /\ Running(d)' => Running(d)
                                    /\ Alive(channels'[d]) => /\ Alive(channels[d])
                                                              /\ channels'[d].done = channels[d].done
    BY <1>1, <2>1 DEF CloseShape, Running
  <2> QED
    BY <1>1, <2>2, <2>3 DEF CloseShape, Winds
<1>2. ASSUME NEW err \in failures, TerminateChannel(c, err), Goto(a, down)
      PROVE  Winds /\ (\A d \in 1 .. MaxChannels : Running(d)' => d # c) /\ Goto(a, down)
  <2>1. err \in Endings \ {"open"}
    BY DEF Endings
  <2> QED
    BY <1>2, <2>1, TerminateWinds
<1> QED
  BY <1>1, <1>2 DEF DialEnds

\* A probe that ends.
LEMMA ProbeWinds ==
    ASSUME CloseShape, NEW a, NEW c \in Nat, NEW sent, NEW failed, ProbeEnds(a, c, sent, failed)
    PROVE  /\ Winds
           /\ \/ Goto(a, sent)
              \/ Goto(a, failed) /\ \A d \in 1 .. MaxChannels : Running(d)' => d # c
<1>1. CASE Goto(a, sent) /\ UNCHANGED <<channels, keys>>
  BY <1>1, UnchangedWinds
<1>2. CASE (\E err \in {"err", "exhausted"} : TerminateChannel(c, err)) /\ Goto(a, failed)
  <2>1. {"err", "exhausted"} \subseteq Endings \ {"open"}
    BY DEF Endings
  <2> QED
    BY <1>2, <2>1, TerminateWinds
<1> QED
  BY <1>1, <1>2 DEF ProbeEnds

\* A channel that is made.
LEMMA NewWinds ==
    ASSUME CloseShape, NEW c \in 1 .. MaxChannels, NEW kind \in Kinds, NEW new,
           \/ new = NewChannel(kind)
           \/ new = Dialing(NewChannel(kind))
           \/ new = Terminated(NewChannel(kind), "nil"),
           channels' = [channels EXCEPT ![c] = new]
    PROVE  /\ channels' \in [1 .. MaxChannels -> Channel]
           /\ \A d \in 1 .. MaxChannels : d # c => channels'[d] = channels[d]
           /\ channels'[c] = new
           /\ Running(c)' => new = Dialing(NewChannel(kind))
           /\ Alive(channels'[c]) => channels'[c].done = "open"
<1>1. new \in Channel
  BY Zenon DEF NewChannel, Dialing, Terminated, Alive, NoChannel, Channel, Endings, Kinds
<1>2. channels' \in [1 .. MaxChannels -> Channel] /\ channels'[c] = new
      /\ \A d \in 1 .. MaxChannels : d # c => channels'[d] = channels[d]
  BY <1>1 DEF CloseShape
<1>3. new = NewChannel(kind) \/ new = Terminated(NewChannel(kind), "nil") => new.st \notin {"dialing", "up"}
  BY Zenon DEF NewChannel, Terminated, Alive, NoChannel, Channel, Kinds
<1>4. Alive(new) => new.done = "open"
  BY Zenon DEF NewChannel, Dialing, Terminated, Alive, NoChannel, Channel, Kinds
<1> QED
  BY <1>2, <1>3, <1>4 DEF Running

LEMMA ReportKeeps ==
    ASSUME ClientShape(client), NEW t, Report(t)
    PROVE  ClientShape(client') /\ client'.transportSession = client.transportSession
BY DEF Report, SetActiveTransport, ClientShape

LEMMA StopWithdraws ==
    ASSUME ClientShape(client), client' = StopActiveTransport(client, Self)
    PROVE  ClientShape(client') /\ client'.transportSession # Self
BY DEF StopActiveTransport, NoSession, Self, ClientShape

LEMMA CallKeeps ==
    ASSUME CloseShape, session' \in {Called(session), Called(Counted(session)), Counted(session)}
    PROVE /\ DOMAIN session' = DOMAIN session /\ session'.own = session.own
          /\ session'.closed = session.closed /\ session'.ready = session.ready
          /\ session'.connected = session.connected /\ session'.keyed = session.keyed
          /\ session'.term = session.term \/ (session.term = "no" /\ session'.term = "called")
BY ZenonT(30) DEF CloseShape, Called, Counted

LEMMA HoldingMoves ==
    ASSUME CloseShape, NEW a \in Actors, NEW c \in Nat, Holding(a, c)
    PROVE  LocalMoves(a) /\ local'.channel[a] = c
BY DEF Holding, CloseShape, LocalMoves

LEMMA WrittenMoves ==
    ASSUME CloseShape, local' = Written(local)
    PROVE  LocalMoves("writer")
BY DEF Written, CloseShape, LocalMoves, Actors, Nil

LEMMA UnchangedMoves ==
    ASSUME CloseShape, local' = local
    PROVE  \A a : LocalMoves(a)
BY DEF CloseShape, LocalMoves

LEMMA NextPacketMoves ==
    ASSUME CloseShape, NextPacket
    PROVE  LocalMoves("writer") /\ (UNCHANGED pc \/ Goto("writer", "done"))
<1>1. CASE WriterReturns
  BY <1>1, WrittenMoves DEF WriterReturns
<1>2. CASE local' = [local EXCEPT !.next = @ + 1] /\ UNCHANGED pc
  BY <1>2 DEF CloseShape, LocalMoves
<1> QED
  BY <1>1, <1>2 DEF NextPacket

LEMMA KeysWinds ==
    ASSUME CloseShape, UNCHANGED channels, keys' \in {keys, "none", "destroyed"}
    PROVE  Winds
BY DEF CloseShape, Winds, Running

LEMMA TerminateAnyWinds ==
    ASSUME CloseShape, NEW c \in Nat,
           \E err \in {"nil", "err", "exhausted", "fatal", "rekey"} : TerminateChannel(c, err)
    PROVE  Winds /\ \A d \in 1 .. MaxChannels : Running(d)' => d # c
<1>1. \A err \in {"nil", "err", "exhausted", "fatal", "rekey"} : err \in Endings \ {"open"}
  BY DEF Endings
<1> QED
  BY <1>1, TerminateWinds, Zenon

LEMMA CalledKeeps ==
    ASSUME CloseShape,
           session' \in {session, Called(session), Called(Counted(session)), Counted(session)}
    PROVE  /\ SessionKeeps /\ session'.own = session.own
           /\ session'.ready = session.ready /\ session'.keyed = session.keyed
BY CallKeeps DEF CloseShape, SessionKeeps

LEMMA WindsOpen ==
    ASSUME CloseCommon, Winds
    PROVE  AliveOpen
BY DEF CloseCommon, Winds, AliveOpen

LEMMA CommonKeeps ==
    ASSUME CloseShape, CloseCommon, UNCHANGED <<flavor, link>>, SessionKeeps, AliveOpen,
           session'.own \in {session.own, Nil} \/ ~session.closed,
           client'.transportSession = client.transportSession,
           pc'["closer"] = pc["closer"] \/ pc'["closer"] \notin {"join", "done"}
    PROVE  CloseCommon'
BY DEF CloseCommon, ClosedTerms, SessionKeeps, AliveOpen

LEMMA MadeOpen ==
    ASSUME CloseShape, CloseCommon, NEW c \in 1 .. MaxChannels, NEW kind \in Kinds, NEW new,
           \/ new = NewChannel(kind)
           \/ new = Dialing(NewChannel(kind))
           \/ new = Terminated(NewChannel(kind), "nil"),
           channels' = [channels EXCEPT ![c] = new]
    PROVE  /\ channels' \in [1 .. MaxChannels -> Channel] /\ AliveOpen
           /\ \A d \in 1 .. MaxChannels : Running(d)' => (d = c /\ new = Dialing(NewChannel(kind))) \/ (d # c /\ Running(d))
<1>1. /\ channels' \in [1 .. MaxChannels -> Channel]
      /\ \A d \in 1 .. MaxChannels : d # c => channels'[d] = channels[d]
      /\ Running(c)' => new = Dialing(NewChannel(kind))
      /\ Alive(channels'[c]) => channels'[c].done = "open"
  BY NewWinds, Zenon
<1> QED
  BY <1>1 DEF CloseCommon, AliveOpen, Running

LEMMA MadeClosed ==
    ASSUME CloseShape, NEW c \in 1 .. MaxChannels, NEW kind \in Kinds,
           channels' = [channels EXCEPT ![c] = Terminated(NewChannel(kind), "nil")]
    PROVE  \A d \in 1 .. MaxChannels : Running(d)' => Running(d)
<1>1. /\ \A d \in 1 .. MaxChannels : d # c => channels'[d] = channels[d]
      /\ Running(c)' => Terminated(NewChannel(kind), "nil") = Dialing(NewChannel(kind))
  BY Zenon, NewWinds
<1>2. Terminated(NewChannel(kind), "nil").st = "closed" /\ Dialing(NewChannel(kind)).st = "dialing"
  BY DEF Terminated, Dialing, NewChannel, NoChannel, Alive
<1> QED
  BY <1>1, <1>2 DEF Running

LEMMA WriteToChannelMoves ==
    ASSUME CloseShape, WriteToChannel
    PROVE  Winds /\ LocalMoves("writer") /\ (UNCHANGED pc \/ Goto("writer", "done"))
<1>1. \/ NextPacket /\ UNCHANGED <<channels, keys>>
      \/ /\ WriterReturns
         /\ \/ UNCHANGED <<channels, keys>>
            \/ \E err \in {"nil", "err", "exhausted", "fatal", "rekey"} :
                   TerminateChannel(local.channel["writer"], err)
  BY DEF WriteToChannel
<1>2. Winds
  BY <1>1, UnchangedWinds, TerminateAnyWinds DEF CloseShape, Actors
<1> QED
  BY <1>1, <1>2, NextPacketMoves, WrittenMoves DEF WriterReturns

\* espControlAccess is released, and perhaps the session told to end.
LEMMA UnlockKeeps ==
    ASSUME CloseShape,
           \/ session' \in {session, Called(UnlockESP(session)), Called(UnlockESP(Counted(session)))}
           \/ \E b : session' = UnlockESP([session EXCEPT !.espEnabled = b])
    PROVE  SessionKeeps /\ session'.own = session.own
<1>1. CASE session' = session
  BY <1>1 DEF CloseShape, SessionKeeps
<1>2. CASE session' = Called(UnlockESP(session))
  <2>1. /\ DOMAIN UnlockESP(session) = DOMAIN session
        /\ \A x \in {"closed", "term", "connected", "own"} : UnlockESP(session)[x] = session[x]
    BY Zenon DEF UnlockESP, CloseShape
  <2> QED
    BY <1>2, <2>1 DEF Called, CloseShape, SessionKeeps
<1>3. CASE session' = Called(UnlockESP(Counted(session)))
  <2>1. /\ DOMAIN Counted(session) = DOMAIN session
        /\ \A x \in {"closed", "term", "connected", "own"} : Counted(session)[x] = session[x]
    BY DEF Counted, CloseShape
  <2>2. /\ DOMAIN UnlockESP(Counted(session)) = DOMAIN session
        /\ \A x \in {"closed", "term", "connected", "own"} : UnlockESP(Counted(session))[x] = session[x]
    BY Zenon, <2>1 DEF UnlockESP, CloseShape
  <2> QED
    BY <1>3, <2>2 DEF Called, CloseShape, SessionKeeps
<1>4. CASE \E b : session' = UnlockESP([session EXCEPT !.espEnabled = b])
  <2>1. PICK b : session' = UnlockESP([session EXCEPT !.espEnabled = b])
    BY <1>4
  <2> QED
    BY Zenon, <2>1 DEF UnlockESP, CloseShape, SessionKeeps
<1> QED
  BY Zenon, <1>1, <1>2, <1>3, <1>4

\* launchESP: the goroutine goes on, and perhaps a monitor begins.
LEMMA LaunchedMoves ==
    ASSUME CloseShape, NEW a \in {"start", "reader"}, NEW label, PulseLaunched(a, label)
    PROVE  /\ DOMAIN pc' = Actors /\ pc'[a] = label
           /\ \A b \in {"start", "reader", "closer", "writer"} : b # a => pc'[b] = pc[b]
           /\ \A m \in Monitors : \/ pc'[m] = pc[m]
                                  \/ pc[m] = "none" /\ pc'[m] = "launched" /\ ~session.closed
<1> DEFINE free == {m \in Monitors : pc[m] = "none"}
<1>1. CASE Goto(a, label)
  BY <1>1 DEF Goto, CloseShape, Actors, Monitors
<1>2. CASE /\ ~session.closed /\ free # {}
           /\ pc' = [pc EXCEPT ![a] = label, ![CHOOSE m \in free : TRUE] = "launched"]
  <2>1. PICK m \in free : pc' = [pc EXCEPT ![a] = label, ![m] = "launched"]
    BY Zenon, <1>2
  <2>2. m \in {"control", "timer"} /\ pc[m] = "none"
    BY DEF Monitors
  <2> QED
    BY <1>2, <2>1, <2>2 DEF CloseShape, Actors, Monitors
<1> QED
  BY <1>1, <1>2 DEF PulseLaunched

\* A channel whose end is known is forgotten.
LEMMA ForgetWinds ==
    ASSUME CloseShape, NEW c \in Nat, UNCHANGED keys,
           channels' = [channels EXCEPT ![c] = [NoChannel EXCEPT !.st = "closed"]]
    PROVE  Winds
<1>1. [NoChannel EXCEPT !.st = "closed"] \in Channel
  BY Zenon DEF NoChannel, Channel, Kinds, Endings
<1>2. [NoChannel EXCEPT !.st = "closed"].st = "closed"
  BY DEF NoChannel
<1>3. channels' \in [1 .. MaxChannels -> Channel]
  BY Zenon, <1>1 DEF CloseShape
<1>4. \A d \in 1 .. MaxChannels : Alive(channels'[d]) => channels'[d] = channels[d]
  BY <1>2 DEF CloseShape, Alive
<1>5. \A d \in 1 .. MaxChannels : Running(d)' => Running(d)
  BY <1>4 DEF Running, Alive
<1> QED
  BY Zenon, <1>3, <1>4, <1>5 DEF Winds, CloseShape

LEMMA PendMoves ==
    ASSUME CloseShape, Pend \/ local' = [local EXCEPT !.pending = 0]
    PROVE  LocalMoves("writer")
BY Zenon DEF Pend, CloseShape, LocalMoves

LEMMA KeyedKeeps ==
    ASSUME CloseShape,
           \/ session' = Counted(session)
           \/ session' = [Counted(session) EXCEPT !.keyed = TRUE, !.suppressed = FALSE]
    PROVE  SessionKeeps /\ session'.own = session.own
<1>1. CASE session' = Counted(session)
  BY <1>1, CalledKeeps
<1>2. CASE session' = [Counted(session) EXCEPT !.keyed = TRUE, !.suppressed = FALSE]
  <2>1. /\ DOMAIN Counted(session) = DOMAIN session
        /\ Counted(session).closed = session.closed /\ Counted(session).term = session.term
        /\ Counted(session).connected = session.connected /\ Counted(session).own = session.own
    BY DEF Counted, CloseShape
  <2>2. \A s : DOMAIN s = DOMAIN session =>
            LET t == [s EXCEPT !.keyed = TRUE, !.suppressed = FALSE]
            IN  /\ DOMAIN t = DOMAIN session /\ t.closed = s.closed /\ t.term = s.term
                /\ t.connected = s.connected /\ t.own = s.own
    BY DEF CloseShape
  <2> QED
    BY <1>2, <2>1, <2>2 DEF SessionKeeps
<1> QED
  BY <1>1, <1>2

----------------------------------------------------------------------------
(* An AnyConnect session. *)

LEMMA ACCloses1 ==
    ASSUME TunnelAssumption, CloseShape, CloseCommon, ACClosing, UNCHANGED <<flavor, link>>
    PROVE  (\/ ACStart \/ ACLaunch \/ ACInitialResult \/ ACBecomeReady \/ ACDTLSLoop
            \/ ACInstall \/ ACDial \/ ACDTLSUp \/ ACFallback \/ ACReportCSTP \/ ACDecide
            \/ ACReadEnds \/ ACTimerEnds \/ ACWriteBegins \/ ACWriteBatch
            \/ ACWritePacketDTLS \/ ACWriteLocks \/ ACWriteCSTP \/ ACClose \/ ACCloseLocks
            \/ ACDisconnect \/ ACJoin \/ ACTerminateStep)
           => CloseShape' /\ CloseCommon' /\ ACClosing'
<1>1. ASSUME ACStart PROVE CloseShape' /\ CloseCommon' /\ ACClosing'
  <2>1. Winds
    BY <1>1, UnchangedWinds DEF ACStart, At, Goto
  <2>2. CloseShape'
    BY <1>1 DEF ACStart, Goto, CloseShape, Actors, Nil
  <2>3. ACClosing'
    BY <1>1, <2>1, <2>2, SMTT(30)
    DEF ACStart, At, Goto, ACClosing, CloseCommon, ClosedTerms, Winds, CloseShape, Actors, Nil
  <2>4. CloseCommon'
    BY <1>1, <2>1, <2>2
    DEF ACStart, At, Goto, CloseCommon, ClosedTerms, Winds, CloseShape, Actors, Nil
  <2> QED
    BY <2>2, <2>3, <2>4
<1>2. ASSUME ACLaunch PROVE CloseShape' /\ CloseCommon' /\ ACClosing'
  <2>1. Winds
    BY <1>2, UnchangedWinds DEF ACLaunch, At
  <2>2. CloseShape'
    BY <1>2, ReportKeeps DEF ACLaunch, CloseShape, Actors, Nil
  <2>3. ACClosing'
    BY Zenon, <1>2, <2>1, ReportKeeps, <2>2
    DEF ACLaunch, At, ACClosing, CloseCommon, ClosedTerms, Winds, CloseShape, Actors, Nil
  <2>4. CloseCommon'
    BY Zenon, <1>2, <2>1, ReportKeeps, <2>2
    DEF ACLaunch, At, CloseCommon, ClosedTerms, Winds, CloseShape, Actors, Nil
  <2> QED
    BY <2>2, <2>3, <2>4
<1>3. ASSUME ACInitialResult PROVE CloseShape' /\ CloseCommon' /\ ACClosing'
  <2>1. Winds
    BY <1>3, UnchangedWinds DEF ACInitialResult, At, Goto
  <2>2. CloseShape'
    BY <1>3 DEF ACInitialResult, Goto, CloseShape, Actors, Nil
  <2>3. ACClosing'
    BY <1>3, <2>1, <2>2
    DEF ACInitialResult, At, Goto, ACClosing, CloseCommon, ClosedTerms, Winds, CloseShape,
        Actors, Nil
  <2>4. CloseCommon'
    BY <1>3, <2>1, <2>2
    DEF ACInitialResult, At, Goto, CloseCommon, ClosedTerms, Winds, CloseShape, Actors, Nil
  <2> QED
    BY <2>2, <2>3, <2>4
<1>4. ASSUME ACBecomeReady PROVE CloseShape' /\ CloseCommon' /\ ACClosing'
  <2>1. Winds
    BY <1>4, UnchangedWinds DEF ACBecomeReady
  <2>2. session'.own = session.own /\ session'.term = session.term /\ session'.closed = session.closed
          /\ (session'.closed => session'.ready = session.ready)
    BY <1>4 DEF ACBecomeReady, CloseShape
  <2>3. CloseShape'
    BY <1>4, <2>1 DEF ACBecomeReady, Goto, CloseShape, Actors, Nil
  <2>4. ACClosing'
    BY <1>4, <2>1, <2>2, <2>3
    DEF ACBecomeReady, At, Goto, ACClosing, CloseCommon, ClosedTerms, Winds, CloseShape, Actors,
        Nil
  <2>5. CloseCommon'
    BY <1>4, <2>1, <2>2, <2>3
    DEF ACBecomeReady, At, Goto, CloseCommon, ClosedTerms, Winds, CloseShape, Actors, Nil
  <2> QED
    BY <2>3, <2>4, <2>5
<1>5. ASSUME ACDTLSLoop PROVE CloseShape' /\ CloseCommon' /\ ACClosing'
  <2>1. CASE session.cancelled \/ session.closed
    <3>1. Goto("control", "exited") /\ local' = [local EXCEPT !.result = Initial("nil")]
          /\ UNCHANGED <<client, session, conn, channels, keys>>
      BY <1>5, <2>1 DEF ACDTLSLoop
    <3>2. Winds /\ LocalMoves("control")
      BY <3>1, UnchangedWinds DEF CloseShape, LocalMoves
    <3>3. \A d \in 1 .. MaxChannels : ~Running(d)'
      BY <1>5, <3>2 DEF ACDTLSLoop, At, ACClosing, Winds
    <3>4. CloseShape'
      BY <3>1, <3>2 DEF Goto, CloseShape, LocalMoves, Winds
    <3> QED
      BY <1>5, <3>1, <3>2, <3>3, <3>4 DEF ACDTLSLoop, At, Goto, CloseShape, CloseCommon, ACClosing, Winds, Actors
  <2>2. CASE ~(session.cancelled \/ session.closed)
    <3>1. MayCreateChannel /\ Holding("control", NextChannel) /\ Goto("control", "install")
          /\ channels' = [channels EXCEPT ![NextChannel] = NewChannel("dtls")]
          /\ UNCHANGED <<client, session, conn, keys>>
      BY <1>5, <2>2 DEF ACDTLSLoop
    <3>2. NextChannel \in 1 .. MaxChannels /\ NextChannel \in Nat /\ "control" \in Actors /\ "dtls" \in Kinds
      BY <3>1, NextChannelType DEF Actors, Kinds
    <3>3. LocalMoves("control")
      BY <3>1, <3>2, HoldingMoves
    <3>4. /\ channels' \in [1 .. MaxChannels -> Channel]
          /\ \A d \in 1 .. MaxChannels : d # NextChannel => channels'[d] = channels[d]
          /\ channels'[NextChannel] = NewChannel("dtls")
      BY <3>1, <3>2, NewWinds, Zenon
    <3>5. \A d \in 1 .. MaxChannels : ~Running(d)'
      BY Zenon, <1>5, <3>4 DEF ACDTLSLoop, At, ACClosing, Running, NewChannel, NoChannel
    <3>6. CloseShape'
      BY <3>1, <3>3, <3>4 DEF Goto, CloseShape, LocalMoves
    <3> QED
      BY <1>5, <3>1, <3>3, <3>4, <3>5, <3>6, SMTT(30)
      DEF ACDTLSLoop, At, Goto, CloseShape, CloseCommon, ACClosing, Actors, NewChannel, NoChannel
  <2> QED
    BY <2>1, <2>2
<1>6. ASSUME ACInstall PROVE CloseShape' /\ CloseCommon' /\ ACClosing'
  <2>0. UNCHANGED <<client, conn, keys>> /\ pc["control"] = "install"
    BY <1>6 DEF ACInstall, At
  <2>1. CASE session.closed
    <3>1. Goto("control", "exited") /\ local' = [local EXCEPT !.result = Initial("nil")]
          /\ UNCHANGED <<session, channels>>
      BY <1>6, <2>1 DEF ACInstall
    <3>2. Winds /\ LocalMoves("control")
      BY <2>0, <3>1, UnchangedWinds DEF CloseShape, LocalMoves
    <3>3. \A d \in 1 .. MaxChannels : ~Running(d)'
      BY <2>0, <3>2 DEF ACClosing, Winds
    <3>4. CloseShape'
      BY <2>0, <3>1, <3>2 DEF Goto, CloseShape, LocalMoves, Winds
    <3> QED
      BY <2>0, <3>1, <3>2, <3>3, <3>4 DEF Goto, CloseShape, CloseCommon, ACClosing, Winds, Actors
  <2>2. CASE ~session.closed
    <3> DEFINE c == local.channel["control"]
    <3>1. session' = [session EXCEPT !.own = c] /\ channels' = [channels EXCEPT ![c] = Dialing(@)]
          /\ Goto("control", "dial") /\ UNCHANGED local
      BY <1>6, <2>2 DEF ACInstall
    <3>2. c \in Nat
      BY DEF CloseShape, Actors
    <3>3. \A d \in 1 .. MaxChannels :
             /\ Dialing(channels[d]) \in Channel /\ Dialing(channels[d]).done = channels[d].done
             /\ Alive(Dialing(channels[d])) <=> Alive(channels[d])
      BY DialingType DEF CloseShape
    <3>4. /\ channels' \in [1 .. MaxChannels -> Channel]
          /\ \A d \in 1 .. MaxChannels : d # c => channels'[d] = channels[d]
          /\ \A d \in 1 .. MaxChannels : /\ channels'[d].done = channels[d].done
                                         /\ Alive(channels'[d]) <=> Alive(channels[d])
      BY <3>1, <3>3, ZenonT(30) DEF CloseShape
    <3>8. channels' \in [1 .. MaxChannels -> Channel]
      BY <3>4
    <3>5. \A d \in 1 .. MaxChannels : Running(d)' => d = c
      BY <2>0, <3>4 DEF ACClosing, Running
    <3>6. DOMAIN session' = DOMAIN session /\ session'.own = c /\ session'.term = session.term
          /\ session'.closed = session.closed /\ session'.ready = session.ready
      BY <3>1 DEF CloseShape
    <3>9. DOMAIN pc' = Actors /\ UNCHANGED local
      BY <3>1 DEF Goto, CloseShape
    <3>7. CloseShape'
      BY <2>0, <3>2, <3>6, <3>8, <3>9 DEF CloseShape
    <3>10. CloseCommon'
      <4>1. pc'["closer"] = pc["closer"] /\ session.term \notin ClosedTerms
        BY <2>2, <3>1 DEF Goto, CloseShape, CloseCommon, Actors
      <4>2. \A d \in 1 .. MaxChannels : Alive(channels'[d]) => channels'[d].done = "open"
        BY <3>4 DEF CloseCommon
      <4> QED
        BY <2>0, <2>2, <3>6, <4>1, <4>2 DEF CloseCommon, ClosedTerms
    <3>11. ACClosing'
      BY <2>0, <2>2, <3>1, <3>5, <3>6 DEF Goto, CloseShape, ACClosing, Actors
    <3> QED
      BY <3>7, <3>10, <3>11
  <2> QED
    BY <2>1, <2>2
<1>7. ASSUME ACDial PROVE CloseShape' /\ CloseCommon' /\ ACClosing'
  <2>1. local.channel["control"] \in Nat /\ {"err", "fatal"} \in SUBSET {"err", "fatal"}
    BY DEF CloseShape, Actors
  <2>2. DialEnds("control", local.channel["control"], "up", "watch", {"err", "fatal"})
    BY <1>7 DEF ACDial
  <2>3. Winds /\ (Goto("control", "up") \/ Goto("control", "watch"))
    BY <2>1, <2>2, DialWinds
  <2>4. pc["control"] = "dial"
    BY <1>7 DEF ACDial, At
  <2>5. UNCHANGED <<flavor, client, session, conn, local, wire>>
    BY <1>7 DEF ACDial
  <2>6. CloseShape'
    BY <2>1, <2>2, <2>3, <2>4, <2>5 DEF Goto, LocalMoves, CloseShape, Actors, Nil, Winds
  <2>7. ACClosing'
    BY <2>1, <2>2, <2>3, <2>4, <2>5, <2>6
    DEF Goto, LocalMoves, At, ACClosing, CloseCommon, ClosedTerms, Winds, CloseShape, Actors,
        Nil
  <2>8. CloseCommon'
    BY <2>1, <2>2, <2>3, <2>4, <2>5, <2>6
    DEF Goto, LocalMoves, At, CloseCommon, ClosedTerms, Winds, CloseShape, Actors, Nil
  <2> QED
    BY <2>6, <2>7, <2>8
<1>8. ASSUME ACDTLSUp PROVE CloseShape' /\ CloseCommon' /\ ACClosing'
  <2>1. Winds
    BY <1>8, UnchangedWinds DEF ACDTLSUp, At, Initial, Goto
  <2>2. CloseShape'
    BY <1>8, ReportKeeps DEF ACDTLSUp, Initial, Goto, CloseShape, Actors, Nil
  <2>3. ACClosing'
    BY <1>8, <2>1, ReportKeeps, <2>2
    DEF ACDTLSUp, At, Initial, Goto, ACClosing, CloseCommon, ClosedTerms, Winds, CloseShape,
        Actors, Nil
  <2>4. CloseCommon'
    BY <1>8, <2>1, ReportKeeps, <2>2
    DEF ACDTLSUp, At, Initial, Goto, CloseCommon, ClosedTerms, Winds, CloseShape, Actors, Nil
  <2> QED
    BY <2>2, <2>3, <2>4
<1>9. ASSUME ACFallback PROVE CloseShape' /\ CloseCommon' /\ ACClosing'
  <2>1. Winds
    BY <1>9, UnchangedWinds DEF ACFallback
  <2>2. LocalMoves("writer") /\ local'.channel = local.channel
    BY <1>9 DEF ACFallback, CloseShape, LocalMoves
  <2>3. session'.term = session.term /\ session'.closed = session.closed /\ session'.ready = session.ready
    BY <1>9 DEF ACFallback, CloseShape
  <2>4. \A d \in 1 .. MaxChannels : ~Running(d)'
    BY <1>9, <2>1 DEF ACFallback, CloseCommon, ACClosing, Winds, Running, Alive
  <2>5. CloseShape'
    BY <1>9, <2>1, <2>2, <2>3 DEF ACFallback, Initial, Goto, CloseShape, Actors, Nil
  <2>6. ACClosing'
    BY <1>9, <2>1, <2>2, <2>3, <2>4, <2>5
    DEF ACFallback, At, Initial, Goto, ACClosing, CloseCommon, ClosedTerms, Winds, CloseShape,
        Actors, Nil
  <2>7. CloseCommon'
    BY <1>9, <2>1, <2>2, <2>3, <2>4, <2>5
    DEF ACFallback, At, Initial, Goto, CloseCommon, ClosedTerms, Winds, CloseShape, Actors, Nil
  <2> QED
    BY <2>5, <2>6, <2>7
<1>10. ASSUME ACReportCSTP PROVE CloseShape' /\ CloseCommon' /\ ACClosing'
  <2>1. Winds
    BY <1>10, UnchangedWinds DEF ACReportCSTP, At, Goto
  <2>2. CloseShape'
    BY <1>10, ReportKeeps DEF ACReportCSTP, Goto, CloseShape, Actors, Nil
  <2>3. ACClosing'
    BY <1>10, <2>1, ReportKeeps, <2>2
    DEF ACReportCSTP, At, Goto, ACClosing, CloseCommon, ClosedTerms, Winds, CloseShape, Actors,
        Nil
  <2>4. CloseCommon'
    BY <1>10, <2>1, ReportKeeps, <2>2
    DEF ACReportCSTP, At, Goto, CloseCommon, ClosedTerms, Winds, CloseShape, Actors, Nil
  <2> QED
    BY <2>2, <2>3, <2>4
<1>11. ASSUME ACDecide PROVE CloseShape' /\ CloseCommon' /\ ACClosing'
  <2> DEFINE c == local.channel["control"]
  <2>1. /\ UNCHANGED <<client, conn, keys>> /\ pc["control"] = "decide"
        /\ channels' = [channels EXCEPT ![c].done = "nil"]
        /\ Holding("control", Nil)
    BY <1>11 DEF ACDecide, At
  <2>2. \E l \in {"exited", "terminating", "loop"} : Goto("control", l)
    BY <1>11 DEF ACDecide, CallTerminate
  <2>3. session' \in {session, Called(session)}
    BY <1>11 DEF ACDecide, CallTerminate
  <2>4. LocalMoves("control")
    BY <2>1, HoldingMoves DEF Actors, Nil
  <2>5. \A d \in 1 .. MaxChannels : [channels[d] EXCEPT !.done = "nil"] \in Channel
                                    /\ [channels[d] EXCEPT !.done = "nil"].st = channels[d].st
    BY ForgottenType DEF CloseShape
  <2>6. channels' \in [1 .. MaxChannels -> Channel]
        /\ \A d \in 1 .. MaxChannels : /\ channels'[d].st = channels[d].st
                                       /\ d # c => channels'[d].done = channels[d].done
    BY ZenonT(30), <2>1, <2>5 DEF CloseShape
  <2>7. \A d \in 1 .. MaxChannels : ~Running(d)'
    BY <2>1, <2>6 DEF ACClosing, Running
  <2>8. CloseShape'
    BY <2>1, <2>2, <2>3, <2>4, <2>6, CallKeeps DEF Goto, CloseShape, LocalMoves
  <2> QED
    BY <2>1, <2>2, <2>3, <2>6, <2>7, <2>8, CallKeeps, SMTT(30)
    DEF Goto, CloseShape, CloseCommon, ClosedTerms, ACClosing, Alive, Actors
<1>12. ASSUME ACReadEnds PROVE CloseShape' /\ CloseCommon' /\ ACClosing'
  <2>1. Winds
    BY <1>12, UnchangedWinds DEF ACReadEnds, At, Ends, Goto
  <2>2. CloseShape'
    BY <1>12, CallKeeps DEF ACReadEnds, Ends, Goto, CloseShape, Actors, Nil
  <2>3. ACClosing'
    BY <1>12, <2>1, CallKeeps, <2>2
    DEF ACReadEnds, At, Ends, Goto, ACClosing, CloseCommon, ClosedTerms, Winds, CloseShape,
        Actors, Nil
  <2>4. CloseCommon'
    BY <1>12, <2>1, CallKeeps, <2>2
    DEF ACReadEnds, At, Ends, Goto, CloseCommon, ClosedTerms, Winds, CloseShape, Actors, Nil
  <2> QED
    BY <2>2, <2>3, <2>4
<1>13. ASSUME ACTimerEnds PROVE CloseShape' /\ CloseCommon' /\ ACClosing'
  <2>1. Winds
    BY <1>13, UnchangedWinds DEF ACTimerEnds, At, Goto, Ends
  <2>2. CloseShape'
    BY <1>13, CallKeeps DEF ACTimerEnds, Goto, Ends, CloseShape, Actors, Nil
  <2>3. ACClosing'
    BY <1>13, <2>1, CallKeeps, <2>2
    DEF ACTimerEnds, At, Goto, Ends, ACClosing, CloseCommon, ClosedTerms, Winds, CloseShape,
        Actors, Nil
  <2>4. CloseCommon'
    BY <1>13, <2>1, CallKeeps, <2>2
    DEF ACTimerEnds, At, Goto, Ends, CloseCommon, ClosedTerms, Winds, CloseShape, Actors, Nil
  <2> QED
    BY <2>2, <2>3, <2>4
<1>14. ASSUME ACWriteBegins PROVE CloseShape' /\ CloseCommon' /\ ACClosing'
  <2>1. Winds
    BY <1>14, UnchangedWinds DEF ACWriteBegins
  <2>2. session.own \in Nat /\ "writer" \in Actors
    BY DEF CloseShape, Actors
  <2>3. LocalMoves("writer") /\ (Goto("writer", "batch") \/ Goto("writer", "packets"))
    BY <1>14, <2>2, HoldingMoves, UnchangedMoves DEF ACWriteBegins
  <2>4. UNCHANGED <<flavor, client, session, conn, channels, keys, wire>>
    BY <1>14 DEF ACWriteBegins
  <2>5. CloseShape'
    BY <2>1, <2>2, <2>3, <2>4 DEF Goto, LocalMoves, CloseShape, Actors, Nil
  <2>6. ACClosing'
    BY <2>1, <2>2, <2>3, <2>4, <2>5
    DEF Goto, LocalMoves, At, ACClosing, CloseCommon, ClosedTerms, Winds, CloseShape, Actors,
        Nil
  <2>7. CloseCommon'
    BY <2>1, <2>2, <2>3, <2>4, <2>5
    DEF Goto, LocalMoves, At, CloseCommon, ClosedTerms, Winds, CloseShape, Actors, Nil
  <2> QED
    BY <2>5, <2>6, <2>7
<1>15. ASSUME ACWriteBatch PROVE CloseShape' /\ CloseCommon' /\ ACClosing'
  <2>1. local.channel["writer"] \in Nat /\ "err" \in Endings \ {"open"} /\ "writer" \in Actors /\ Nil \in Nat
    BY DEF CloseShape, Actors, Endings, Nil
  <2>2. Winds
    BY <1>15, <2>1, TerminateWinds, UnchangedWinds DEF ACWriteBatch
  <2>3. LocalMoves("writer") /\ (Goto("writer", "packets") \/ Goto("writer", "done"))
    BY <1>15, <2>1, WrittenMoves, HoldingMoves DEF ACWriteBatch, WriterReturns
  <2>4. UNCHANGED <<flavor, client, session, conn>>
    BY <1>15 DEF ACWriteBatch
  <2>5. CloseShape'
    BY <2>1, <2>2, <2>3, <2>4 DEF Goto, LocalMoves, CloseShape, Actors, Nil, Winds
  <2>6. ACClosing'
    BY <2>1, <2>2, <2>3, <2>4, <2>5
    DEF Goto, LocalMoves, ACClosing, CloseCommon, ClosedTerms, Winds, CloseShape, Actors, Nil
  <2>7. CloseCommon'
    BY <2>1, <2>2, <2>3, <2>4, <2>5
    DEF Goto, LocalMoves, CloseCommon, ClosedTerms, Winds, CloseShape, Actors, Nil
  <2> QED
    BY <2>5, <2>6, <2>7
<1>16. ASSUME ACWritePacketDTLS PROVE CloseShape' /\ CloseCommon' /\ ACClosing'
  <2>1. session.own \in Nat /\ "err" \in Endings \ {"open"}
    BY DEF CloseShape, Endings
  <2>2. Winds
    BY <1>16, <2>1, TerminateWinds, UnchangedWinds DEF ACWritePacketDTLS
  <2>3. LocalMoves("writer") /\ (UNCHANGED pc \/ Goto("writer", "done") \/ Goto("writer", "lock"))
    BY <1>16, NextPacketMoves, WrittenMoves, UnchangedMoves DEF ACWritePacketDTLS, WriterReturns
  <2>4. UNCHANGED <<flavor, client, session, conn>>
    BY <1>16 DEF ACWritePacketDTLS
  <2>5. CloseShape'
    BY <2>1, <2>2, <2>3, <2>4 DEF Goto, LocalMoves, CloseShape, Actors, Nil, Winds
  <2>6. ACClosing'
    BY <2>1, <2>2, <2>3, <2>4, <2>5
    DEF Goto, LocalMoves, ACClosing, CloseCommon, ClosedTerms, Winds, CloseShape, Actors, Nil
  <2>7. CloseCommon'
    BY <2>1, <2>2, <2>3, <2>4, <2>5
    DEF Goto, LocalMoves, CloseCommon, ClosedTerms, Winds, CloseShape, Actors, Nil
  <2> QED
    BY <2>5, <2>6, <2>7
<1>17. ASSUME ACWriteLocks PROVE CloseShape' /\ CloseCommon' /\ ACClosing'
  <2>1. Winds
    BY <1>17, UnchangedWinds DEF ACWriteLocks
  <2>2. LocalMoves("writer") /\ (Goto("writer", "done") \/ Goto("writer", "writing"))
    BY <1>17, WrittenMoves, UnchangedMoves DEF ACWriteLocks, WriterReturns
  <2>3. DOMAIN conn' = DOMAIN conn /\ conn'.st = conn.st
    BY <1>17 DEF ACWriteLocks, CloseShape, Acquire
  <2>4. UNCHANGED <<flavor, client, session, channels, keys, wire>>
    BY <1>17 DEF ACWriteLocks
  <2>5. CloseShape'
    BY <2>1, <2>2, <2>3, <2>4 DEF Goto, LocalMoves, CloseShape, Actors, Nil
  <2>6. ACClosing'
    BY <2>1, <2>2, <2>3, <2>4, <2>5
    DEF Goto, LocalMoves, ACClosing, CloseCommon, ClosedTerms, Winds, CloseShape, Actors, Nil
  <2>7. CloseCommon'
    BY <2>1, <2>2, <2>3, <2>4, <2>5
    DEF Goto, LocalMoves, CloseCommon, ClosedTerms, Winds, CloseShape, Actors, Nil
  <2> QED
    BY <2>5, <2>6, <2>7
<1>18. ASSUME ACWriteCSTP PROVE CloseShape' /\ CloseCommon' /\ ACClosing'
  <2>1. Winds
    BY <1>18, UnchangedWinds DEF ACWriteCSTP
  <2>2. LocalMoves("writer") /\ (UNCHANGED pc \/ Goto("writer", "done") \/ Goto("writer", "terminating"))
    BY Zenon, <1>18, NextPacketMoves, WrittenMoves DEF ACWriteCSTP, WriterReturns, Ends
  <2>3. DOMAIN conn' = DOMAIN conn /\ conn'.st = conn.st
    BY <1>18 DEF ACWriteCSTP, CloseShape, WriteEnds
  <2>4. session' \in {session, Called(session), Called(Counted(session))}
    BY Zenon, <1>18 DEF ACWriteCSTP, Ends
  <2>5. UNCHANGED <<flavor, client, channels, keys>>
    BY <1>18 DEF ACWriteCSTP
  <2>6. CloseShape'
    BY <2>1, <2>2, <2>3, <2>4, <2>5, CallKeeps DEF Goto, LocalMoves, CloseShape, Actors, Nil
  <2>7. ACClosing'
    BY <2>1, <2>2, <2>3, <2>4, <2>5, CallKeeps, <2>6
    DEF Goto, LocalMoves, ACClosing, CloseCommon, ClosedTerms, Winds, CloseShape, Actors, Nil
  <2>8. CloseCommon'
    BY <2>1, <2>2, <2>3, <2>4, <2>5, CallKeeps, <2>6
    DEF Goto, LocalMoves, CloseCommon, ClosedTerms, Winds, CloseShape, Actors, Nil
  <2> QED
    BY <2>6, <2>7, <2>8
<1>19. ASSUME ACClose PROVE CloseShape' /\ CloseCommon' /\ ACClosing'
  <2>1. Winds
    BY <1>19, UnchangedWinds DEF ACClose, At, Goto, CallTerminate
  <2>2. CloseShape'
    BY <1>19, CallKeeps DEF ACClose, Goto, CallTerminate, CloseShape, Actors, Nil
  <2>3. ACClosing'
    BY <1>19, <2>1, CallKeeps, <2>2
    DEF ACClose, At, Goto, CallTerminate, ACClosing, CloseCommon, ClosedTerms, Winds,
        CloseShape, Actors, Nil
  <2>4. CloseCommon'
    BY <1>19, <2>1, CallKeeps, <2>2
    DEF ACClose, At, Goto, CallTerminate, CloseCommon, ClosedTerms, Winds, CloseShape, Actors,
        Nil
  <2> QED
    BY <2>2, <2>3, <2>4
<1>20. ASSUME ACCloseLocks PROVE CloseShape' /\ CloseCommon' /\ ACClosing'
  <2>1. Winds
    BY <1>20, UnchangedWinds DEF ACCloseLocks, At, CallTerminate, Acquire, Goto
  <2>2. CloseShape'
    BY <1>20, CallKeeps DEF ACCloseLocks, CallTerminate, Acquire, Goto, CloseShape, Actors, Nil
  <2>3. ACClosing'
    BY <1>20, <2>1, CallKeeps, <2>2
    DEF ACCloseLocks, At, CallTerminate, Acquire, Goto, ACClosing, CloseCommon, ClosedTerms,
        Winds, CloseShape, Actors, Nil
  <2>4. CloseCommon'
    BY <1>20, <2>1, CallKeeps, <2>2
    DEF ACCloseLocks, At, CallTerminate, Acquire, Goto, CloseCommon, ClosedTerms, Winds,
        CloseShape, Actors, Nil
  <2> QED
    BY <2>2, <2>3, <2>4
<1>21. ASSUME ACDisconnect PROVE CloseShape' /\ CloseCommon' /\ ACClosing'
  <2>1. Winds
    BY <1>21, UnchangedWinds DEF ACDisconnect, At, WriteEnds, CallTerminate, Goto
  <2>2. CloseShape'
    BY <1>21, CallKeeps
    DEF ACDisconnect, WriteEnds, CallTerminate, Goto, CloseShape, Actors, Nil
  <2>3. ACClosing'
    BY <1>21, <2>1, CallKeeps, <2>2
    DEF ACDisconnect, At, WriteEnds, CallTerminate, Goto, ACClosing, CloseCommon, ClosedTerms,
        Winds, CloseShape, Actors, Nil
  <2>4. CloseCommon'
    BY <1>21, <2>1, CallKeeps, <2>2
    DEF ACDisconnect, At, WriteEnds, CallTerminate, Goto, CloseCommon, ClosedTerms, Winds,
        CloseShape, Actors, Nil
  <2> QED
    BY <2>2, <2>3, <2>4
<1>22. ASSUME ACJoin PROVE CloseShape' /\ CloseCommon' /\ ACClosing'
  <2>1. Winds
    BY <1>22, UnchangedWinds DEF ACJoin, At, Goto
  <2>2. CloseShape'
    BY <1>22 DEF ACJoin, Goto, CloseShape, Actors, Nil
  <2>3. ACClosing'
    BY <1>22, <2>1, <2>2
    DEF ACJoin, At, Goto, ACClosing, CloseCommon, ClosedTerms, Winds, CloseShape, Actors, Nil
  <2>4. CloseCommon'
    BY <1>22, <2>1, <2>2
    DEF ACJoin, At, Goto, CloseCommon, ClosedTerms, Winds, CloseShape, Actors, Nil
  <2> QED
    BY <2>2, <2>3, <2>4
<1>23. ASSUME ACTerminateStep PROVE CloseShape' /\ CloseCommon' /\ ACClosing'
  <2>0. UNCHANGED pc
    BY <1>23 DEF ACTerminateStep
  <2>1. CASE session.term = "called" /\ session' = [session EXCEPT !.term = "taken", !.ready = FALSE, !.closed = TRUE]
           /\ UNCHANGED <<client, conn, channels, keys, local>>
    <3>1. CloseShape'
      BY <2>0, <2>1 DEF CloseShape
    <3> QED
      BY <2>0, <2>1, <3>1, UnchangedWinds
      DEF CloseShape, CloseCommon, ClosedTerms, ACClosing, Winds
  <2>2. CASE /\ session.term = "taken"
             /\ client' = StopActiveTransport(client, Self)
             /\ session' = [session EXCEPT !.term = "closing", !.cancelled = TRUE, !.own = Nil]
             /\ TerminateChannel(session.own, "nil")
             /\ local' = [local EXCEPT !.taken = session.own]
             /\ UNCHANGED conn
    <3>1. session.own \in Nat /\ "nil" \in Endings \ {"open"}
      BY DEF CloseShape, Endings
    <3>2. Winds /\ \A d \in 1 .. MaxChannels : Running(d)' => d # session.own
      BY <2>2, <3>1, TerminateWinds
    <3>3. \A d \in 1 .. MaxChannels : ~Running(d)'
      BY <3>2 DEF Winds, ACClosing
    <3>4. CloseShape'
      BY <2>0, <2>2, <3>1, <3>2, StopWithdraws DEF CloseShape, Winds, Nil
    <3> QED
      BY <2>0, <2>2, <3>2, <3>3, <3>4, StopWithdraws, ZenonT(30)
      DEF CloseShape, CloseCommon, ClosedTerms, ACClosing, Winds
  <2>3. CASE /\ session.term = "closing"
             /\ conn' = [conn EXCEPT !.st = "closed", !.deadline = FALSE]
             /\ session' = [session EXCEPT !.term = "done"]
             /\ local' = [local EXCEPT !.taken = Nil]
             /\ UNCHANGED <<client, channels, keys>>
    <3>1. CloseShape'
      BY <2>0, <2>3 DEF CloseShape, Nil
    <3> QED
      BY <2>0, <2>3, <3>1, UnchangedWinds
      DEF CloseShape, CloseCommon, ClosedTerms, ACClosing, Winds
  <2> QED
    BY <1>23, <2>1, <2>2, <2>3 DEF ACTerminateStep, ACTerminate
<1> QED
  BY <1>1, <1>2, <1>3, <1>4, <1>5, <1>6, <1>7, <1>8, <1>9, <1>10, <1>11, <1>12, <1>13, <1>14,
      <1>15, <1>16, <1>17, <1>18, <1>19, <1>20, <1>21, <1>22, <1>23

LEMMA ACCloses2 ==
    ASSUME CloseShape, CloseCommon, ACClosing, UNCHANGED <<flavor, link>>, NEW a \in {"reader", "timer"}
    PROVE  (\/ ACWritePacket(a) \/ ACPacketLocks(a) \/ ACPacketWritten(a))
           => CloseShape' /\ CloseCommon' /\ ACClosing'
<1>1. ASSUME ACWritePacket(a) PROVE CloseShape' /\ CloseCommon' /\ ACClosing'
  <2>1. Winds
    BY <1>1, UnchangedWinds DEF ACWritePacket, At, Goto
  <2>2. CloseShape'
    BY <1>1, CallKeeps DEF ACWritePacket, Goto, CloseShape, Actors, Nil
  <2>3. ACClosing'
    BY <1>1, <2>1, CallKeeps, <2>2
    DEF ACWritePacket, At, Goto, ACClosing, CloseCommon, ClosedTerms, Winds, CloseShape, Actors,
        Nil
  <2>4. CloseCommon'
    BY <1>1, <2>1, CallKeeps, <2>2
    DEF ACWritePacket, At, Goto, CloseCommon, ClosedTerms, Winds, CloseShape, Actors, Nil
  <2> QED
    BY <2>2, <2>3, <2>4
<1>2. ASSUME ACPacketLocks(a) PROVE CloseShape' /\ CloseCommon' /\ ACClosing'
  <2>1. Winds
    BY <1>2, UnchangedWinds DEF ACPacketLocks, At, Goto, Acquire
  <2>2. CloseShape'
    BY <1>2 DEF ACPacketLocks, Goto, Acquire, CloseShape, Actors, Nil
  <2>3. ACClosing'
    BY <1>2, <2>1, <2>2
    DEF ACPacketLocks, At, Goto, Acquire, ACClosing, CloseCommon, ClosedTerms, Winds,
        CloseShape, Actors, Nil
  <2>4. CloseCommon'
    BY <1>2, <2>1, <2>2
    DEF ACPacketLocks, At, Goto, Acquire, CloseCommon, ClosedTerms, Winds, CloseShape, Actors,
        Nil
  <2> QED
    BY <2>2, <2>3, <2>4
<1>3. ASSUME ACPacketWritten(a) PROVE CloseShape' /\ CloseCommon' /\ ACClosing'
  <2>1. Winds
    BY <1>3, UnchangedWinds DEF ACPacketWritten, At, WriteEnds, Goto, Ends
  <2>2. CloseShape'
    BY <1>3, CallKeeps DEF ACPacketWritten, WriteEnds, Goto, Ends, CloseShape, Actors, Nil
  <2>3. ACClosing'
    BY <1>3, <2>1, CallKeeps, <2>2
    DEF ACPacketWritten, At, WriteEnds, Goto, Ends, ACClosing, CloseCommon, ClosedTerms, Winds,
        CloseShape, Actors, Nil
  <2>4. CloseCommon'
    BY <1>3, <2>1, CallKeeps, <2>2
    DEF ACPacketWritten, At, WriteEnds, Goto, Ends, CloseCommon, ClosedTerms, Winds, CloseShape,
        Actors, Nil
  <2> QED
    BY <2>2, <2>3, <2>4
<1> QED
  BY <1>1, <1>2, <1>3

----------------------------------------------------------------------------
(* A GlobalProtect session. *)

LEMMA GPCloses1 ==
    ASSUME TunnelAssumption, CloseShape, CloseCommon, GPClosing, UNCHANGED <<flavor, link>>
    PROVE  (\/ GPStart \/ GPFetch \/ GPCheck \/ GPNoCandidate \/ GPCandidate \/ GPDialESP
            \/ GPProbe \/ GPAwait \/ GPRejoin \/ GPPublishESP \/ GPReportESP \/ GPFinish
            \/ GPLoop \/ GPTransportDone \/ GPCancelled \/ GPCheckAgain \/ GPRekey
            \/ GPPeriodicCheck \/ GPWriteBegins \/ GPWritePacket \/ GPClose \/ GPJoin
            \/ GPTerminateStep)
           => CloseShape' /\ CloseCommon' /\ GPClosing'
<1>1. ASSUME GPStart PROVE CloseShape' /\ CloseCommon' /\ GPClosing'
  <2>1. Winds
    BY <1>1, UnchangedWinds DEF GPStart
  <2>2. CloseShape'
    BY <1>1 DEF GPStart, Goto, CloseShape, Actors, Nil
  <2>3. CloseCommon'
    BY <1>1, <2>1, <2>2
    DEF GPStart, At, Goto, CloseCommon, ClosedTerms, Winds, CloseShape, Actors, Nil
  <2>4. GPClosing'
    BY <1>1, <2>1, <2>2
    DEF GPStart, At, Goto, GPClosing, CloseCommon, ClosedTerms, Winds, CloseShape, Actors, Nil,
        Opener, OwnChannel
  <2> QED
    BY <2>2, <2>3, <2>4
<1>2. ASSUME GPFetch PROVE CloseShape' /\ CloseCommon' /\ GPClosing'
  <2>1. pc["start"] = "fetch" /\ \E l \in {"terminating", "failed", "hip"} : Goto("start", l)
    BY <1>2 DEF GPFetch, CallTerminate, At
  <2>2. session' \in {session, Called(session)}
    BY <1>2 DEF GPFetch, CallTerminate
  <2>3. SessionKeeps /\ session'.own = session.own /\ session'.ready = session.ready
    BY <2>2, CalledKeeps
  <2>4. keys' \in {"none", "live", "destroyed"} /\ (keys' = "live" => keys = "live" \/ ~session.closed)
    BY <1>2 DEF GPFetch, CloseShape
  <2>5. UNCHANGED <<client, conn, channels, local>>
    BY <1>2 DEF GPFetch
  <2>6. AliveOpen
    BY <2>5 DEF CloseCommon, AliveOpen
  <2>7. \A d \in 1 .. MaxChannels : Running(d)' <=> Running(d)
    BY <2>5 DEF Running
  <2>8. CloseShape' /\ CloseCommon'
    BY <2>1, <2>2, <2>3, <2>4, <2>5, <2>6, <2>7, WindsOpen, ReportKeeps, CommonKeeps
    DEF Goto, CloseShape, LocalMoves, SessionKeeps, Winds, Actors, Nil, Opener
  <2>9. GPClosing'
    BY <2>1, <2>2, <2>3, <2>4, <2>5, <2>6, <2>7, <2>8
    DEF Goto, LocalMoves, SessionKeeps, Winds, GPClosing, CloseCommon, ClosedTerms, CloseShape, Actors, Nil,
        Opener
  <2> QED
    BY <2>8, <2>9
<1>3. ASSUME GPCheck PROVE CloseShape' /\ CloseCommon' /\ GPClosing'
  <2>1. Winds
    BY <1>3, UnchangedWinds DEF GPCheck
  <2>2. CloseShape'
    BY <1>3, CallKeeps DEF GPCheck, CallTerminate, Goto, CloseShape, Actors, Nil
  <2>3. CloseCommon'
    BY <1>3, <2>1, CallKeeps, <2>2
    DEF GPCheck, At, CallTerminate, Goto, CloseCommon, ClosedTerms, Winds, CloseShape, Actors,
        Nil
  <2>4. GPClosing'
    BY <1>3, <2>1, CallKeeps, <2>2
    DEF GPCheck, At, CallTerminate, Goto, GPClosing, CloseCommon, ClosedTerms, Winds,
        CloseShape, Actors, Nil, Opener, OwnChannel
  <2> QED
    BY <2>2, <2>3, <2>4
<1>4. ASSUME GPNoCandidate PROVE CloseShape' /\ CloseCommon' /\ GPClosing'
  <2>1. pc["start"] = "candidate" /\ Goto("start", "claim")
    BY <1>4 DEF GPNoCandidate, At
  <2>2. UNCHANGED <<client, session, conn, channels, local>> /\ keys' = "destroyed"
    BY <1>4 DEF GPNoCandidate
  <2>3. Winds
    BY <2>2, KeysWinds
  <2>4. SessionKeeps
    BY <2>2 DEF CloseShape, SessionKeeps
  <2>5. CloseShape' /\ CloseCommon'
    BY <2>1, <2>2, <2>3, <2>4, WindsOpen, ReportKeeps, CommonKeeps
    DEF Goto, CloseShape, LocalMoves, SessionKeeps, Winds, Actors, Nil, Opener
  <2>6. GPClosing'
    BY <2>1, <2>2, <2>3, <2>4, <2>5
    DEF Goto, LocalMoves, SessionKeeps, Winds, GPClosing, CloseCommon, ClosedTerms, CloseShape, Actors, Nil,
        Opener
  <2> QED
    BY <2>5, <2>6
<1>5. ASSUME GPCandidate PROVE CloseShape' /\ CloseCommon' /\ GPClosing'
  <2>0. /\ MayCreateChannel /\ Holding("start", NextChannel) /\ pc["start"] = "candidate"
        /\ UNCHANGED <<client, conn>>
    BY <1>5 DEF GPCandidate, At
  <2>1. NextChannel \in 1 .. MaxChannels /\ NextChannel \in Nat /\ "start" \in Actors /\ "esp" \in Kinds
    BY <2>0, NextChannelType DEF Actors, Kinds
  <2>2. LocalMoves("start") /\ local'.channel["start"] = NextChannel
    BY <2>0, <2>1, HoldingMoves
  <2>3. CASE session.closed
    <3>1. channels' = [channels EXCEPT ![NextChannel] = Terminated(NewChannel("esp"), "nil")]
          /\ keys' = "destroyed" /\ Goto("start", "claim") /\ UNCHANGED session
      BY <1>5, <2>3 DEF GPCandidate
    <3>2. channels' \in [1 .. MaxChannels -> Channel] /\ AliveOpen
      BY Zenon, <3>1, <2>1, MadeOpen
    <3>3. \A d \in 1 .. MaxChannels : Running(d)' => Running(d)
      BY Zenon, <3>1, <2>1, MadeClosed
    <3>4. SessionKeeps
      BY <3>1 DEF CloseShape, SessionKeeps
    <3>5. CloseShape'
      BY <2>0, <2>1, <2>2, <3>1, <3>2, <3>3, <3>4
      DEF Goto, CloseShape, LocalMoves, SessionKeeps, Winds, Actors, Nil, Opener
    <3>6. CloseCommon'
      BY <2>0, <2>1, <2>2, <3>1, <3>2, <3>3, <3>4, WindsOpen, ReportKeeps, CommonKeeps
      DEF Goto, CloseShape, Actors, SessionKeeps, Nil, Opener
    <3>7. GPClosing'
      BY <2>0, <2>1, <2>2, <3>1, <3>2, <3>3, <3>4, <3>5
      DEF Goto, LocalMoves, SessionKeeps, Winds, GPClosing, CloseCommon, ClosedTerms,
          CloseShape, Actors, Nil, Opener
    <3> QED
      BY <3>5, <3>6, <3>7
  <2>4. CASE ~session.closed
    <3>1. session' = [session EXCEPT !.generation = @ + 1, !.phase = "awaitingESP", !.own = NextChannel]
          /\ channels' = [channels EXCEPT ![NextChannel] = Dialing(NewChannel("esp"))]
          /\ Goto("start", "espDial") /\ UNCHANGED keys
      BY <1>5, <2>4 DEF GPCandidate
    <3>2. channels' \in [1 .. MaxChannels -> Channel] /\ AliveOpen
          /\ \A d \in 1 .. MaxChannels : Running(d)' => d = NextChannel \/ Running(d)
      BY Zenon, <3>1, <2>1, MadeOpen
    <3>3. SessionKeeps /\ session'.own = NextChannel /\ session'.ready = session.ready /\ session'.term = session.term
      BY <3>1 DEF CloseShape, SessionKeeps
    <3>4. CloseShape'
      BY <2>0, <2>1, <2>2, <2>4, <3>1, <3>2, <3>3
      DEF Goto, CloseShape, LocalMoves, SessionKeeps, Winds, Actors, Nil, Opener
    <3>5. CloseCommon'
      BY <2>0, <2>1, <2>2, <2>4, <3>1, <3>2, <3>3, WindsOpen, ReportKeeps, CommonKeeps
      DEF Goto, CloseShape, Actors, SessionKeeps, Nil, Opener
    <3>6. GPClosing'
      BY <2>0, <2>1, <2>2, <2>4, <3>1, <3>2, <3>3, <3>4
      DEF Goto, LocalMoves, SessionKeeps, Winds, GPClosing, CloseCommon, ClosedTerms,
          CloseShape, Actors, Nil, Opener
    <3> QED
      BY <3>4, <3>5, <3>6
  <2> QED
    BY <2>3, <2>4
<1>6. ASSUME GPDialESP PROVE CloseShape' /\ CloseCommon' /\ GPClosing'
  <2>1. local.channel["start"] \in Nat /\ {"err"} \in SUBSET {"err", "fatal"}
    BY DEF CloseShape, Actors
  <2>2. DialEnds("start", local.channel["start"], "probe", "rejoin", {"err"}) /\ pc["start"] = "espDial"
    BY <1>6 DEF GPDialESP, OwnChannel, At
  <2>3. /\ Winds
        /\ \/ Goto("start", "probe")
           \/ Goto("start", "rejoin") /\ (\A d \in 1 .. MaxChannels : Running(d)' => d # local.channel["start"])
    BY <2>1, <2>2, DialWinds
  <2>4. UNCHANGED <<client, session, conn, local>> /\ SessionKeeps
    BY <1>6 DEF GPDialESP, CloseShape, SessionKeeps
  <2>5. CloseShape' /\ CloseCommon'
    BY <2>1, <2>2, <2>3, <2>4, WindsOpen, ReportKeeps, CommonKeeps
    DEF Goto, CloseShape, LocalMoves, SessionKeeps, Winds, Actors, Nil, Opener
  <2>6. GPClosing'
    BY <2>1, <2>2, <2>3, <2>4, <2>5
    DEF Goto, LocalMoves, SessionKeeps, Winds, GPClosing, CloseCommon, ClosedTerms, CloseShape, Actors, Nil,
        Opener
  <2> QED
    BY <2>5, <2>6
<1>7. ASSUME GPProbe PROVE CloseShape' /\ CloseCommon' /\ GPClosing'
  <2>1. local.channel["start"] \in Nat /\ pc["start"] = "probe"
    BY <1>7 DEF GPProbe, CloseShape, Actors, At
  <2>2. \/ Goto("start", "await") /\ UNCHANGED <<channels, keys>>
        \/ Goto("start", "rejoin") /\ \E err \in {"nil", "err", "exhausted", "fatal", "rekey"} : TerminateChannel(local.channel["start"], err)
    BY <1>7 DEF GPProbe, OwnChannel
  <2>3. /\ Winds
        /\ \/ Goto("start", "await")
           \/ Goto("start", "rejoin") /\ (\A d \in 1 .. MaxChannels : Running(d)' => d # local.channel["start"])
    BY <2>1, <2>2, TerminateAnyWinds, UnchangedWinds
  <2>4. UNCHANGED <<client, session, conn, local>> /\ SessionKeeps
    BY <1>7 DEF GPProbe, CloseShape, SessionKeeps
  <2>5. CloseShape' /\ CloseCommon'
    BY <2>1, <2>2, <2>3, <2>4, WindsOpen, ReportKeeps, CommonKeeps
    DEF Goto, CloseShape, LocalMoves, SessionKeeps, Winds, Actors, Nil, Opener
  <2>6. GPClosing'
    BY <2>1, <2>2, <2>3, <2>4, <2>5
    DEF Goto, LocalMoves, SessionKeeps, Winds, GPClosing, CloseCommon, ClosedTerms, CloseShape, Actors, Nil,
        Opener
  <2> QED
    BY <2>5, <2>6
<1>8. ASSUME GPAwait PROVE CloseShape' /\ CloseCommon' /\ GPClosing'
  <2>1. local.channel["start"] \in Nat /\ pc["start"] = "await"
    BY <1>8 DEF GPAwait, CloseShape, Actors, At
  <2>2. \/ (\E l \in {"claim", "publish", "terminating", "probe"} : Goto("start", l)) /\ UNCHANGED <<channels, keys>>
        \/ Goto("start", "rejoin") /\ \E err \in {"nil", "err", "exhausted", "fatal", "rekey"} : TerminateChannel(local.channel["start"], err)
    BY <1>8 DEF GPAwait, OwnChannel, CallTerminate
  <2>3. /\ Winds
        /\ \/ \E l \in {"claim", "publish", "terminating", "probe"} : Goto("start", l)
           \/ Goto("start", "rejoin") /\ (\A d \in 1 .. MaxChannels : Running(d)' => d # local.channel["start"])
    BY <2>1, <2>2, TerminateAnyWinds, UnchangedWinds
  <2>4. session' \in {session, Called(session)}
    BY <1>8 DEF GPAwait, CallTerminate
  <2>5. SessionKeeps /\ session'.own = session.own /\ session'.ready = session.ready
    BY <2>4, CalledKeeps
  <2>6. UNCHANGED <<client, conn, local>>
    BY <1>8 DEF GPAwait
  <2>7. CloseShape' /\ CloseCommon'
    BY <2>1, <2>2, <2>3, <2>4, <2>5, <2>6, WindsOpen, ReportKeeps, CommonKeeps
    DEF Goto, CloseShape, LocalMoves, SessionKeeps, Winds, Actors, Nil, Opener
  <2>8. GPClosing'
    BY <2>1, <2>2, <2>3, <2>4, <2>5, <2>6, <2>7
    DEF Goto, LocalMoves, SessionKeeps, Winds, GPClosing, CloseCommon, ClosedTerms, CloseShape, Actors, Nil,
        Opener
  <2> QED
    BY <2>7, <2>8
<1>9. ASSUME GPRejoin PROVE CloseShape' /\ CloseCommon' /\ GPClosing'
  <2>1. Winds
    BY <1>9, UnchangedWinds DEF GPRejoin
  <2>2. CloseShape'
    BY <1>9 DEF GPRejoin, Goto, CloseShape, Actors, Nil
  <2>3. CloseCommon'
    BY <1>9, <2>1, <2>2
    DEF GPRejoin, At, Goto, CloseCommon, ClosedTerms, Winds, CloseShape, Actors, Nil
  <2>4. GPClosing'
    BY <1>9, <2>1, <2>2
    DEF GPRejoin, At, Goto, GPClosing, CloseCommon, ClosedTerms, Winds, CloseShape, Actors, Nil,
        Opener, OwnChannel
  <2> QED
    BY <2>2, <2>3, <2>4
<1>10. ASSUME GPPublishESP PROVE CloseShape' /\ CloseCommon' /\ GPClosing'
  <2>1. pc["start"] = "publish" /\ \E l \in {"claim", "reportESP"} : Goto("start", l)
    BY <1>10 DEF GPPublishESP, At
  <2>2. SessionKeeps /\ session'.own = session.own /\ session'.term = session.term
        /\ (session.closed => session'.ready = session.ready)
    BY <1>10, ZenonT(30) DEF GPPublishESP, CloseShape, SessionKeeps
  <2>3. UNCHANGED <<client, conn, channels, keys, local>>
    BY <1>10 DEF GPPublishESP
  <2>4. Winds
    BY <2>3, UnchangedWinds
  <2>5. CloseShape' /\ CloseCommon'
    BY <2>1, <2>2, <2>3, <2>4, WindsOpen, ReportKeeps, CommonKeeps
    DEF Goto, CloseShape, LocalMoves, SessionKeeps, Winds, Actors, Nil, Opener
  <2>6. GPClosing'
    BY <2>1, <2>2, <2>3, <2>4, <2>5
    DEF Goto, LocalMoves, SessionKeeps, Winds, GPClosing, CloseCommon, ClosedTerms, CloseShape, Actors, Nil,
        Opener
  <2> QED
    BY <2>5, <2>6
<1>11. ASSUME GPReportESP PROVE CloseShape' /\ CloseCommon' /\ GPClosing'
  <2>1. Winds
    BY <1>11, UnchangedWinds DEF GPReportESP
  <2>2. CloseShape'
    BY <1>11, ReportKeeps DEF GPReportESP, Goto, CloseShape, Actors, Nil
  <2>3. CloseCommon'
    BY <1>11, <2>1, ReportKeeps, <2>2
    DEF GPReportESP, At, Goto, CloseCommon, ClosedTerms, Winds, CloseShape, Actors, Nil
  <2>4. GPClosing'
    BY <1>11, <2>1, ReportKeeps, <2>2
    DEF GPReportESP, At, Goto, GPClosing, CloseCommon, ClosedTerms, Winds, CloseShape, Actors,
        Nil, Opener, OwnChannel
  <2> QED
    BY <2>2, <2>3, <2>4
<1>12. ASSUME GPFinish PROVE CloseShape' /\ CloseCommon' /\ GPClosing'
  <2>1. Winds
    BY <1>12, UnchangedWinds DEF GPFinish
  <2>2. CloseShape'
    BY <1>12 DEF GPFinish, Goto, CloseShape, Actors, Nil
  <2>3. CloseCommon'
    BY <1>12, <2>1, <2>2
    DEF GPFinish, At, Goto, CloseCommon, ClosedTerms, Winds, CloseShape, Actors, Nil
  <2>4. GPClosing'
    BY <1>12, <2>1, <2>2
    DEF GPFinish, At, Goto, GPClosing, CloseCommon, ClosedTerms, Winds, CloseShape, Actors, Nil,
        Opener, OwnChannel
  <2> QED
    BY <2>2, <2>3, <2>4
<1>13. ASSUME GPLoop PROVE CloseShape' /\ CloseCommon' /\ GPClosing'
  <2>1. Winds
    BY <1>13, UnchangedWinds DEF GPLoop
  <2>2. CloseShape'
    BY <1>13 DEF GPLoop, Goto, CloseShape, Actors, Nil
  <2>3. CloseCommon'
    BY <1>13, <2>1, <2>2
    DEF GPLoop, At, Goto, CloseCommon, ClosedTerms, Winds, CloseShape, Actors, Nil
  <2>4. GPClosing'
    BY <1>13, <2>1, <2>2
    DEF GPLoop, At, Goto, GPClosing, CloseCommon, ClosedTerms, Winds, CloseShape, Actors, Nil,
        Opener, OwnChannel
  <2> QED
    BY <2>2, <2>3, <2>4
<1>14. ASSUME GPTransportDone PROVE CloseShape' /\ CloseCommon' /\ GPClosing'
  <2>1. Winds
    BY <1>14, UnchangedWinds DEF GPTransportDone
  <2>2. CloseShape'
    BY <1>14, CallKeeps DEF GPTransportDone, Goto, CallTerminate, CloseShape, Actors, Nil
  <2>3. CloseCommon'
    BY <1>14, <2>1, CallKeeps, <2>2
    DEF GPTransportDone, At, Goto, CallTerminate, CloseCommon, ClosedTerms, Winds, CloseShape,
        Actors, Nil
  <2>4. GPClosing'
    BY <1>14, <2>1, CallKeeps, <2>2
    DEF GPTransportDone, At, Goto, CallTerminate, GPClosing, CloseCommon, ClosedTerms, Winds,
        CloseShape, Actors, Nil, Opener, OwnChannel
  <2> QED
    BY <2>2, <2>3, <2>4
<1>15. ASSUME GPCancelled PROVE CloseShape' /\ CloseCommon' /\ GPClosing'
  <2>1. Winds
    BY <1>15, UnchangedWinds DEF GPCancelled
  <2>2. CloseShape'
    BY <1>15 DEF GPCancelled, Goto, CloseShape, Actors, Nil
  <2>3. CloseCommon'
    BY <1>15, <2>1, <2>2
    DEF GPCancelled, At, Goto, CloseCommon, ClosedTerms, Winds, CloseShape, Actors, Nil
  <2>4. GPClosing'
    BY <1>15, <2>1, <2>2
    DEF GPCancelled, At, Goto, GPClosing, CloseCommon, ClosedTerms, Winds, CloseShape, Actors,
        Nil, Opener, OwnChannel
  <2> QED
    BY <2>2, <2>3, <2>4
<1>16. ASSUME GPCheckAgain PROVE CloseShape' /\ CloseCommon' /\ GPClosing'
  <2>1. pc["control"] = "check" /\ \E l \in {"claim", "loop", "terminating"} : Goto("control", l)
    BY <1>16 DEF GPCheckAgain, At, CallTerminate
  <2>2. session' \in {session, Called(session)}
    BY <1>16 DEF GPCheckAgain, CallTerminate
  <2>3. SessionKeeps /\ session'.own = session.own /\ session'.ready = session.ready
    BY <2>2, CalledKeeps
  <2>4. UNCHANGED <<client, conn, channels, keys>>
    BY <1>16 DEF GPCheckAgain
  <2>5. Winds
    BY <2>4, UnchangedWinds
  <2>6. DOMAIN local' = DOMAIN local /\ local'.channel = local.channel /\ local'.taken = local.taken
    BY <1>16 DEF GPCheckAgain, CloseShape
  <2>7. CloseShape' /\ CloseCommon'
    BY <2>1, <2>2, <2>3, <2>4, <2>5, <2>6, WindsOpen, ReportKeeps, CommonKeeps
    DEF Goto, CloseShape, LocalMoves, SessionKeeps, Winds, Actors, Nil, Opener
  <2>8. GPClosing'
    BY <2>1, <2>2, <2>3, <2>4, <2>5, <2>6, <2>7
    DEF Goto, LocalMoves, SessionKeeps, Winds, GPClosing, CloseCommon, ClosedTerms, CloseShape, Actors, Nil,
        Opener
  <2> QED
    BY <2>7, <2>8
<1>17. ASSUME GPRekey PROVE CloseShape' /\ CloseCommon' /\ GPClosing'
  <2>1. Winds
    BY <1>17, UnchangedWinds DEF GPRekey
  <2>2. CloseShape'
    BY <1>17, CallKeeps DEF GPRekey, Ends, Goto, CloseShape, Actors, Nil
  <2>3. CloseCommon'
    BY <1>17, <2>1, CallKeeps, <2>2
    DEF GPRekey, At, Ends, Goto, CloseCommon, ClosedTerms, Winds, CloseShape, Actors, Nil
  <2>4. GPClosing'
    BY <1>17, <2>1, CallKeeps, <2>2
    DEF GPRekey, At, Ends, Goto, GPClosing, CloseCommon, ClosedTerms, Winds, CloseShape, Actors,
        Nil, Opener, OwnChannel
  <2> QED
    BY <2>2, <2>3, <2>4
<1>18. ASSUME GPPeriodicCheck PROVE CloseShape' /\ CloseCommon' /\ GPClosing'
  <2>1. Winds
    BY <1>18, UnchangedWinds DEF GPPeriodicCheck
  <2>2. CloseShape'
    BY <1>18, CallKeeps DEF GPPeriodicCheck, Goto, CloseShape, Actors, Nil
  <2>3. CloseCommon'
    BY <1>18, <2>1, CallKeeps, <2>2
    DEF GPPeriodicCheck, At, Goto, CloseCommon, ClosedTerms, Winds, CloseShape, Actors, Nil
  <2>4. GPClosing'
    BY <1>18, <2>1, CallKeeps, <2>2
    DEF GPPeriodicCheck, At, Goto, GPClosing, CloseCommon, ClosedTerms, Winds, CloseShape,
        Actors, Nil, Opener, OwnChannel
  <2> QED
    BY <2>2, <2>3, <2>4
<1>19. ASSUME GPWriteBegins PROVE CloseShape' /\ CloseCommon' /\ GPClosing'
  <2>1. Goto("writer", "write") /\ Holding("writer", session.own) /\ UNCHANGED <<client, session, conn, channels, keys>>
    BY <1>19 DEF GPWriteBegins
  <2>2. LocalMoves("writer")
    BY <2>1, HoldingMoves DEF CloseShape, Actors
  <2>3. \A b \in Opener : local'.channel[b] = local.channel[b]
    BY <2>2 DEF LocalMoves, Opener, Actors
  <2>4. DOMAIN pc' = Actors /\ \A b \in {"start", "control", "closer"} : pc'[b] = pc[b]
    BY <2>1 DEF Opener, Goto, CloseShape, Actors
  <2>5. Winds
    BY <2>1, UnchangedWinds
  <2>6. SessionKeeps
    BY <2>1 DEF CloseShape, SessionKeeps
  <2>7. CloseShape' /\ CloseCommon'
    BY <2>1, <2>2, <2>3, <2>4, <2>5, <2>6, WindsOpen, ReportKeeps, CommonKeeps
    DEF Goto, CloseShape, LocalMoves, SessionKeeps, Winds, Actors, Nil, Opener
  <2>8. GPClosing'
    BY <2>1, <2>2, <2>3, <2>4, <2>5, <2>6, <2>7
    DEF Goto, LocalMoves, SessionKeeps, Winds, GPClosing, CloseCommon, ClosedTerms, CloseShape, Actors, Nil,
        Opener
  <2> QED
    BY <2>7, <2>8
<1>20. ASSUME GPWritePacket PROVE CloseShape' /\ CloseCommon' /\ GPClosing'
  <2>1. WriteToChannel /\ UNCHANGED <<client, session, conn>>
    BY <1>20 DEF GPWritePacket
  <2>2. Winds /\ LocalMoves("writer") /\ (UNCHANGED pc \/ Goto("writer", "done"))
    BY <2>1, WriteToChannelMoves
  <2>3. Winds /\ DOMAIN local' = DOMAIN local /\ local'.channel \in [Actors -> Nat] /\ local'.taken = local.taken
    BY <2>2 DEF LocalMoves
  <2>4. \A b \in Opener : local'.channel[b] = local.channel[b]
    BY <2>2 DEF LocalMoves, Opener, Actors
  <2>5. DOMAIN pc' = Actors /\ \A b \in {"start", "control", "closer"} : pc'[b] = pc[b]
    BY <2>2 DEF Opener, Goto, CloseShape, Actors
  <2>6. SessionKeeps
    BY <2>1 DEF CloseShape, SessionKeeps
  <2>7. CloseShape' /\ CloseCommon'
    BY <2>1, <2>3, <2>4, <2>5, <2>6, WindsOpen, ReportKeeps, CommonKeeps
    DEF Goto, CloseShape, LocalMoves, SessionKeeps, Winds, Actors, Nil, Opener
  <2>8. GPClosing'
    BY <2>1, <2>3, <2>4, <2>5, <2>6, <2>7, SMTT(30)
    DEF Goto, LocalMoves, SessionKeeps, Winds, GPClosing, CloseCommon, ClosedTerms, CloseShape, Actors, Nil,
        Opener
  <2> QED
    BY <2>7, <2>8
<1>21. ASSUME GPClose PROVE CloseShape' /\ CloseCommon' /\ GPClosing'
  <2>1. Winds
    BY <1>21, UnchangedWinds DEF GPClose
  <2>2. CloseShape'
    BY <1>21, CallKeeps DEF GPClose, CallTerminate, Goto, CloseShape, Actors, Nil
  <2>3. CloseCommon'
    BY <1>21, <2>1, CallKeeps, <2>2
    DEF GPClose, At, CallTerminate, Goto, CloseCommon, ClosedTerms, Winds, CloseShape, Actors,
        Nil
  <2>4. GPClosing'
    BY <1>21, <2>1, CallKeeps, <2>2
    DEF GPClose, At, CallTerminate, Goto, GPClosing, CloseCommon, ClosedTerms, Winds,
        CloseShape, Actors, Nil, Opener, OwnChannel
  <2> QED
    BY <2>2, <2>3, <2>4
<1>22. ASSUME GPJoin PROVE CloseShape' /\ CloseCommon' /\ GPClosing'
  <2>1. pc["closer"] = "join" /\ Goto("closer", "done") /\ pc["start"] \in {"none", "failed", "running"}
        /\ pc["control"] \in {"none", "exited"}
    BY <1>22 DEF GPJoin, At, Finished
  <2>2. UNCHANGED <<client, session, conn, channels, keys, local>>
    BY <1>22 DEF GPJoin
  <2>3. Winds
    BY <2>2, UnchangedWinds
  <2>4. CloseShape'
    BY <2>1, <2>2, <2>3
    DEF Goto, CloseShape, LocalMoves, SessionKeeps, Winds, Actors, Nil, Opener
  <2>5. CloseCommon'
    BY <2>1, <2>2 DEF CloseCommon, Goto, CloseShape, Actors
  <2>6. GPClosing'
    BY <2>1, <2>2, <2>3, <2>4
    DEF Goto, LocalMoves, SessionKeeps, Winds, GPClosing, CloseCommon, ClosedTerms, CloseShape,
        Actors, Nil, Opener
  <2> QED
    BY <2>4, <2>5, <2>6
<1>23. ASSUME GPTerminateStep PROVE CloseShape' /\ CloseCommon' /\ GPClosing'
  <2>0. UNCHANGED <<pc, conn>>
    BY <1>23 DEF GPTerminateStep
  <2>1. CASE /\ session.term = "called"
             /\ session' = [session EXCEPT !.term = "cancelled", !.cancelled = TRUE]
             /\ UNCHANGED <<client, channels, keys, local>>
    <3>1. DOMAIN session' = DOMAIN session /\ session'.own = session.own /\ session'.ready = session.ready
          /\ session'.closed = session.closed /\ session'.term = "cancelled"
      BY <2>1 DEF CloseShape
    <3>2. UNCHANGED <<client, channels, keys, local>> /\ session.term = "called"
      BY <2>1
    <3>3. Winds
      BY <3>2, UnchangedWinds
    <3>4. CloseShape'
      BY <2>0, <3>1, <3>2, <3>3
      DEF Goto, CloseShape, LocalMoves, SessionKeeps, Winds, Actors, Nil
    <3>5. CloseCommon'
      BY <2>0, <3>1, <3>2 DEF CloseCommon, ClosedTerms
    <3>6. GPClosing'
      BY <2>0, <3>1, <3>2, <3>3, <3>4
      DEF Goto, LocalMoves, SessionKeeps, Winds, GPClosing, CloseCommon, ClosedTerms,
          CloseShape, Actors, Nil, Opener
    <3> QED
      BY <3>4, <3>5, <3>6
  <2>2. CASE /\ session.term = "cancelled"
             /\ session' = [session EXCEPT !.term = "taken", !.ready = FALSE, !.closed = TRUE,
                                           !.phase = "closed", !.generation = @ + 1, !.own = Nil]
             /\ local' = [local EXCEPT !.taken = session.own]
             /\ UNCHANGED <<client, channels, keys>>
    <3>1. DOMAIN session' = DOMAIN session /\ session'.own = Nil /\ session'.ready = FALSE
          /\ session'.closed = TRUE /\ session'.term = "taken"
      BY <2>2 DEF CloseShape
    <3>2. DOMAIN local' = DOMAIN local /\ local'.taken = session.own /\ local'.channel = local.channel
      BY <2>2 DEF CloseShape
    <3>3. UNCHANGED <<client, channels, keys>> /\ session.term = "cancelled"
      BY <2>2
    <3>4. Winds
      BY <3>3, UnchangedWinds
    <3>5. CloseShape'
      BY <2>0, <3>1, <3>2, <3>3, <3>4
      DEF Goto, CloseShape, LocalMoves, SessionKeeps, Winds, Actors, Nil
    <3>6. CloseCommon'
      BY <2>0, <3>1, <3>3 DEF CloseCommon, ClosedTerms
    <3>7. GPClosing'
      BY <2>0, <3>1, <3>2, <3>3, <3>4, <3>5
      DEF Goto, LocalMoves, SessionKeeps, Winds, GPClosing, CloseCommon, ClosedTerms,
          CloseShape, Actors, Nil, Opener
    <3> QED
      BY <3>5, <3>6, <3>7
  <2>3. CASE /\ session.term = "taken"
             /\ client' = StopActiveTransport(client, Self)
             /\ TerminateChannel(local.taken, "nil")
             /\ session' = [session EXCEPT !.term = "closing"]
             /\ UNCHANGED local
    <3>1. DOMAIN session' = DOMAIN session /\ session'.own = session.own /\ session'.ready = session.ready
          /\ session'.closed = session.closed /\ session'.term = "closing"
      BY <2>3 DEF CloseShape
    <3>2. ClientShape(client') /\ client'.transportSession # Self
      BY <2>3, StopWithdraws DEF CloseShape
    <3>3. Winds /\ \A d \in 1 .. MaxChannels : Running(d)' => d # local.taken
      BY <2>3, TerminateAnyWinds DEF CloseShape
    <3>4. session.term = "taken" /\ UNCHANGED local
      BY <2>3
    <3>5. AliveOpen
      BY <3>3, WindsOpen
    <3>6. CloseShape'
      BY <2>0, <3>1, <3>2, <3>3, <3>4, <3>5
      DEF Goto, CloseShape, LocalMoves, SessionKeeps, Winds, Actors, Nil
    <3>7. CloseCommon'
      BY <2>0, <3>1, <3>2, <3>4, <3>5 DEF CloseCommon, ClosedTerms, AliveOpen, GPClosing
    <3>8. GPClosing'
      BY <2>0, <3>1, <3>2, <3>3, <3>4, <3>5, <3>6
      DEF Goto, LocalMoves, SessionKeeps, Winds, GPClosing, CloseCommon, ClosedTerms,
          CloseShape, Actors, Nil, Opener
    <3> QED
      BY <3>6, <3>7, <3>8
  <2>4. CASE /\ session.term = "closing"
             /\ keys' = IF keys = "live" THEN "destroyed" ELSE keys
             /\ session' = [session EXCEPT !.term = "done"]
             /\ local' = [local EXCEPT !.taken = Nil]
             /\ UNCHANGED <<client, channels>>
    <3>1. DOMAIN session' = DOMAIN session /\ session'.own = session.own /\ session'.ready = session.ready
          /\ session'.closed = session.closed /\ session'.term = "done"
      BY <2>4 DEF CloseShape
    <3>2. DOMAIN local' = DOMAIN local /\ local'.taken = Nil /\ local'.channel = local.channel
      BY <2>4 DEF CloseShape
    <3>3. Winds /\ keys' # "live" /\ UNCHANGED <<client, channels>> /\ session.term = "closing"
      BY <2>4, KeysWinds
    <3>4. CloseShape'
      BY <2>0, <3>1, <3>2, <3>3
      DEF Goto, CloseShape, LocalMoves, SessionKeeps, Winds, Actors, Nil
    <3>5. CloseCommon'
      BY <2>0, <3>1, <3>3 DEF CloseCommon, ClosedTerms
    <3>6. GPClosing'
      BY <2>0, <3>1, <3>2, <3>3, <3>4
      DEF Goto, LocalMoves, SessionKeeps, Winds, GPClosing, CloseCommon, ClosedTerms,
          CloseShape, Actors, Nil, Opener
    <3> QED
      BY <3>4, <3>5, <3>6
  <2> QED
    BY <1>23, <2>1, <2>2, <2>3, <2>4 DEF GPTerminateStep, GPTerminate
<1> QED
  BY <1>1, <1>2, <1>3, <1>4, <1>5, <1>6, <1>7, <1>8, <1>9, <1>10, <1>11, <1>12, <1>13, <1>14,
      <1>15, <1>16, <1>17, <1>18, <1>19, <1>20, <1>21, <1>22, <1>23

LEMMA GPCloses2 ==
    ASSUME TunnelAssumption, CloseShape, CloseCommon, GPClosing, UNCHANGED <<flavor, link>>, NEW a \in Opener
    PROVE  (\/ GPClaim(a) \/ GPCloseOld(a) \/ GPJoinOld(a) \/ GPNoGPST(a) \/ GPNewGPST(a)
            \/ GPDialGPST(a) \/ GPGPSTDown(a) \/ GPGPSTUp(a) \/ GPAbandon(a) \/ GPReportGPST(a))
           => CloseShape' /\ CloseCommon' /\ GPClosing'
<1>1. ASSUME GPClaim(a) PROVE CloseShape' /\ CloseCommon' /\ GPClosing'
  <2>0. a \in Actors /\ a # "closer" /\ pc[a] = "claim" /\ UNCHANGED <<client, conn, channels, keys>>
    BY <1>1 DEF GPClaim, At, Actors, Opener
  <2>1. Winds
    BY <2>0, UnchangedWinds
  <2>2. CASE session.closed
    <3>1. Goto(a, "terminating") /\ session' = Called(session) /\ UNCHANGED local
      BY <1>1, <2>2 DEF GPClaim, CallTerminate
    <3>2. SessionKeeps /\ session'.own = session.own /\ session'.ready = session.ready
      BY <3>1, CalledKeeps
    <3>3. CloseShape'
      BY <2>0, <2>1, <3>1, <3>2
      DEF Goto, CloseShape, LocalMoves, SessionKeeps, Winds, Actors, Nil, Opener
    <3>4. CloseCommon'
      BY <2>0, <2>1, <3>1, <3>2, WindsOpen, ReportKeeps, CommonKeeps
      DEF Goto, CloseShape, Actors, SessionKeeps, Nil, Opener
    <3>5. GPClosing'
      BY <2>0, <2>1, <3>1, <3>2, <3>3
      DEF Goto, LocalMoves, SessionKeeps, Winds, GPClosing, CloseCommon, ClosedTerms,
          CloseShape, Actors, Nil, Opener
    <3> QED
      BY <3>3, <3>4, <3>5
  <2>3. CASE ~session.closed
    <3>1. session' = [session EXCEPT !.ready = FALSE, !.generation = @ + 1, !.own = Nil, !.phase = "startingGPST"]
          /\ local' = [local EXCEPT !.channel[a] = session.own, !.generation = session.generation + 1]
          /\ Goto(a, "closeOld")
      BY <1>1, <2>3 DEF GPClaim
    <3>2. SessionKeeps /\ session'.own = Nil /\ session'.ready = FALSE /\ session'.term = session.term
      BY <3>1 DEF CloseShape, SessionKeeps
    <3>3. LocalMoves(a) /\ local'.channel[a] = session.own
      BY <3>1, <2>0 DEF CloseShape, LocalMoves
    <3>4. Goto(a, "closeOld")
      BY <3>1
    <3>5. CloseShape'
      BY Zenon, <2>0, <2>1, <2>3, <3>1, <3>2, <3>3, <3>4
      DEF Goto, CloseShape, LocalMoves, SessionKeeps, Winds, Actors, Nil, Opener
    <3>6. CloseCommon'
      BY <2>0, <2>1, <2>3, <3>1, <3>2, <3>3, <3>4, WindsOpen, ReportKeeps, CommonKeeps
      DEF Goto, CloseShape, Actors, SessionKeeps, Nil, Opener
    <3>7. GPClosing'
      BY <2>0, <2>1, <2>3, <3>1, <3>2, <3>3, <3>4, <3>5
      DEF Goto, LocalMoves, SessionKeeps, Winds, GPClosing, CloseCommon, ClosedTerms,
          CloseShape, Actors, Nil, Opener
    <3> QED
      BY <3>5, <3>6, <3>7
  <2> QED
    BY <2>2, <2>3
<1>2. ASSUME GPCloseOld(a) PROVE CloseShape' /\ CloseCommon' /\ GPClosing'
  <2>1. a \in Actors /\ local.channel[a] \in Nat /\ a # "closer" /\ pc[a] = "closeOld"
    BY <1>2 DEF GPCloseOld, At, CloseShape, Actors, Opener
  <2>2. Goto(a, "joinOld") /\ TerminateChannel(local.channel[a], "nil") /\ UNCHANGED <<client, session, conn, local>>
    BY <1>2 DEF GPCloseOld, OwnChannel
  <2>3. Winds /\ \A d \in 1 .. MaxChannels : Running(d)' => d # local.channel[a]
    BY <2>1, <2>2, TerminateAnyWinds
  <2>4. SessionKeeps
    BY <2>2 DEF CloseShape, SessionKeeps
  <2>5. CloseShape' /\ CloseCommon'
    BY <2>1, <2>2, <2>3, <2>4, WindsOpen, ReportKeeps, CommonKeeps
    DEF Goto, CloseShape, LocalMoves, SessionKeeps, Winds, Actors, Nil, Opener
  <2>6. GPClosing'
    BY <2>1, <2>2, <2>3, <2>4, <2>5
    DEF Goto, LocalMoves, SessionKeeps, Winds, GPClosing, CloseCommon, ClosedTerms, CloseShape, Actors, Nil,
        Opener
  <2> QED
    BY <2>5, <2>6
<1>3. ASSUME GPJoinOld(a) PROVE CloseShape' /\ CloseCommon' /\ GPClosing'
  <2>1. a \in Actors /\ local.channel[a] \in Nat /\ a # "closer" /\ pc[a] = "joinOld"
    BY <1>3 DEF GPJoinOld, At, CloseShape, Actors, Opener
  <2>2. (\E l \in {"check", "gpst"} : Goto(a, l)) /\ Report(NoTransport) /\ UNCHANGED <<session, conn, channels, local>>
    BY <1>3 DEF GPJoinOld
  <2>3. keys' \in {keys, "destroyed"}
    BY <1>3 DEF GPJoinOld
  <2>4. Winds
    BY <2>2, <2>3, KeysWinds
  <2>5. ClientShape(client') /\ client'.transportSession = client.transportSession
    BY <2>2, ReportKeeps DEF CloseShape
  <2>6. SessionKeeps
    BY <2>2 DEF CloseShape, SessionKeeps
  <2>7. CloseShape' /\ CloseCommon'
    BY <2>1, <2>2, <2>3, <2>4, <2>5, <2>6, WindsOpen, ReportKeeps, CommonKeeps
    DEF Goto, CloseShape, LocalMoves, SessionKeeps, Winds, Actors, Nil, Opener
  <2>8. GPClosing'
    BY <2>1, <2>2, <2>3, <2>4, <2>5, <2>6, <2>7
    DEF Goto, LocalMoves, SessionKeeps, Winds, GPClosing, CloseCommon, ClosedTerms, CloseShape, Actors, Nil,
        Opener
  <2> QED
    BY <2>7, <2>8
<1>4. ASSUME GPNoGPST(a) PROVE CloseShape' /\ CloseCommon' /\ GPClosing'
  <2>1. Winds
    BY <1>4, UnchangedWinds DEF GPNoGPST
  <2>2. CloseShape'
    BY <1>4, CallKeeps DEF GPNoGPST, CallTerminate, Goto, CloseShape, Actors, Nil
  <2>3. CloseCommon'
    BY <1>4, <2>1, CallKeeps, <2>2
    DEF GPNoGPST, At, CallTerminate, Goto, CloseCommon, ClosedTerms, Winds, CloseShape, Actors,
        Nil
  <2>4. GPClosing'
    BY <1>4, <2>1, CallKeeps, <2>2
    DEF GPNoGPST, At, CallTerminate, Goto, GPClosing, CloseCommon, ClosedTerms, Winds,
        CloseShape, Actors, Nil, Opener, OwnChannel
  <2> QED
    BY <2>2, <2>3, <2>4
<1>5. ASSUME GPNewGPST(a) PROVE CloseShape' /\ CloseCommon' /\ GPClosing'
  <2>0. /\ MayCreateChannel /\ Holding(a, NextChannel) /\ pc[a] = "gpst"
        /\ UNCHANGED <<client, conn, keys>>
    BY <1>5 DEF GPNewGPST, At
  <2>1. NextChannel \in 1 .. MaxChannels /\ NextChannel \in Nat /\ a \in Actors /\ a # "closer" /\ "gpst" \in Kinds
    BY <2>0, NextChannelType DEF Actors, Kinds, Opener
  <2>2. LocalMoves(a) /\ local'.channel[a] = NextChannel
    BY <2>0, <2>1, HoldingMoves
  <2>3. CASE Superseded \/ session.phase # "startingGPST"
    <3>1. channels' = [channels EXCEPT ![NextChannel] = Terminated(NewChannel("gpst"), "nil")]
          /\ Goto(a, "terminating") /\ session' = Called(session)
      BY <1>5, <2>3 DEF GPNewGPST, CallTerminate
    <3>2. channels' \in [1 .. MaxChannels -> Channel] /\ AliveOpen
      BY Zenon, <3>1, <2>1, MadeOpen
    <3>3. \A d \in 1 .. MaxChannels : Running(d)' => Running(d)
      BY Zenon, <3>1, <2>1, MadeClosed
    <3>4. SessionKeeps /\ session'.own = session.own /\ session'.ready = session.ready
      BY <3>1, CalledKeeps
    <3>5. Goto(a, "terminating")
      BY <3>1
    <3>6. \A b \in Opener : b # a => local'.channel[b] = local.channel[b] /\ pc'[b] = pc[b]
      BY Zenon, <3>1, <2>0, <2>1, <2>2 DEF LocalMoves, Opener, Actors, Goto, CloseShape
    <3>7. CloseShape'
      BY <2>0, <2>1, <2>2, <3>1, <3>2, <3>3, <3>4, <3>5, <3>6
      DEF Goto, CloseShape, LocalMoves, SessionKeeps, Winds, Actors, Nil, Opener
    <3>8. CloseCommon'
      BY <2>0, <2>1, <2>2, <3>1, <3>2, <3>3, <3>4, <3>5, <3>6, WindsOpen, ReportKeeps, CommonKeeps
      DEF Goto, CloseShape, Actors, SessionKeeps, Nil, Opener
    <3>9. GPClosing'
      BY <2>0, <2>1, <2>2, <3>1, <3>2, <3>3, <3>4, <3>5, <3>6, <3>7, SMTT(30)
      DEF Goto, LocalMoves, SessionKeeps, Winds, GPClosing, CloseCommon, ClosedTerms,
          CloseShape, Actors, Nil, Opener
    <3> QED
      BY <3>7, <3>8, <3>9
  <2>4. CASE ~(Superseded \/ session.phase # "startingGPST")
    <3>1. session' = [session EXCEPT !.own = NextChannel]
          /\ channels' = [channels EXCEPT ![NextChannel] = Dialing(NewChannel("gpst"))]
          /\ Goto(a, "gpstDial") /\ ~session.closed
      BY <1>5, <2>4 DEF GPNewGPST, Superseded
    <3>2. channels' \in [1 .. MaxChannels -> Channel] /\ AliveOpen
          /\ \A d \in 1 .. MaxChannels : Running(d)' => d = NextChannel \/ Running(d)
      BY Zenon, <3>1, <2>1, MadeOpen
    <3>3. SessionKeeps /\ session'.own = NextChannel /\ session'.ready = session.ready /\ session'.term = session.term
      BY <3>1 DEF CloseShape, SessionKeeps
    <3>4. CloseShape'
      BY <2>0, <2>1, <2>2, <3>1, <3>2, <3>3
      DEF Goto, CloseShape, LocalMoves, SessionKeeps, Winds, Actors, Nil, Opener
    <3>5. CloseCommon'
      BY <2>0, <2>1, <2>2, <3>1, <3>2, <3>3, WindsOpen, ReportKeeps, CommonKeeps
      DEF Goto, CloseShape, Actors, SessionKeeps, Nil, Opener
    <3>6. GPClosing'
      BY <2>0, <2>1, <2>2, <3>1, <3>2, <3>3, <3>4, SMTT(30)
      DEF Goto, LocalMoves, SessionKeeps, Winds, GPClosing, CloseCommon, ClosedTerms,
          CloseShape, Actors, Nil, Opener
    <3> QED
      BY <3>4, <3>5, <3>6
  <2> QED
    BY <2>3, <2>4
<1>6. ASSUME GPDialGPST(a) PROVE CloseShape' /\ CloseCommon' /\ GPClosing'
  <2>1. a \in Actors /\ local.channel[a] \in Nat /\ a # "closer" /\ pc[a] = "gpstDial"
    BY <1>6 DEF GPDialGPST, At, CloseShape, Actors, Opener
  <2>2. DialEnds(a, local.channel[a], "gpstUp", "gpstDown", {"err", "fatal"}) /\ {"err", "fatal"} \in SUBSET {"err", "fatal"}
    BY <1>6 DEF GPDialGPST, OwnChannel
  <2>3. /\ Winds
        /\ \/ Goto(a, "gpstUp")
           \/ Goto(a, "gpstDown") /\ \A d \in 1 .. MaxChannels : Running(d)' => d # local.channel[a]
    BY <2>1, <2>2, DialWinds
  <2>4. UNCHANGED <<client, session, conn, local>> /\ SessionKeeps
    BY <1>6 DEF GPDialGPST, CloseShape, SessionKeeps
  <2>5. CloseShape'
    BY <2>1, <2>2, <2>3, <2>4
    DEF Goto, CloseShape, LocalMoves, SessionKeeps, Winds, Actors, Nil, Opener
  <2>6. CloseCommon'
    <3>1. AliveOpen
      BY <2>1, <2>2, <2>3, <2>4, WindsOpen
    <3>2. /\ pc'["closer"] = pc["closer"] \/ pc'["closer"] \notin {"join", "done"}
          /\ client'.transportSession = client.transportSession
      BY <2>1, <2>2, <2>3, <2>4, ReportKeeps DEF Goto, CloseShape, Actors, Opener
    <3>3. SessionKeeps /\ (session'.own \in {session.own, Nil} \/ ~session.closed)
      BY <2>1, <2>2, <2>3, <2>4 DEF SessionKeeps, CloseShape, Nil
    <3> QED
      BY <3>1, <3>2, <3>3, CommonKeeps
  <2>7. GPClosing'
    BY <2>1, <2>2, <2>3, <2>4, <2>5
    DEF Goto, LocalMoves, SessionKeeps, Winds, GPClosing, CloseCommon, ClosedTerms, CloseShape,
        Actors, Nil, Opener
  <2> QED
    BY <2>5, <2>6, <2>7
<1>7. ASSUME GPGPSTDown(a) PROVE CloseShape' /\ CloseCommon' /\ GPClosing'
  <2>1. a \in Actors /\ local.channel[a] \in Nat /\ a # "closer" /\ pc[a] = "gpstDown"
    BY <1>7 DEF GPGPSTDown, At, CloseShape, Actors, Opener
  <2>2. Goto(a, "terminating") /\ UNCHANGED <<client, conn, channels, keys, local>>
    BY <1>7 DEF GPGPSTDown
  <2>3. SessionKeeps /\ session'.own = (IF session.own = local.channel[a] THEN Nil ELSE session.own) /\ session'.ready = session.ready
    BY <1>7 DEF GPGPSTDown, OwnChannel, Called, CloseShape, SessionKeeps
  <2>4. Winds
    BY <2>2, UnchangedWinds
  <2>5. CloseShape' /\ CloseCommon'
    BY <2>1, <2>2, <2>3, <2>4, WindsOpen, ReportKeeps, CommonKeeps
    DEF Goto, CloseShape, LocalMoves, SessionKeeps, Winds, Actors, Nil, Opener
  <2>6. GPClosing'
    BY <2>1, <2>2, <2>3, <2>4, <2>5
    DEF Goto, LocalMoves, SessionKeeps, Winds, GPClosing, CloseCommon, ClosedTerms, CloseShape, Actors, Nil,
        Opener
  <2> QED
    BY <2>5, <2>6
<1>8. ASSUME GPGPSTUp(a) PROVE CloseShape' /\ CloseCommon' /\ GPClosing'
  <2>1. a \in Actors /\ local.channel[a] \in Nat /\ a # "closer" /\ pc[a] = "gpstUp"
    BY <1>8 DEF GPGPSTUp, At, CloseShape, Actors, Opener
  <2>2. (\E l \in {"abandon", "reportGPST"} : Goto(a, l)) /\ UNCHANGED <<client, conn, local>>
    BY <1>8 DEF GPGPSTUp
  <2>3. Winds
    BY <1>8, <2>1, TerminateAnyWinds, UnchangedWinds DEF GPGPSTUp, OwnChannel
  <2>4. SessionKeeps /\ session'.own = session.own /\ session'.term = session.term
        /\ (session.closed => session'.ready = session.ready)
    BY <1>8, ZenonT(30) DEF GPGPSTUp, CloseShape, SessionKeeps, Superseded
  <2>5. CloseShape' /\ CloseCommon'
    BY <2>1, <2>2, <2>3, <2>4, WindsOpen, ReportKeeps, CommonKeeps
    DEF Goto, CloseShape, LocalMoves, SessionKeeps, Winds, Actors, Nil, Opener
  <2>6. GPClosing'
    BY <2>1, <2>2, <2>3, <2>4, <2>5
    DEF Goto, LocalMoves, SessionKeeps, Winds, GPClosing, CloseCommon, ClosedTerms, CloseShape, Actors, Nil,
        Opener
  <2> QED
    BY <2>5, <2>6
<1>9. ASSUME GPAbandon(a) PROVE CloseShape' /\ CloseCommon' /\ GPClosing'
  <2>1. Winds
    BY <1>9, UnchangedWinds DEF GPAbandon
  <2>2. CloseShape'
    BY <1>9, CallKeeps DEF GPAbandon, CallTerminate, Goto, CloseShape, Actors, Nil
  <2>3. CloseCommon'
    BY <1>9, <2>1, CallKeeps, <2>2
    DEF GPAbandon, At, CallTerminate, Goto, CloseCommon, ClosedTerms, Winds, CloseShape, Actors,
        Nil
  <2>4. GPClosing'
    BY <1>9, <2>1, CallKeeps, <2>2
    DEF GPAbandon, At, CallTerminate, Goto, GPClosing, CloseCommon, ClosedTerms, Winds,
        CloseShape, Actors, Nil, Opener, OwnChannel
  <2> QED
    BY <2>2, <2>3, <2>4
<1>10. ASSUME GPReportGPST(a) PROVE CloseShape' /\ CloseCommon' /\ GPClosing'
  <2>1. Winds
    BY <1>10, UnchangedWinds DEF GPReportGPST
  <2>2. CloseShape'
    BY <1>10, ReportKeeps DEF GPReportGPST, Goto, CloseShape, Actors, Nil
  <2>3. CloseCommon'
    BY <1>10, <2>1, ReportKeeps, <2>2
    DEF GPReportGPST, At, Goto, CloseCommon, ClosedTerms, Winds, CloseShape, Actors, Nil
  <2>4. GPClosing'
    BY <1>10, <2>1, ReportKeeps, <2>2
    DEF GPReportGPST, At, Goto, GPClosing, CloseCommon, ClosedTerms, Winds, CloseShape, Actors,
        Nil, Opener, OwnChannel
  <2> QED
    BY <2>2, <2>3, <2>4
<1> QED
  BY <1>1, <1>2, <1>3, <1>4, <1>5, <1>6, <1>7, <1>8, <1>9, <1>10

----------------------------------------------------------------------------
(* A Network Connect session. *)

LEMMA NCCloses1 ==
    ASSUME TunnelAssumption, CloseShape, CloseCommon, NCClosing, UNCHANGED <<flavor, link>>
    PROVE  (\/ NCStart \/ NCDial \/ NCSetupFails("request") \/ NCSetupFails("configure")
            \/ NCRequest \/ NCConfigure \/ NCInstall \/ NCReport \/ NCReadEnds \/ NCReadRekey
            \/ NCRekey \/ NCInstallKeys \/ NCCloseESP
            \/ NCLock("reader", "respond", "responding") \/ NCRespond \/ NCReadDisable
            \/ NCDisable \/ NCDisabled \/ NCNoESP \/ NCNewESP \/ NCDialESP \/ NCFirstProbe
            \/ NCStartFailed)
           => CloseShape' /\ CloseCommon' /\ NCClosing'
<1>1. ASSUME NCStart PROVE CloseShape' /\ CloseCommon' /\ NCClosing'
  <2>1. pc["start"] = "none" /\ \E l \in {"failed", "dial", "terminating"} : Goto("start", l)
    BY <1>1 DEF NCStart, CallTerminate, Ends, At, Selecting, WriterReturns
  <2>2. UNCHANGED <<client, conn, local, channels, keys>>
    BY <1>1 DEF NCStart
  <2>3. SessionKeeps /\ session'.own = session.own
    BY <1>1 DEF NCStart, CallTerminate, Ends, Called, Counted, LockESP, UnlockESP, CloseShape, SessionKeeps
  <2>4. Winds
    BY <2>2, UnchangedWinds
  <2>5. CloseShape' /\ CloseCommon'
    BY <2>1, <2>2, <2>3, <2>4, WindsOpen, ReportKeeps, CommonKeeps
    DEF Goto, CloseShape, LocalMoves, SessionKeeps, Winds, Actors, Nil
  <2>6. NCClosing'
    BY <2>1, <2>2, <2>3, <2>4, <2>5
    DEF Goto, LocalMoves, SessionKeeps, Winds, NCClosing, CloseCommon, ClosedTerms, CloseShape, Actors, Nil
  <2> QED
    BY <2>5, <2>6
<1>2. ASSUME NCDial PROVE CloseShape' /\ CloseCommon' /\ NCClosing'
  <2>1. UNCHANGED <<client, local, channels, keys>>
    BY <1>2 DEF NCDial
  <2>2. SessionKeeps /\ session'.own = session.own
    BY <1>2 DEF NCDial, CallTerminate, Ends, Called, Counted, LockESP, UnlockESP, CloseShape, SessionKeeps
  <2>3. DOMAIN conn' = DOMAIN conn /\ conn'.st \in {"open", "closed"}
    BY <1>2 DEF NCDial, CloseShape
  <2>4. Winds
    BY <2>1, UnchangedWinds
  <2>5. pc["start"] = "dial" /\ (Goto("start", "request") \/ (Goto("start", "terminating") /\ UNCHANGED conn))
    BY <1>2 DEF NCDial, At, CallTerminate
  <2>6. CloseShape' /\ CloseCommon'
    BY <2>1, <2>2, <2>3, <2>4, <2>5, WindsOpen, ReportKeeps, CommonKeeps
    DEF Goto, CloseShape, LocalMoves, SessionKeeps, Winds, Actors, Nil
  <2>7. NCClosing'
    BY <2>1, <2>2, <2>3, <2>4, <2>5, <2>6
    DEF Goto, LocalMoves, SessionKeeps, Winds, NCClosing, CloseCommon, ClosedTerms, CloseShape, Actors, Nil
  <2> QED
    BY <2>6, <2>7
<1>3. ASSUME NCSetupFails("request") PROVE CloseShape' /\ CloseCommon' /\ NCClosing'
  <2>1. pc["start"] = "request" /\ Goto("start", "terminating")
    BY <1>3 DEF NCSetupFails, CallTerminate, Ends, At, Selecting, WriterReturns
  <2>2. UNCHANGED <<client, local, channels, keys>>
    BY <1>3 DEF NCSetupFails
  <2>3. SessionKeeps /\ session'.own = session.own
    BY <1>3 DEF NCSetupFails, CallTerminate, Ends, Called, Counted, LockESP, UnlockESP, CloseShape, SessionKeeps
  <2>4. DOMAIN conn' = DOMAIN conn /\ conn'.st = "closed"
    BY <1>3 DEF NCSetupFails, CloseShape
  <2>5. Winds
    BY <2>2, UnchangedWinds
  <2>6. CloseShape' /\ CloseCommon'
    BY <2>1, <2>2, <2>3, <2>4, <2>5, WindsOpen, ReportKeeps, CommonKeeps
    DEF Goto, CloseShape, LocalMoves, SessionKeeps, Winds, Actors, Nil
  <2>7. NCClosing'
    BY <2>1, <2>2, <2>3, <2>4, <2>5, <2>6
    DEF Goto, LocalMoves, SessionKeeps, Winds, NCClosing, CloseCommon, ClosedTerms, CloseShape, Actors, Nil
  <2> QED
    BY <2>6, <2>7
<1>4. ASSUME NCSetupFails("configure") PROVE CloseShape' /\ CloseCommon' /\ NCClosing'
  <2>1. pc["start"] = "configure" /\ Goto("start", "terminating")
    BY <1>4 DEF NCSetupFails, CallTerminate, Ends, At, Selecting, WriterReturns
  <2>2. UNCHANGED <<client, local, channels, keys>>
    BY <1>4 DEF NCSetupFails
  <2>3. SessionKeeps /\ session'.own = session.own
    BY <1>4 DEF NCSetupFails, CallTerminate, Ends, Called, Counted, LockESP, UnlockESP, CloseShape, SessionKeeps
  <2>4. DOMAIN conn' = DOMAIN conn /\ conn'.st = "closed"
    BY <1>4 DEF NCSetupFails, CloseShape
  <2>5. Winds
    BY <2>2, UnchangedWinds
  <2>6. CloseShape' /\ CloseCommon'
    BY <2>1, <2>2, <2>3, <2>4, <2>5, WindsOpen, ReportKeeps, CommonKeeps
    DEF Goto, CloseShape, LocalMoves, SessionKeeps, Winds, Actors, Nil
  <2>7. NCClosing'
    BY <2>1, <2>2, <2>3, <2>4, <2>5, <2>6
    DEF Goto, LocalMoves, SessionKeeps, Winds, NCClosing, CloseCommon, ClosedTerms, CloseShape, Actors, Nil
  <2> QED
    BY <2>6, <2>7
<1>5. ASSUME NCRequest PROVE CloseShape' /\ CloseCommon' /\ NCClosing'
  <2>1. pc["start"] = "request" /\ Goto("start", "configure")
    BY <1>5 DEF NCRequest, CallTerminate, Ends, At, Selecting, WriterReturns
  <2>2. UNCHANGED <<client, session, conn, local, channels, keys>>
    BY <1>5 DEF NCRequest
  <2>3. SessionKeeps /\ session'.own = session.own
    BY <2>2 DEF CloseShape, SessionKeeps
  <2>4. Winds
    BY <2>2, UnchangedWinds
  <2>5. CloseShape' /\ CloseCommon'
    BY <2>1, <2>2, <2>3, <2>4, WindsOpen, ReportKeeps, CommonKeeps
    DEF Goto, CloseShape, LocalMoves, SessionKeeps, Winds, Actors, Nil
  <2>6. NCClosing'
    BY <2>1, <2>2, <2>3, <2>4, <2>5
    DEF Goto, LocalMoves, SessionKeeps, Winds, NCClosing, CloseCommon, ClosedTerms, CloseShape, Actors, Nil
  <2> QED
    BY <2>5, <2>6
<1>6. ASSUME NCConfigure PROVE CloseShape' /\ CloseCommon' /\ NCClosing'
  <2>1. pc["start"] = "configure" /\ Goto("start", "install")
    BY <1>6 DEF NCConfigure, CallTerminate, Ends, At, Selecting, WriterReturns
  <2>2. UNCHANGED <<client, session, local>>
    BY <1>6 DEF NCConfigure
  <2>3. SessionKeeps /\ session'.own = session.own
    BY <2>2 DEF CloseShape, SessionKeeps
  <2>4. DOMAIN conn' = DOMAIN conn /\ conn'.st \in {conn.st, "closed"}
    BY <1>6 DEF NCConfigure, CloseShape
  <2>5. UNCHANGED channels /\ keys' \in {"none", "live"}
    BY <1>6 DEF NCConfigure
  <2>6. AliveOpen /\ \A d \in 1 .. MaxChannels : Running(d)' <=> Running(d)
    BY <2>5 DEF CloseCommon, AliveOpen, Running
  <2>7. CloseShape' /\ CloseCommon'
    BY <2>1, <2>2, <2>3, <2>4, <2>5, <2>6, WindsOpen, ReportKeeps, CommonKeeps
    DEF Goto, CloseShape, LocalMoves, SessionKeeps, Winds, Actors, Nil
  <2>8. NCClosing'
    BY <2>1, <2>2, <2>3, <2>4, <2>5, <2>6, <2>7
    DEF Goto, LocalMoves, SessionKeeps, Winds, NCClosing, CloseCommon, ClosedTerms, CloseShape, Actors, Nil
  <2> QED
    BY <2>7, <2>8
<1>7. ASSUME NCInstall PROVE CloseShape' /\ CloseCommon' /\ NCClosing'
  <2>0. pc["start"] = "install" /\ UNCHANGED <<client, channels, local>>
    BY <1>7 DEF NCInstall, At
  <2>1. CASE session.closed
    <3>1. conn' = [conn EXCEPT !.st = "closed"] /\ keys' = (IF keys = "live" THEN "destroyed" ELSE keys)
          /\ Goto("start", "failed") /\ UNCHANGED session
      BY <1>7, <2>1 DEF NCInstall
    <3>2. DOMAIN conn' = DOMAIN conn /\ conn'.st = "closed" /\ keys' # "live" /\ keys' \in {keys, "destroyed"}
      BY <3>1 DEF CloseShape
    <3>3. Winds
      BY <3>2, <2>0, KeysWinds
    <3>4. SessionKeeps /\ session'.own = session.own
      BY <3>1 DEF CloseShape, SessionKeeps
    <3>5. CloseShape'
      BY <2>0, <3>1, <3>2, <3>3, <3>4
      DEF Goto, CloseShape, LocalMoves, SessionKeeps, Winds, Actors, Nil
    <3>6. CloseCommon'
      BY <2>0, <3>1, <3>2, <3>3, <3>4, WindsOpen, ReportKeeps, CommonKeeps
      DEF Goto, CloseShape, Actors, SessionKeeps, Nil
    <3>7. NCClosing'
      BY <2>0, <3>1, <3>2, <3>3, <3>4, <3>5
      DEF Goto, LocalMoves, SessionKeeps, Winds, NCClosing, CloseCommon, ClosedTerms,
          CloseShape, Actors, Nil
    <3> QED
      BY <3>5, <3>6, <3>7
  <2>2. CASE ~session.closed
    <3>1. session' = [session EXCEPT !.connected = TRUE, !.ready = TRUE]
          /\ Goto("start", "report") /\ UNCHANGED <<conn, keys>>
      BY <1>7, <2>2 DEF NCInstall
    <3>2. Winds
      BY <3>1, <2>0, UnchangedWinds
    <3>3. DOMAIN session' = DOMAIN session /\ session'.own = session.own /\ session'.closed = session.closed
          /\ session'.term = session.term /\ session'.connected
      BY <3>1 DEF CloseShape
    <3>4. session.term \notin ClosedTerms
      BY <2>2 DEF CloseCommon
    <3>5. CloseShape'
      BY <2>0, <2>2, <3>1, <3>2, <3>3, <3>4
      DEF Goto, CloseShape, LocalMoves, SessionKeeps, Winds, Actors, Nil
    <3>6. CloseCommon'
      BY <3>1, <3>2, <3>3, <3>4, <2>0, WindsOpen DEF CloseCommon, AliveOpen, Goto, CloseShape, Actors
    <3>7. NCClosing'
      BY <2>0, <2>2, <3>1, <3>2, <3>3, <3>4, <3>5
      DEF Goto, LocalMoves, SessionKeeps, Winds, NCClosing, CloseCommon, ClosedTerms,
          CloseShape, Actors, Nil
    <3> QED
      BY <3>5, <3>6, <3>7
  <2> QED
    BY <2>1, <2>2
<1>8. ASSUME NCReport PROVE CloseShape' /\ CloseCommon' /\ NCClosing'
  <2>1. /\ pc["start"] = "report"
        /\ pc' = [pc EXCEPT !["start"] = "running", !["reader"] = "read", !["control"] = "esp"]
    BY <1>8 DEF NCReport, At
  <2>2. UNCHANGED <<session, conn, local, channels, keys>>
    BY <1>8 DEF NCReport
  <2>3. ClientShape(client') /\ client'.transportSession = client.transportSession
    BY <1>8, ReportKeeps DEF NCReport, CloseShape
  <2>4. SessionKeeps /\ session'.own = session.own
    BY <2>2 DEF CloseShape, SessionKeeps
  <2>5. Winds
    BY <2>2, UnchangedWinds
  <2>6. CloseShape' /\ CloseCommon'
    BY <2>1, <2>2, <2>3, <2>4, <2>5, WindsOpen, ReportKeeps, CommonKeeps
    DEF Goto, CloseShape, LocalMoves, SessionKeeps, Winds, Actors, Nil
  <2>7. NCClosing'
    BY Zenon, <2>1, <2>2, <2>3, <2>4, <2>5, <2>6
    DEF Goto, LocalMoves, SessionKeeps, Winds, NCClosing, CloseCommon, ClosedTerms, CloseShape, Actors, Nil
  <2> QED
    BY <2>6, <2>7
<1>9. ASSUME NCReadEnds PROVE CloseShape' /\ CloseCommon' /\ NCClosing'
  <2>1. pc["reader"] = "read" /\ \E l \in {"exited", "terminating"} : Goto("reader", l)
    BY <1>9 DEF NCReadEnds, CallTerminate, Ends, At, Selecting, WriterReturns
  <2>2. UNCHANGED <<client, conn, local, channels, keys>>
    BY <1>9 DEF NCReadEnds
  <2>3. SessionKeeps /\ session'.own = session.own
    BY <1>9, ZenonT(30) DEF NCReadEnds, CallTerminate, Ends, Called, Counted, LockESP, UnlockESP, CloseShape, SessionKeeps
  <2>4. Winds
    BY <2>2, UnchangedWinds
  <2>5. CloseShape' /\ CloseCommon'
    BY <2>1, <2>2, <2>3, <2>4, WindsOpen, ReportKeeps, CommonKeeps
    DEF Goto, CloseShape, LocalMoves, SessionKeeps, Winds, Actors, Nil
  <2>6. NCClosing'
    BY <2>1, <2>2, <2>3, <2>4, <2>5
    DEF Goto, LocalMoves, SessionKeeps, Winds, NCClosing, CloseCommon, ClosedTerms, CloseShape, Actors, Nil
  <2> QED
    BY <2>5, <2>6
<1>10. ASSUME NCReadRekey PROVE CloseShape' /\ CloseCommon' /\ NCClosing'
  <2>1. UNCHANGED <<client, conn>>
    BY <1>10 DEF NCReadRekey
  <2>2. SessionKeeps /\ session'.own = session.own
    BY <1>10 DEF NCReadRekey, CallTerminate, Ends, Called, Counted, LockESP, UnlockESP, CloseShape, SessionKeeps
  <2>3. LocalMoves("reader")
    BY <1>10, HoldingMoves, UnchangedMoves DEF NCReadRekey, CloseShape, Actors, Nil
  <2>4. DOMAIN local' = DOMAIN local /\ local'.channel \in [Actors -> Nat] /\ local'.taken = local.taken
        /\ local'.channel["control"] = local.channel["control"]
    BY <2>3 DEF LocalMoves, Actors
  <2>5. session.own \in Nat
    BY DEF CloseShape
  <2>6. pc["reader"] = "read" /\ DOMAIN pc' = Actors /\ pc'["reader"] \in {"read", "rekey", "close"}
        /\ \A b \in {"start", "control", "closer"} : pc'[b] = pc[b]
    BY <1>10 DEF NCReadRekey, At, Goto, CloseShape, Actors
  <2>7. /\ pc["reader"] = "read" /\ (UNCHANGED pc \/ Goto("reader", "rekey") \/ Goto("reader", "close"))
        /\ UNCHANGED <<channels, keys>> \/ (\E err \in {"nil", "err", "exhausted", "fatal", "rekey"} : TerminateChannel(session.own, err))
    BY <1>10 DEF NCReadRekey, At
  <2>8. Winds
    BY <2>5, <2>7, TerminateAnyWinds, UnchangedWinds
  <2>9. CloseShape' /\ CloseCommon'
    BY <2>1, <2>2, <2>4, <2>5, <2>6, <2>8, WindsOpen, ReportKeeps, CommonKeeps
    DEF Goto, CloseShape, LocalMoves, SessionKeeps, Winds, Actors, Nil
  <2>10. NCClosing'
    BY <2>1, <2>2, <2>4, <2>5, <2>6, <2>8, <2>9, SMTT(30)
    DEF Goto, LocalMoves, SessionKeeps, Winds, NCClosing, CloseCommon, ClosedTerms, CloseShape, Actors, Nil
  <2> QED
    BY <2>9, <2>10
<1>11. ASSUME NCRekey PROVE CloseShape' /\ CloseCommon' /\ NCClosing'
  <2>1. pc["reader"] = "rekey" /\ \E l \in {"install", "terminating"} : Goto("reader", l)
    BY <1>11 DEF NCRekey, CallTerminate, Ends, At, Selecting, WriterReturns
  <2>2. UNCHANGED <<conn, channels, keys>>
    BY <1>11 DEF NCRekey
  <2>3. ClientShape(client') /\ client'.transportSession = client.transportSession
    BY <1>11, ReportKeeps DEF NCRekey, CloseShape
  <2>4. SessionKeeps /\ session'.own = session.own
    BY <1>11, ZenonT(30) DEF NCRekey, CallTerminate, Ends, Called, Counted, LockESP, UnlockESP, CloseShape, SessionKeeps
  <2>5. LocalMoves("reader")
    BY <1>11, ZenonT(30) DEF NCRekey, LocalMoves, CloseShape, Actors
  <2>6. DOMAIN local' = DOMAIN local /\ local'.channel \in [Actors -> Nat] /\ local'.taken = local.taken
        /\ local'.channel["control"] = local.channel["control"]
    BY <2>5 DEF LocalMoves, Actors
  <2>7. Winds
    BY <2>2, UnchangedWinds
  <2>8. CloseShape' /\ CloseCommon'
    BY <2>1, <2>2, <2>3, <2>4, <2>6, <2>7, WindsOpen, ReportKeeps, CommonKeeps
    DEF Goto, CloseShape, LocalMoves, SessionKeeps, Winds, Actors, Nil
  <2>9. NCClosing'
    BY <2>1, <2>2, <2>3, <2>4, <2>6, <2>7, <2>8, SMTT(30)
    DEF Goto, LocalMoves, SessionKeeps, Winds, NCClosing, CloseCommon, ClosedTerms, CloseShape, Actors, Nil
  <2> QED
    BY <2>8, <2>9
<1>12. ASSUME NCInstallKeys PROVE CloseShape' /\ CloseCommon' /\ NCClosing'
  <2>1. pc["reader"] = "install" /\ \E l \in {"respond", "close"} : Goto("reader", l)
    BY <1>12 DEF NCInstallKeys, CallTerminate, Ends, At, Selecting, WriterReturns
  <2>2. UNCHANGED <<client, session, conn, local>>
    BY <1>12 DEF NCInstallKeys
  <2>3. SessionKeeps /\ session'.own = session.own
    BY <2>2 DEF CloseShape, SessionKeeps
  <2>4. local.channel["reader"] \in Nat
    BY DEF CloseShape, Actors
  <2>5. UNCHANGED <<channels, keys>> \/ (\E err \in {"nil", "err", "exhausted", "fatal", "rekey"} : TerminateChannel(local.channel["reader"], err))
    BY <1>12 DEF NCInstallKeys
  <2>6. Winds
    BY <2>4, <2>5, TerminateAnyWinds, UnchangedWinds
  <2>7. CloseShape' /\ CloseCommon'
    BY <2>1, <2>2, <2>3, <2>4, <2>5, <2>6, WindsOpen, ReportKeeps, CommonKeeps
    DEF Goto, CloseShape, LocalMoves, SessionKeeps, Winds, Actors, Nil
  <2>8. NCClosing'
    BY <2>1, <2>2, <2>3, <2>4, <2>5, <2>6, <2>7
    DEF Goto, LocalMoves, SessionKeeps, Winds, NCClosing, CloseCommon, ClosedTerms, CloseShape, Actors, Nil
  <2> QED
    BY <2>7, <2>8
<1>13. ASSUME NCCloseESP PROVE CloseShape' /\ CloseCommon' /\ NCClosing'
  <2>1. UNCHANGED <<client, conn, channels, keys>>
    BY <1>13 DEF NCCloseESP
  <2>2. SessionKeeps /\ session'.own = session.own
    BY <1>13 DEF NCCloseESP, CallTerminate, Ends, Called, Counted, LockESP, UnlockESP, CloseShape, SessionKeeps
  <2>3. LocalMoves("reader")
    BY <1>13, HoldingMoves, UnchangedMoves DEF NCCloseESP, CloseShape, Actors, Nil
  <2>4. DOMAIN local' = DOMAIN local /\ local'.channel \in [Actors -> Nat] /\ local'.taken = local.taken
        /\ local'.channel["control"] = local.channel["control"]
    BY <2>3 DEF LocalMoves, Actors
  <2>5. Winds
    BY <2>1, UnchangedWinds
  <2>6. pc["reader"] = "close" /\ DOMAIN pc' = Actors /\ pc'["reader"] = "read"
        /\ \A b \in {"start", "control", "closer"} : pc'[b] = pc[b]
    BY <1>13 DEF NCCloseESP, At, Goto, CloseShape, Actors
  <2>7. CloseShape' /\ CloseCommon'
    BY <2>1, <2>2, <2>4, <2>5, <2>6, WindsOpen, ReportKeeps, CommonKeeps
    DEF Goto, CloseShape, LocalMoves, SessionKeeps, Winds, Actors, Nil
  <2>8. NCClosing'
    BY <2>1, <2>2, <2>4, <2>5, <2>6, <2>7, SMTT(30)
    DEF Goto, LocalMoves, SessionKeeps, Winds, NCClosing, CloseCommon, ClosedTerms, CloseShape, Actors, Nil
  <2> QED
    BY <2>7, <2>8
<1>14. ASSUME NCLock("reader", "respond", "responding") PROVE CloseShape' /\ CloseCommon' /\ NCClosing'
  <2>1. pc["reader"] = "respond" /\ Goto("reader", "responding")
    BY <1>14 DEF NCLock, CallTerminate, Ends, At, Selecting, WriterReturns
  <2>2. UNCHANGED <<client, session, local, channels, keys>>
    BY <1>14 DEF NCLock
  <2>3. SessionKeeps /\ session'.own = session.own
    BY <2>2 DEF CloseShape, SessionKeeps
  <2>4. DOMAIN conn' = DOMAIN conn /\ conn'.st = conn.st
    BY <1>14 DEF NCLock, Acquire, WriteEnds, CloseShape
  <2>5. Winds
    BY <2>2, UnchangedWinds
  <2>6. CloseShape' /\ CloseCommon'
    BY <2>1, <2>2, <2>3, <2>4, <2>5, WindsOpen, ReportKeeps, CommonKeeps
    DEF Goto, CloseShape, LocalMoves, SessionKeeps, Winds, Actors, Nil
  <2>7. NCClosing'
    BY <2>1, <2>2, <2>3, <2>4, <2>5, <2>6
    DEF Goto, LocalMoves, SessionKeeps, Winds, NCClosing, CloseCommon, ClosedTerms, CloseShape, Actors, Nil
  <2> QED
    BY <2>6, <2>7
<1>15. ASSUME NCRespond PROVE CloseShape' /\ CloseCommon' /\ NCClosing'
  <2>1. pc["reader"] = "responding" /\ \E l \in {"read", "terminating"} : Goto("reader", l)
    BY Zenon, <1>15 DEF NCRespond, CallTerminate, Ends, At, Selecting, WriterReturns
  <2>2. UNCHANGED <<channels, keys>>
    BY <1>15 DEF NCRespond
  <2>3. ClientShape(client') /\ client'.transportSession = client.transportSession
    BY Zenon, <1>15, ReportKeeps DEF NCRespond, CloseShape
  <2>4. \/ session' \in {Called(UnlockESP(session)), Called(UnlockESP(Counted(session)))}
        \/ \E b : session' = UnlockESP([session EXCEPT !.espEnabled = b])
    BY Zenon, <1>15 DEF NCRespond
  <2>5. SessionKeeps /\ session'.own = session.own
    BY Zenon, <2>4, UnlockKeeps
  <2>6. DOMAIN conn' = DOMAIN conn /\ conn'.st = conn.st
    BY <1>15 DEF NCRespond, Acquire, WriteEnds, CloseShape
  <2>7. LocalMoves("reader")
    BY Zenon, <1>15, HoldingMoves, UnchangedMoves DEF NCRespond, CloseShape, Actors, Nil
  <2>8. DOMAIN local' = DOMAIN local /\ local'.channel \in [Actors -> Nat] /\ local'.taken = local.taken
        /\ local'.channel["control"] = local.channel["control"]
    BY <2>7 DEF LocalMoves, Actors
  <2>9. Winds
    BY <2>2, UnchangedWinds
  <2>10. CloseShape' /\ CloseCommon'
    BY <2>1, <2>2, <2>3, <2>5, <2>6, <2>8, <2>9, WindsOpen, ReportKeeps, CommonKeeps
    DEF Goto, CloseShape, LocalMoves, SessionKeeps, Winds, Actors, Nil
  <2>11. NCClosing'
    BY <2>1, <2>2, <2>3, <2>5, <2>6, <2>8, <2>9, <2>10
    DEF Goto, LocalMoves, SessionKeeps, Winds, NCClosing, CloseCommon, ClosedTerms, CloseShape, Actors, Nil
  <2> QED
    BY <2>10, <2>11
<1>16. ASSUME NCReadDisable PROVE CloseShape' /\ CloseCommon' /\ NCClosing'
  <2>1. pc["reader"] = "read" /\ Goto("reader", "disable")
    BY <1>16 DEF NCReadDisable, CallTerminate, Ends, At, Selecting, WriterReturns
  <2>2. UNCHANGED <<client, conn, local, channels, keys>>
    BY <1>16 DEF NCReadDisable
  <2>3. SessionKeeps /\ session'.own = session.own
    BY <1>16 DEF NCReadDisable, CallTerminate, Ends, Called, Counted, LockESP, UnlockESP, CloseShape, SessionKeeps
  <2>4. Winds
    BY <2>2, UnchangedWinds
  <2>5. CloseShape' /\ CloseCommon'
    BY <2>1, <2>2, <2>3, <2>4, WindsOpen, ReportKeeps, CommonKeeps
    DEF Goto, CloseShape, LocalMoves, SessionKeeps, Winds, Actors, Nil
  <2>6. NCClosing'
    BY <2>1, <2>2, <2>3, <2>4, <2>5
    DEF Goto, LocalMoves, SessionKeeps, Winds, NCClosing, CloseCommon, ClosedTerms, CloseShape, Actors, Nil
  <2> QED
    BY <2>5, <2>6
<1>17. ASSUME NCDisable PROVE CloseShape' /\ CloseCommon' /\ NCClosing'
  <2>1. pc["reader"] = "disable" /\ Goto("reader", "disabled")
    BY <1>17 DEF NCDisable, CallTerminate, Ends, At, Selecting, WriterReturns
  <2>2. UNCHANGED <<client, conn, channels, keys>>
    BY <1>17 DEF NCDisable
  <2>3. SessionKeeps /\ session'.own = Nil
    BY <1>17 DEF NCDisable, CallTerminate, Ends, Called, Counted, LockESP, UnlockESP, CloseShape, SessionKeeps
  <2>4. LocalMoves("reader")
    BY <1>17 DEF NCDisable, LocalMoves, CloseShape, Actors
  <2>5. DOMAIN local' = DOMAIN local /\ local'.channel \in [Actors -> Nat] /\ local'.taken = local.taken
        /\ local'.channel["control"] = local.channel["control"]
    BY <2>4 DEF LocalMoves, Actors
  <2>6. local'.channel["reader"] = session.own
    BY <1>17 DEF NCDisable, Holding, CloseShape, Actors
  <2>7. Winds
    BY <2>2, UnchangedWinds
  <2>8. CloseShape' /\ CloseCommon'
    BY <2>1, <2>2, <2>3, <2>5, <2>6, <2>7, WindsOpen, ReportKeeps, CommonKeeps
    DEF Goto, CloseShape, LocalMoves, SessionKeeps, Winds, Actors, Nil
  <2>9. NCClosing'
    BY <2>1, <2>2, <2>3, <2>5, <2>6, <2>7, <2>8
    DEF Goto, LocalMoves, SessionKeeps, Winds, NCClosing, CloseCommon, ClosedTerms, CloseShape, Actors, Nil
  <2> QED
    BY <2>8, <2>9
<1>18. ASSUME NCDisabled PROVE CloseShape' /\ CloseCommon' /\ NCClosing'
  <2>1. pc["reader"] = "disabled" /\ Goto("reader", "close")
    BY <1>18 DEF NCDisabled, CallTerminate, Ends, At, Selecting, WriterReturns
  <2>2. UNCHANGED <<session, conn, local>>
    BY <1>18 DEF NCDisabled
  <2>3. ClientShape(client') /\ client'.transportSession = client.transportSession
    BY <1>18, ReportKeeps DEF NCDisabled, CloseShape
  <2>4. SessionKeeps /\ session'.own = session.own
    BY <2>2 DEF CloseShape, SessionKeeps
  <2>5. local.channel["reader"] \in Nat
    BY DEF CloseShape, Actors
  <2>6. (\E err \in {"nil", "err", "exhausted", "fatal", "rekey"} : TerminateChannel(local.channel["reader"], err))
    BY <1>18 DEF NCDisabled
  <2>7. Winds /\ \A d \in 1 .. MaxChannels : Running(d)' => d # local.channel["reader"]
    BY <2>5, <2>6, TerminateAnyWinds
  <2>8. CloseShape' /\ CloseCommon'
    BY <2>1, <2>2, <2>3, <2>4, <2>5, <2>6, <2>7, WindsOpen, ReportKeeps, CommonKeeps
    DEF Goto, CloseShape, LocalMoves, SessionKeeps, Winds, Actors, Nil
  <2>9. NCClosing'
    BY <2>1, <2>2, <2>3, <2>4, <2>5, <2>6, <2>7, <2>8
    DEF Goto, LocalMoves, SessionKeeps, Winds, NCClosing, CloseCommon, ClosedTerms, CloseShape, Actors, Nil
  <2> QED
    BY <2>8, <2>9
<1>19. ASSUME NCNoESP PROVE CloseShape' /\ CloseCommon' /\ NCClosing'
  <2>1. pc["control"] = "esp" /\ Goto("control", "select")
    BY <1>19 DEF NCNoESP, CallTerminate, Ends, At, Selecting, WriterReturns
  <2>2. UNCHANGED <<client, conn, local>>
    BY <1>19 DEF NCNoESP
  <2>3. SessionKeeps /\ session'.own = session.own
    BY <1>19 DEF NCNoESP, CallTerminate, Ends, Called, Counted, LockESP, UnlockESP, CloseShape, SessionKeeps
  <2>4. keys' \in {keys, "destroyed"} /\ UNCHANGED channels
    BY <1>19 DEF NCNoESP
  <2>5. Winds
    BY <2>4, KeysWinds
  <2>6. CloseShape' /\ CloseCommon'
    BY <2>1, <2>2, <2>3, <2>4, <2>5, WindsOpen, ReportKeeps, CommonKeeps
    DEF Goto, CloseShape, LocalMoves, SessionKeeps, Winds, Actors, Nil
  <2>7. NCClosing'
    BY <2>1, <2>2, <2>3, <2>4, <2>5, <2>6
    DEF Goto, LocalMoves, SessionKeeps, Winds, NCClosing, CloseCommon, ClosedTerms, CloseShape, Actors, Nil
  <2> QED
    BY <2>6, <2>7
<1>20. ASSUME NCNewESP PROVE CloseShape' /\ CloseCommon' /\ NCClosing'
  <2>1. /\ MayCreateChannel /\ Holding("control", NextChannel) /\ pc["control"] = "esp"
        /\ UNCHANGED <<client, conn, session, keys>> /\ Goto("control", "dial")
        /\ channels' = [channels EXCEPT ![NextChannel] = Dialing(NewChannel("esp"))]
    BY <1>20 DEF NCNewESP, At
  <2>2. NextChannel \in 1 .. MaxChannels /\ NextChannel \in Nat /\ "control" \in Actors /\ "esp" \in Kinds
    BY <2>1, NextChannelType DEF Actors, Kinds
  <2>3. LocalMoves("control") /\ local'.channel["control"] = NextChannel
    BY <2>1, <2>2, HoldingMoves
  <2>4. DOMAIN local' = DOMAIN local /\ local'.channel \in [Actors -> Nat] /\ local'.taken = local.taken
        /\ local'.channel["reader"] = local.channel["reader"] /\ local'.channel["control"] = NextChannel
    BY <2>3 DEF LocalMoves, Actors
  <2>5. channels' \in [1 .. MaxChannels -> Channel] /\ AliveOpen
        /\ \A d \in 1 .. MaxChannels : Running(d)' => d = NextChannel \/ Running(d)
    BY Zenon, <2>1, <2>2, MadeOpen
  <2>6. SessionKeeps /\ session'.own = session.own
    BY <2>1 DEF CloseShape, SessionKeeps
  <2>7. CloseShape' /\ CloseCommon'
    BY <2>1, <2>2, <2>4, <2>5, <2>6, WindsOpen, ReportKeeps, CommonKeeps
    DEF Goto, CloseShape, LocalMoves, SessionKeeps, Winds, Actors, Nil
  <2>8. NCClosing'
    BY ZenonT(30), <2>1, <2>2, <2>4, <2>5, <2>6, <2>7
    DEF Goto, LocalMoves, SessionKeeps, Winds, NCClosing, CloseCommon, ClosedTerms, CloseShape, Actors, Nil
  <2> QED
    BY <2>7, <2>8
<1>21. ASSUME NCDialESP PROVE CloseShape' /\ CloseCommon' /\ NCClosing'
  <2>1. UNCHANGED <<client, session, conn, local>>
    BY <1>21 DEF NCDialESP
  <2>2. SessionKeeps /\ session'.own = session.own
    BY <2>1 DEF CloseShape, SessionKeeps
  <2>3. local.channel["control"] \in Nat
    BY DEF CloseShape, Actors
  <2>4. pc["control"] = "dial" /\ DialEnds("control", local.channel["control"], "probe", "failed", {"err"}) /\ {"err"} \in SUBSET {"err", "fatal"}
    BY <1>21 DEF NCDialESP, At, ControlChannel
  <2>5. /\ Winds
        /\ \/ Goto("control", "probe")
           \/ Goto("control", "failed") /\ (\A d \in 1 .. MaxChannels : Running(d)' => d # local.channel["control"])
    BY <2>3, <2>4, DialWinds
  <2>6. CloseShape' /\ CloseCommon'
    BY <2>1, <2>2, <2>3, <2>4, <2>5, WindsOpen, ReportKeeps, CommonKeeps
    DEF Goto, CloseShape, LocalMoves, SessionKeeps, Winds, Actors, Nil
  <2>7. NCClosing'
    BY <2>1, <2>2, <2>3, <2>4, <2>5, <2>6
    DEF Goto, LocalMoves, SessionKeeps, Winds, NCClosing, CloseCommon, ClosedTerms, CloseShape, Actors, Nil
  <2> QED
    BY <2>6, <2>7
<1>22. ASSUME NCFirstProbe PROVE CloseShape' /\ CloseCommon' /\ NCClosing'
  <2>1. UNCHANGED <<client, session, conn, local>>
    BY <1>22 DEF NCFirstProbe
  <2>2. SessionKeeps /\ session'.own = session.own
    BY <2>1 DEF CloseShape, SessionKeeps
  <2>3. local.channel["control"] \in Nat
    BY DEF CloseShape, Actors
  <2>4. pc["control"] = "probe" /\ ProbeEnds("control", local.channel["control"], "install", "failed")
    BY <1>22 DEF NCFirstProbe, At, ControlChannel
  <2>5. /\ Winds
        /\ \/ Goto("control", "install")
           \/ Goto("control", "failed") /\ (\A d \in 1 .. MaxChannels : Running(d)' => d # local.channel["control"])
    BY <2>3, <2>4, ProbeWinds
  <2>6. CloseShape' /\ CloseCommon'
    BY <2>1, <2>2, <2>3, <2>4, <2>5, WindsOpen, ReportKeeps, CommonKeeps
    DEF Goto, CloseShape, LocalMoves, SessionKeeps, Winds, Actors, Nil
  <2>7. NCClosing'
    BY <2>1, <2>2, <2>3, <2>4, <2>5, <2>6
    DEF Goto, LocalMoves, SessionKeeps, Winds, NCClosing, CloseCommon, ClosedTerms, CloseShape, Actors, Nil
  <2> QED
    BY <2>6, <2>7
<1>23. ASSUME NCStartFailed PROVE CloseShape' /\ CloseCommon' /\ NCClosing'
  <2>1. pc["control"] = "failed" /\ Goto("control", "select")
    BY <1>23 DEF NCStartFailed, CallTerminate, Ends, At, Selecting, WriterReturns
  <2>2. UNCHANGED <<client, conn, channels, keys>>
    BY <1>23 DEF NCStartFailed
  <2>3. SessionKeeps /\ session'.own = session.own
    BY <1>23 DEF NCStartFailed, CallTerminate, Ends, Called, Counted, LockESP, UnlockESP, CloseShape, SessionKeeps
  <2>4. LocalMoves("control")
    BY Zenon, <1>23, HoldingMoves, UnchangedMoves DEF NCStartFailed, CloseShape, Actors, Nil
  <2>5. DOMAIN local' = DOMAIN local /\ local'.channel \in [Actors -> Nat] /\ local'.taken = local.taken
        /\ local'.channel["reader"] = local.channel["reader"]
    BY <2>4 DEF LocalMoves, Actors
  <2>6. Winds
    BY <2>2, UnchangedWinds
  <2>7. CloseShape' /\ CloseCommon'
    BY <2>1, <2>2, <2>3, <2>5, <2>6, WindsOpen, ReportKeeps, CommonKeeps
    DEF Goto, CloseShape, LocalMoves, SessionKeeps, Winds, Actors, Nil
  <2>8. NCClosing'
    BY <2>1, <2>2, <2>3, <2>5, <2>6, <2>7
    DEF Goto, LocalMoves, SessionKeeps, Winds, NCClosing, CloseCommon, ClosedTerms, CloseShape, Actors, Nil
  <2> QED
    BY <2>7, <2>8
<1> QED
  BY <1>1, <1>2, <1>3, <1>4, <1>5, <1>6, <1>7, <1>8, <1>9, <1>10, <1>11, <1>12, <1>13, <1>14,
      <1>15, <1>16, <1>17, <1>18, <1>19, <1>20, <1>21, <1>22, <1>23

LEMMA NCCloses2 ==
    ASSUME TunnelAssumption, CloseShape, CloseCommon, NCClosing, UNCHANGED <<flavor, link>>
    PROVE  (\/ NCInstallESP \/ NCCancelled \/ NCEstablished \/ NCFallback \/ NCEnable
            \/ NCEnabled \/ NCLock("control", "enableLock", "enabling")
            \/ NCLock("control", "disableLock", "disabling") \/ NCFallenBack \/ NCRelease
            \/ NCReportONCP \/ NCProbed \/ NCProbe \/ NCPeriodicCheckFails \/ NCWriteBegins
            \/ NCWriteESP \/ NCLock("writer", "lock", "writing") \/ NCWriteONCP \/ NCClose
            \/ NCGoodbye \/ NCLock("closer", "lock", "writing") \/ NCSaidGoodbye \/ NCJoin
            \/ NCTerminateStep)
           => CloseShape' /\ CloseCommon' /\ NCClosing'
<1>1. ASSUME NCInstallESP PROVE CloseShape' /\ CloseCommon' /\ NCClosing'
  <2>0. pc["control"] = "install" /\ UNCHANGED <<client, conn, local>> /\ local.channel["control"] \in Nat
    BY <1>1 DEF NCInstallESP, At, CloseShape, Actors
  <2>1. CASE session.closed
    <3>1. (\E err \in {"nil", "err", "exhausted", "fatal", "rekey"} : TerminateChannel(local.channel["control"], err))
          /\ Goto("control", "failed") /\ UNCHANGED session
      BY <1>1, <2>1 DEF NCInstallESP, ControlChannel
    <3>2. Winds /\ \A d \in 1 .. MaxChannels : Running(d)' => d # local.channel["control"]
      BY <3>1, <2>0, TerminateAnyWinds
    <3>3. SessionKeeps /\ session'.own = session.own
      BY <3>1 DEF CloseShape, SessionKeeps
    <3>4. CloseShape'
      BY <2>0, <3>1, <3>2, <3>3
      DEF Goto, CloseShape, LocalMoves, SessionKeeps, Winds, Actors, Nil
    <3>5. CloseCommon'
      <4>1. AliveOpen
        BY <2>0, <3>1, <3>2, <3>3, WindsOpen
      <4>2. /\ pc'["closer"] = pc["closer"] \/ pc'["closer"] \notin {"join", "done"}
            /\ client'.transportSession = client.transportSession
        BY <2>0, <3>1, <3>2, <3>3, ReportKeeps DEF Goto, CloseShape, Actors
      <4>3. SessionKeeps /\ (session'.own \in {session.own, Nil} \/ ~session.closed)
        BY <2>0, <3>1, <3>2, <3>3 DEF SessionKeeps, CloseShape, Nil
      <4> QED
        BY <4>1, <4>2, <4>3, CommonKeeps
    <3>6. NCClosing'
      BY <2>0, <3>1, <3>2, <3>3, <3>4
      DEF Goto, LocalMoves, SessionKeeps, Winds, NCClosing, CloseCommon, ClosedTerms,
          CloseShape, Actors, Nil
    <3> QED
      BY <3>4, <3>5, <3>6
  <2>2. CASE ~session.closed
    <3>1. session' = [session EXCEPT !.own = local.channel["control"]]
          /\ Goto("control", "select") /\ UNCHANGED <<channels, keys>>
      BY <1>1, <2>2 DEF NCInstallESP, ControlChannel
    <3>2. Winds
      BY <3>1, UnchangedWinds
    <3>3. SessionKeeps /\ session'.own = local.channel["control"] /\ session'.term = session.term
      BY <3>1 DEF CloseShape, SessionKeeps
    <3>4. CloseShape'
      BY <2>0, <2>2, <3>1, <3>2, <3>3
      DEF Goto, CloseShape, LocalMoves, SessionKeeps, Winds, Actors, Nil
    <3>5. CloseCommon'
      BY <2>0, <2>2, <3>1, <3>2, <3>3, WindsOpen, ReportKeeps, CommonKeeps
      DEF Goto, CloseShape, Actors, SessionKeeps, Nil
    <3>6. NCClosing'
      BY <2>0, <2>2, <3>1, <3>2, <3>3, <3>4
      DEF Goto, LocalMoves, SessionKeeps, Winds, NCClosing, CloseCommon, ClosedTerms,
          CloseShape, Actors, Nil
    <3> QED
      BY <3>4, <3>5, <3>6
  <2> QED
    BY <2>1, <2>2
<1>2. ASSUME NCCancelled PROVE CloseShape' /\ CloseCommon' /\ NCClosing'
  <2>1. pc["control"] \in {"select", "up"} /\ Goto("control", "exited")
    BY <1>2 DEF NCCancelled, CallTerminate, Ends, At, Selecting, WriterReturns
  <2>2. UNCHANGED <<client, session, conn, local, channels, keys>>
    BY <1>2 DEF NCCancelled
  <2>3. SessionKeeps /\ session'.own = session.own
    BY <2>2 DEF CloseShape, SessionKeeps
  <2>4. Winds
    BY <2>2, UnchangedWinds
  <2>5. CloseShape' /\ CloseCommon'
    BY <2>1, <2>2, <2>3, <2>4, WindsOpen, ReportKeeps, CommonKeeps
    DEF Goto, CloseShape, LocalMoves, SessionKeeps, Winds, Actors, Nil
  <2>6. NCClosing'
    BY <2>1, <2>2, <2>3, <2>4, <2>5
    DEF Goto, LocalMoves, SessionKeeps, Winds, NCClosing, CloseCommon, ClosedTerms, CloseShape, Actors, Nil
  <2> QED
    BY <2>5, <2>6
<1>3. ASSUME NCEstablished PROVE CloseShape' /\ CloseCommon' /\ NCClosing'
  <2>1. pc["control"] = "select" /\ \E l \in {"enable", "terminating"} : Goto("control", l)
    BY <1>3 DEF NCEstablished, CallTerminate, Ends, At, Selecting, WriterReturns
  <2>2. UNCHANGED <<client, conn, local, channels, keys>>
    BY <1>3 DEF NCEstablished
  <2>3. SessionKeeps /\ session'.own = session.own
    BY <1>3 DEF NCEstablished, CallTerminate, Ends, Called, Counted, LockESP, UnlockESP, CloseShape, SessionKeeps
  <2>4. Winds
    BY <2>2, UnchangedWinds
  <2>5. CloseShape' /\ CloseCommon'
    BY <2>1, <2>2, <2>3, <2>4, WindsOpen, ReportKeeps, CommonKeeps
    DEF Goto, CloseShape, LocalMoves, SessionKeeps, Winds, Actors, Nil
  <2>6. NCClosing'
    BY <2>1, <2>2, <2>3, <2>4, <2>5
    DEF Goto, LocalMoves, SessionKeeps, Winds, NCClosing, CloseCommon, ClosedTerms, CloseShape, Actors, Nil
  <2> QED
    BY <2>5, <2>6
<1>4. ASSUME NCFallback PROVE CloseShape' /\ CloseCommon' /\ NCClosing'
  <2>1. pc["control"] \in {"select", "up"} /\ \E l \in {"disableLock", "release"} : Goto("control", l)
    BY <1>4 DEF NCFallback, CallTerminate, Ends, At, Selecting, WriterReturns
  <2>2. UNCHANGED <<client, conn, local, channels, keys>>
    BY <1>4 DEF NCFallback
  <2>3. SessionKeeps /\ session'.own = session.own
    BY <1>4 DEF NCFallback, CallTerminate, Ends, Called, Counted, LockESP, UnlockESP, CloseShape, SessionKeeps
  <2>4. Winds
    BY <2>2, UnchangedWinds
  <2>5. channels[local.channel["control"]].done # "open"
    BY <1>4 DEF NCFallback, ControlChannel
  <2>6. \A d \in 1 .. MaxChannels : Running(d) => local.channel["control"] # d
    BY <2>5 DEF CloseCommon, Running, Alive
  <2>7. CloseShape' /\ CloseCommon'
    BY <2>1, <2>2, <2>3, <2>4, <2>5, <2>6, WindsOpen, ReportKeeps, CommonKeeps
    DEF Goto, CloseShape, LocalMoves, SessionKeeps, Winds, Actors, Nil
  <2>8. NCClosing'
    BY <2>1, <2>2, <2>3, <2>4, <2>5, <2>6, <2>7
    DEF Goto, LocalMoves, SessionKeeps, Winds, NCClosing, CloseCommon, ClosedTerms, CloseShape, Actors, Nil
  <2> QED
    BY <2>7, <2>8
<1>5. ASSUME NCEnable PROVE CloseShape' /\ CloseCommon' /\ NCClosing'
  <2>1. pc["control"] = "enable" /\ \E l \in {"enableLock", "terminating"} : Goto("control", l)
    BY <1>5 DEF NCEnable, CallTerminate, Ends, At, Selecting, WriterReturns
  <2>2. UNCHANGED <<client, conn, local, channels, keys>>
    BY <1>5 DEF NCEnable
  <2>3. SessionKeeps /\ session'.own = session.own
    BY <1>5 DEF NCEnable, CallTerminate, Ends, Called, Counted, LockESP, UnlockESP, CloseShape, SessionKeeps
  <2>4. Winds
    BY <2>2, UnchangedWinds
  <2>5. CloseShape' /\ CloseCommon'
    BY <2>1, <2>2, <2>3, <2>4, WindsOpen, ReportKeeps, CommonKeeps
    DEF Goto, CloseShape, LocalMoves, SessionKeeps, Winds, Actors, Nil
  <2>6. NCClosing'
    BY <2>1, <2>2, <2>3, <2>4, <2>5
    DEF Goto, LocalMoves, SessionKeeps, Winds, NCClosing, CloseCommon, ClosedTerms, CloseShape, Actors, Nil
  <2> QED
    BY <2>5, <2>6
<1>6. ASSUME NCEnabled PROVE CloseShape' /\ CloseCommon' /\ NCClosing'
  <2>1. pc["control"] = "enabling" /\ \E l \in {"up", "terminating"} : Goto("control", l)
    BY Zenon, <1>6 DEF NCEnabled, CallTerminate, Ends, At, Selecting, WriterReturns
  <2>2. UNCHANGED <<local, channels, keys>>
    BY <1>6 DEF NCEnabled
  <2>3. ClientShape(client') /\ client'.transportSession = client.transportSession
    BY Zenon, <1>6, ReportKeeps DEF NCEnabled, CloseShape
  <2>4. \/ session' \in {Called(UnlockESP(session)), Called(UnlockESP(Counted(session)))}
        \/ \E b : session' = UnlockESP([session EXCEPT !.espEnabled = b])
    BY Zenon, <1>6 DEF NCEnabled
  <2>5. SessionKeeps /\ session'.own = session.own
    BY Zenon, <2>4, UnlockKeeps
  <2>6. DOMAIN conn' = DOMAIN conn /\ conn'.st = conn.st
    BY <1>6 DEF NCEnabled, Acquire, WriteEnds, CloseShape
  <2>7. Winds
    BY <2>2, UnchangedWinds
  <2>8. CloseShape' /\ CloseCommon'
    BY <2>1, <2>2, <2>3, <2>5, <2>6, <2>7, WindsOpen, ReportKeeps, CommonKeeps
    DEF Goto, CloseShape, LocalMoves, SessionKeeps, Winds, Actors, Nil
  <2>9. NCClosing'
    BY <2>1, <2>2, <2>3, <2>5, <2>6, <2>7, <2>8
    DEF Goto, LocalMoves, SessionKeeps, Winds, NCClosing, CloseCommon, ClosedTerms, CloseShape, Actors, Nil
  <2> QED
    BY <2>8, <2>9
<1>7. ASSUME NCLock("control", "enableLock", "enabling") PROVE CloseShape' /\ CloseCommon' /\ NCClosing'
  <2>1. pc["control"] = "enableLock" /\ Goto("control", "enabling")
    BY <1>7 DEF NCLock, CallTerminate, Ends, At, Selecting, WriterReturns
  <2>2. UNCHANGED <<client, session, local, channels, keys>>
    BY <1>7 DEF NCLock
  <2>3. SessionKeeps /\ session'.own = session.own
    BY <2>2 DEF CloseShape, SessionKeeps
  <2>4. DOMAIN conn' = DOMAIN conn /\ conn'.st = conn.st
    BY <1>7 DEF NCLock, Acquire, WriteEnds, CloseShape
  <2>5. Winds
    BY <2>2, UnchangedWinds
  <2>6. CloseShape' /\ CloseCommon'
    BY <2>1, <2>2, <2>3, <2>4, <2>5, WindsOpen, ReportKeeps, CommonKeeps
    DEF Goto, CloseShape, LocalMoves, SessionKeeps, Winds, Actors, Nil
  <2>7. NCClosing'
    BY <2>1, <2>2, <2>3, <2>4, <2>5, <2>6
    DEF Goto, LocalMoves, SessionKeeps, Winds, NCClosing, CloseCommon, ClosedTerms, CloseShape, Actors, Nil
  <2> QED
    BY <2>6, <2>7
<1>8. ASSUME NCLock("control", "disableLock", "disabling") PROVE CloseShape' /\ CloseCommon' /\ NCClosing'
  <2>1. pc["control"] = "disableLock" /\ Goto("control", "disabling")
    BY <1>8 DEF NCLock, CallTerminate, Ends, At, Selecting, WriterReturns
  <2>2. UNCHANGED <<client, session, local, channels, keys>>
    BY <1>8 DEF NCLock
  <2>3. SessionKeeps /\ session'.own = session.own
    BY <2>2 DEF CloseShape, SessionKeeps
  <2>4. DOMAIN conn' = DOMAIN conn /\ conn'.st = conn.st
    BY <1>8 DEF NCLock, Acquire, WriteEnds, CloseShape
  <2>5. Winds
    BY <2>2, UnchangedWinds
  <2>6. CloseShape' /\ CloseCommon'
    BY <2>1, <2>2, <2>3, <2>4, <2>5, WindsOpen, ReportKeeps, CommonKeeps
    DEF Goto, CloseShape, LocalMoves, SessionKeeps, Winds, Actors, Nil
  <2>7. NCClosing'
    BY <2>1, <2>2, <2>3, <2>4, <2>5, <2>6
    DEF Goto, LocalMoves, SessionKeeps, Winds, NCClosing, CloseCommon, ClosedTerms, CloseShape, Actors, Nil
  <2> QED
    BY <2>6, <2>7
<1>9. ASSUME NCFallenBack PROVE CloseShape' /\ CloseCommon' /\ NCClosing'
  <2>1. pc["control"] = "disabling" /\ \E l \in {"release", "terminating"} : Goto("control", l)
    BY Zenon, <1>9 DEF NCFallenBack, CallTerminate, Ends, At, Selecting, WriterReturns
  <2>2. UNCHANGED <<client, local, channels, keys>>
    BY <1>9 DEF NCFallenBack
  <2>3. session' \in {Called(UnlockESP(session)), Called(UnlockESP(Counted(session))), session}
    BY Zenon, <1>9 DEF NCFallenBack
  <2>4. SessionKeeps /\ session'.own = session.own
    BY <2>3, UnlockKeeps
  <2>5. DOMAIN conn' = DOMAIN conn /\ conn'.st = conn.st
    BY <1>9 DEF NCFallenBack, Acquire, WriteEnds, CloseShape
  <2>6. Winds
    BY <2>2, UnchangedWinds
  <2>7. CloseShape' /\ CloseCommon'
    BY <2>1, <2>2, <2>4, <2>5, <2>6, WindsOpen, ReportKeeps, CommonKeeps
    DEF Goto, CloseShape, LocalMoves, SessionKeeps, Winds, Actors, Nil
  <2>8. NCClosing'
    BY <2>1, <2>2, <2>4, <2>5, <2>6, <2>7
    DEF Goto, LocalMoves, SessionKeeps, Winds, NCClosing, CloseCommon, ClosedTerms, CloseShape, Actors, Nil
  <2> QED
    BY <2>7, <2>8
<1>10. ASSUME NCRelease PROVE CloseShape' /\ CloseCommon' /\ NCClosing'
  <2>1. pc["control"] = "release" /\ Goto("control", "reportONCP")
    BY <1>10 DEF NCRelease, ControlChannel, CallTerminate, Ends, At, Selecting, WriterReturns
  <2>2. UNCHANGED <<client, conn, local, channels, keys>>
    BY <1>10 DEF NCRelease, ControlChannel
  <2>3. IF session.own = local.channel["control"] THEN session' = UnlockESP([session EXCEPT !.own = Nil, !.udp = FALSE])
        ELSE session' = UnlockESP(session)
    BY <1>10 DEF NCRelease, ControlChannel
  <2>4. SessionKeeps /\ session'.own = (IF session.own = local.channel["control"] THEN Nil ELSE session.own)
    BY <2>3, ZenonT(30) DEF Called, Counted, UnlockESP, CloseShape, SessionKeeps
  <2>5. Winds
    BY <2>2, UnchangedWinds
  <2>6. CloseShape' /\ CloseCommon'
    BY <2>1, <2>2, <2>4, <2>5, WindsOpen, ReportKeeps, CommonKeeps
    DEF Goto, CloseShape, LocalMoves, SessionKeeps, Winds, Actors, Nil
  <2>7. NCClosing'
    BY <2>1, <2>2, <2>4, <2>5, <2>6
    DEF Goto, LocalMoves, SessionKeeps, Winds, NCClosing, CloseCommon, ClosedTerms, CloseShape, Actors, Nil
  <2> QED
    BY <2>6, <2>7
<1>11. ASSUME NCReportONCP PROVE CloseShape' /\ CloseCommon' /\ NCClosing'
  <2>1. pc["control"] = "reportONCP" /\ Goto("control", "select")
    BY <1>11 DEF NCReportONCP, CallTerminate, Ends, At, Selecting, WriterReturns
  <2>2. UNCHANGED <<session, conn, channels, keys>>
    BY <1>11 DEF NCReportONCP
  <2>3. ClientShape(client') /\ client'.transportSession = client.transportSession
    BY <1>11, ReportKeeps DEF NCReportONCP, CloseShape
  <2>4. SessionKeeps /\ session'.own = session.own
    BY <2>2 DEF CloseShape, SessionKeeps
  <2>5. LocalMoves("control")
    BY <1>11, HoldingMoves, UnchangedMoves DEF NCReportONCP, CloseShape, Actors, Nil
  <2>6. DOMAIN local' = DOMAIN local /\ local'.channel \in [Actors -> Nat] /\ local'.taken = local.taken
        /\ local'.channel["reader"] = local.channel["reader"]
    BY <2>5 DEF LocalMoves, Actors
  <2>7. Winds
    BY <2>2, UnchangedWinds
  <2>8. CloseShape' /\ CloseCommon'
    BY <2>1, <2>2, <2>3, <2>4, <2>6, <2>7, WindsOpen, ReportKeeps, CommonKeeps
    DEF Goto, CloseShape, LocalMoves, SessionKeeps, Winds, Actors, Nil
  <2>9. NCClosing'
    BY <2>1, <2>2, <2>3, <2>4, <2>6, <2>7, <2>8
    DEF Goto, LocalMoves, SessionKeeps, Winds, NCClosing, CloseCommon, ClosedTerms, CloseShape, Actors, Nil
  <2> QED
    BY <2>8, <2>9
<1>12. ASSUME NCProbed PROVE CloseShape' /\ CloseCommon' /\ NCClosing'
  <2>1. pc["control"] = "closeESP" /\ Goto("control", "select")
    BY <1>12 DEF NCProbed, CallTerminate, Ends, At, Selecting, WriterReturns
  <2>2. UNCHANGED <<client, session, conn, local, channels, keys>>
    BY <1>12 DEF NCProbed
  <2>3. SessionKeeps /\ session'.own = session.own
    BY <2>2 DEF CloseShape, SessionKeeps
  <2>4. Winds
    BY <2>2, UnchangedWinds
  <2>5. CloseShape' /\ CloseCommon'
    BY <2>1, <2>2, <2>3, <2>4, WindsOpen, ReportKeeps, CommonKeeps
    DEF Goto, CloseShape, LocalMoves, SessionKeeps, Winds, Actors, Nil
  <2>6. NCClosing'
    BY <2>1, <2>2, <2>3, <2>4, <2>5
    DEF Goto, LocalMoves, SessionKeeps, Winds, NCClosing, CloseCommon, ClosedTerms, CloseShape, Actors, Nil
  <2> QED
    BY <2>5, <2>6
<1>13. ASSUME NCProbe PROVE CloseShape' /\ CloseCommon' /\ NCClosing'
  <2>1. UNCHANGED <<client, session, conn, local>>
    BY <1>13 DEF NCProbe
  <2>2. SessionKeeps /\ session'.own = session.own
    BY <2>1 DEF CloseShape, SessionKeeps
  <2>3. local.channel["control"] \in Nat
    BY DEF CloseShape, Actors
  <2>4. /\ pc["control"] = "select"
        /\ \/ ProbeEnds("control", local.channel["control"], "select", "closeESP")
           \/ (\E err \in {"nil", "err", "exhausted", "fatal", "rekey"} : TerminateChannel(local.channel["control"], err)) /\ Goto("control", "closeESP")
    BY <1>13 DEF NCProbe, At, ControlChannel
  <2>5. Winds /\ (Goto("control", "select") \/ Goto("control", "closeESP"))
    BY <2>3, <2>4, ProbeWinds, TerminateAnyWinds
  <2>6. CloseShape' /\ CloseCommon'
    BY <2>1, <2>2, <2>3, <2>4, <2>5, WindsOpen, ReportKeeps, CommonKeeps
    DEF Goto, CloseShape, LocalMoves, SessionKeeps, Winds, Actors, Nil
  <2>7. NCClosing'
    BY <2>1, <2>2, <2>3, <2>4, <2>5, <2>6
    DEF Goto, LocalMoves, SessionKeeps, Winds, NCClosing, CloseCommon, ClosedTerms, CloseShape, Actors, Nil
  <2> QED
    BY <2>6, <2>7
<1>14. ASSUME NCPeriodicCheckFails PROVE CloseShape' /\ CloseCommon' /\ NCClosing'
  <2>1. pc["control"] \in {"select", "up"} /\ Goto("control", "terminating")
    BY <1>14 DEF NCPeriodicCheckFails, CallTerminate, Ends, At, Selecting, WriterReturns
  <2>2. UNCHANGED <<client, conn, local, channels, keys>>
    BY <1>14 DEF NCPeriodicCheckFails
  <2>3. SessionKeeps /\ session'.own = session.own
    BY <1>14 DEF NCPeriodicCheckFails, CallTerminate, Ends, Called, Counted, LockESP, UnlockESP, CloseShape, SessionKeeps
  <2>4. Winds
    BY <2>2, UnchangedWinds
  <2>5. CloseShape' /\ CloseCommon'
    BY <2>1, <2>2, <2>3, <2>4, WindsOpen, ReportKeeps, CommonKeeps
    DEF Goto, CloseShape, LocalMoves, SessionKeeps, Winds, Actors, Nil
  <2>6. NCClosing'
    BY <2>1, <2>2, <2>3, <2>4, <2>5
    DEF Goto, LocalMoves, SessionKeeps, Winds, NCClosing, CloseCommon, ClosedTerms, CloseShape, Actors, Nil
  <2> QED
    BY <2>5, <2>6
<1>15. ASSUME NCWriteBegins PROVE CloseShape' /\ CloseCommon' /\ NCClosing'
  <2>1. pc["writer"] = "none" /\ \E l \in {"esp", "lock"} : Goto("writer", l)
    BY <1>15 DEF NCWriteBegins, CallTerminate, Ends, At, Selecting, WriterReturns
  <2>2. UNCHANGED <<client, session, conn, channels, keys>>
    BY <1>15 DEF NCWriteBegins
  <2>3. SessionKeeps /\ session'.own = session.own
    BY <2>2 DEF CloseShape, SessionKeeps
  <2>4. LocalMoves("writer")
    BY <1>15, HoldingMoves, WrittenMoves, UnchangedMoves DEF NCWriteBegins, WriterReturns, CloseShape, Actors
  <2>5. DOMAIN local' = DOMAIN local /\ local'.channel \in [Actors -> Nat] /\ local'.taken = local.taken
        /\ local'.channel["reader"] = local.channel["reader"] /\ local'.channel["control"] = local.channel["control"]
    BY <2>4 DEF LocalMoves, Actors
  <2>6. Winds
    BY <2>2, UnchangedWinds
  <2>7. CloseShape' /\ CloseCommon'
    BY <2>1, <2>2, <2>3, <2>5, <2>6, WindsOpen, ReportKeeps, CommonKeeps
    DEF Goto, CloseShape, LocalMoves, SessionKeeps, Winds, Actors, Nil
  <2>8. NCClosing'
    BY <2>1, <2>2, <2>3, <2>5, <2>6, <2>7, SMTT(30)
    DEF Goto, LocalMoves, SessionKeeps, Winds, NCClosing, CloseCommon, ClosedTerms, CloseShape, Actors, Nil
  <2> QED
    BY <2>7, <2>8
<1>16. ASSUME NCWriteESP PROVE CloseShape' /\ CloseCommon' /\ NCClosing'
  <2>1. UNCHANGED <<client, session, conn>>
    BY <1>16 DEF NCWriteESP
  <2>2. SessionKeeps /\ session'.own = session.own
    BY <2>1 DEF CloseShape, SessionKeeps
  <2>3. WriteToChannel
    BY <1>16 DEF NCWriteESP
  <2>4. Winds /\ LocalMoves("writer") /\ (UNCHANGED pc \/ Goto("writer", "done"))
    BY <2>3, WriteToChannelMoves
  <2>5. Winds /\ DOMAIN pc' = Actors /\ \A b \in {"start", "reader", "control", "closer"} : pc'[b] = pc[b]
    BY <2>4 DEF Goto, CloseShape, Actors
  <2>6. DOMAIN local' = DOMAIN local /\ local'.channel \in [Actors -> Nat] /\ local'.taken = local.taken
        /\ local'.channel["reader"] = local.channel["reader"] /\ local'.channel["control"] = local.channel["control"]
    BY <2>4 DEF LocalMoves, Actors
  <2>7. CloseShape' /\ CloseCommon'
    BY <2>1, <2>2, <2>5, <2>6, WindsOpen, ReportKeeps, CommonKeeps
    DEF Goto, CloseShape, LocalMoves, SessionKeeps, Winds, Actors, Nil
  <2>8. NCClosing'
    BY <2>1, <2>2, <2>5, <2>6, <2>7
    DEF Goto, LocalMoves, SessionKeeps, Winds, NCClosing, CloseCommon, ClosedTerms, CloseShape, Actors, Nil
  <2> QED
    BY <2>7, <2>8
<1>17. ASSUME NCLock("writer", "lock", "writing") PROVE CloseShape' /\ CloseCommon' /\ NCClosing'
  <2>1. pc["writer"] = "lock" /\ Goto("writer", "writing")
    BY <1>17 DEF NCLock, CallTerminate, Ends, At, Selecting, WriterReturns
  <2>2. UNCHANGED <<client, session, local, channels, keys>>
    BY <1>17 DEF NCLock
  <2>3. SessionKeeps /\ session'.own = session.own
    BY <2>2 DEF CloseShape, SessionKeeps
  <2>4. DOMAIN conn' = DOMAIN conn /\ conn'.st = conn.st
    BY <1>17 DEF NCLock, Acquire, WriteEnds, CloseShape
  <2>5. Winds
    BY <2>2, UnchangedWinds
  <2>6. CloseShape' /\ CloseCommon'
    BY <2>1, <2>2, <2>3, <2>4, <2>5, WindsOpen, ReportKeeps, CommonKeeps
    DEF Goto, CloseShape, LocalMoves, SessionKeeps, Winds, Actors, Nil
  <2>7. NCClosing'
    BY <2>1, <2>2, <2>3, <2>4, <2>5, <2>6
    DEF Goto, LocalMoves, SessionKeeps, Winds, NCClosing, CloseCommon, ClosedTerms, CloseShape, Actors, Nil
  <2> QED
    BY <2>6, <2>7
<1>18. ASSUME NCWriteONCP PROVE CloseShape' /\ CloseCommon' /\ NCClosing'
  <2>1. pc["writer"] = "writing" /\ \E l \in {"done", "terminating"} : Goto("writer", l)
    BY Zenon, <1>18 DEF NCWriteONCP, CallTerminate, Ends, At, Selecting, WriterReturns
  <2>2. UNCHANGED <<client, channels, keys>>
    BY <1>18 DEF NCWriteONCP
  <2>3. SessionKeeps /\ session'.own = session.own
    BY <1>18, ZenonT(30) DEF NCWriteONCP, CallTerminate, Ends, Called, Counted, LockESP, UnlockESP, CloseShape, SessionKeeps
  <2>4. DOMAIN conn' = DOMAIN conn /\ conn'.st = conn.st
    BY <1>18 DEF NCWriteONCP, Acquire, WriteEnds, CloseShape
  <2>5. LocalMoves("writer")
    BY Zenon, <1>18, HoldingMoves, WrittenMoves, UnchangedMoves DEF NCWriteONCP, WriterReturns, CloseShape, Actors
  <2>6. DOMAIN local' = DOMAIN local /\ local'.channel \in [Actors -> Nat] /\ local'.taken = local.taken
        /\ local'.channel["reader"] = local.channel["reader"] /\ local'.channel["control"] = local.channel["control"]
    BY <2>5 DEF LocalMoves, Actors
  <2>7. Winds
    BY <2>2, UnchangedWinds
  <2>8. CloseShape' /\ CloseCommon'
    BY <2>1, <2>2, <2>3, <2>4, <2>6, <2>7, WindsOpen, ReportKeeps, CommonKeeps
    DEF Goto, CloseShape, LocalMoves, SessionKeeps, Winds, Actors, Nil
  <2>9. NCClosing'
    BY <2>1, <2>2, <2>3, <2>4, <2>6, <2>7, <2>8
    DEF Goto, LocalMoves, SessionKeeps, Winds, NCClosing, CloseCommon, ClosedTerms, CloseShape, Actors, Nil
  <2> QED
    BY <2>8, <2>9
<1>19. ASSUME NCClose PROVE CloseShape' /\ CloseCommon' /\ NCClosing'
  <2>1. pc["closer"] = "none" /\ \E l \in {"goodbye", "terminating"} : Goto("closer", l)
    BY <1>19 DEF NCClose, CallTerminate, Ends, At, Selecting, WriterReturns
  <2>2. UNCHANGED <<client, conn, local, channels, keys>>
    BY <1>19 DEF NCClose
  <2>3. SessionKeeps /\ session'.own = session.own
    BY <1>19 DEF NCClose, CallTerminate, Ends, Called, Counted, LockESP, UnlockESP, CloseShape, SessionKeeps
  <2>4. Winds
    BY <2>2, UnchangedWinds
  <2>5. CloseShape' /\ CloseCommon'
    BY <2>1, <2>2, <2>3, <2>4, WindsOpen, ReportKeeps, CommonKeeps
    DEF Goto, CloseShape, LocalMoves, SessionKeeps, Winds, Actors, Nil
  <2>6. NCClosing'
    BY <2>1, <2>2, <2>3, <2>4, <2>5
    DEF Goto, LocalMoves, SessionKeeps, Winds, NCClosing, CloseCommon, ClosedTerms, CloseShape, Actors, Nil
  <2> QED
    BY <2>5, <2>6
<1>20. ASSUME NCGoodbye PROVE CloseShape' /\ CloseCommon' /\ NCClosing'
  <2>1. pc["closer"] = "goodbye" /\ Goto("closer", "lock")
    BY <1>20 DEF NCGoodbye, CallTerminate, Ends, At, Selecting, WriterReturns
  <2>2. UNCHANGED <<client, local, channels, keys>>
    BY <1>20 DEF NCGoodbye
  <2>3. SessionKeeps /\ session'.own = session.own
    BY <1>20 DEF NCGoodbye, CallTerminate, Ends, Called, Counted, LockESP, UnlockESP, CloseShape, SessionKeeps
  <2>4. DOMAIN conn' = DOMAIN conn /\ conn'.st = conn.st
    BY <1>20 DEF NCGoodbye, CloseShape
  <2>5. Winds
    BY <2>2, UnchangedWinds
  <2>6. CloseShape' /\ CloseCommon'
    BY <2>1, <2>2, <2>3, <2>4, <2>5, WindsOpen, ReportKeeps, CommonKeeps
    DEF Goto, CloseShape, LocalMoves, SessionKeeps, Winds, Actors, Nil
  <2>7. NCClosing'
    BY <2>1, <2>2, <2>3, <2>4, <2>5, <2>6
    DEF Goto, LocalMoves, SessionKeeps, Winds, NCClosing, CloseCommon, ClosedTerms, CloseShape, Actors, Nil
  <2> QED
    BY <2>6, <2>7
<1>21. ASSUME NCLock("closer", "lock", "writing") PROVE CloseShape' /\ CloseCommon' /\ NCClosing'
  <2>1. pc["closer"] = "lock" /\ Goto("closer", "writing")
    BY <1>21 DEF NCLock, CallTerminate, Ends, At, Selecting, WriterReturns
  <2>2. UNCHANGED <<client, session, local, channels, keys>>
    BY <1>21 DEF NCLock
  <2>3. SessionKeeps /\ session'.own = session.own
    BY <2>2 DEF CloseShape, SessionKeeps
  <2>4. DOMAIN conn' = DOMAIN conn /\ conn'.st = conn.st
    BY <1>21 DEF NCLock, Acquire, WriteEnds, CloseShape
  <2>5. Winds
    BY <2>2, UnchangedWinds
  <2>6. CloseShape' /\ CloseCommon'
    BY <2>1, <2>2, <2>3, <2>4, <2>5, WindsOpen, ReportKeeps, CommonKeeps
    DEF Goto, CloseShape, LocalMoves, SessionKeeps, Winds, Actors, Nil
  <2>7. NCClosing'
    BY <2>1, <2>2, <2>3, <2>4, <2>5, <2>6
    DEF Goto, LocalMoves, SessionKeeps, Winds, NCClosing, CloseCommon, ClosedTerms, CloseShape, Actors, Nil
  <2> QED
    BY <2>6, <2>7
<1>22. ASSUME NCSaidGoodbye PROVE CloseShape' /\ CloseCommon' /\ NCClosing'
  <2>1. pc["closer"] = "writing" /\ Goto("closer", "terminating")
    BY <1>22 DEF NCSaidGoodbye, CallTerminate, Ends, At, Selecting, WriterReturns
  <2>2. UNCHANGED <<client, local, channels, keys>>
    BY <1>22 DEF NCSaidGoodbye
  <2>3. SessionKeeps /\ session'.own = session.own
    BY <1>22 DEF NCSaidGoodbye, CallTerminate, Ends, Called, Counted, LockESP, UnlockESP, CloseShape, SessionKeeps
  <2>4. DOMAIN conn' = DOMAIN conn /\ conn'.st = conn.st
    BY <1>22 DEF NCSaidGoodbye, CloseShape
  <2>5. Winds
    BY <2>2, UnchangedWinds
  <2>6. CloseShape' /\ CloseCommon'
    BY <2>1, <2>2, <2>3, <2>4, <2>5, WindsOpen, ReportKeeps, CommonKeeps
    DEF Goto, CloseShape, LocalMoves, SessionKeeps, Winds, Actors, Nil
  <2>7. NCClosing'
    BY <2>1, <2>2, <2>3, <2>4, <2>5, <2>6
    DEF Goto, LocalMoves, SessionKeeps, Winds, NCClosing, CloseCommon, ClosedTerms, CloseShape, Actors, Nil
  <2> QED
    BY <2>6, <2>7
<1>23. ASSUME NCJoin PROVE CloseShape' /\ CloseCommon' /\ NCClosing'
  <2>1. pc["closer"] = "join" /\ Goto("closer", "done") /\ pc["start"] # "report"
        /\ pc["reader"] \in {"none", "exited"} /\ pc["control"] \in {"none", "exited"}
    BY <1>23 DEF NCJoin, At, Finished
  <2>2. UNCHANGED <<client, session, conn, channels, keys, local>>
    BY <1>23 DEF NCJoin
  <2>3. Winds
    BY <2>2, UnchangedWinds
  <2>4. SessionKeeps
    BY <2>2 DEF CloseShape, SessionKeeps
  <2>5. CloseShape'
    BY <2>1, <2>2, <2>3, <2>4 DEF Goto, CloseShape, LocalMoves, SessionKeeps, Winds, Actors, Nil
  <2>6. CloseCommon'
    BY <2>1, <2>2 DEF CloseCommon, Goto, CloseShape, Actors
  <2>7. NCClosing'
    BY <2>1, <2>2, <2>3, <2>4, <2>5
    DEF Goto, LocalMoves, SessionKeeps, Winds, NCClosing, CloseCommon, ClosedTerms, CloseShape,
        Actors, Nil
  <2> QED
    BY <2>5, <2>6, <2>7
<1>24. ASSUME NCTerminateStep PROVE CloseShape' /\ CloseCommon' /\ NCClosing'
  <2>0. UNCHANGED pc
    BY <1>24 DEF NCTerminateStep
  <2>1. CASE /\ session.term = "called"
             /\ session' = [session EXCEPT !.term = "cancelled", !.cancelled = TRUE,
                                           !.ready = FALSE, !.espEnabled = FALSE]
             /\ UNCHANGED <<client, conn, channels, keys, local>>
    <3>1. DOMAIN session' = DOMAIN session /\ session'.own = session.own /\ session'.connected = session.connected
          /\ session'.closed = session.closed /\ session'.term = "cancelled"
      BY <2>1 DEF CloseShape
    <3>2. UNCHANGED <<client, conn, channels, keys, local>> /\ session.term = "called"
      BY <2>1
    <3>3. Winds
      BY <3>2, UnchangedWinds
    <3>4. CloseShape'
      BY <2>0, <3>1, <3>2, <3>3
      DEF Goto, CloseShape, LocalMoves, SessionKeeps, Winds, Actors, Nil
    <3>5. CloseCommon'
      BY <2>0, <3>1, <3>2 DEF CloseCommon, ClosedTerms
    <3>6. NCClosing'
      BY <2>0, <3>1, <3>2, <3>3, <3>4
      DEF Goto, LocalMoves, SessionKeeps, Winds, NCClosing, CloseCommon, ClosedTerms,
          CloseShape, Actors, Nil
    <3> QED
      BY <3>4, <3>5, <3>6
  <2>2. CASE /\ session.term = "cancelled"
             /\ session' = [session EXCEPT !.term = "taken", !.closed = TRUE, !.own = Nil]
             /\ local' = [local EXCEPT !.taken = session.own]
             /\ UNCHANGED <<client, conn, channels, keys>>
    <3>1. DOMAIN session' = DOMAIN session /\ session'.own = Nil /\ session'.connected = session.connected
          /\ session'.closed = TRUE /\ session'.term = "taken"
      BY <2>2 DEF CloseShape
    <3>2. DOMAIN local' = DOMAIN local /\ local'.taken = session.own /\ local'.channel = local.channel
      BY <2>2 DEF CloseShape
    <3>3. UNCHANGED <<client, conn, channels, keys>> /\ session.term = "cancelled"
      BY <2>2
    <3>4. Winds
      BY <3>3, UnchangedWinds
    <3>5. CloseShape'
      BY <2>0, <3>1, <3>2, <3>3, <3>4
      DEF Goto, CloseShape, LocalMoves, SessionKeeps, Winds, Actors, Nil
    <3>6. CloseCommon'
      BY <2>0, <3>1, <3>3 DEF CloseCommon, ClosedTerms
    <3>7. NCClosing'
      BY <2>0, <3>1, <3>2, <3>3, <3>4, <3>5
      DEF Goto, LocalMoves, SessionKeeps, Winds, NCClosing, CloseCommon, ClosedTerms,
          CloseShape, Actors, Nil
    <3> QED
      BY <3>5, <3>6, <3>7
  <2>3. CASE /\ session.term = "taken"
             /\ client' = StopActiveTransport(client, Self)
             /\ conn' = IF session.connected THEN [conn EXCEPT !.st = "closed"] ELSE conn
             /\ TerminateChannel(local.taken, "nil")
             /\ session' = [session EXCEPT !.term = "closing"]
             /\ UNCHANGED local
    <3>1. DOMAIN session' = DOMAIN session /\ session'.own = session.own /\ session'.connected = session.connected
          /\ session'.closed = session.closed /\ session'.term = "closing"
      BY <2>3 DEF CloseShape
    <3>2. ClientShape(client') /\ client'.transportSession # Self
      BY <2>3, StopWithdraws DEF CloseShape
    <3>3. Winds /\ \A d \in 1 .. MaxChannels : Running(d)' => d # local.taken
      BY <2>3, TerminateAnyWinds DEF CloseShape
    <3>4. session.term = "taken" /\ UNCHANGED local
      BY <2>3
    <3>5. DOMAIN conn' = DOMAIN conn /\ conn'.st = (IF session.connected THEN "closed" ELSE conn.st)
      BY <2>3 DEF CloseShape
    <3>6. AliveOpen
      BY <3>3, WindsOpen
    <3>7. CloseShape'
      BY <2>0, <3>1, <3>2, <3>3, <3>4, <3>5, <3>6
      DEF Goto, CloseShape, LocalMoves, SessionKeeps, Winds, Actors, Nil
    <3>8. CloseCommon'
      BY <2>0, <3>1, <3>2, <3>4, <3>6 DEF CloseCommon, ClosedTerms, AliveOpen, NCClosing
    <3>9. NCClosing'
      BY <2>0, <3>1, <3>2, <3>3, <3>4, <3>5, <3>6, <3>7
      DEF Goto, LocalMoves, SessionKeeps, Winds, NCClosing, CloseCommon, ClosedTerms,
          CloseShape, Actors, Nil
    <3> QED
      BY <3>7, <3>8, <3>9
  <2>4. CASE /\ session.term = "closing"
             /\ keys' = IF session.connected /\ keys = "live" THEN "destroyed" ELSE keys
             /\ session' = [session EXCEPT !.term = "done"]
             /\ local' = [local EXCEPT !.taken = Nil]
             /\ UNCHANGED <<client, conn, channels>>
    <3>1. DOMAIN session' = DOMAIN session /\ session'.own = session.own /\ session'.connected = session.connected
          /\ session'.closed = session.closed /\ session'.term = "done"
      BY <2>4 DEF CloseShape
    <3>2. DOMAIN local' = DOMAIN local /\ local'.taken = Nil /\ local'.channel = local.channel
      BY <2>4 DEF CloseShape
    <3>3. keys' = (IF session.connected /\ keys = "live" THEN "destroyed" ELSE keys)
          /\ UNCHANGED <<client, conn, channels>> /\ session.term = "closing"
      BY <2>4
    <3>4. Winds
      BY <3>3, KeysWinds
    <3>5. CloseShape'
      BY <2>0, <3>1, <3>2, <3>3, <3>4
      DEF Goto, CloseShape, LocalMoves, SessionKeeps, Winds, Actors, Nil
    <3>6. CloseCommon'
      BY <2>0, <3>1, <3>3 DEF CloseCommon, ClosedTerms
    <3>7. NCClosing'
      BY <2>0, <3>1, <3>2, <3>3, <3>4, <3>5
      DEF Goto, LocalMoves, SessionKeeps, Winds, NCClosing, CloseCommon, ClosedTerms,
          CloseShape, Actors, Nil
    <3> QED
      BY <3>5, <3>6, <3>7
  <2> QED
    BY <1>24, <2>1, <2>2, <2>3, <2>4 DEF NCTerminateStep, NCTerminate
<1> QED
  BY <1>1, <1>2, <1>3, <1>4, <1>5, <1>6, <1>7, <1>8, <1>9, <1>10, <1>11, <1>12, <1>13, <1>14,
      <1>15, <1>16, <1>17, <1>18, <1>19, <1>20, <1>21, <1>22, <1>23, <1>24

----------------------------------------------------------------------------
(* A Pulse session. *)

LEMMA PulseCloses1 ==
    ASSUME TunnelAssumption, CloseShape, CloseCommon, PulseClosing, UNCHANGED <<flavor, link>>
    PROVE  (\/ PulseStart \/ PulseReconnect \/ PulseConfigure \/ PulseInstall \/ PulseReport
            \/ PulseLaunch \/ PulseReadEnds \/ PulseReadRekey
            \/ PulseLock("reader", "respond", "responding") \/ PulseRespond \/ PulseSuppress
            \/ PulseSuppressed \/ PulseCloseESP \/ PulseReadLicense \/ PulseWriteBegins
            \/ PulseWritePacket \/ PulseWriteESP \/ PulseLock("writer", "lock", "writing")
            \/ PulseFlush \/ PulseClose \/ PulseLock("closer", "lock", "writing") \/ PulseBye
            \/ PulseJoin \/ PulseTerminateStep)
           => CloseShape' /\ CloseCommon' /\ PulseClosing'
<1>1. ASSUME PulseStart PROVE CloseShape' /\ CloseCommon' /\ PulseClosing'
  <2>1. pc["start"] = "none" /\ \E l \in {"failed", "configure", "reconnect", "terminating"} : Goto("start", l)
    BY <1>1 DEF PulseStart, CallTerminate, Ends, At, WriterReturns
  <2>2. UNCHANGED <<client, local, channels, keys>>
    BY <1>1 DEF PulseStart
  <2>3. SessionKeeps /\ session'.own = session.own /\ session'.keyed = session.keyed
    BY <1>1 DEF PulseStart, CallTerminate, Ends, Called, Counted, CloseShape, SessionKeeps
  <2>4. DOMAIN conn' = DOMAIN conn /\ conn'.st \in {"open", "closed"}
    BY <1>1 DEF PulseStart, CloseShape
  <2>5. Winds
    BY <2>2, UnchangedWinds
  <2>6. UNCHANGED conn \/ Goto("start", "configure")
    BY <1>1 DEF PulseStart
  <2>7. CloseShape' /\ CloseCommon'
    BY <2>1, <2>2, <2>3, <2>4, <2>5, <2>6, WindsOpen, ReportKeeps, CommonKeeps
    DEF Goto, CloseShape, LocalMoves, SessionKeeps, Winds, Actors, Nil, Monitors
  <2>8. PulseClosing'
    BY <2>1, <2>2, <2>3, <2>4, <2>5, <2>6, <2>7
    DEF Goto, LocalMoves, SessionKeeps, Winds, PulseClosing, CloseCommon, ClosedTerms, CloseShape, Actors,
        Nil, Monitors
  <2> QED
    BY <2>7, <2>8
<1>2. ASSUME PulseReconnect PROVE CloseShape' /\ CloseCommon' /\ PulseClosing'
  <2>1. pc["start"] = "reconnect" /\ \E l \in {"configure", "terminating"} : Goto("start", l)
    BY <1>2 DEF PulseReconnect, CallTerminate, Ends, At, WriterReturns
  <2>2. UNCHANGED <<client, local, channels, keys>>
    BY <1>2 DEF PulseReconnect
  <2>3. SessionKeeps /\ session'.own = session.own /\ session'.keyed = session.keyed
    BY <1>2 DEF PulseReconnect, CallTerminate, Ends, Called, Counted, CloseShape, SessionKeeps
  <2>4. DOMAIN conn' = DOMAIN conn /\ conn'.st \in {"open", "closed"}
    BY <1>2 DEF PulseReconnect, CloseShape
  <2>5. Winds
    BY <2>2, UnchangedWinds
  <2>6. UNCHANGED conn \/ Goto("start", "configure")
    BY <1>2 DEF PulseReconnect
  <2>7. CloseShape' /\ CloseCommon'
    BY <2>1, <2>2, <2>3, <2>4, <2>5, <2>6, WindsOpen, ReportKeeps, CommonKeeps
    DEF Goto, CloseShape, LocalMoves, SessionKeeps, Winds, Actors, Nil, Monitors
  <2>8. PulseClosing'
    BY <2>1, <2>2, <2>3, <2>4, <2>5, <2>6, <2>7
    DEF Goto, LocalMoves, SessionKeeps, Winds, PulseClosing, CloseCommon, ClosedTerms, CloseShape, Actors,
        Nil, Monitors
  <2> QED
    BY <2>7, <2>8
<1>3. ASSUME PulseConfigure PROVE CloseShape' /\ CloseCommon' /\ PulseClosing'
  <2>1. pc["start"] = "configure" /\ \E l \in {"install", "terminating"} : Goto("start", l)
    BY <1>3 DEF PulseConfigure, CallTerminate, Ends, At, WriterReturns
  <2>2. UNCHANGED <<client, local, channels, keys>>
    BY <1>3 DEF PulseConfigure
  <2>3. SessionKeeps /\ session'.own = session.own /\ session'.keyed = session.keyed
    BY <1>3 DEF PulseConfigure, CallTerminate, Ends, Called, Counted, CloseShape, SessionKeeps
  <2>4. DOMAIN conn' = DOMAIN conn /\ conn'.st \in {conn.st, "closed"}
    BY <1>3 DEF PulseConfigure, CloseShape
  <2>5. Winds
    BY <2>2, UnchangedWinds
  <2>6. conn'.st = "closed" \/ Goto("start", "install")
    BY <1>3 DEF PulseConfigure, CloseShape
  <2>7. CloseShape' /\ CloseCommon'
    BY <2>1, <2>2, <2>3, <2>4, <2>5, <2>6, WindsOpen, ReportKeeps, CommonKeeps
    DEF Goto, CloseShape, LocalMoves, SessionKeeps, Winds, Actors, Nil, Monitors
  <2>8. PulseClosing'
    BY <2>1, <2>2, <2>3, <2>4, <2>5, <2>6, <2>7
    DEF Goto, LocalMoves, SessionKeeps, Winds, PulseClosing, CloseCommon, ClosedTerms, CloseShape, Actors,
        Nil, Monitors
  <2> QED
    BY <2>7, <2>8
<1>4. ASSUME PulseInstall PROVE CloseShape' /\ CloseCommon' /\ PulseClosing'
  <2>0. pc["start"] = "install" /\ UNCHANGED <<client, channels, keys, local>> /\ Winds
    BY <1>4, UnchangedWinds DEF PulseInstall, At
  <2>1. CASE session.closed
    <3>1. conn' = [conn EXCEPT !.st = "closed"] /\ Goto("start", "failed") /\ UNCHANGED session
      BY <1>4, <2>1 DEF PulseInstall
    <3>2. DOMAIN conn' = DOMAIN conn /\ conn'.st = "closed"
      BY <3>1 DEF CloseShape
    <3>3. SessionKeeps /\ session'.own = session.own
      BY <3>1 DEF CloseShape, SessionKeeps
    <3>4. CloseShape'
      BY <2>0, <3>1, <3>2, <3>3
      DEF Goto, CloseShape, LocalMoves, SessionKeeps, Winds, Actors, Nil, Monitors
    <3>5. CloseCommon'
      BY <2>0, <3>1, <3>2, <3>3, WindsOpen, ReportKeeps, CommonKeeps
      DEF Goto, CloseShape, Actors, SessionKeeps, Nil, Monitors
    <3>6. PulseClosing'
      BY <2>0, <3>1, <3>2, <3>3, <3>4
      DEF Goto, LocalMoves, SessionKeeps, Winds, PulseClosing, CloseCommon, ClosedTerms,
          CloseShape, Actors, Nil, Monitors
    <3> QED
      BY <3>4, <3>5, <3>6
  <2>2. CASE ~session.closed
    <3>1. session' = [session EXCEPT !.connected = TRUE, !.ready = TRUE] /\ Goto("start", "report") /\ UNCHANGED conn
      BY <1>4, <2>2 DEF PulseInstall
    <3>2. DOMAIN session' = DOMAIN session /\ session'.own = session.own /\ session'.closed = session.closed
          /\ session'.term = session.term /\ session'.connected /\ session'.keyed = session.keyed
      BY <3>1 DEF CloseShape
    <3>3. session.term \notin ClosedTerms
      BY <2>2 DEF CloseCommon
    <3>4. CloseShape'
      BY <2>0, <2>2, <3>1, <3>2, <3>3
      DEF Goto, CloseShape, LocalMoves, SessionKeeps, Winds, Actors, Nil, Monitors
    <3>5. CloseCommon'
      BY <3>1, <3>2, <3>3, <2>0, WindsOpen DEF CloseCommon, AliveOpen, Goto, CloseShape, Actors
    <3>6. PulseClosing'
      BY <2>0, <2>2, <3>1, <3>2, <3>3, <3>4
      DEF Goto, LocalMoves, SessionKeeps, Winds, PulseClosing, CloseCommon, ClosedTerms,
          CloseShape, Actors, Nil, Monitors
    <3> QED
      BY <3>4, <3>5, <3>6
  <2> QED
    BY <2>1, <2>2
<1>5. ASSUME PulseReport PROVE CloseShape' /\ CloseCommon' /\ PulseClosing'
  <2>1. /\ pc["start"] = "report"
        /\ pc' = [pc EXCEPT !["start"] = "launch", !["reader"] = "read"]
    BY <1>5 DEF PulseReport, At
  <2>2. UNCHANGED <<session, conn, local, channels, keys>>
    BY <1>5 DEF PulseReport
  <2>3. ClientShape(client') /\ client'.transportSession = client.transportSession
    BY <1>5, ReportKeeps DEF PulseReport, CloseShape
  <2>4. SessionKeeps /\ session'.own = session.own /\ session'.keyed = session.keyed
    BY <2>2 DEF CloseShape, SessionKeeps
  <2>5. Winds
    BY <2>2, UnchangedWinds
  <2>6. CloseShape' /\ CloseCommon'
    BY <2>1, <2>2, <2>3, <2>4, <2>5, WindsOpen, ReportKeeps, CommonKeeps
    DEF Goto, CloseShape, LocalMoves, SessionKeeps, Winds, Actors, Nil, Monitors
  <2>7. PulseClosing'
    BY <2>1, <2>2, <2>3, <2>4, <2>5, <2>6
    DEF Goto, LocalMoves, SessionKeeps, Winds, PulseClosing, CloseCommon, ClosedTerms, CloseShape, Actors,
        Nil, Monitors
  <2> QED
    BY <2>6, <2>7
<1>6. ASSUME PulseLaunch PROVE CloseShape' /\ CloseCommon' /\ PulseClosing'
  <2>1. UNCHANGED <<client, session, conn, local, channels, keys>>
    BY <1>6 DEF PulseLaunch
  <2>2. SessionKeeps /\ session'.own = session.own /\ session'.keyed = session.keyed
    BY <2>1 DEF CloseShape, SessionKeeps
  <2>3. Winds
    BY <2>1, UnchangedWinds
  <2>4. pc["start"] = "launch" /\ PulseLaunched("start", "running")
    BY <1>6 DEF PulseLaunch, At
  <2>5. /\ pc["start"] = "launch" /\ DOMAIN pc' = Actors /\ pc'["start"] = "running"
        /\ \A b \in {"start", "reader", "closer"} : b # "start" => pc'[b] = pc[b]
        /\ \A n \in Monitors : pc'[n] = pc[n] \/ (pc[n] = "none" /\ pc'[n] = "launched" /\ ~session.closed)
    BY <2>4, LaunchedMoves
  <2>6. CloseShape' /\ CloseCommon'
    BY <2>1, <2>2, <2>3, <2>5, WindsOpen, ReportKeeps, CommonKeeps
    DEF Goto, CloseShape, LocalMoves, SessionKeeps, Winds, Actors, Nil, Monitors
  <2>7. PulseClosing'
    BY <2>1, <2>2, <2>3, <2>5, <2>6
    DEF Goto, LocalMoves, SessionKeeps, Winds, PulseClosing, CloseCommon, ClosedTerms, CloseShape, Actors,
        Nil, Monitors
  <2> QED
    BY <2>6, <2>7
<1>7. ASSUME PulseReadEnds PROVE CloseShape' /\ CloseCommon' /\ PulseClosing'
  <2>1. pc["reader"] = "read" /\ \E l \in {"exited", "terminating"} : Goto("reader", l)
    BY <1>7 DEF PulseReadEnds, CallTerminate, Ends, At, WriterReturns
  <2>2. UNCHANGED <<client, conn, local, channels, keys>>
    BY <1>7 DEF PulseReadEnds
  <2>3. session' \in {session, Called(session), Called(Counted(session)), Counted(session)}
    BY <1>7 DEF PulseReadEnds, CallTerminate, Ends
  <2>4. SessionKeeps /\ session'.own = session.own /\ session'.keyed = session.keyed
    BY <2>3, CalledKeeps
  <2>5. Winds
    BY <2>2, UnchangedWinds
  <2>6. CloseShape' /\ CloseCommon'
    BY <2>1, <2>2, <2>4, <2>5, WindsOpen, ReportKeeps, CommonKeeps
    DEF Goto, CloseShape, LocalMoves, SessionKeeps, Winds, Actors, Nil, Monitors
  <2>7. PulseClosing'
    BY <2>1, <2>2, <2>4, <2>5, <2>6
    DEF Goto, LocalMoves, SessionKeeps, Winds, PulseClosing, CloseCommon, ClosedTerms, CloseShape, Actors,
        Nil, Monitors
  <2> QED
    BY <2>6, <2>7
<1>8. ASSUME PulseReadRekey PROVE CloseShape' /\ CloseCommon' /\ PulseClosing'
  <2>1. pc["reader"] = "read" /\ ~session.closed /\ UNCHANGED <<client, conn, channels>>
    BY <1>8 DEF PulseReadRekey, Received, At
  <2>2. /\ DOMAIN Counted(session) = DOMAIN session
        /\ \A x \in {"closed", "term", "connected", "own", "keyed"} : Counted(session)[x] = session[x]
    BY DEF Counted, CloseShape
  <2>3. session' \in {Counted(session), [Counted(session) EXCEPT !.keyed = TRUE, !.suppressed = FALSE]}
    BY <1>8 DEF PulseReadRekey
  <2>4. SessionKeeps /\ session'.own = session.own
    BY <2>3, KeyedKeeps
  <2>5. /\ keys' \in {"none", "live", "destroyed"}
        /\ \/ Goto("reader", "respond") /\ session'.keyed
           \/ Goto("reader", "suppress") /\ session'.keyed = session.keyed /\ UNCHANGED keys
    BY <1>8, <2>2, ZenonT(30) DEF PulseReadRekey, CloseShape
  <2>6. LocalMoves("reader")
    BY <1>8, HoldingMoves, UnchangedMoves DEF PulseReadRekey, CloseShape, Actors
  <2>7. DOMAIN local' = DOMAIN local /\ local'.channel \in [Actors -> Nat] /\ local'.taken = local.taken
        /\ \A n \in Monitors : local'.channel[n] = local.channel[n]
    BY <2>6 DEF LocalMoves, Actors, Monitors
  <2>8. AliveOpen /\ \A d \in 1 .. MaxChannels : Running(d)' <=> Running(d)
    BY <2>1 DEF CloseCommon, AliveOpen, Running
  <2>9. session.term \notin ClosedTerms
    BY <2>1 DEF CloseCommon
  <2>10. CloseShape' /\ CloseCommon'
    BY <2>1, <2>4, <2>5, <2>7, <2>8, <2>9, WindsOpen, ReportKeeps, CommonKeeps
    DEF Goto, CloseShape, LocalMoves, SessionKeeps, Winds, Actors, Nil, Monitors
  <2>11. PulseClosing'
    BY <2>1, <2>4, <2>5, <2>7, <2>8, <2>9, <2>10, SMTT(30)
    DEF Goto, LocalMoves, SessionKeeps, Winds, PulseClosing, CloseCommon, ClosedTerms, CloseShape, Actors,
        Nil, Monitors
  <2> QED
    BY <2>10, <2>11
<1>9. ASSUME PulseLock("reader", "respond", "responding") PROVE CloseShape' /\ CloseCommon' /\ PulseClosing'
  <2>1. pc["reader"] = "respond" /\ Goto("reader", "responding")
    BY <1>9 DEF PulseLock, CallTerminate, Ends, At, WriterReturns
  <2>2. UNCHANGED <<client, session, local, channels, keys>>
    BY <1>9 DEF PulseLock
  <2>3. SessionKeeps /\ session'.own = session.own /\ session'.keyed = session.keyed
    BY <2>2 DEF CloseShape, SessionKeeps
  <2>4. DOMAIN conn' = DOMAIN conn /\ conn'.st = conn.st
    BY <1>9 DEF PulseLock, Acquire, WriteEnds, CloseShape
  <2>5. Winds
    BY <2>2, UnchangedWinds
  <2>6. CloseShape' /\ CloseCommon'
    BY <2>1, <2>2, <2>3, <2>4, <2>5, WindsOpen, ReportKeeps, CommonKeeps
    DEF Goto, CloseShape, LocalMoves, SessionKeeps, Winds, Actors, Nil, Monitors
  <2>7. PulseClosing'
    BY <2>1, <2>2, <2>3, <2>4, <2>5, <2>6
    DEF Goto, LocalMoves, SessionKeeps, Winds, PulseClosing, CloseCommon, ClosedTerms, CloseShape, Actors,
        Nil, Monitors
  <2> QED
    BY <2>6, <2>7
<1>10. ASSUME PulseRespond PROVE CloseShape' /\ CloseCommon' /\ PulseClosing'
  <2>1. UNCHANGED <<client, session, channels, keys>>
    BY <1>10 DEF PulseRespond
  <2>2. SessionKeeps /\ session'.own = session.own /\ session'.keyed = session.keyed
    BY <2>1 DEF CloseShape, SessionKeeps
  <2>3. DOMAIN conn' = DOMAIN conn /\ conn'.st = conn.st
    BY <1>10 DEF PulseRespond, Acquire, WriteEnds, CloseShape
  <2>4. LocalMoves("reader")
    BY <1>10, HoldingMoves, UnchangedMoves DEF PulseRespond, CloseShape, Actors, Monitors, Nil
  <2>5. DOMAIN local' = DOMAIN local /\ local'.channel \in [Actors -> Nat] /\ local'.taken = local.taken
        /\ \A n \in Monitors : local'.channel[n] = local.channel[n]
    BY <2>4 DEF LocalMoves, Actors, Monitors
  <2>6. Winds
    BY <2>1, UnchangedWinds
  <2>7. pc["reader"] = "responding" /\ (PulseLaunched("reader", "read") \/ Goto("reader", "read") \/ Goto("reader", "suppress"))
    BY Zenon, <1>10 DEF PulseRespond, At
  <2>8. /\ pc["reader"] = "responding" /\ DOMAIN pc' = Actors /\ pc'["reader"] \in {"read", "suppress"}
        /\ \A b \in {"start", "reader", "closer"} : b # "reader" => pc'[b] = pc[b]
        /\ \A n \in Monitors : pc'[n] = pc[n] \/ (pc[n] = "none" /\ pc'[n] = "launched" /\ ~session.closed)
    BY <2>7, LaunchedMoves DEF Goto, CloseShape, Actors, Monitors
  <2>9. CloseShape' /\ CloseCommon'
    BY <2>1, <2>2, <2>3, <2>5, <2>6, <2>8, WindsOpen, ReportKeeps, CommonKeeps
    DEF Goto, CloseShape, LocalMoves, SessionKeeps, Winds, Actors, Nil, Monitors
  <2>10. PulseClosing'
    BY <2>1, <2>2, <2>3, <2>5, <2>6, <2>8, <2>9
    DEF Goto, LocalMoves, SessionKeeps, Winds, PulseClosing, CloseCommon, ClosedTerms, CloseShape, Actors,
        Nil, Monitors
  <2> QED
    BY <2>9, <2>10
<1>11. ASSUME PulseSuppress PROVE CloseShape' /\ CloseCommon' /\ PulseClosing'
  <2>0. pc["reader"] = "suppress" /\ UNCHANGED <<client, conn, channels, keys>> /\ Winds
    BY <1>11, UnchangedWinds DEF PulseSuppress, At
  <2>1. CASE session.closed
    <3>1. Goto("reader", "read") /\ UNCHANGED <<session, local>>
      BY <1>11, <2>1 DEF PulseSuppress
    <3>2. SessionKeeps /\ session'.own = session.own
      BY <3>1 DEF CloseShape, SessionKeeps
    <3>3. CloseShape'
      BY <2>0, <3>1, <3>2
      DEF Goto, CloseShape, LocalMoves, SessionKeeps, Winds, Actors, Nil, Monitors
    <3>4. CloseCommon'
      BY <2>0, <3>1, <3>2, WindsOpen, ReportKeeps, CommonKeeps
      DEF Goto, CloseShape, Actors, SessionKeeps, Nil, Monitors
    <3>5. PulseClosing'
      BY <2>0, <3>1, <3>2, <3>3
      DEF Goto, LocalMoves, SessionKeeps, Winds, PulseClosing, CloseCommon, ClosedTerms,
          CloseShape, Actors, Nil, Monitors
    <3> QED
      BY <3>3, <3>4, <3>5
  <2>2. CASE ~session.closed
    <3>1. session' = [session EXCEPT !.own = Nil, !.keyed = FALSE, !.suppressed = TRUE]
          /\ Holding("reader", session.own) /\ Goto("reader", "suppressed")
      BY <1>11, <2>2 DEF PulseSuppress
    <3>2. SessionKeeps /\ session'.own = Nil /\ session'.keyed = FALSE
      BY <3>1 DEF CloseShape, SessionKeeps
    <3>3. LocalMoves("reader") /\ local'.channel["reader"] = session.own
      BY <3>1, HoldingMoves DEF CloseShape, Actors
    <3>4. DOMAIN local' = DOMAIN local /\ local'.channel \in [Actors -> Nat] /\ local'.taken = local.taken
          /\ local'.channel["reader"] = session.own
          /\ \A n \in Monitors : local'.channel[n] = local.channel[n]
      BY <3>3 DEF LocalMoves, Actors, Monitors
    <3>5. CloseShape'
      BY <2>0, <2>2, <3>1, <3>2, <3>4
      DEF Goto, CloseShape, LocalMoves, SessionKeeps, Winds, Actors, Nil, Monitors
    <3>6. CloseCommon'
      BY <2>0, <2>2, <3>1, <3>2, <3>4, WindsOpen, ReportKeeps, CommonKeeps
      DEF Goto, CloseShape, Actors, SessionKeeps, Nil, Monitors
    <3>7. PulseClosing'
      BY <2>0, <2>2, <3>1, <3>2, <3>4, <3>5
      DEF Goto, LocalMoves, SessionKeeps, Winds, PulseClosing, CloseCommon, ClosedTerms,
          CloseShape, Actors, Nil, Monitors
    <3> QED
      BY <3>5, <3>6, <3>7
  <2> QED
    BY <2>1, <2>2
<1>12. ASSUME PulseSuppressed PROVE CloseShape' /\ CloseCommon' /\ PulseClosing'
  <2>1. pc["reader"] = "suppressed" /\ Goto("reader", "closeESP")
    BY <1>12 DEF PulseSuppressed, CallTerminate, Ends, At, WriterReturns
  <2>2. UNCHANGED <<session, conn, local>>
    BY <1>12 DEF PulseSuppressed
  <2>3. ClientShape(client') /\ client'.transportSession = client.transportSession
    BY <1>12, ReportKeeps DEF PulseSuppressed, CloseShape
  <2>4. SessionKeeps /\ session'.own = session.own /\ session'.keyed = session.keyed
    BY <2>2 DEF CloseShape, SessionKeeps
  <2>5. local.channel["reader"] \in Nat
    BY DEF CloseShape, Actors
  <2>6. (\E err \in {"nil", "err", "exhausted", "fatal", "rekey"} : TerminateChannel(local.channel["reader"], err))
    BY <1>12 DEF PulseSuppressed
  <2>7. Winds /\ \A d \in 1 .. MaxChannels : Running(d)' => d # local.channel["reader"]
    BY <2>5, <2>6, TerminateAnyWinds
  <2>8. CloseShape' /\ CloseCommon'
    BY <2>1, <2>2, <2>3, <2>4, <2>5, <2>6, <2>7, WindsOpen, ReportKeeps, CommonKeeps
    DEF Goto, CloseShape, LocalMoves, SessionKeeps, Winds, Actors, Nil, Monitors
  <2>9. PulseClosing'
    BY <2>1, <2>2, <2>3, <2>4, <2>5, <2>6, <2>7, <2>8
    DEF Goto, LocalMoves, SessionKeeps, Winds, PulseClosing, CloseCommon, ClosedTerms, CloseShape, Actors,
        Nil, Monitors
  <2> QED
    BY <2>8, <2>9
<1>13. ASSUME PulseCloseESP PROVE CloseShape' /\ CloseCommon' /\ PulseClosing'
  <2>1. UNCHANGED <<client, session, conn>>
    BY <1>13 DEF PulseCloseESP
  <2>2. SessionKeeps /\ session'.own = session.own /\ session'.keyed = session.keyed
    BY <2>1 DEF CloseShape, SessionKeeps
  <2>3. LocalMoves("reader")
    BY <1>13, HoldingMoves, UnchangedMoves DEF PulseCloseESP, CloseShape, Actors, Monitors, Nil
  <2>4. DOMAIN local' = DOMAIN local /\ local'.channel \in [Actors -> Nat] /\ local'.taken = local.taken
        /\ \A n \in Monitors : local'.channel[n] = local.channel[n]
    BY <2>3 DEF LocalMoves, Actors, Monitors
  <2>5. pc["reader"] = "closeESP" /\ DOMAIN pc' = Actors /\ pc'["reader"] = "read"
        /\ \A b \in {"start", "control", "timer", "closer"} : pc'[b] = pc[b]
    BY <1>13 DEF PulseCloseESP, At, Goto, CloseShape, Actors
  <2>6. UNCHANGED channels /\ keys' \in {keys, "destroyed"} /\ keys' # "live"
    BY <1>13 DEF PulseCloseESP
  <2>7. Winds
    BY <2>6, KeysWinds
  <2>8. CloseShape' /\ CloseCommon'
    BY <2>1, <2>2, <2>4, <2>5, <2>6, <2>7, WindsOpen, ReportKeeps, CommonKeeps
    DEF Goto, CloseShape, LocalMoves, SessionKeeps, Winds, Actors, Nil, Monitors
  <2>9. PulseClosing'
    BY <2>1, <2>2, <2>4, <2>5, <2>6, <2>7, <2>8
    DEF Goto, LocalMoves, SessionKeeps, Winds, PulseClosing, CloseCommon, ClosedTerms, CloseShape, Actors,
        Nil, Monitors
  <2> QED
    BY <2>8, <2>9
<1>14. ASSUME PulseReadLicense PROVE CloseShape' /\ CloseCommon' /\ PulseClosing'
  <2>1. UNCHANGED <<client, conn, local>>
    BY <1>14 DEF PulseReadLicense
  <2>2. SessionKeeps /\ session'.own = session.own /\ session'.keyed = session.keyed
    BY <1>14 DEF PulseReadLicense, CallTerminate, Ends, Called, Counted, CloseShape, SessionKeeps
  <2>3. session.own \in Nat
    BY DEF CloseShape
  <2>4. /\ pc["reader"] = "read"
        /\ \/ PulseLaunched("reader", "read") /\ UNCHANGED <<channels, keys>>
           \/ ProbeEnds("reader", session.own, "read", "read")
    BY <1>14 DEF PulseReadLicense, Received, At
  <2>5. Winds /\ (PulseLaunched("reader", "read") \/ Goto("reader", "read")) /\ pc["reader"] = "read"
    BY <2>3, <2>4, ProbeWinds, UnchangedWinds
  <2>6. /\ pc["reader"] = "read" /\ DOMAIN pc' = Actors /\ pc'["reader"] = "read"
        /\ \A b \in {"start", "reader", "closer"} : b # "reader" => pc'[b] = pc[b]
        /\ \A n \in Monitors : pc'[n] = pc[n] \/ (pc[n] = "none" /\ pc'[n] = "launched" /\ ~session.closed)
        /\ Winds
    BY <2>5, LaunchedMoves DEF Goto, CloseShape, Actors, Monitors
  <2>7. CloseShape' /\ CloseCommon'
    BY <2>1, <2>2, <2>3, <2>6, WindsOpen, ReportKeeps, CommonKeeps
    DEF Goto, CloseShape, LocalMoves, SessionKeeps, Winds, Actors, Nil, Monitors
  <2>8. PulseClosing'
    BY <2>1, <2>2, <2>3, <2>6, <2>7
    DEF Goto, LocalMoves, SessionKeeps, Winds, PulseClosing, CloseCommon, ClosedTerms, CloseShape, Actors,
        Nil, Monitors
  <2> QED
    BY <2>7, <2>8
<1>15. ASSUME PulseWriteBegins PROVE CloseShape' /\ CloseCommon' /\ PulseClosing'
  <2>1. pc["writer"] = "none" /\ Goto("writer", "packet")
    BY <1>15 DEF PulseWriteBegins, CallTerminate, Ends, At, WriterReturns
  <2>2. UNCHANGED <<client, session, conn, channels, keys>>
    BY <1>15 DEF PulseWriteBegins
  <2>3. SessionKeeps /\ session'.own = session.own /\ session'.keyed = session.keyed
    BY <2>2 DEF CloseShape, SessionKeeps
  <2>4. LocalMoves("writer")
    BY <1>15, HoldingMoves, WrittenMoves, UnchangedMoves, PendMoves DEF PulseWriteBegins, WriterReturns, CloseShape, Actors, Nil
  <2>5. DOMAIN local' = DOMAIN local /\ local'.channel \in [Actors -> Nat] /\ local'.taken = local.taken
        /\ local'.channel["reader"] = local.channel["reader"] /\ \A n \in Monitors : local'.channel[n] = local.channel[n]
    BY <2>4 DEF LocalMoves, Actors, Monitors
  <2>6. Winds
    BY <2>2, UnchangedWinds
  <2>7. CloseShape' /\ CloseCommon'
    BY <2>1, <2>2, <2>3, <2>5, <2>6, WindsOpen, ReportKeeps, CommonKeeps
    DEF Goto, CloseShape, LocalMoves, SessionKeeps, Winds, Actors, Nil, Monitors
  <2>8. PulseClosing'
    BY <2>1, <2>2, <2>3, <2>5, <2>6, <2>7
    DEF Goto, LocalMoves, SessionKeeps, Winds, PulseClosing, CloseCommon, ClosedTerms, CloseShape, Actors,
        Nil, Monitors
  <2> QED
    BY <2>7, <2>8
<1>16. ASSUME PulseWritePacket PROVE CloseShape' /\ CloseCommon' /\ PulseClosing'
  <2>1. UNCHANGED <<client, session, conn, channels, keys>>
    BY <1>16 DEF PulseWritePacket, Pend
  <2>2. SessionKeeps /\ session'.own = session.own /\ session'.keyed = session.keyed
    BY <2>1 DEF CloseShape, SessionKeeps
  <2>3. LocalMoves("writer")
    BY Zenon, <1>16, HoldingMoves, WrittenMoves, UnchangedMoves, PendMoves DEF PulseWritePacket, WriterReturns, CloseShape, Actors, Nil
  <2>4. DOMAIN local' = DOMAIN local /\ local'.channel \in [Actors -> Nat] /\ local'.taken = local.taken
        /\ local'.channel["reader"] = local.channel["reader"] /\ \A n \in Monitors : local'.channel[n] = local.channel[n]
    BY <2>3 DEF LocalMoves, Actors, Monitors
  <2>5. Winds
    BY <2>1, UnchangedWinds
  <2>6. DOMAIN pc' = Actors /\ \A b \in {"start", "reader", "closer", "control", "timer"} : pc'[b] = pc[b]
    BY <1>16 DEF PulseWritePacket, WriterReturns, Goto, CloseShape, Actors
  <2>7. CloseShape' /\ CloseCommon'
    BY <2>1, <2>2, <2>4, <2>5, <2>6, WindsOpen, ReportKeeps, CommonKeeps
    DEF Goto, CloseShape, LocalMoves, SessionKeeps, Winds, Actors, Nil, Monitors
  <2>8. PulseClosing'
    BY <2>1, <2>2, <2>4, <2>5, <2>6, <2>7
    DEF Goto, LocalMoves, SessionKeeps, Winds, PulseClosing, CloseCommon, ClosedTerms, CloseShape, Actors,
        Nil, Monitors
  <2> QED
    BY <2>7, <2>8
<1>17. ASSUME PulseWriteESP PROVE CloseShape' /\ CloseCommon' /\ PulseClosing'
  <2>1. pc["writer"] = "esp" /\ Goto("writer", "packet")
    BY <1>17 DEF PulseWriteESP, Pend, CallTerminate, Ends, At, WriterReturns
  <2>2. UNCHANGED <<session, conn>>
    BY <1>17 DEF PulseWriteESP, Pend
  <2>3. ClientShape(client') /\ client'.transportSession = client.transportSession
    BY <1>17, ReportKeeps DEF PulseWriteESP, Pend, CloseShape
  <2>4. SessionKeeps /\ session'.own = session.own /\ session'.keyed = session.keyed
    BY <2>2 DEF CloseShape, SessionKeeps
  <2>5. LocalMoves("writer")
    BY <1>17, ZenonT(30) DEF PulseWriteESP, Pend, LocalMoves, CloseShape, Actors, Nil
  <2>6. DOMAIN local' = DOMAIN local /\ local'.channel \in [Actors -> Nat] /\ local'.taken = local.taken
        /\ local'.channel["reader"] = local.channel["reader"] /\ \A n \in Monitors : local'.channel[n] = local.channel[n]
    BY <2>5 DEF LocalMoves, Actors, Monitors
  <2>7. local.channel["writer"] \in Nat
    BY DEF CloseShape, Actors
  <2>8. UNCHANGED <<channels, keys>> \/ (\E err \in {"nil", "err", "exhausted", "fatal", "rekey"} : TerminateChannel(local.channel["writer"], err))
    BY <1>17 DEF PulseWriteESP
  <2>9. Winds
    BY <2>7, <2>8, UnchangedWinds, TerminateAnyWinds
  <2>10. CloseShape' /\ CloseCommon'
    BY <2>1, <2>2, <2>3, <2>4, <2>6, <2>9, WindsOpen, ReportKeeps, CommonKeeps
    DEF Goto, CloseShape, LocalMoves, SessionKeeps, Winds, Actors, Nil, Monitors
  <2>11. PulseClosing'
    BY <2>1, <2>2, <2>3, <2>4, <2>6, <2>9, <2>10
    DEF Goto, LocalMoves, SessionKeeps, Winds, PulseClosing, CloseCommon, ClosedTerms, CloseShape, Actors,
        Nil, Monitors
  <2> QED
    BY <2>10, <2>11
<1>18. ASSUME PulseLock("writer", "lock", "writing") PROVE CloseShape' /\ CloseCommon' /\ PulseClosing'
  <2>1. pc["writer"] = "lock" /\ Goto("writer", "writing")
    BY <1>18 DEF PulseLock, CallTerminate, Ends, At, WriterReturns
  <2>2. UNCHANGED <<client, session, local, channels, keys>>
    BY <1>18 DEF PulseLock
  <2>3. SessionKeeps /\ session'.own = session.own /\ session'.keyed = session.keyed
    BY <2>2 DEF CloseShape, SessionKeeps
  <2>4. DOMAIN conn' = DOMAIN conn /\ conn'.st = conn.st
    BY <1>18 DEF PulseLock, Acquire, WriteEnds, CloseShape
  <2>5. Winds
    BY <2>2, UnchangedWinds
  <2>6. CloseShape' /\ CloseCommon'
    BY <2>1, <2>2, <2>3, <2>4, <2>5, WindsOpen, ReportKeeps, CommonKeeps
    DEF Goto, CloseShape, LocalMoves, SessionKeeps, Winds, Actors, Nil, Monitors
  <2>7. PulseClosing'
    BY <2>1, <2>2, <2>3, <2>4, <2>5, <2>6
    DEF Goto, LocalMoves, SessionKeeps, Winds, PulseClosing, CloseCommon, ClosedTerms, CloseShape, Actors,
        Nil, Monitors
  <2> QED
    BY <2>6, <2>7
<1>19. ASSUME PulseFlush PROVE CloseShape' /\ CloseCommon' /\ PulseClosing'
  <2>1. pc["writer"] = "writing" /\ \E l \in {"done", "esp", "terminating"} : Goto("writer", l)
    BY Zenon, <1>19 DEF PulseFlush, CallTerminate, Ends, At, WriterReturns
  <2>2. UNCHANGED <<client, channels, keys>>
    BY <1>19 DEF PulseFlush
  <2>3. session' \in {session, Called(session), Called(Counted(session)), Counted(session)}
    BY Zenon, <1>19 DEF PulseFlush, CallTerminate, Ends
  <2>4. SessionKeeps /\ session'.own = session.own /\ session'.keyed = session.keyed
    BY <2>3, CalledKeeps
  <2>5. DOMAIN conn' = DOMAIN conn /\ conn'.st = conn.st
    BY <1>19 DEF PulseFlush, Acquire, WriteEnds, CloseShape
  <2>6. LocalMoves("writer")
    BY Zenon, <1>19, HoldingMoves, WrittenMoves, UnchangedMoves, PendMoves DEF PulseFlush, WriterReturns, CloseShape, Actors, Nil
  <2>7. DOMAIN local' = DOMAIN local /\ local'.channel \in [Actors -> Nat] /\ local'.taken = local.taken
        /\ local'.channel["reader"] = local.channel["reader"] /\ \A n \in Monitors : local'.channel[n] = local.channel[n]
    BY <2>6 DEF LocalMoves, Actors, Monitors
  <2>8. Winds
    BY <2>2, UnchangedWinds
  <2>9. CloseShape' /\ CloseCommon'
    BY <2>1, <2>2, <2>4, <2>5, <2>7, <2>8, WindsOpen, ReportKeeps, CommonKeeps
    DEF Goto, CloseShape, LocalMoves, SessionKeeps, Winds, Actors, Nil, Monitors
  <2>10. PulseClosing'
    BY <2>1, <2>2, <2>4, <2>5, <2>7, <2>8, <2>9
    DEF Goto, LocalMoves, SessionKeeps, Winds, PulseClosing, CloseCommon, ClosedTerms, CloseShape, Actors,
        Nil, Monitors
  <2> QED
    BY <2>9, <2>10
<1>20. ASSUME PulseClose PROVE CloseShape' /\ CloseCommon' /\ PulseClosing'
  <2>1. pc["closer"] = "none" /\ \E l \in {"lock", "terminating"} : Goto("closer", l)
    BY <1>20 DEF PulseClose, CallTerminate, Ends, At, WriterReturns
  <2>2. UNCHANGED <<client, conn, local, channels, keys>>
    BY <1>20 DEF PulseClose
  <2>3. SessionKeeps /\ session'.own = session.own /\ session'.keyed = session.keyed
    BY <1>20 DEF PulseClose, CallTerminate, Ends, Called, Counted, CloseShape, SessionKeeps
  <2>4. Winds
    BY <2>2, UnchangedWinds
  <2>5. CloseShape' /\ CloseCommon'
    BY <2>1, <2>2, <2>3, <2>4, WindsOpen, ReportKeeps, CommonKeeps
    DEF Goto, CloseShape, LocalMoves, SessionKeeps, Winds, Actors, Nil, Monitors
  <2>6. PulseClosing'
    BY <2>1, <2>2, <2>3, <2>4, <2>5
    DEF Goto, LocalMoves, SessionKeeps, Winds, PulseClosing, CloseCommon, ClosedTerms, CloseShape, Actors,
        Nil, Monitors
  <2> QED
    BY <2>5, <2>6
<1>21. ASSUME PulseLock("closer", "lock", "writing") PROVE CloseShape' /\ CloseCommon' /\ PulseClosing'
  <2>1. pc["closer"] = "lock" /\ Goto("closer", "writing")
    BY <1>21 DEF PulseLock, CallTerminate, Ends, At, WriterReturns
  <2>2. UNCHANGED <<client, session, local, channels, keys>>
    BY <1>21 DEF PulseLock
  <2>3. SessionKeeps /\ session'.own = session.own /\ session'.keyed = session.keyed
    BY <2>2 DEF CloseShape, SessionKeeps
  <2>4. DOMAIN conn' = DOMAIN conn /\ conn'.st = conn.st
    BY <1>21 DEF PulseLock, Acquire, WriteEnds, CloseShape
  <2>5. Winds
    BY <2>2, UnchangedWinds
  <2>6. CloseShape' /\ CloseCommon'
    BY <2>1, <2>2, <2>3, <2>4, <2>5, WindsOpen, ReportKeeps, CommonKeeps
    DEF Goto, CloseShape, LocalMoves, SessionKeeps, Winds, Actors, Nil, Monitors
  <2>7. PulseClosing'
    BY <2>1, <2>2, <2>3, <2>4, <2>5, <2>6
    DEF Goto, LocalMoves, SessionKeeps, Winds, PulseClosing, CloseCommon, ClosedTerms, CloseShape, Actors,
        Nil, Monitors
  <2> QED
    BY <2>6, <2>7
<1>22. ASSUME PulseBye PROVE CloseShape' /\ CloseCommon' /\ PulseClosing'
  <2>1. pc["closer"] = "writing" /\ Goto("closer", "terminating")
    BY <1>22 DEF PulseBye, CallTerminate, Ends, At, WriterReturns
  <2>2. UNCHANGED <<client, local, channels, keys>>
    BY <1>22 DEF PulseBye
  <2>3. SessionKeeps /\ session'.own = session.own /\ session'.keyed = session.keyed
    BY <1>22 DEF PulseBye, CallTerminate, Ends, Called, Counted, CloseShape, SessionKeeps
  <2>4. DOMAIN conn' = DOMAIN conn /\ conn'.st = conn.st
    BY <1>22 DEF PulseBye, Acquire, WriteEnds, CloseShape
  <2>5. Winds
    BY <2>2, UnchangedWinds
  <2>6. CloseShape' /\ CloseCommon'
    BY <2>1, <2>2, <2>3, <2>4, <2>5, WindsOpen, ReportKeeps, CommonKeeps
    DEF Goto, CloseShape, LocalMoves, SessionKeeps, Winds, Actors, Nil, Monitors
  <2>7. PulseClosing'
    BY <2>1, <2>2, <2>3, <2>4, <2>5, <2>6
    DEF Goto, LocalMoves, SessionKeeps, Winds, PulseClosing, CloseCommon, ClosedTerms, CloseShape, Actors,
        Nil, Monitors
  <2> QED
    BY <2>6, <2>7
<1>23. ASSUME PulseJoin PROVE CloseShape' /\ CloseCommon' /\ PulseClosing'
  <2>1. pc["closer"] = "join" /\ Goto("closer", "done") /\ pc["start"] # "report"
        /\ pc["reader"] \in {"none", "exited"} /\ \A n \in Monitors : pc[n] \in {"none", "exited"}
    BY <1>23 DEF PulseJoin, At, Finished
  <2>2. UNCHANGED <<client, session, conn, channels, keys, local>>
    BY <1>23 DEF PulseJoin
  <2>3. Winds
    BY <2>2, UnchangedWinds
  <2>4. SessionKeeps
    BY <2>2 DEF CloseShape, SessionKeeps
  <2>5. CloseShape'
    BY <2>1, <2>2, <2>3, <2>4
    DEF Goto, CloseShape, LocalMoves, SessionKeeps, Winds, Actors, Nil, Monitors
  <2>6. CloseCommon'
    BY <2>1, <2>2 DEF CloseCommon, Goto, CloseShape, Actors
  <2>7. PulseClosing'
    BY <2>1, <2>2, <2>3, <2>4, <2>5
    DEF Goto, LocalMoves, SessionKeeps, Winds, PulseClosing, CloseCommon, ClosedTerms,
        CloseShape, Actors, Nil, Monitors
  <2> QED
    BY <2>5, <2>6, <2>7
<1>24. ASSUME PulseTerminateStep PROVE CloseShape' /\ CloseCommon' /\ PulseClosing'
  <2>0. UNCHANGED pc
    BY <1>24 DEF PulseTerminateStep
  <2>1. CASE /\ session.term = "called"
             /\ session' = [session EXCEPT !.term = "cancelled", !.cancelled = TRUE, !.ready = FALSE]
             /\ UNCHANGED <<client, conn, channels, keys, local>>
    <3>1. DOMAIN session' = DOMAIN session /\ session'.own = session.own /\ session'.connected = session.connected
          /\ session'.closed = session.closed /\ session'.term = "cancelled" /\ session'.keyed = session.keyed
      BY <2>1 DEF CloseShape
    <3>2. UNCHANGED <<client, conn, channels, keys, local>> /\ session.term = "called"
      BY <2>1
    <3>3. Winds
      BY <3>2, UnchangedWinds
    <3>4. CloseShape'
      BY <2>0, <3>1, <3>2, <3>3
      DEF Goto, CloseShape, LocalMoves, SessionKeeps, Winds, Actors, Nil, Monitors
    <3>5. CloseCommon'
      BY <2>0, <3>1, <3>2 DEF CloseCommon, ClosedTerms
    <3>6. PulseClosing'
      BY <2>0, <3>1, <3>2, <3>3, <3>4
      DEF Goto, LocalMoves, SessionKeeps, Winds, PulseClosing, CloseCommon, ClosedTerms,
          CloseShape, Actors, Nil, Monitors
    <3> QED
      BY <3>4, <3>5, <3>6
  <2>2. CASE /\ session.term = "cancelled"
             /\ session' = [session EXCEPT !.term = "taken", !.closed = TRUE, !.own = Nil]
             /\ local' = [local EXCEPT !.taken = session.own]
             /\ UNCHANGED <<client, conn, channels, keys>>
    <3>1. DOMAIN session' = DOMAIN session /\ session'.own = Nil /\ session'.connected = session.connected
          /\ session'.closed = TRUE /\ session'.term = "taken" /\ session'.keyed = session.keyed
      BY <2>2 DEF CloseShape
    <3>2. DOMAIN local' = DOMAIN local /\ local'.taken = session.own /\ local'.channel = local.channel
      BY <2>2 DEF CloseShape
    <3>3. UNCHANGED <<client, conn, channels, keys>> /\ session.term = "cancelled"
      BY <2>2
    <3>4. Winds
      BY <3>3, UnchangedWinds
    <3>5. CloseShape'
      BY <2>0, <3>1, <3>2, <3>3, <3>4
      DEF Goto, CloseShape, LocalMoves, SessionKeeps, Winds, Actors, Nil, Monitors
    <3>6. CloseCommon'
      BY <2>0, <3>1, <3>3 DEF CloseCommon, ClosedTerms
    <3>7. PulseClosing'
      BY <2>0, <3>1, <3>2, <3>3, <3>4, <3>5
      DEF Goto, LocalMoves, SessionKeeps, Winds, PulseClosing, CloseCommon, ClosedTerms,
          CloseShape, Actors, Nil, Monitors
    <3> QED
      BY <3>5, <3>6, <3>7
  <2>3. CASE /\ session.term = "taken"
             /\ client' = StopActiveTransport(client, Self)
             /\ TerminateChannel(local.taken, "nil")
             /\ session' = [session EXCEPT !.term = "closing"]
             /\ UNCHANGED <<conn, local>>
    <3>1. DOMAIN session' = DOMAIN session /\ session'.own = session.own /\ session'.connected = session.connected
          /\ session'.closed = session.closed /\ session'.term = "closing" /\ session'.keyed = session.keyed
      BY <2>3 DEF CloseShape
    <3>2. ClientShape(client') /\ client'.transportSession # Self
      BY <2>3, StopWithdraws DEF CloseShape
    <3>3. Winds /\ \A d \in 1 .. MaxChannels : Running(d)' => d # local.taken
      BY <2>3, TerminateAnyWinds DEF CloseShape
    <3>4. session.term = "taken" /\ UNCHANGED <<conn, local>>
      BY <2>3
    <3>5. AliveOpen
      BY <3>3, WindsOpen
    <3>6. CloseShape'
      BY <2>0, <3>1, <3>2, <3>3, <3>4, <3>5
      DEF Goto, CloseShape, LocalMoves, SessionKeeps, Winds, Actors, Nil, Monitors
    <3>7. CloseCommon'
      BY <2>0, <3>1, <3>2, <3>4, <3>5 DEF CloseCommon, ClosedTerms, AliveOpen, PulseClosing
    <3>8. PulseClosing'
      BY <2>0, <3>1, <3>2, <3>3, <3>4, <3>5, <3>6
      DEF Goto, LocalMoves, SessionKeeps, Winds, PulseClosing, CloseCommon, ClosedTerms,
          CloseShape, Actors, Nil, Monitors
    <3> QED
      BY <3>6, <3>7, <3>8
  <2>4. CASE /\ session.term = "closing"
             /\ keys' = IF session.keyed /\ keys = "live" THEN "destroyed" ELSE keys
             /\ conn' = IF session.connected THEN [conn EXCEPT !.st = "closed"] ELSE conn
             /\ session' = [session EXCEPT !.term = "done", !.keyed = FALSE]
             /\ local' = [local EXCEPT !.taken = Nil]
             /\ UNCHANGED <<client, channels>>
    <3>1. DOMAIN session' = DOMAIN session /\ session'.own = session.own /\ session'.connected = session.connected
          /\ session'.closed = session.closed /\ session'.term = "done" /\ session'.keyed = FALSE
      BY <2>4 DEF CloseShape
    <3>2. DOMAIN local' = DOMAIN local /\ local'.taken = Nil /\ local'.channel = local.channel
      BY <2>4 DEF CloseShape
    <3>3. DOMAIN conn' = DOMAIN conn /\ conn'.st = (IF session.connected THEN "closed" ELSE conn.st)
      BY <2>4 DEF CloseShape
    <3>4. keys' = (IF session.keyed /\ keys = "live" THEN "destroyed" ELSE keys)
          /\ UNCHANGED <<client, channels>> /\ session.term = "closing"
      BY <2>4
    <3>5. Winds
      BY <3>4, KeysWinds
    <3>6. CloseShape'
      BY <2>0, <3>1, <3>2, <3>3, <3>4, <3>5
      DEF Goto, CloseShape, LocalMoves, SessionKeeps, Winds, Actors, Nil, Monitors
    <3>7. CloseCommon'
      BY <2>0, <3>1, <3>4 DEF CloseCommon, ClosedTerms
    <3>8. PulseClosing'
      BY <2>0, <3>1, <3>2, <3>3, <3>4, <3>5, <3>6
      DEF Goto, LocalMoves, SessionKeeps, Winds, PulseClosing, CloseCommon, ClosedTerms,
          CloseShape, Actors, Nil, Monitors
    <3> QED
      BY <3>6, <3>7, <3>8
  <2> QED
    BY <1>24, <2>1, <2>2, <2>3, <2>4 DEF PulseTerminateStep, PulseTerminate
<1> QED
  BY <1>1, <1>2, <1>3, <1>4, <1>5, <1>6, <1>7, <1>8, <1>9, <1>10, <1>11, <1>12, <1>13, <1>14,
      <1>15, <1>16, <1>17, <1>18, <1>19, <1>20, <1>21, <1>22, <1>23, <1>24

LEMMA PulseCloses2 ==
    ASSUME TunnelAssumption, CloseShape, CloseCommon, PulseClosing, UNCHANGED <<flavor, link>>, NEW m \in Monitors
    PROVE  (\/ PulseStartESP(m) \/ PulseDialESP(m) \/ PulseProbe(m) \/ PulseAwait(m)
            \/ PulseProbeTimer(m) \/ PulseEstablished(m) \/ PulseMonitor(m) \/ PulseFinish(m)
            \/ PulseFallback(m) \/ PulseRejoin(m) \/ PulseRetry(m) \/ PulseRetryTimer(m))
           => CloseShape' /\ CloseCommon' /\ PulseClosing'
<1>1. ASSUME PulseStartESP(m) PROVE CloseShape' /\ CloseCommon' /\ PulseClosing'
  <2>0. m \in Actors /\ m \in Monitors /\ m \notin {"start", "reader", "closer", "writer"} /\ pc[m] = "launched"
    BY <1>1 DEF PulseStartESP, At, Actors, Monitors
  <2>1. CASE /\ ~session.closed /\ session.own = Nil /\ MayCreateChannel
             /\ channels' = [channels EXCEPT ![NextChannel] = Dialing(NewChannel("esp"))]
             /\ keys' = IF session.keyed THEN keys ELSE "live"
             /\ session' = [session EXCEPT !.own = NextChannel, !.keyed = TRUE]
             /\ Holding(m, NextChannel) /\ Goto(m, "dial")
             /\ UNCHANGED <<client, conn>>
    <3>1. NextChannel \in 1 .. MaxChannels /\ NextChannel \in Nat /\ "esp" \in Kinds
      BY <2>1, NextChannelType DEF Kinds
    <3>2. LocalMoves(m) /\ local'.channel[m] = NextChannel
      BY <2>0, <2>1, <3>1, HoldingMoves
    <3>3. DOMAIN local' = DOMAIN local /\ local'.channel \in [Actors -> Nat] /\ local'.taken = local.taken
          /\ local'.channel[m] = NextChannel /\ local'.channel["reader"] = local.channel["reader"]
          /\ \A n \in Monitors : n # m => local'.channel[n] = local.channel[n]
      BY <3>2 DEF LocalMoves, Actors, Monitors
    <3>4. channels' \in [1 .. MaxChannels -> Channel] /\ AliveOpen
          /\ \A d \in 1 .. MaxChannels : Running(d)' => d = NextChannel \/ Running(d)
      BY Zenon, <2>1, <3>1, MadeOpen
    <3>5. SessionKeeps /\ session'.own = NextChannel /\ session'.term = session.term /\ session'.keyed
      BY <2>1 DEF CloseShape, SessionKeeps
    <3>6. keys' \in {"none", "live", "destroyed"} /\ ~session.closed /\ session.own = Nil /\ Goto(m, "dial")
          /\ UNCHANGED <<client, conn>>
      BY <2>1 DEF CloseShape
    <3>7. CloseShape'
      BY <2>0, <3>1, <3>3, <3>4, <3>5, <3>6
      DEF Goto, CloseShape, LocalMoves, SessionKeeps, Winds, Actors, Nil, Monitors
    <3>8. CloseCommon'
      BY <2>0, <3>1, <3>3, <3>4, <3>5, <3>6, WindsOpen, ReportKeeps, CommonKeeps
      DEF Goto, CloseShape, Actors, SessionKeeps, Nil, Monitors
    <3>9. PulseClosing'
      BY <2>0, <3>1, <3>3, <3>4, <3>5, <3>6, <3>7
      DEF Goto, LocalMoves, SessionKeeps, Winds, PulseClosing, CloseCommon, ClosedTerms,
          CloseShape, Actors, Nil, Monitors
    <3> QED
      BY <3>7, <3>8, <3>9
  <2>2. CASE /\ ~session.closed /\ session.own = Nil
             /\ keys' = IF keys = "live" THEN "destroyed" ELSE keys
             /\ session' = [session EXCEPT !.keyed = FALSE]
             /\ MonitorEnds(m)
             /\ UNCHANGED <<client, conn, channels>>
    <3>1. Goto(m, "none") /\ Holding(m, Nil) /\ keys' \in {keys, "destroyed"} /\ keys' # "live"
          /\ UNCHANGED <<client, conn, channels>>
      BY <2>2 DEF MonitorEnds
    <3>2. LocalMoves(m) /\ local'.channel[m] = Nil
      BY <3>1, <2>0, HoldingMoves DEF Nil
    <3>3. DOMAIN local' = DOMAIN local /\ local'.channel \in [Actors -> Nat] /\ local'.taken = local.taken
          /\ local'.channel[m] = Nil /\ local'.channel["reader"] = local.channel["reader"]
          /\ \A n \in Monitors : n # m => local'.channel[n] = local.channel[n]
      BY <3>2 DEF LocalMoves, Actors, Monitors
    <3>4. SessionKeeps /\ session'.own = session.own /\ session'.keyed = FALSE
      BY <2>2 DEF CloseShape, SessionKeeps
    <3>5. Winds
      BY <3>1, KeysWinds
    <3>6. CloseShape'
      BY <2>0, <3>1, <3>3, <3>4, <3>5
      DEF Goto, CloseShape, LocalMoves, SessionKeeps, Winds, Actors, Nil, Monitors
    <3>7. CloseCommon'
      BY <2>0, <3>1, <3>3, <3>4, <3>5, WindsOpen, ReportKeeps, CommonKeeps
      DEF Goto, CloseShape, Actors, SessionKeeps, Nil, Monitors
    <3>8. PulseClosing'
      BY <2>0, <3>1, <3>3, <3>4, <3>5, <3>6, SMTT(30)
      DEF Goto, LocalMoves, SessionKeeps, Winds, PulseClosing, CloseCommon, ClosedTerms,
          CloseShape, Actors, Nil, Monitors
    <3> QED
      BY <3>6, <3>7, <3>8
  <2>3. CASE MonitorReturns(m)
    <3>1. Goto(m, "none") /\ Holding(m, Nil) /\ UNCHANGED <<client, session, conn, channels, keys>>
      BY <2>3 DEF MonitorReturns, MonitorEnds
    <3>2. LocalMoves(m) /\ local'.channel[m] = Nil
      BY <3>1, <2>0, HoldingMoves DEF Nil
    <3>3. DOMAIN local' = DOMAIN local /\ local'.channel \in [Actors -> Nat] /\ local'.taken = local.taken
          /\ local'.channel[m] = Nil /\ local'.channel["reader"] = local.channel["reader"]
          /\ \A n \in Monitors : n # m => local'.channel[n] = local.channel[n]
      BY <3>2 DEF LocalMoves, Actors, Monitors
    <3>4. SessionKeeps /\ session'.own = session.own /\ session'.keyed = session.keyed
      BY <3>1 DEF CloseShape, SessionKeeps
    <3>5. Winds
      BY <3>1, UnchangedWinds
    <3>6. CloseShape'
      BY <2>0, <3>1, <3>3, <3>4, <3>5
      DEF Goto, CloseShape, LocalMoves, SessionKeeps, Winds, Actors, Nil, Monitors
    <3>7. CloseCommon'
      BY <2>0, <3>1, <3>3, <3>4, <3>5, WindsOpen, ReportKeeps, CommonKeeps
      DEF Goto, CloseShape, Actors, SessionKeeps, Nil, Monitors
    <3>8. PulseClosing'
      BY <2>0, <3>1, <3>3, <3>4, <3>5, <3>6
      DEF Goto, LocalMoves, SessionKeeps, Winds, PulseClosing, CloseCommon, ClosedTerms,
          CloseShape, Actors, Nil, Monitors
    <3> QED
      BY <3>6, <3>7, <3>8
  <2> QED
    BY <1>1, <2>1, <2>2, <2>3 DEF PulseStartESP
<1>2. ASSUME PulseDialESP(m) PROVE CloseShape' /\ CloseCommon' /\ PulseClosing'
  <2>1. m \in Actors /\ m \in Monitors /\ m \notin {"start", "reader", "closer", "writer"}
    BY DEF Actors, Monitors
  <2>2. UNCHANGED <<client, session, conn, local>>
    BY <1>2 DEF PulseDialESP
  <2>3. SessionKeeps /\ session'.own = session.own /\ session'.keyed = session.keyed
    BY <2>2 DEF CloseShape, SessionKeeps
  <2>4. local.channel[m] \in Nat
    BY <2>1 DEF CloseShape
  <2>5. pc[m] = "dial" /\ DialEnds(m, local.channel[m], "probe", "finish", {"err"}) /\ {"err"} \in SUBSET {"err", "fatal"}
    BY <1>2 DEF PulseDialESP, At
  <2>6. Winds /\ pc[m] = "dial" /\ (Goto(m, "probe") \/ Goto(m, "finish"))
    BY <2>4, <2>5, DialWinds
  <2>7. CloseShape' /\ CloseCommon'
    BY <2>1, <2>2, <2>3, <2>4, <2>6, WindsOpen, ReportKeeps, CommonKeeps
    DEF Goto, CloseShape, LocalMoves, SessionKeeps, Winds, Actors, Nil, Monitors
  <2>8. PulseClosing'
    BY <2>1, <2>2, <2>3, <2>4, <2>6, <2>7
    DEF Goto, LocalMoves, SessionKeeps, Winds, PulseClosing, CloseCommon, ClosedTerms, CloseShape, Actors,
        Nil, Monitors
  <2> QED
    BY <2>7, <2>8
<1>3. ASSUME PulseProbe(m) PROVE CloseShape' /\ CloseCommon' /\ PulseClosing'
  <2>1. m \in Actors /\ m \in Monitors /\ m \notin {"start", "reader", "closer", "writer"}
    BY DEF Actors, Monitors
  <2>2. UNCHANGED <<client, session, conn>>
    BY <1>3 DEF PulseProbe, MonitorReturns, MonitorEnds
  <2>3. SessionKeeps /\ session'.own = session.own /\ session'.keyed = session.keyed
    BY <2>2 DEF CloseShape, SessionKeeps
  <2>4. LocalMoves(m)
    BY <1>3, HoldingMoves, UnchangedMoves DEF PulseProbe, MonitorReturns, MonitorEnds, CloseShape, Actors, Monitors, Nil
  <2>5. DOMAIN local' = DOMAIN local /\ local'.channel \in [Actors -> Nat] /\ local'.taken = local.taken
        /\ local'.channel["reader"] = local.channel["reader"]
        /\ \A n \in Monitors : n # m => local'.channel[n] = local.channel[n]
    BY <2>4 DEF LocalMoves, Actors, Monitors
  <2>6. local.channel[m] \in Nat
    BY <2>1 DEF CloseShape
  <2>7. /\ pc[m] = "probe"
        /\ \/ ProbeEnds(m, local.channel[m], "await", "finish")
           \/ Goto(m, "none") /\ UNCHANGED <<channels, keys>>
    BY <1>3 DEF PulseProbe, At, MonitorReturns, MonitorEnds
  <2>8. Winds /\ pc[m] = "probe" /\ (Goto(m, "await") \/ Goto(m, "finish") \/ Goto(m, "none"))
    BY <2>6, <2>7, ProbeWinds, UnchangedWinds
  <2>9. CloseShape' /\ CloseCommon'
    BY <2>1, <2>2, <2>3, <2>5, <2>6, <2>8, WindsOpen, ReportKeeps, CommonKeeps
    DEF Goto, CloseShape, LocalMoves, SessionKeeps, Winds, Actors, Nil, Monitors
  <2>10. PulseClosing'
    BY <2>1, <2>2, <2>3, <2>5, <2>6, <2>8, <2>9, SMTT(30)
    DEF Goto, LocalMoves, SessionKeeps, Winds, PulseClosing, CloseCommon, ClosedTerms, CloseShape, Actors,
        Nil, Monitors
  <2> QED
    BY <2>9, <2>10
<1>4. ASSUME PulseAwait(m) PROVE CloseShape' /\ CloseCommon' /\ PulseClosing'
  <2>1. m \in Actors /\ m \in Monitors /\ m \notin {"start", "reader", "closer", "writer"}
    BY DEF Actors, Monitors
  <2>2. pc[m] = "await" /\ \E l \in {"none", "established", "finish"} : Goto(m, l)
    BY <1>4 DEF PulseAwait, MonitorReturns, MonitorEnds, CallTerminate, Ends, At, WriterReturns
  <2>3. UNCHANGED <<client, session, conn, channels, keys>>
    BY <1>4 DEF PulseAwait, MonitorReturns, MonitorEnds
  <2>4. SessionKeeps /\ session'.own = session.own /\ session'.keyed = session.keyed
    BY <2>3 DEF CloseShape, SessionKeeps
  <2>5. LocalMoves(m)
    BY <1>4, HoldingMoves, UnchangedMoves DEF PulseAwait, MonitorReturns, MonitorEnds, CloseShape, Actors, Monitors, Nil
  <2>6. DOMAIN local' = DOMAIN local /\ local'.channel \in [Actors -> Nat] /\ local'.taken = local.taken
        /\ local'.channel["reader"] = local.channel["reader"]
        /\ \A n \in Monitors : n # m => local'.channel[n] = local.channel[n]
    BY <2>5 DEF LocalMoves, Actors, Monitors
  <2>7. Winds
    BY <2>3, UnchangedWinds
  <2>8. CloseShape' /\ CloseCommon'
    BY <2>1, <2>2, <2>3, <2>4, <2>6, <2>7, WindsOpen, ReportKeeps, CommonKeeps
    DEF Goto, CloseShape, LocalMoves, SessionKeeps, Winds, Actors, Nil, Monitors
  <2>9. PulseClosing'
    BY <2>1, <2>2, <2>3, <2>4, <2>6, <2>7, <2>8, SMTT(30)
    DEF Goto, LocalMoves, SessionKeeps, Winds, PulseClosing, CloseCommon, ClosedTerms, CloseShape, Actors,
        Nil, Monitors
  <2> QED
    BY <2>8, <2>9
<1>5. ASSUME PulseProbeTimer(m) PROVE CloseShape' /\ CloseCommon' /\ PulseClosing'
  <2>1. m \in Actors /\ m \in Monitors /\ m \notin {"start", "reader", "closer", "writer"}
    BY DEF Actors, Monitors
  <2>2. pc[m] = "await" /\ Goto(m, "probe")
    BY <1>5 DEF PulseProbeTimer, CallTerminate, Ends, At, WriterReturns
  <2>3. UNCHANGED <<client, session, conn, local, channels, keys>>
    BY <1>5 DEF PulseProbeTimer
  <2>4. SessionKeeps /\ session'.own = session.own /\ session'.keyed = session.keyed
    BY <2>3 DEF CloseShape, SessionKeeps
  <2>5. Winds
    BY <2>3, UnchangedWinds
  <2>6. CloseShape' /\ CloseCommon'
    BY <2>1, <2>2, <2>3, <2>4, <2>5, WindsOpen, ReportKeeps, CommonKeeps
    DEF Goto, CloseShape, LocalMoves, SessionKeeps, Winds, Actors, Nil, Monitors
  <2>7. PulseClosing'
    BY <2>1, <2>2, <2>3, <2>4, <2>5, <2>6
    DEF Goto, LocalMoves, SessionKeeps, Winds, PulseClosing, CloseCommon, ClosedTerms, CloseShape, Actors,
        Nil, Monitors
  <2> QED
    BY <2>6, <2>7
<1>6. ASSUME PulseEstablished(m) PROVE CloseShape' /\ CloseCommon' /\ PulseClosing'
  <2>1. m \in Actors /\ m \in Monitors /\ m \notin {"start", "reader", "closer", "writer"}
    BY DEF Actors, Monitors
  <2>2. pc[m] = "established" /\ \E l \in {"monitor", "none"} : Goto(m, l)
    BY <1>6 DEF PulseEstablished, MonitorReturns, MonitorEnds, CallTerminate, Ends, At, WriterReturns
  <2>3. UNCHANGED <<session, conn, channels, keys>>
    BY <1>6 DEF PulseEstablished, MonitorReturns, MonitorEnds
  <2>4. ClientShape(client') /\ client'.transportSession = client.transportSession
    BY <1>6, ReportKeeps DEF PulseEstablished, MonitorReturns, MonitorEnds, CloseShape
  <2>5. SessionKeeps /\ session'.own = session.own /\ session'.keyed = session.keyed
    BY <2>3 DEF CloseShape, SessionKeeps
  <2>6. LocalMoves(m)
    BY <1>6, HoldingMoves, UnchangedMoves DEF PulseEstablished, MonitorReturns, MonitorEnds, CloseShape, Actors, Monitors, Nil
  <2>7. DOMAIN local' = DOMAIN local /\ local'.channel \in [Actors -> Nat] /\ local'.taken = local.taken
        /\ local'.channel["reader"] = local.channel["reader"]
        /\ \A n \in Monitors : n # m => local'.channel[n] = local.channel[n]
    BY <2>6 DEF LocalMoves, Actors, Monitors
  <2>8. Winds
    BY <2>3, UnchangedWinds
  <2>9. CloseShape' /\ CloseCommon'
    BY <2>1, <2>2, <2>3, <2>4, <2>5, <2>7, <2>8, WindsOpen, ReportKeeps, CommonKeeps
    DEF Goto, CloseShape, LocalMoves, SessionKeeps, Winds, Actors, Nil, Monitors
  <2>10. PulseClosing'
    BY <2>1, <2>2, <2>3, <2>4, <2>5, <2>7, <2>8, <2>9, SMTT(30)
    DEF Goto, LocalMoves, SessionKeeps, Winds, PulseClosing, CloseCommon, ClosedTerms, CloseShape, Actors,
        Nil, Monitors
  <2> QED
    BY <2>9, <2>10
<1>7. ASSUME PulseMonitor(m) PROVE CloseShape' /\ CloseCommon' /\ PulseClosing'
  <2>1. m \in Actors /\ m \in Monitors /\ m \notin {"start", "reader", "closer", "writer"}
    BY DEF Actors, Monitors
  <2>2. pc[m] = "monitor" /\ \E l \in {"finish", "none"} : Goto(m, l)
    BY <1>7 DEF PulseMonitor, MonitorReturns, MonitorEnds, CallTerminate, Ends, At, WriterReturns
  <2>3. UNCHANGED <<client, session, conn, channels, keys>>
    BY <1>7 DEF PulseMonitor, MonitorReturns, MonitorEnds
  <2>4. SessionKeeps /\ session'.own = session.own /\ session'.keyed = session.keyed
    BY <2>3 DEF CloseShape, SessionKeeps
  <2>5. LocalMoves(m)
    BY <1>7, HoldingMoves, UnchangedMoves DEF PulseMonitor, MonitorReturns, MonitorEnds, CloseShape, Actors, Monitors, Nil
  <2>6. DOMAIN local' = DOMAIN local /\ local'.channel \in [Actors -> Nat] /\ local'.taken = local.taken
        /\ local'.channel["reader"] = local.channel["reader"]
        /\ \A n \in Monitors : n # m => local'.channel[n] = local.channel[n]
    BY <2>5 DEF LocalMoves, Actors, Monitors
  <2>7. Winds
    BY <2>3, UnchangedWinds
  <2>8. CloseShape' /\ CloseCommon'
    BY <2>1, <2>2, <2>3, <2>4, <2>6, <2>7, WindsOpen, ReportKeeps, CommonKeeps
    DEF Goto, CloseShape, LocalMoves, SessionKeeps, Winds, Actors, Nil, Monitors
  <2>9. PulseClosing'
    BY <2>1, <2>2, <2>3, <2>4, <2>6, <2>7, <2>8
    DEF Goto, LocalMoves, SessionKeeps, Winds, PulseClosing, CloseCommon, ClosedTerms, CloseShape, Actors,
        Nil, Monitors
  <2> QED
    BY <2>8, <2>9
<1>8. ASSUME PulseFinish(m) PROVE CloseShape' /\ CloseCommon' /\ PulseClosing'
  <2>0. m \in Actors /\ m \in Monitors /\ m \notin {"start", "reader", "closer", "writer"} /\ pc[m] = "finish"
        /\ local.channel[m] \in Nat
    BY <1>8 DEF PulseFinish, At, Actors, Monitors, CloseShape
  <2>1. CASE PulseOwns(local.channel[m])
    <3>1. session' = [session EXCEPT !.own = Nil] /\ Goto(m, "fallback") /\ session.own = local.channel[m]
          /\ UNCHANGED <<client, conn, channels, keys, local>>
      BY <1>8, <2>1 DEF PulseFinish, PulseOwns
    <3>2. SessionKeeps /\ session'.own = Nil /\ session'.keyed = session.keyed
      BY <3>1 DEF CloseShape, SessionKeeps
    <3>3. Winds
      BY <3>1, UnchangedWinds
    <3>4. CloseShape'
      BY <2>0, <3>1, <3>2, <3>3
      DEF Goto, CloseShape, LocalMoves, SessionKeeps, Winds, Actors, Nil, Monitors
    <3>5. CloseCommon'
      BY <2>0, <3>1, <3>2, <3>3, WindsOpen, ReportKeeps, CommonKeeps
      DEF Goto, CloseShape, Actors, SessionKeeps, Nil, Monitors
    <3>6. PulseClosing'
      BY <2>0, <3>1, <3>2, <3>3, <3>4
      DEF Goto, LocalMoves, SessionKeeps, Winds, PulseClosing, CloseCommon, ClosedTerms,
          CloseShape, Actors, Nil, Monitors
    <3> QED
      BY <3>4, <3>5, <3>6
  <2>2. CASE ~PulseOwns(local.channel[m])
    <3>1. Goto(m, "none") /\ Holding(m, Nil) /\ UNCHANGED <<client, session, conn, channels, keys>>
      BY <1>8, <2>2 DEF PulseFinish, MonitorReturns, MonitorEnds
    <3>2. LocalMoves(m) /\ local'.channel[m] = Nil
      BY <3>1, <2>0, HoldingMoves DEF Nil
    <3>3. DOMAIN local' = DOMAIN local /\ local'.channel \in [Actors -> Nat] /\ local'.taken = local.taken
          /\ local'.channel[m] = Nil /\ local'.channel["reader"] = local.channel["reader"]
          /\ \A n \in Monitors : n # m => local'.channel[n] = local.channel[n]
      BY <3>2 DEF LocalMoves, Actors, Monitors
    <3>4. SessionKeeps /\ session'.own = session.own /\ session'.keyed = session.keyed
      BY <3>1 DEF CloseShape, SessionKeeps
    <3>5. Winds
      BY <3>1, UnchangedWinds
    <3>6. CloseShape'
      BY <2>0, <3>1, <3>3, <3>4, <3>5
      DEF Goto, CloseShape, LocalMoves, SessionKeeps, Winds, Actors, Nil, Monitors
    <3>7. CloseCommon'
      BY <2>0, <3>1, <3>3, <3>4, <3>5, WindsOpen, ReportKeeps, CommonKeeps
      DEF Goto, CloseShape, Actors, SessionKeeps, Nil, Monitors
    <3>8. PulseClosing'
      BY <2>0, <3>1, <3>3, <3>4, <3>5, <3>6, SMTT(30)
      DEF Goto, LocalMoves, SessionKeeps, Winds, PulseClosing, CloseCommon, ClosedTerms,
          CloseShape, Actors, Nil, Monitors
    <3> QED
      BY <3>6, <3>7, <3>8
  <2> QED
    BY <2>1, <2>2
<1>9. ASSUME PulseFallback(m) PROVE CloseShape' /\ CloseCommon' /\ PulseClosing'
  <2>1. m \in Actors /\ m \in Monitors /\ m \notin {"start", "reader", "closer", "writer"}
    BY DEF Actors, Monitors
  <2>2. pc[m] = "fallback" /\ Goto(m, "rejoin")
    BY <1>9 DEF PulseFallback, CallTerminate, Ends, At, WriterReturns
  <2>3. UNCHANGED <<session, conn, local>>
    BY <1>9 DEF PulseFallback
  <2>4. ClientShape(client') /\ client'.transportSession = client.transportSession
    BY <1>9, ReportKeeps DEF PulseFallback, CloseShape
  <2>5. SessionKeeps /\ session'.own = session.own /\ session'.keyed = session.keyed
    BY <2>3 DEF CloseShape, SessionKeeps
  <2>6. local.channel[m] \in Nat
    BY <2>1 DEF CloseShape
  <2>7. (\E err \in {"nil", "err", "exhausted", "fatal", "rekey"} : TerminateChannel(local.channel[m], err))
    BY <1>9 DEF PulseFallback
  <2>8. Winds /\ \A d \in 1 .. MaxChannels : Running(d)' => d # local.channel[m]
    BY <2>6, <2>7, TerminateAnyWinds
  <2>9. CloseShape' /\ CloseCommon'
    BY <2>1, <2>2, <2>3, <2>4, <2>5, <2>6, <2>7, <2>8, WindsOpen, ReportKeeps, CommonKeeps
    DEF Goto, CloseShape, LocalMoves, SessionKeeps, Winds, Actors, Nil, Monitors
  <2>10. PulseClosing'
    BY <2>1, <2>2, <2>3, <2>4, <2>5, <2>6, <2>7, <2>8, <2>9
    DEF Goto, LocalMoves, SessionKeeps, Winds, PulseClosing, CloseCommon, ClosedTerms, CloseShape, Actors,
        Nil, Monitors
  <2> QED
    BY <2>9, <2>10
<1>10. ASSUME PulseRejoin(m) PROVE CloseShape' /\ CloseCommon' /\ PulseClosing'
  <2>1. m \in Actors /\ m \in Monitors /\ m \notin {"start", "reader", "closer", "writer"}
    BY DEF Actors, Monitors
  <2>2. UNCHANGED <<client, session, conn>>
    BY <1>10 DEF PulseRejoin
  <2>3. SessionKeeps /\ session'.own = session.own /\ session'.keyed = session.keyed
    BY <2>2 DEF CloseShape, SessionKeeps
  <2>4. LocalMoves(m)
    BY <1>10, HoldingMoves, UnchangedMoves DEF PulseRejoin, CloseShape, Actors, Monitors, Nil
  <2>5. DOMAIN local' = DOMAIN local /\ local'.channel \in [Actors -> Nat] /\ local'.taken = local.taken
        /\ local'.channel["reader"] = local.channel["reader"]
        /\ \A n \in Monitors : n # m => local'.channel[n] = local.channel[n]
    BY <2>4 DEF LocalMoves, Actors, Monitors
  <2>6. pc[m] = "rejoin" /\ DOMAIN pc' = Actors /\ pc'[m] = "retry"
        /\ \A b \in Actors : b # m => pc'[b] = pc[b]
    BY <1>10, <2>1 DEF PulseRejoin, At, Goto, CloseShape
  <2>7. local.channel[m] \in Nat
    BY <2>1 DEF CloseShape
  <2>8. UNCHANGED keys /\ channels' = [channels EXCEPT ![local.channel[m]] = [NoChannel EXCEPT !.st = "closed"]]
    BY <1>10 DEF PulseRejoin
  <2>9. Winds
    BY Zenon, <2>7, <2>8, ForgetWinds
  <2>10. CloseShape' /\ CloseCommon'
    BY <2>1, <2>2, <2>3, <2>5, <2>6, <2>7, <2>9, WindsOpen, ReportKeeps, CommonKeeps
    DEF Goto, CloseShape, LocalMoves, SessionKeeps, Winds, Actors, Nil, Monitors
  <2>11. PulseClosing'
    BY <2>1, <2>2, <2>3, <2>5, <2>6, <2>7, <2>9, <2>10, SMTT(60)
    DEF Goto, LocalMoves, SessionKeeps, Winds, PulseClosing, CloseCommon, ClosedTerms, CloseShape, Actors,
        Nil, Monitors
  <2> QED
    BY <2>10, <2>11
<1>11. ASSUME PulseRetry(m) PROVE CloseShape' /\ CloseCommon' /\ PulseClosing'
  <2>1. m \in Actors /\ m \in Monitors /\ m \notin {"start", "reader", "closer", "writer"}
    BY DEF Actors, Monitors
  <2>2. pc[m] = "retry" /\ Goto(m, "none")
    BY <1>11 DEF PulseRetry, MonitorReturns, MonitorEnds, CallTerminate, Ends, At, WriterReturns
  <2>3. UNCHANGED <<client, session, conn, channels, keys>>
    BY <1>11 DEF PulseRetry, MonitorReturns, MonitorEnds
  <2>4. SessionKeeps /\ session'.own = session.own /\ session'.keyed = session.keyed
    BY <2>3 DEF CloseShape, SessionKeeps
  <2>5. LocalMoves(m)
    BY <1>11, HoldingMoves, UnchangedMoves DEF PulseRetry, MonitorReturns, MonitorEnds, CloseShape, Actors, Monitors, Nil
  <2>6. DOMAIN local' = DOMAIN local /\ local'.channel \in [Actors -> Nat] /\ local'.taken = local.taken
        /\ local'.channel["reader"] = local.channel["reader"]
        /\ \A n \in Monitors : n # m => local'.channel[n] = local.channel[n]
    BY <2>5 DEF LocalMoves, Actors, Monitors
  <2>7. Winds
    BY <2>3, UnchangedWinds
  <2>8. CloseShape' /\ CloseCommon'
    BY <2>1, <2>2, <2>3, <2>4, <2>6, <2>7, WindsOpen, ReportKeeps, CommonKeeps
    DEF Goto, CloseShape, LocalMoves, SessionKeeps, Winds, Actors, Nil, Monitors
  <2>9. PulseClosing'
    BY <2>1, <2>2, <2>3, <2>4, <2>6, <2>7, <2>8, SMTT(60)
    DEF Goto, LocalMoves, SessionKeeps, Winds, PulseClosing, CloseCommon, ClosedTerms, CloseShape, Actors,
        Nil, Monitors
  <2> QED
    BY <2>8, <2>9
<1>12. ASSUME PulseRetryTimer(m) PROVE CloseShape' /\ CloseCommon' /\ PulseClosing'
  <2>1. m \in Actors /\ m \in Monitors /\ m \notin {"start", "reader", "closer", "writer"}
    BY DEF Actors, Monitors
  <2>2. pc[m] = "retry" /\ Goto(m, "launched")
    BY <1>12 DEF PulseRetryTimer, CallTerminate, Ends, At, WriterReturns
  <2>3. UNCHANGED <<client, session, conn, local, channels, keys>>
    BY <1>12 DEF PulseRetryTimer
  <2>4. SessionKeeps /\ session'.own = session.own /\ session'.keyed = session.keyed
    BY <2>3 DEF CloseShape, SessionKeeps
  <2>5. Winds
    BY <2>3, UnchangedWinds
  <2>6. CloseShape' /\ CloseCommon'
    BY <2>1, <2>2, <2>3, <2>4, <2>5, WindsOpen, ReportKeeps, CommonKeeps
    DEF Goto, CloseShape, LocalMoves, SessionKeeps, Winds, Actors, Nil, Monitors
  <2>7. PulseClosing'
    BY <2>1, <2>2, <2>3, <2>4, <2>5, <2>6
    DEF Goto, LocalMoves, SessionKeeps, Winds, PulseClosing, CloseCommon, ClosedTerms, CloseShape, Actors,
        Nil, Monitors
  <2> QED
    BY <2>6, <2>7
<1> QED
  BY <1>1, <1>2, <1>3, <1>4, <1>5, <1>6, <1>7, <1>8, <1>9, <1>10, <1>11, <1>12

----------------------------------------------------------------------------
(* A PPP session. *)

LEMMA PPPCalmKeeps ==
    ASSUME CloseShape, CloseCommon, flavor = "ppp", PPPCalm,
           pc'["closer"] = pc["closer"] \/ pc'["closer"] \notin {"join", "done"}
    PROVE  CloseShape' /\ CloseCommon'
<1>1. CloseShape'
  BY DEF CloseShape, PPPCalm, SessionKeeps, LocalMoves
<1>2. CloseCommon'
  BY DEF CloseShape, CloseCommon, ClosedTerms, PPPCalm, SessionKeeps
<1> QED
  BY <1>1, <1>2

LEMMA PPPCalmCloses ==
    ASSUME CloseShape, CloseCommon, PPPClosing, flavor = "ppp", PPPCalm, PPPGoes,
           Closes(link, link'), Keeps(link, link')
    PROVE  CloseShape' /\ CloseCommon' /\ PPPClosing'
<1>1. CloseShape' /\ CloseCommon'
  BY PPPCalmKeeps DEF PPPGoes
<1>2. /\ conn'.st = "closed" /\ keys' = "none"
      /\ \A c \in 1 .. MaxChannels : channels'[c] = NoChannel
      /\ session'.own = Nil
  BY DEF PPPClosing, PPPCalm
<1>3. /\ link'.phase = "closed" => link'.carrier = NoCarrier
      /\ link'.closing = "join" => link'.phase = "closed"
      /\ link.phase = "closed" => link'.phase = "closed"
      /\ \A g \in Carriers : link'.st[g] = "open" => link.st[g] = "open" /\ (link.carrier = g => link'.carrier = g)
      /\ link.carrier = NoCarrier => link'.carrier = NoCarrier
  BY DEF PPPClosing, Closes, Keeps, NoCarrier
<1>4. /\ link'.st[1] = "open" => link'.carrier = 1 \/ pc'["control"] = "closeOld"
      /\ link'.st[2] = "open" => link'.carrier = 2 \/ pc'["control"] \in {"switch", "withdraw"}
  BY <1>3 DEF PPPClosing, PPPGoes, Carriers
<1>5. session'.term = "done" <=> session.term = "done"
  BY DEF PPPCalm, SessionKeeps
<1>6. session'.connected = session.connected
  BY DEF PPPCalm, SessionKeeps
<1>7. /\ session'.term = "done" /\ session'.connected => link'.phase = "closed"
      /\ ~session'.connected /\ pc'["start"] # "install" => link'.carrier = NoCarrier
      /\ pc'["start"] \in {"none", "prepare", "install"} => ~session'.connected
      /\ pc'["start"] \in {"startLink", "lock", "writing", "await", "publish", "report", "running"} =>
            session'.connected
      /\ pc'["control"] # "none" => pc'["start"] = "running"
  BY <1>3, <1>5, <1>6 DEF PPPClosing, PPPGoes
<1>8. pc["closer"] = "done" => session.closed
  BY DEF CloseCommon, ClosedTerms
<1>9. pc'["closer"] = "done" =>
          pc'["control"] \in {"none", "exited"} /\ pc'["start"] \in {"none", "failed", "running"}
  BY <1>8 DEF PPPClosing, PPPGoes
<1> QED
  BY <1>1, <1>2, <1>3, <1>4, <1>7, <1>9 DEF PPPClosing

LEMMA PPPReaderCloses ==
    ASSUME CloseShape, CloseCommon, PPPClosing, Sound(link), flavor = "ppp",
           \E g \in Carriers : PPPFrame(g) \/ PPPFrameEvent(g) \/ PPPReaderStep(g)
    PROVE  CloseShape' /\ CloseCommon' /\ PPPClosing'
<1>1. PICK g \in Carriers : PPPFrame(g) \/ PPPFrameEvent(g) \/ PPPReaderStep(g)
  OBVIOUS
<1>2. Steps(link, link')
  BY <1>1, FrameSteps, FrameEventSteps, ReaderSteps
<1>3. /\ UNCHANGED <<flavor, client, conn, channels, keys, pc, local>>
      /\ session' = session \/ session' = Counted(session)
  BY Zenon, <1>1
  DEF PPPFrame, PPPFrameEvent, PPPReaderStep, PPPReadEnds, PPPReaderLocks, PPPReaderWritten,
      PPPConclude, PPPWriteEnds, vars
<1>4. PPPCalm
  <2>1. SessionKeeps /\ session'.own = session.own
    BY <1>3, CalledKeeps
  <2> QED
    BY <1>3, <2>1, UnchangedMoves DEF PPPCalm, CloseShape, Actors
<1> QED
  BY <1>2, <1>3, <1>4, PPPCalmCloses DEF Steps, PPPGoes

LEMMA PPPTimerCloses ==
    ASSUME CloseShape, CloseCommon, PPPClosing, Sound(link), flavor = "ppp", PPPTick \/ PPPTimerStep
    PROVE  CloseShape' /\ CloseCommon' /\ PPPClosing'
<1>1. Steps(link, link')
  BY TimerSteps
<1>2. link.carrier \in Nat
  BY DEF Sound, LinkShape, NoCarrier, Carriers
<1>3. /\ UNCHANGED <<flavor, client, conn, channels, keys>>
      /\ UNCHANGED pc \/ \E l : Goto("timer", l)
      /\ UNCHANGED local \/ \E c \in Nat : Holding("timer", c)
      /\ session' = session \/ session' = Counted(session)
  BY <1>2
  DEF PPPTick, PPPTimerStep, PPPTimerStops, PPPHandleTimer, PPPTimerWrites, PPPLocks, PPPWriteEnds, Nil
<1>4. DOMAIN pc' = Actors /\ \A a \in Actors : a # "timer" => pc'[a] = pc[a]
  BY <1>3 DEF Goto, CloseShape
<1>5. PPPCalm
  <2>1. SessionKeeps /\ session'.own = session.own
    BY <1>3, CalledKeeps
  <2>2. "timer" \in Actors
    BY DEF Actors
  <2>3. \E a \in Actors : LocalMoves(a)
    BY <1>3, <2>2, UnchangedMoves, HoldingMoves
  <2> QED
    BY <1>3, <1>4, <2>1, <2>3 DEF PPPCalm, CloseShape
<1> QED
  BY <1>1, <1>4, <1>5, PPPCalmCloses DEF Steps, PPPGoes, Actors

LEMMA PPPWriterCloses ==
    ASSUME CloseShape, CloseCommon, PPPClosing, Sound(link), flavor = "ppp",
           PPPWriteBegins \/ PPPWriterStep
    PROVE  CloseShape' /\ CloseCommon' /\ PPPClosing'
<1>1. Closes(link, link') /\ Keeps(link, link')
  <2>1. CASE PPPWriteBegins \/ PPPWriterWritten
    BY <2>1, WriterWrittenSteps DEF Steps
  <2>2. CASE PPPWriterLocks
    <3>1. UNCHANGED link \/ link' = [Locked(link, "writer") EXCEPT !.carried = TRUE]
      BY <2>2 DEF PPPWriterLocks
    <3>2. CASE UNCHANGED link
      BY <3>2, Carried DEF Steps
    <3>3. CASE link' = [Locked(link, "writer") EXCEPT !.carried = TRUE]
      <4>1. /\ link'.phase = link.phase /\ link'.carrier = link.carrier /\ link'.st = link.st
            /\ link'.closing = link.closing /\ link'.want = link.want /\ link'.heard = link.heard
        BY <3>3 DEF Sound, LinkShape, Locked
      <4> QED
        BY <4>1 DEF Closes, Keeps, Sound, LinkShape, Negotiated
    <3> QED
      BY <3>1, <3>2, <3>3
  <2> QED
    BY <2>1, <2>2 DEF PPPWriterStep
<1>2. link.carrier \in Nat
  BY DEF Sound, LinkShape, NoCarrier, Carriers
<1>3. /\ UNCHANGED <<flavor, client, conn, channels, keys>>
      /\ \E l : Goto("writer", l)
      /\ UNCHANGED local \/ local' = Written(local) \/ \E c \in Nat : Holding("writer", c)
      /\ session' = session \/ session' = Counted(session)
  BY <1>2
  DEF PPPWriteBegins, PPPWriterStep, PPPWriterLocks, PPPWriterWritten, WriterReturns, PPPWriteEnds
<1>4. DOMAIN pc' = Actors /\ \A a \in Actors : a # "writer" => pc'[a] = pc[a]
  BY <1>3 DEF Goto, CloseShape
<1>5. PPPCalm
  <2>1. SessionKeeps /\ session'.own = session.own
    BY <1>3, CalledKeeps
  <2>2. "writer" \in Actors
    BY DEF Actors
  <2>3. \E a \in Actors : LocalMoves(a)
    BY <1>3, <2>2, UnchangedMoves, WrittenMoves, HoldingMoves
  <2> QED
    BY <1>3, <1>4, <2>1, <2>3 DEF PPPCalm, CloseShape
<1> QED
  BY <1>1, <1>4, <1>5, PPPCalmCloses DEF PPPGoes, Actors

LEMMA PPPStartCloses ==
    ASSUME CloseShape, CloseCommon, PPPClosing, Sound(link), flavor = "ppp",
           \/ PPPStart \/ PPPStartLink \/ PPPFirstRequest \/ PPPStartWaits
           \/ PPPCarrierError \/ PPPPublish \/ PPPReport
    PROVE  CloseShape' /\ CloseCommon' /\ PPPClosing'
<1>1. Steps(link, link')
  BY StartSteps
<1>2. /\ UNCHANGED <<flavor, conn, channels, keys, local>>
      /\ UNCHANGED client \/ \E t : Report(t)
      /\ \/ session' \in {session, Called(session), Counted(session), Called(Counted(session))}
         \/ session' = [session EXCEPT !.ready = TRUE]
  BY DEF PPPStart, PPPStartLink, PPPFirstRequest, PPPStartWaits, PPPCarrierError, PPPPublish,
         PPPReport, PPPLocks, PPPWriteEnds, CallTerminate
<1>3. /\ DOMAIN pc' = Actors
      /\ \/ /\ pc["start"] = "none"
            /\ pc'["start"] \in IF session.closed THEN {"failed"} ELSE {"prepare", "terminating"}
            /\ pc'["control"] = pc["control"]
         \/ /\ pc["start"] \in {"startLink", "lock", "writing", "await", "publish", "report"}
            /\ pc'["start"] \in {"lock", "writing", "await", "publish", "report", "running", "terminating"}
            /\ \/ pc'["control"] = pc["control"]
               \/ pc["start"] = "report" /\ pc'["start"] = "running"
      /\ pc'["closer"] = pc["closer"]
  BY DEF PPPStart, PPPStartLink, PPPFirstRequest, PPPStartWaits, PPPCarrierError, PPPPublish,
         PPPReport, PPPLocks, CallTerminate, At, Goto, CloseShape, Actors
<1>4. PPPCalm
  <2>1. SessionKeeps /\ session'.own = session.own
    <3>1. CASE session' \in {session, Called(session), Counted(session), Called(Counted(session))}
      BY <3>1, CalledKeeps, CallKeeps DEF SessionKeeps
    <3>2. CASE session' = [session EXCEPT !.ready = TRUE]
      BY <3>2 DEF CloseShape, SessionKeeps
    <3> QED
      BY <1>2, <3>1, <3>2
  <2>2. ClientShape(client') /\ client'.transportSession = client.transportSession
    BY <1>2, ReportKeeps DEF CloseShape
  <2> QED
    BY <1>2, <1>3, <2>1, <2>2, UnchangedMoves DEF PPPCalm, CloseShape, Actors
<1>5. PPPGoes
  BY <1>3 DEF PPPGoes
<1> QED
  BY <1>1, <1>4, <1>5, PPPCalmCloses DEF Steps

LEMMA PPPControlCloses ==
    ASSUME CloseShape, CloseCommon, PPPClosing, Sound(link), flavor = "ppp",
           PPPControlStep, ~PPPSwitch
    PROVE  CloseShape' /\ CloseCommon' /\ PPPClosing'
<1>1. Steps(link, link')
  BY ControlSteps
<1>2. /\ UNCHANGED <<flavor, conn, channels, keys, local>>
      /\ UNCHANGED client \/ \E t : Report(t)
      /\ session' \in {session, Called(session), Counted(session)}
  BY DEF PPPControlStep, PPPCancelled, PPPLinkDone, PPPCloseOld, PPPSwitchRequest,
         PPPSwitchWaits, PPPSwitchTimeout, PPPWithdraw, PPPSwitched, PPPLocks, PPPWriteEnds,
         CallTerminate
<1>3. /\ \E l : Goto("control", l)
      /\ \/ pc["control"] \in {"select", "lock", "writing", "await", "switched"}
         \/ pc["control"] = "closeOld" /\ PPPCloseOld
         \/ pc["control"] = "withdraw" /\ PPPWithdraw
  BY DEF PPPControlStep, PPPCancelled, PPPLinkDone, PPPCloseOld, PPPSwitchRequest,
         PPPSwitchWaits, PPPSwitchTimeout, PPPWithdraw, PPPSwitched, PPPLocks, CallTerminate, At
<1>4. DOMAIN pc' = Actors /\ \A a \in Actors : a # "control" => pc'[a] = pc[a]
  BY <1>3 DEF Goto, CloseShape
<1>5. PPPCloseOld => link'.st[1] # "open"
  BY DEF PPPCloseOld, Sound, LinkShape, Carriers
<1>6. PPPWithdraw => link'.st[2] # "open"
  BY DEF PPPWithdraw, Sound, LinkShape, Carriers
<1>7. PPPCalm
  <2>1. SessionKeeps /\ session'.own = session.own
    BY <1>2, CalledKeeps, CallKeeps DEF SessionKeeps
  <2>2. ClientShape(client') /\ client'.transportSession = client.transportSession
    BY <1>2, ReportKeeps DEF CloseShape
  <2> QED
    BY <1>2, <1>4, <2>1, <2>2, UnchangedMoves DEF PPPCalm, CloseShape, Actors
<1>8. PPPGoes
  BY <1>3, <1>4, <1>5, <1>6 DEF PPPGoes, Actors
<1> QED
  BY <1>1, <1>7, <1>8, PPPCalmCloses DEF Steps

LEMMA PPPCloseCloses ==
    ASSUME CloseShape, CloseCommon, PPPClosing, Sound(link), flavor = "ppp",
           \/ PPPClose \/ PPPCloseBegins \/ PPPCloseTries \/ PPPCloseLocks \/ PPPCloseWritten
           \/ PPPCloseAwaits
    PROVE  CloseShape' /\ CloseCommon' /\ PPPClosing'
<1>1. Steps(link, link')
  BY CloseSteps DEF PPPTerminateStep
<1>2. /\ UNCHANGED <<flavor, client, conn, channels, keys, local>>
      /\ session' \in {session, Called(session)}
      /\ UNCHANGED pc \/ (Goto("closer", "terminating"))
  BY DEF PPPClose, PPPCloseBegins, PPPCloseTries, PPPCloseLocks, PPPCloseWritten, PPPCloseAwaits,
         vars, CallTerminate
<1>3. /\ DOMAIN pc' = Actors /\ \A a \in Actors : a # "closer" => pc'[a] = pc[a]
      /\ pc'["closer"] = pc["closer"] \/ pc'["closer"] = "terminating"
  BY <1>2 DEF Goto, CloseShape, Actors
<1>4. PPPCalm
  <2>1. SessionKeeps /\ session'.own = session.own
    BY <1>2, CalledKeeps
  <2> QED
    BY <1>2, <1>3, <2>1, UnchangedMoves DEF PPPCalm, CloseShape, Actors
<1>5. PPPGoes
  BY <1>3 DEF PPPGoes, Actors
<1> QED
  BY <1>1, <1>4, <1>5, PPPCalmCloses DEF Steps

\* The steps that make a carrier, or take it over.
LEMMA PPPCarrierCloses ==
    ASSUME CloseShape, CloseCommon, PPPClosing, Sound(link), flavor = "ppp",
           PPPPrepare \/ PPPInstall \/ PPPRetryDTLS \/ PPPSwitch
    PROVE  CloseShape' /\ CloseCommon' /\ PPPClosing'
<1>0. /\ UNCHANGED <<flavor, client, conn, channels, keys, local>>
      /\ \A a \in Actors : LocalMoves(a)
      /\ ClientShape(client)
  BY Zenon, UnchangedMoves DEF PPPPrepare, PPPInstall, PPPRetryDTLS, PPPSwitch, CloseShape
<1>1. ASSUME PPPPrepare PROVE CloseShape' /\ CloseCommon' /\ PPPClosing'
  <2>1. CASE UNCHANGED link
    <3>1. Closes(link, link') /\ Keeps(link, link')
      BY <2>1, Carried DEF Steps
    <3>2. /\ pc["start"] = "prepare" /\ session' \in {session, Called(session)}
          /\ Goto("start", "terminating") \/ (Goto("start", "install") /\ UNCHANGED session)
      BY Zenon, <1>1 DEF PPPPrepare, CallTerminate, At
    <3>3. CASE Goto("start", "terminating")
      <4>1. DOMAIN pc' = Actors /\ pc'["start"] = "terminating" /\ \A a \in Actors : a # "start" => pc'[a] = pc[a]
        BY <3>3 DEF Goto, CloseShape, Actors
      <4>2. PPPCalm
        BY <1>0, <3>2, <4>1, CalledKeeps DEF PPPCalm, CloseShape, Actors
      <4>3. PPPGoes
        BY <3>2, <4>1 DEF PPPGoes, Actors
      <4> QED
        BY <3>1, <4>2, <4>3, PPPCalmCloses
    <3>4. CASE Goto("start", "install") /\ UNCHANGED session
      <4>1. DOMAIN pc' = Actors /\ pc'["start"] = "install" /\ \A a \in Actors : a # "start" => pc'[a] = pc[a]
        BY <3>4 DEF Goto, CloseShape, Actors
      <4>2. PPPCalm
        BY <1>0, <3>2, <3>4, <4>1, CalledKeeps DEF PPPCalm, CloseShape, Actors
      <4>3. CloseShape' /\ CloseCommon'
        BY <4>1, <4>2, PPPCalmKeeps DEF Actors
      <4>4. PPPClosing'
        BY <1>0, <2>1, <3>2, <3>4, <4>1 DEF PPPClosing, CloseCommon, ClosedTerms, Actors
      <4> QED
        BY <4>3, <4>4
    <3> QED
      BY <3>2, <3>3, <3>4
  <2>2. CASE ~UNCHANGED link
    <3>1. /\ pc["start"] = "prepare" /\ UNCHANGED session /\ Goto("start", "install")
          /\ \E dtls, a, locked : link' = LinkOver(dtls, a, locked)
      BY Zenon, <1>1, <2>2 DEF PPPPrepare, At
    <3>2. DOMAIN pc' = Actors /\ pc'["start"] = "install" /\ \A a \in Actors : a # "start" => pc'[a] = pc[a]
      BY <3>1 DEF Goto, CloseShape, Actors
    <3>3. /\ link'.phase = "establishing" /\ link'.carrier = 1 /\ link'.closing = "no"
          /\ link'.st[2] = "none"
      BY <3>1 DEF LinkOver, NewLink, Carriers
    <3>4. PPPCalm
      BY <1>0, <3>1, <3>2, CalledKeeps DEF PPPCalm, CloseShape, Actors
    <3>5. CloseShape' /\ CloseCommon'
      BY <3>2, <3>4, PPPCalmKeeps DEF Actors
    <3>6. PPPClosing'
      BY <1>0, <3>1, <3>2, <3>3 DEF PPPClosing, CloseCommon, ClosedTerms, Actors
    <3> QED
      BY <3>5, <3>6
  <2> QED
    BY <2>1, <2>2
<1>2. ASSUME PPPInstall PROVE CloseShape' /\ CloseCommon' /\ PPPClosing'
  <2>1. Closes(link, link') /\ Keeps(link, link')
    BY <1>2, StartSteps DEF Steps
  <2>2. /\ pc["start"] = "install"
        /\ \/ session.closed /\ link' = LinkClosed(link) /\ Goto("start", "failed") /\ UNCHANGED session
           \/ ~session.closed /\ session' = [session EXCEPT !.connected = TRUE] /\ Goto("start", "startLink") /\ UNCHANGED link
    BY <1>2 DEF PPPInstall, At
  <2>3. CASE session.closed
    <3>1. DOMAIN pc' = Actors /\ pc'["start"] = "failed" /\ \A a \in Actors : a # "start" => pc'[a] = pc[a]
      BY <2>2, <2>3 DEF Goto, CloseShape, Actors
    <3>2. PPPCalm
      BY <1>0, <2>2, <2>3, <3>1, CalledKeeps DEF PPPCalm, CloseShape, Actors
    <3>3. CloseShape' /\ CloseCommon'
      BY <3>1, <3>2, PPPCalmKeeps DEF Actors
    <3>4. link'.phase = "closed" /\ link'.carrier = NoCarrier
      <4>1. CASE link.phase = "closed"
        BY <2>2, <2>3, <4>1 DEF LinkClosed, PPPClosing
      <4>2. CASE link.phase # "closed"
        <5>1. DOMAIN Forgotten(link) = DOMAIN NewLink
          BY Zenon DEF Forgotten, Sound, LinkShape, NewLink
        <5>2. link' = [Forgotten(link) EXCEPT !.phase = "closed", !.ready = FALSE, !.carrier = NoCarrier,
                          !.st = [g \in Carriers |-> IF g = link.carrier THEN "closed" ELSE link.st[g]]]
          BY <2>2, <2>3, <4>2 DEF LinkClosed
        <5> QED
          BY <5>1, <5>2 DEF NewLink
      <4> QED
        BY <4>1, <4>2
    <3>5. PPPClosing'
      BY <1>0, <2>1, <2>2, <2>3, <3>1, <3>4 DEF PPPClosing, Closes, CloseCommon, ClosedTerms, Actors, Carriers
    <3> QED
      BY <3>3, <3>5
  <2>4. CASE ~session.closed
    <3>1. DOMAIN pc' = Actors /\ pc'["start"] = "startLink" /\ \A a \in Actors : a # "start" => pc'[a] = pc[a]
      BY <2>2, <2>4 DEF Goto, CloseShape, Actors
    <3>2. /\ DOMAIN session' = DOMAIN session /\ session'.connected
          /\ session'.closed = session.closed /\ session'.term = session.term /\ session'.own = session.own
      BY <2>2, <2>4 DEF CloseShape
    <3>3. CloseShape'
      BY <1>0, <3>1, <3>2 DEF CloseShape
    <3>4. CloseCommon'
      BY <1>0, <3>1, <3>2 DEF CloseCommon, ClosedTerms, Actors
    <3>5. PPPClosing'
      BY <1>0, <2>2, <2>4, <3>1, <3>2 DEF PPPClosing, CloseCommon, ClosedTerms, Actors
    <3> QED
      BY <3>3, <3>4, <3>5
  <2> QED
    BY <2>3, <2>4
<1>3. ASSUME PPPRetryDTLS PROVE CloseShape' /\ CloseCommon' /\ PPPClosing'
  <2>1. /\ pc["control"] = "select"
        /\ session' \in {session, Called(session), Called(Counted(session))}
        /\ \/ UNCHANGED link /\ Goto("control", "terminating")
           \/ link' = [link EXCEPT !.st[2] = "open"] /\ Goto("control", "switch")
    BY <1>3 DEF PPPRetryDTLS, Ends, At
  <2>2. /\ DOMAIN pc' = Actors /\ \A a \in Actors : a # "control" => pc'[a] = pc[a]
        /\ ~UNCHANGED link => pc'["control"] = "switch"
    BY <2>1 DEF Goto, CloseShape, Actors
  <2>3. PPPCalm
    <3>1. SessionKeeps /\ session'.own = session.own
      BY <2>1, CalledKeeps
    <3> QED
      BY <1>0, <2>2, <3>1 DEF PPPCalm, CloseShape, Actors
  <2>4. CASE UNCHANGED link
    <3>1. Closes(link, link') /\ Keeps(link, link')
      BY <2>4, Carried DEF Steps
    <3>2. PPPGoes
      BY <2>1, <2>2 DEF PPPGoes, Actors
    <3> QED
      BY <2>3, <3>1, <3>2, PPPCalmCloses
  <2>5. CASE ~UNCHANGED link
    <3>1. /\ link'.phase = link.phase /\ link'.carrier = link.carrier /\ link'.closing = link.closing
          /\ link'.st[1] = link.st[1]
      BY <2>1, <2>5 DEF Sound, LinkShape, Carriers
    <3>2. CloseShape' /\ CloseCommon'
      BY <2>2, <2>3, PPPCalmKeeps DEF Actors
    <3>3. session'.own = Nil /\ session'.connected = session.connected /\ (session'.term = "done" <=> session.term = "done")
      BY <2>3 DEF PPPCalm, SessionKeeps, PPPClosing
    <3>4. PPPClosing'
      BY <1>0, <2>1, <2>2, <2>5, <3>1, <3>3 DEF PPPClosing, Actors
    <3> QED
      BY <3>2, <3>4
  <2> QED
    BY <2>4, <2>5
<1>4. ASSUME PPPSwitch PROVE CloseShape' /\ CloseCommon' /\ PPPClosing'
  <2>1. /\ pc["control"] = "switch" /\ UNCHANGED session
        /\ \/ link.phase = "network" /\ link' = Switched(link) /\ Goto("control", "closeOld")
           \/ UNCHANGED link /\ Goto("control", "withdraw")
    BY <1>4 DEF PPPSwitch, At
  <2>2. /\ DOMAIN pc' = Actors /\ \A a \in Actors : a # "control" => pc'[a] = pc[a]
        /\ \/ link.phase = "network" /\ link' = Switched(link) /\ pc'["control"] = "closeOld"
           \/ UNCHANGED link /\ pc'["control"] = "withdraw"
    BY <2>1 DEF Goto, CloseShape, Actors
  <2>3. PPPCalm
    BY <1>0, <2>1, <2>2, CalledKeeps DEF PPPCalm, CloseShape, Actors
  <2>4. CASE UNCHANGED link /\ pc'["control"] = "withdraw"
    <3>1. Closes(link, link') /\ Keeps(link, link')
      BY <2>4, Carried DEF Steps
    <3>2. PPPGoes
      BY <2>1, <2>2, <2>4 DEF PPPGoes, Actors
    <3> QED
      BY <2>3, <3>1, <3>2, PPPCalmCloses
  <2>5. CASE link.phase = "network" /\ link' = Switched(link) /\ pc'["control"] = "closeOld"
    <3>1. /\ link'.phase = "establishing" /\ link'.carrier = 2 /\ link'.closing = link.closing
      BY <2>5, SwitchIsSound
    <3>2. CloseShape' /\ CloseCommon'
      BY <2>2, <2>3, PPPCalmKeeps DEF Actors
    <3>3. session.connected
      BY <2>1 DEF PPPClosing
    <3>4. PPPClosing'
      BY <1>0, <2>1, <2>2, <2>5, <3>1, <3>3 DEF PPPClosing, Actors
    <3> QED
      BY <3>2, <3>4
  <2> QED
    BY <2>2, <2>4, <2>5
<1> QED
  BY <1>1, <1>2, <1>3, <1>4

\* terminate, and Close's return.
LEMMA PPPTerminateCloses ==
    ASSUME CloseShape, CloseCommon, PPPClosing, Sound(link), flavor = "ppp",
           \/ PPPJoin \/ PPPCloseJoins
           \/ PPPTerminate /\ UNCHANGED <<flavor, conn, channels, keys, pc, local, wire>>
    PROVE  CloseShape' /\ CloseCommon' /\ PPPClosing'
<1>0. /\ UNCHANGED <<flavor, conn, channels, keys, local, link>>
      /\ UNCHANGED pc \/ Goto("closer", "done")
  BY DEF PPPJoin, PPPCloseJoins, PPPTerminate
<1>1. CASE PPPJoin
  <2>1. /\ pc["closer"] = "join" /\ pc["start"] \in {"none", "failed", "running"}
        /\ pc["control"] \in {"none", "exited"} /\ UNCHANGED <<client, session>> /\ Goto("closer", "done")
    BY <1>1 DEF PPPJoin, Finished, At
  <2>2. DOMAIN pc' = Actors /\ pc'["closer"] = "done" /\ \A a \in Actors : a # "closer" => pc'[a] = pc[a]
    BY <2>1 DEF Goto, CloseShape, Actors
  <2>3. CloseShape'
    BY <1>0, <2>1, <2>2 DEF CloseShape
  <2>4. CloseCommon'
    BY <1>0, <2>1, <2>2 DEF CloseCommon, ClosedTerms
  <2>5. PPPClosing'
    BY <1>0, <2>1, <2>2 DEF PPPClosing, Actors
  <2> QED
    BY <2>3, <2>4, <2>5
<1>2. CASE PPPCloseJoins
  <2>1. /\ session.term = "closing" /\ link.closing = "join" /\ UNCHANGED <<client, pc>>
        /\ session' = PPPTerminated(session)
    BY <1>2 DEF PPPCloseJoins, Closing
  <2>2. /\ DOMAIN session' = DOMAIN session /\ session'.connected = session.connected
        /\ session'.closed = session.closed /\ session'.term = "done" /\ session'.own = session.own
    BY <2>1 DEF PPPTerminated, CloseShape
  <2>3. CloseShape'
    BY <1>0, <2>1, <2>2 DEF CloseShape
  <2>4. CloseCommon'
    BY <1>0, <2>1, <2>2 DEF CloseCommon, ClosedTerms
  <2>5. PPPClosing'
    BY <1>0, <2>1, <2>2 DEF PPPClosing, Actors
  <2> QED
    BY <2>3, <2>4, <2>5
<1>3. CASE PPPTerminate /\ UNCHANGED <<flavor, conn, channels, keys, pc, local, wire>>
  <2>1. \/ /\ session.term = "called" /\ UNCHANGED client
           /\ session' = [session EXCEPT !.term = "taken", !.ready = FALSE, !.closed = TRUE]
        \/ /\ session.term = "taken" /\ client' = StopActiveTransport(client, Self)
           /\ session' = IF session.connected THEN [session EXCEPT !.term = "closing"]
                         ELSE PPPTerminated(session)
    BY <1>3 DEF PPPTerminate
  <2>2. ClientShape(client') /\ (session.term = "taken" => client'.transportSession # Self)
    BY <2>1, StopWithdraws DEF CloseShape
  <2>3. /\ DOMAIN session' = DOMAIN session /\ session'.connected = session.connected
        /\ session'.own = session.own /\ session'.closed
        /\ \/ session.term = "called" /\ session'.term = "taken"
           \/ session.term = "taken" /\ session.connected /\ session'.term = "closing"
           \/ session.term = "taken" /\ ~session.connected /\ session'.term = "done"
    <3>1. CASE session.term = "called"
      BY Zenon, <2>1, <3>1 DEF CloseShape
    <3>2. CASE session.term = "taken"
      <4>1. session.closed
        BY <3>2 DEF CloseCommon, ClosedTerms
      <4> QED
        BY <2>1, <3>2, <4>1, ZenonT(30) DEF PPPTerminated, CloseShape
    <3> QED
      BY <2>1, <3>1, <3>2
  <2>4. CloseShape'
    BY <1>0, <1>3, <2>2, <2>3 DEF CloseShape
  <2>5. CloseCommon'
    BY <1>0, <1>3, <2>2, <2>3 DEF CloseCommon, ClosedTerms, PPPClosing
  <2>6. PPPClosing'
    BY <1>0, <1>3, <2>3 DEF PPPClosing, Actors
  <2> QED
    BY <2>4, <2>5, <2>6
<1> QED
  BY <1>0, <1>1, <1>2, <1>3

LEMMA PPPNextCloses ==
    ASSUME CloseShape, CloseCommon, PPPClosing, Sound(link), PPPNext
    PROVE  CloseShape' /\ CloseCommon' /\ PPPClosing'
<1>1. flavor = "ppp"
  BY DEF PPPNext
<1>2. CASE PPPStart \/ PPPStartStep \/ PPPCarrierError
  BY <1>1, <1>2, PPPStartCloses, PPPCarrierCloses DEF PPPStartStep
<1>3. CASE PPPControlStep \/ PPPRetryDTLS
  BY <1>1, <1>3, PPPControlCloses, PPPCarrierCloses
<1>4. CASE \E g \in Carriers : PPPFrame(g) \/ PPPFrameEvent(g) \/ PPPReaderStep(g)
  BY <1>1, <1>4, PPPReaderCloses
<1>5. CASE PPPTick \/ PPPTimerStep
  BY <1>1, <1>5, PPPTimerCloses
<1>6. CASE PPPWriteBegins \/ PPPWriterStep
  BY <1>1, <1>6, PPPWriterCloses
<1>7. CASE PPPClose \/ PPPJoin \/ PPPTerminateStep
  BY <1>1, <1>7, PPPCloseCloses, PPPTerminateCloses DEF PPPTerminateStep
<1> QED
  BY <1>2, <1>3, <1>4, <1>5, <1>6, <1>7 DEF PPPNext

----------------------------------------------------------------------------
(* What sessions of all protocols do: terminate returns, Fail and the client's *)
(* Close are called, and the channels' workers go on.                          *)

LEMMA EstablishedType ==
    ASSUME NEW c \in Channel
    PROVE  /\ Established(c) \in Channel /\ Established(c).st = c.st /\ Established(c).done = c.done
           /\ WorkersGone(c) \in Channel /\ WorkersGone(c).st = c.st /\ WorkersGone(c).done = c.done
BY Zenon DEF Established, WorkersGone, Channel

LEMMA WorkerWinds ==
    ASSUME CloseShape, NEW c \in 1 .. MaxChannels, UNCHANGED keys,
           NEW new \in {Established(channels[c]), WorkersGone(channels[c])},
           channels' = [channels EXCEPT ![c] = new]
    PROVE  Winds
<1>1. new \in Channel /\ new.st = channels[c].st /\ new.done = channels[c].done
  BY EstablishedType DEF CloseShape
<1>2. channels' \in [1 .. MaxChannels -> Channel]
  BY <1>1 DEF CloseShape
<1>3. \A d \in 1 .. MaxChannels : channels'[d].st = channels[d].st /\ channels'[d].done = channels[d].done
  BY <1>1 DEF CloseShape
<1> QED
  BY <1>2, <1>3 DEF Winds, Running, Alive, CloseShape

LEMMA OthersMove ==
    ASSUME CloseShape, Others, UNCHANGED link
    PROVE  OtherMoves
<1>1. UNCHANGED <<flavor, conn, pc, local>>
  BY DEF Others, Fail, ClientCloses, ChannelProceeds, WorkersReturn, ChannelActs, ReadProbeResponse,
         ReadFails, TimerEnds
<1>2. /\ SessionKeeps /\ session'.own = session.own
      /\ session'.ready = session.ready /\ session'.keyed = session.keyed
  <2>1. \/ session' \in {session, Called(Counted(session))}
        \/ session' = Counted(session)
        \/ session' = [Counted(session) EXCEPT !.cancelled = TRUE]
    BY DEF Others, Fail, ClientCloses, ChannelProceeds, WorkersReturn, ChannelActs,
           ReadProbeResponse, ReadFails, TimerEnds
  <2>2. /\ DOMAIN Counted(session) = DOMAIN session
        /\ \A x \in {"closed", "term", "connected", "own", "ready", "keyed"} :
              Counted(session)[x] = session[x]
    BY DEF Counted, CloseShape
  <2>3. CASE session' = [Counted(session) EXCEPT !.cancelled = TRUE]
    BY <2>2, <2>3 DEF SessionKeeps
  <2>4. CASE session' = Counted(session)
    BY <2>2, <2>4 DEF SessionKeeps
  <2> QED
    BY <2>1, <2>3, <2>4, CalledKeeps
<1>3. ClientShape(client') /\ client'.transportSession \in {client.transportSession, NoSession}
  <2>1. UNCHANGED client \/ client' = MarkClosed(client)
    BY DEF Others, Fail, ClientCloses, ChannelProceeds, WorkersReturn, ChannelActs,
           ReadProbeResponse, ReadFails, TimerEnds
  <2> QED
    BY Zenon, <2>1 DEF MarkClosed, ClientShape, CloseShape
<1>4. Winds
  <2>1. CASE Fail \/ ClientCloses
    BY <2>1, UnchangedWinds DEF Fail, ClientCloses
  <2>2. CASE ChannelProceeds
    BY Zenon, <2>2, WorkerWinds DEF ChannelProceeds, WorkersReturn
  <2>3. CASE ChannelActs
    <3>1. PICK c \in 1 .. MaxChannels : ReadProbeResponse(c) \/ ReadFails(c) \/ TimerEnds(c)
      BY <2>3 DEF ChannelActs
    <3>2. CASE ReadProbeResponse(c)
      BY Zenon, <3>2, WorkerWinds DEF ReadProbeResponse
    <3>3. CASE ReadFails(c) \/ TimerEnds(c)
      <4>1. \E err \in {"nil", "err", "exhausted", "fatal", "rekey"} : TerminateChannel(c, err)
        BY <3>3 DEF ReadFails, TimerEnds
      <4>2. c \in Nat
        OBVIOUS
      <4> QED
        BY <4>1, <4>2, TerminateAnyWinds
    <3> QED
      BY <3>1, <3>2, <3>3
  <2> QED
    BY <2>1, <2>2, <2>3 DEF Others
<1> QED
  BY <1>1, <1>2, <1>3, <1>4 DEF OtherMoves, CloseShape

LEMMA ReturnMoves ==
    ASSUME CloseShape, NEW a \in Actors, TerminateReturns(a), UNCHANGED link
    PROVE  OtherMoves
<1>1. /\ session.term = "done" /\ pc[a] = "terminating"
      /\ UNCHANGED <<flavor, client, session, channels, keys>>
  BY DEF TerminateReturns, At
<1>2. pc' = [pc EXCEPT ![a] = Outcome(a)]
  BY DEF TerminateReturns, Goto, Outcome
<1>3. LocalMoves(a)
  <2>1. CASE a = "writer"
    BY <2>1, WrittenMoves DEF TerminateReturns
  <2>2. CASE a # "writer"
    <3>1. Holding(a, Nil)
      BY <2>2 DEF TerminateReturns, Holding
    <3> QED
      BY <3>1, HoldingMoves DEF Nil
  <2> QED
    BY <2>1, <2>2
<1>4. DOMAIN conn' = DOMAIN conn /\ conn'.st = conn.st
  BY DEF TerminateReturns, CloseShape
<1>5. SessionKeeps
  BY <1>1 DEF SessionKeeps
<1> QED
  BY Zenon, <1>1, <1>2, <1>3, <1>4, <1>5, UnchangedWinds DEF OtherMoves, Leaves, CloseShape

\* What changes of where the goroutines are.
LEMMA OtherGoes ==
    ASSUME CloseShape, OtherMoves
    PROVE  /\ DOMAIN pc' = Actors
           /\ \A a \in Actors :
                 \/ pc'[a] = pc[a] /\ (pc[a] # "terminating" => local'.channel[a] = local.channel[a])
                 \/ session.term = "done" /\ pc[a] = "terminating" /\ pc'[a] = Outcome(a)
           /\ local'.taken = local.taken
           /\ DOMAIN local' = DOMAIN local /\ local'.channel \in [Actors -> Nat]
<1>1. CASE UNCHANGED <<pc, local>>
  BY <1>1 DEF CloseShape
<1>2. ASSUME NEW a \in Actors, Leaves(a)
      PROVE  /\ DOMAIN pc' = Actors
             /\ \A b \in Actors :
                   \/ pc'[b] = pc[b] /\ (pc[b] # "terminating" => local'.channel[b] = local.channel[b])
                   \/ session.term = "done" /\ pc[b] = "terminating" /\ pc'[b] = Outcome(b)
             /\ local'.taken = local.taken
             /\ DOMAIN local' = DOMAIN local /\ local'.channel \in [Actors -> Nat]
  <2>1. /\ DOMAIN pc' = Actors /\ pc'[a] = Outcome(a)
        /\ \A b \in Actors : b # a => pc'[b] = pc[b]
    BY <1>2 DEF Leaves, CloseShape
  <2> QED
    BY <1>2, <2>1 DEF Leaves, LocalMoves
<1> QED
  BY <1>1, <1>2 DEF OtherMoves

LEMMA OtherKeeps ==
    ASSUME CloseShape, CloseCommon, OtherMoves
    PROVE  CloseShape' /\ CloseCommon'
<1>1. CloseShape'
  BY Zenon, OtherGoes DEF CloseShape, OtherMoves, SessionKeeps, Winds
<1>2. AliveOpen
  BY WindsOpen DEF OtherMoves
<1>3. pc'["closer"] \in {"join", "done"} => pc["closer"] \in {"join", "done"} \/ session.term = "done"
  BY OtherGoes DEF Actors
<1>4. session'.term = "done" <=> session.term = "done"
  BY DEF OtherMoves, SessionKeeps
<1>5. session'.term \in ClosedTerms <=> session.term \in ClosedTerms
  BY DEF OtherMoves, SessionKeeps, ClosedTerms
<1>6. session'.term \in {"closing", "done"} => client'.transportSession # Self /\ session'.own = Nil
  BY DEF OtherMoves, SessionKeeps, CloseCommon, NoSession, Self
<1>7. CloseCommon'
  BY <1>2, <1>3, <1>4, <1>5, <1>6 DEF CloseCommon, OtherMoves, SessionKeeps, AliveOpen
<1> QED
  BY <1>1, <1>7

\* The same, one by one.
LEMMA OtherPlaces ==
    ASSUME CloseShape, OtherMoves
    PROVE  /\ \A a \in {"reader", "control", "timer"} :
                 pc'[a] = pc[a] \/ (pc[a] = "terminating" /\ pc'[a] = "exited")
           /\ pc'["start"] = pc["start"] \/ (pc["start"] = "terminating" /\ pc'["start"] = "failed")
           /\ pc'["closer"] = pc["closer"] \/ (pc["closer"] = "terminating" /\ pc'["closer"] = "join")
           /\ \A a \in Actors : pc[a] # "terminating" => local'.channel[a] = local.channel[a]
           /\ local'.taken = local.taken
           /\ \A c \in 1 .. MaxChannels : Running(c)' => Running(c)
           /\ keys' = "live" => keys = "live"
           /\ conn'.st = conn.st /\ session'.own = session.own /\ session'.ready = session.ready
           /\ session'.keyed = session.keyed /\ session'.closed = session.closed
           /\ session'.connected = session.connected
           /\ session'.term = session.term \/ (session.term = "no" /\ session'.term = "called")
BY OtherGoes DEF OtherMoves, SessionKeeps, Winds, Outcome, Actors

LEMMA OtherACCloses ==
    ASSUME CloseShape, CloseCommon, ACClosing, OtherMoves
    PROVE  ACClosing'
BY OtherGoes, SMTT(30) DEF ACClosing, OtherMoves, SessionKeeps, Winds, Outcome, Actors, CloseShape

LEMMA OtherGPCloses ==
    ASSUME CloseShape, CloseCommon, GPClosing, OtherMoves
    PROVE  GPClosing'
<1>1. \A c \in 1 .. MaxChannels : Running(c)' =>
          \/ session'.own = c
          \/ session'.term = "taken" /\ local'.taken = c
          \/ \E a \in Opener : pc'[a] = "closeOld" /\ local'.channel[a] = c
  <2>1. \A a \in Opener : pc[a] = "closeOld" => pc'[a] = "closeOld" /\ local'.channel[a] = local.channel[a]
    BY OtherPlaces DEF Opener, Actors
  <2>2. session.term = "taken" => session'.term = "taken"
    BY OtherPlaces
  <2> QED
    BY <2>1, <2>2, OtherPlaces DEF GPClosing
<1>2. \A a \in Opener :
          /\ pc'[a] \in {"closeOld", "joinOld", "gpst", "gpstDown"} => pc'[a] = pc[a] /\ local'.channel[a] = local.channel[a]
  BY OtherPlaces DEF Opener, Actors
<1>3. /\ conn'.st = "closed"
      /\ keys' = "live" => session'.term # "done"
      /\ session'.closed => ~session'.ready /\ session'.own = Nil
      /\ pc'["control"] # "none" => pc'["start"] = "running"
      /\ pc'["start"] \in {"none", "fetch", "hip"} => session'.own = Nil
      /\ pc'["start"] \in {"espDial", "probe", "await"} => session'.own \in {Nil, local'.channel["start"]}
      /\ pc'["closer"] = "done" =>
            pc'["control"] \in {"none", "exited"} /\ pc'["start"] \in {"none", "failed", "running"}
  BY OtherPlaces DEF GPClosing, Actors
<1>4. /\ \A a \in Opener : pc'[a] \in {"closeOld", "joinOld", "gpst"} => session'.own = Nil
      /\ pc'["start"] \in {"candidate", "rejoin"} =>
            \A c \in 1 .. MaxChannels : Running(c)' => session'.own # c
      /\ \A a \in Opener : pc'[a] = "gpstDown" =>
            \A c \in 1 .. MaxChannels : Running(c)' => local'.channel[a] # c
  BY <1>2, OtherPlaces DEF GPClosing
<1> QED
  BY <1>1, <1>3, <1>4 DEF GPClosing

LEMMA OtherNCCloses ==
    ASSUME CloseShape, CloseCommon, NCClosing, OtherMoves
    PROVE  NCClosing'
<1>1. \A a \in {"reader", "control"} :
          pc[a] # "terminating" => pc'[a] = pc[a] /\ local'.channel[a] = local.channel[a]
  BY OtherPlaces DEF Actors
<1>2. \A c \in 1 .. MaxChannels : Running(c)' =>
          \/ session'.own = c
          \/ session'.term = "taken" /\ local'.taken = c
          \/ pc'["control"] \in {"dial", "probe", "install"} /\ local'.channel["control"] = c
          \/ pc'["reader"] = "disabled" /\ local'.channel["reader"] = c
  BY <1>1, OtherPlaces DEF NCClosing
<1>3. /\ conn'.st = "open" =>
            \/ pc'["start"] \in {"request", "configure", "install"}
            \/ session'.connected /\ session'.term \notin {"closing", "done"}
      /\ keys' = "live" => pc'["start"] = "install" \/ (session'.connected /\ session'.term # "done")
      /\ session'.closed => session'.own = Nil
      /\ pc'["reader"] # "none" \/ pc'["control"] # "none" => pc'["start"] = "running"
      /\ pc'["control"] \in {"none", "esp", "dial", "probe", "install"} => session'.own = Nil
      /\ pc'["closer"] = "done" =>
            /\ \A a \in {"reader", "control"} : pc'[a] \in {"none", "exited"}
            /\ pc'["start"] # "report"
  BY OtherPlaces DEF NCClosing
<1>4. pc'["control"] \in {"disableLock", "disabling", "release"} =>
          \A c \in 1 .. MaxChannels : Running(c)' => local'.channel["control"] # c
  BY <1>1, OtherPlaces DEF NCClosing
<1> QED
  BY <1>2, <1>3, <1>4 DEF NCClosing

LEMMA OtherPulseCloses ==
    ASSUME CloseShape, CloseCommon, PulseClosing, OtherMoves
    PROVE  PulseClosing'
<1>1. \A a \in {"reader", "control", "timer"} :
          pc[a] # "terminating" => pc'[a] = pc[a] /\ local'.channel[a] = local.channel[a]
  BY OtherPlaces DEF Actors
<1>2. \A c \in 1 .. MaxChannels : Running(c)' =>
          \/ session'.own = c
          \/ session'.term = "taken" /\ local'.taken = c
          \/ pc'["reader"] = "suppressed" /\ local'.channel["reader"] = c
          \/ \E m \in Monitors : pc'[m] = "fallback" /\ local'.channel[m] = c
  <2>1. session.term = "taken" => session'.term = "taken"
    BY OtherPlaces
  <2> QED
    BY <1>1, <2>1, OtherPlaces DEF PulseClosing, Monitors
<1>3. /\ conn'.st = "open" =>
            pc'["start"] \in {"configure", "install"} \/ (session'.connected /\ session'.term # "done")
      /\ keys' = "live" => session'.keyed \/ pc'["reader"] \in {"suppressed", "closeESP"}
      /\ session'.term = "done" => ~session'.keyed
      /\ pc'["reader"] # "none" => pc'["start"] \in {"launch", "running"}
      /\ session'.closed => session'.own = Nil
      /\ pc'["closer"] = "done" =>
            /\ \A a \in Monitors \cup {"reader"} : pc'[a] \in {"none", "exited"}
            /\ pc'["start"] # "report"
  BY OtherPlaces DEF PulseClosing, Monitors
<1> QED
  BY <1>2, <1>3 DEF PulseClosing

LEMMA OtherPPPCloses ==
    ASSUME CloseShape, CloseCommon, PPPClosing, OtherMoves, UNCHANGED <<channels, keys>>
    PROVE  PPPClosing'
BY OtherPlaces DEF PPPClosing, OtherMoves, Actors

----------------------------------------------------------------------------
(* Every step of every protocol. *)

LEMMA ACNextCloses ==
    ASSUME TunnelAssumption, CloseShape, CloseCommon, ACClosing, ACNext, UNCHANGED link
    PROVE  flavor' = flavor /\ CloseShape' /\ CloseCommon' /\ ACClosing'
<1>1. flavor' = flavor
  BY Zenon DEF ACNext, ACStartStep, ACReaderStep, ACTimerStep, ACControlStep, ACWriterStep, ACCloserStep,
         ACTerminateStep, ACStart, ACLaunch, ACInitialResult, ACBecomeReady, ACDTLSLoop, ACInstall,
         ACDial, ACDTLSUp, ACFallback, ACReportCSTP, ACDecide, ACReadEnds, ACTimerEnds, ACWriteBegins,
         ACWriteBatch, ACWritePacketDTLS, ACWriteLocks, ACWriteCSTP, ACClose, ACCloseLocks,
         ACDisconnect, ACJoin, ACWritePacket, ACPacketLocks, ACPacketWritten
<1>2. CASE \E a \in {"reader", "timer"} : ACWritePacket(a) \/ ACPacketLocks(a) \/ ACPacketWritten(a)
  BY <1>1, <1>2, ACCloses2
<1>3. CASE ~\E a \in {"reader", "timer"} : ACWritePacket(a) \/ ACPacketLocks(a) \/ ACPacketWritten(a)
  BY <1>1, <1>3, ACCloses1
  DEF ACNext, ACStartStep, ACReaderStep, ACTimerStep, ACControlStep, ACWriterStep, ACCloserStep
<1> QED
  BY <1>1, <1>2, <1>3

LEMMA GPNextCloses ==
    ASSUME TunnelAssumption, CloseShape, CloseCommon, GPClosing, GPNext, UNCHANGED link
    PROVE  flavor' = flavor /\ CloseShape' /\ CloseCommon' /\ GPClosing'
<1>1. flavor' = flavor
  BY Zenon DEF GPNext, GPStartStep, GPControlStep, GPTimers, GPWriterStep, GPOpen, GPTerminateStep, GPStart,
         GPFetch, GPCheck, GPNoCandidate, GPCandidate, GPDialESP, GPProbe, GPAwait, GPRejoin,
         GPPublishESP, GPReportESP, GPFinish, GPLoop, GPTransportDone, GPCancelled, GPCheckAgain,
         GPRekey, GPPeriodicCheck, GPWriteBegins, GPWritePacket, GPClose, GPJoin, GPClaim, GPCloseOld,
         GPJoinOld, GPNoGPST, GPNewGPST, GPDialGPST, GPGPSTDown, GPGPSTUp, GPAbandon, GPReportGPST
<1>2. CASE GPOpen("start") \/ GPOpen("control")
  BY <1>1, <1>2, GPCloses2 DEF GPOpen, Opener
<1>3. CASE ~(GPOpen("start") \/ GPOpen("control"))
  BY <1>1, <1>3, GPCloses1 DEF GPNext, GPStartStep, GPControlStep, GPTimers, GPWriterStep
<1> QED
  BY <1>1, <1>2, <1>3

LEMMA NCNextCloses ==
    ASSUME TunnelAssumption, CloseShape, CloseCommon, NCClosing, NCNext, UNCHANGED link
    PROVE  flavor' = flavor /\ CloseShape' /\ CloseCommon' /\ NCClosing'
<1>1. flavor' = flavor
  BY Zenon DEF NCNext, NCStartStep, NCReaderStep, NCControlStep, NCSelected, NCTimers, NCWriterStep,
         NCCloserStep, NCTerminateStep, NCStart, NCDial, NCSetupFails, NCRequest, NCConfigure,
         NCInstall, NCReport, NCReadEnds, NCReadRekey, NCRekey, NCInstallKeys, NCCloseESP, NCLock,
         NCRespond, NCReadDisable, NCDisable, NCDisabled, NCNoESP, NCNewESP, NCDialESP, NCFirstProbe,
         NCStartFailed, NCInstallESP, NCCancelled, NCEstablished, NCFallback, NCEnable, NCEnabled,
         NCFallenBack, NCRelease, NCReportONCP, NCProbed, NCProbe, NCPeriodicCheckFails,
         NCWriteBegins, NCWriteESP, NCWriteONCP, NCClose, NCGoodbye, NCSaidGoodbye, NCJoin
<1>2. CASE NCStart \/ NCStartStep \/ NCReaderStep
  BY <1>1, <1>2, NCCloses1 DEF NCStartStep, NCReaderStep
<1>3. CASE NCControlStep \/ NCTimers
  BY <1>1, <1>3, NCCloses1, NCCloses2 DEF NCControlStep, NCSelected, NCTimers
<1>4. CASE NCWriteBegins \/ NCWriterStep \/ NCClose \/ NCCloserStep \/ NCTerminateStep
  BY <1>1, <1>4, NCCloses2 DEF NCWriterStep, NCCloserStep
<1> QED
  BY <1>2, <1>3, <1>4 DEF NCNext

LEMMA PulseNextCloses ==
    ASSUME TunnelAssumption, CloseShape, CloseCommon, PulseClosing, PulseNext, UNCHANGED link
    PROVE  flavor' = flavor /\ CloseShape' /\ CloseCommon' /\ PulseClosing'
<1>1. CASE PulseStart \/ PulseStartStep \/ PulseReaderStep
  <2>1. flavor' = flavor
    BY Zenon, <1>1
    DEF PulseStart, PulseStartStep, PulseReconnect, PulseConfigure, PulseInstall, PulseReport,
        PulseLaunch, PulseReaderStep, PulseReadEnds, PulseReadRekey, PulseLock, PulseRespond,
        PulseSuppress, PulseSuppressed, PulseCloseESP, PulseReadLicense
  <2> QED
    BY <1>1, <2>1, PulseCloses1 DEF PulseStartStep, PulseReaderStep
<1>2. CASE (\E m \in Monitors : PulseMonitorStep(m)) \/ PulseTimers
  <2>1. PICK m \in Monitors : PulseMonitorStep(m) \/ PulseProbeTimer(m) \/ PulseRetryTimer(m)
    BY <1>2 DEF PulseTimers
  <2>2. flavor' = flavor
    BY <2>1
    DEF PulseMonitorStep, PulseStartESP, PulseDialESP, PulseProbe, PulseAwait, PulseEstablished,
        PulseMonitor, PulseFinish, PulseFallback, PulseRejoin, PulseRetry, PulseProbeTimer,
        PulseRetryTimer, MonitorReturns
  <2> QED
    BY <2>1, <2>2, PulseCloses2 DEF PulseMonitorStep
<1>3. CASE \/ PulseWriteBegins \/ PulseWriterStep \/ PulseClose \/ PulseCloserStep
           \/ PulseTerminateStep
  <2>1. flavor' = flavor
    BY Zenon, <1>3
    DEF PulseWriteBegins, PulseWriterStep, PulseWritePacket, PulseWriteESP, PulseLock, PulseFlush,
        PulseClose, PulseCloserStep, PulseBye, PulseJoin, PulseTerminateStep
  <2> QED
    BY <1>3, <2>1, PulseCloses1 DEF PulseWriterStep, PulseCloserStep
<1> QED
  BY <1>1, <1>2, <1>3 DEF PulseNext

LEMMA PPPKeepsFlavor ==
    ASSUME PPPNext
    PROVE  flavor' = flavor
<1>1. CASE PPPStart \/ PPPStartStep \/ PPPCarrierError
  BY Zenon, <1>1
  DEF PPPStart, PPPStartStep, PPPCarrierError, PPPPrepare, PPPInstall, PPPStartLink, PPPFirstRequest,
      PPPStartWaits, PPPPublish, PPPReport, PPPLocks, PPPWriteEnds
<1>2. CASE PPPControlStep \/ PPPRetryDTLS
  BY <1>2
  DEF PPPControlStep, PPPRetryDTLS, PPPCancelled, PPPLinkDone, PPPSwitch, PPPCloseOld,
      PPPSwitchRequest, PPPSwitchWaits, PPPSwitchTimeout, PPPWithdraw, PPPSwitched, PPPLocks,
      PPPWriteEnds
<1>3. ASSUME NEW g \in Carriers, PPPFrame(g) \/ PPPFrameEvent(g) \/ PPPReaderStep(g)
      PROVE  flavor' = flavor
  BY Zenon, <1>3
  DEF PPPFrame, PPPFrameEvent, PPPReaderStep, PPPReadEnds, PPPReaderLocks, PPPReaderWritten,
      PPPConclude, PPPLocks, PPPWriteEnds, vars
<1>4. CASE PPPTick \/ PPPTimerStep
  BY <1>4
  DEF PPPTick, PPPTimerStep, PPPTimerStops, PPPHandleTimer, PPPTimerWrites, PPPLocks, PPPWriteEnds, vars
<1>5. CASE PPPWriteBegins \/ PPPWriterStep
  BY <1>5 DEF PPPWriteBegins, PPPWriterStep, PPPWriterLocks, PPPWriterWritten, PPPLocks, PPPWriteEnds
<1>6. CASE PPPClose \/ PPPJoin \/ PPPTerminateStep
  BY <1>6
  DEF PPPClose, PPPJoin, PPPTerminateStep, PPPCloseBegins, PPPCloseTries, PPPCloseLocks,
      PPPCloseWritten, PPPCloseAwaits, PPPCloseJoins, PPPLocks, PPPWriteEnds, vars
<1> QED
  BY <1>1, <1>2, <1>3, <1>4, <1>5, <1>6 DEF PPPNext

\* A PPP session has no channels whose workers could do anything.
LEMMA OtherKeepsInv ==
    ASSUME CloseInv, OtherMoves, flavor = "ppp" => UNCHANGED <<channels, keys>>
    PROVE  CloseInv'
<1>1. CloseShape' /\ CloseCommon' /\ UNCHANGED flavor
  BY OtherKeeps DEF CloseInv, OtherMoves
<1>2. CASE flavor = "anyconnect"
  BY <1>1, <1>2, OtherACCloses DEF CloseInv
<1>3. CASE flavor = "gp"
  BY <1>1, <1>3, OtherGPCloses DEF CloseInv
<1>4. CASE flavor = "nc"
  BY <1>1, <1>4, OtherNCCloses DEF CloseInv
<1>5. CASE flavor = "pulse"
  BY <1>1, <1>5, OtherPulseCloses DEF CloseInv
<1>6. CASE flavor = "ppp"
  BY <1>1, <1>6, OtherPPPCloses DEF CloseInv
<1> QED
  BY <1>2, <1>3, <1>4, <1>5, <1>6 DEF CloseInv

LEMMA OthersCloses ==
    ASSUME CloseInv, Others, UNCHANGED link
    PROVE  CloseInv'
<1>1. OtherMoves
  BY OthersMove DEF CloseInv
<1>2. ASSUME flavor = "ppp" PROVE UNCHANGED <<channels, keys>>
  <2>1. \A c \in 1 .. MaxChannels : ~channels[c].workers
    BY <1>2 DEF CloseInv, PPPClosing, NoChannel
  <2> QED
    BY <2>1 DEF Others, Fail, ClientCloses, ChannelProceeds, WorkersReturn, ChannelActs,
           ReadProbeResponse, ReadFails, TimerEnds
<1> QED
  BY <1>1, <1>2, OtherKeepsInv

LEMMA ReturnCloses ==
    ASSUME CloseInv, NEW a \in Actors, TerminateReturns(a), UNCHANGED link
    PROVE  CloseInv'
<1>1. OtherMoves
  BY ReturnMoves DEF CloseInv
<1>2. UNCHANGED <<channels, keys>>
  BY DEF TerminateReturns
<1> QED
  BY <1>1, <1>2, OtherKeepsInv

LEMMA InitCloses ==
    ASSUME TunnelAssumption, InitAll
    PROVE  CloseInv
<1>1. /\ pc = [a \in Actors |-> "none"]
      /\ channels = [c \in 1 .. MaxChannels |-> NoChannel]
      /\ keys = "none" /\ link = NewLink
      /\ conn.st = IF flavor = "anyconnect" THEN "open" ELSE "closed"
      /\ session.term = "no" /\ ~session.closed /\ session.own = Nil /\ ~session.connected
      /\ ~session.keyed /\ ~session.ready
  BY DEF InitAll, Init
<1>2. flavor \in {"anyconnect", "gp", "nc", "pulse", "ppp"}
  BY DEF InitAll, Init, TunnelAssumption
<1>3. NoChannel \in Channel /\ NoChannel.st = "none"
  BY DEF NoChannel, Channel, Kinds, Endings
<1>4. \A c \in 1 .. MaxChannels : channels[c] = NoChannel /\ ~Running(c) /\ ~Alive(channels[c])
  BY <1>1, <1>3 DEF Running, Alive
<1>5. CloseShape
  <2>1. ClientShape(client)
    BY Zenon DEF InitAll, Init, SetCurrentSession, NewClient, ClientShape
  <2>2. /\ DOMAIN local = {"channel", "taken", "result", "next", "phase", "generation", "checking",
                          "wasEnabled", "pending"}
        /\ local.channel \in [Actors -> Nat] /\ local.taken \in Nat
        /\ DOMAIN conn = {"st", "holder", "deadline"}
    BY DEF InitAll, Init, Nil
  <2>3. DOMAIN session = {"closed", "cancelled", "ready", "term", "own", "udp", "generation", "phase",
                          "connected", "espEnabled", "espLock", "keyed", "suppressed", "events"}
    BY DEF InitAll, Init
  <2> QED
    BY <1>1, <1>3, <2>1, <2>2, <2>3 DEF CloseShape, Nil
<1>6. CloseCommon
  BY <1>1, <1>4 DEF CloseCommon, ClosedTerms, Actors
<1>7. /\ flavor = "anyconnect" => ACClosing
      /\ flavor = "gp" => GPClosing
  BY Zenon, <1>1, <1>4 DEF ACClosing, GPClosing, Actors, Opener
<1>8. /\ flavor = "nc" => NCClosing
      /\ flavor = "pulse" => PulseClosing
  BY <1>1, <1>4 DEF NCClosing, PulseClosing, Actors, Monitors
<1>9. flavor = "ppp" => PPPClosing
  <2>1. /\ NewLink.phase = "establishing" /\ NewLink.carrier = NoCarrier /\ NewLink.closing = "no"
        /\ NewLink.st[1] = "none" /\ NewLink.st[2] = "none"
    BY DEF NewLink, Carriers
  <2> QED
    BY <1>1, <1>4, <2>1 DEF PPPClosing, Actors
<1> QED
  BY <1>2, <1>5, <1>6, <1>7, <1>8, <1>9 DEF CloseInv

LEMMA NextCloses ==
    ASSUME TunnelAssumption, Inv, CloseInv, [Next]_allVars
    PROVE  CloseInv'
<1>1. CASE UNCHANGED allVars
  <2>1. /\ UNCHANGED <<flavor, client, session, conn, channels, keys, pc, local, link>>
        /\ \A c : Running(c)' <=> Running(c)
    BY <1>1 DEF allVars, vars, Running
  <2>2. CloseShape' /\ CloseCommon'
    BY <2>1 DEF CloseInv, CloseShape, CloseCommon
  <2>3. /\ flavor = "anyconnect" => ACClosing'
        /\ flavor = "gp" => GPClosing'
    BY <2>1 DEF CloseInv, ACClosing, GPClosing
  <2>4. /\ flavor = "nc" => NCClosing'
        /\ flavor = "pulse" => PulseClosing'
    BY <2>1 DEF CloseInv, NCClosing, PulseClosing
  <2>5. flavor = "ppp" => PPPClosing'
    BY <2>1 DEF CloseInv, PPPClosing
  <2> QED
    BY <2>1, <2>2, <2>3, <2>4, <2>5 DEF CloseInv
<1>2. CASE PPPNext
  <2>1. flavor = "ppp" /\ Sound(link) /\ CloseShape /\ CloseCommon /\ PPPClosing
    BY <1>2 DEF PPPNext, Inv, CloseInv
  <2>2. CloseShape' /\ CloseCommon' /\ PPPClosing'
    BY <1>2, <2>1, PPPNextCloses
  <2>3. flavor' = flavor
    BY <1>2, PPPKeepsFlavor
  <2> QED
    BY <2>1, <2>2, <2>3 DEF CloseInv
<1>3. CASE ACNext /\ UNCHANGED link
  BY <1>3, ACNextCloses DEF ACNext, CloseInv
<1>4. CASE GPNext /\ UNCHANGED link
  BY <1>4, GPNextCloses DEF GPNext, CloseInv
<1>5. CASE NCNext /\ UNCHANGED link
  BY <1>5, NCNextCloses DEF NCNext, CloseInv
<1>6. CASE PulseNext /\ UNCHANGED link
  BY <1>6, PulseNextCloses DEF PulseNext, CloseInv
<1>7. CASE (\E a \in Actors : TerminateReturns(a)) /\ UNCHANGED link
  BY <1>7, ReturnCloses
<1>8. CASE Others /\ UNCHANGED link
  BY <1>8, OthersCloses
<1> QED
  BY <1>1, <1>2, <1>3, <1>4, <1>5, <1>6, <1>7, <1>8 DEF Next, Others, SessionStep

LEMMA ClosedLeavesNothing ==
    ASSUME Inv, CloseInv
    PROVE  CloseLeavesNothing
<1> SUFFICES ASSUME pc["closer"] = "done", ~StartUnderWay
             PROVE  /\ conn.st = "closed"
                    /\ \A c \in 1 .. MaxChannels : channels[c].st \in {"none", "new", "closed"}
                    /\ keys # "live"
                    /\ client.transportSession # Self
                    /\ flavor \in {"nc", "pulse", "ppp"} \/ ~session.ready
                    /\ ~link.ready /\ \A g \in Carriers : link.st[g] # "open"
  BY DEF CloseLeavesNothing
<1>1. /\ session.term = "done" /\ session.closed /\ session.own = Nil
      /\ client.transportSession # Self
      /\ conn.st \in {"open", "closed"}
      /\ flavor # "ppp" => link = NewLink
  BY DEF CloseInv, CloseShape, CloseCommon, ClosedTerms
<1>2. (\A c \in 1 .. MaxChannels : ~Running(c)) =>
          \A c \in 1 .. MaxChannels : channels[c].st \in {"none", "new", "closed"}
  BY DEF CloseInv, CloseShape, Channel, Running
<1>3. link = NewLink => ~link.ready /\ \A g \in Carriers : link.st[g] # "open"
  BY DEF NewLink
<1>4. \A c \in 1 .. MaxChannels : c # Nil
  BY DEF Nil
<1>5. CASE flavor = "anyconnect"
  BY <1>1, <1>2, <1>3, <1>4, <1>5 DEF CloseInv, ACClosing
<1>6. CASE flavor = "gp"
  BY <1>1, <1>2, <1>3, <1>4, <1>6 DEF CloseInv, GPClosing, Opener
<1>7. CASE flavor = "nc"
  BY <1>1, <1>2, <1>3, <1>4, <1>7 DEF CloseInv, NCClosing, StartUnderWay
<1>8. CASE flavor = "pulse"
  BY <1>1, <1>2, <1>3, <1>4, <1>8 DEF CloseInv, PulseClosing, StartUnderWay
<1>9. CASE flavor = "ppp"
  <2>1. link.carrier = NoCarrier
    BY <1>1, <1>9 DEF CloseInv, PPPClosing
  <2>2. ~link.ready
    BY <2>1 DEF Inv, Sound
  <2>3. link.st[1] # "open" /\ link.st[2] # "open"
    BY <1>9, <2>1 DEF CloseInv, PPPClosing, NoCarrier
  <2>4. \A c \in 1 .. MaxChannels : channels[c].st = "none"
    BY <1>9 DEF CloseInv, PPPClosing, NoChannel
  <2> QED
    BY <1>1, <1>9, <2>2, <2>3, <2>4 DEF CloseInv, PPPClosing, Carriers
<1> QED
  BY <1>5, <1>6, <1>7, <1>8, <1>9 DEF CloseInv

\* When Close has returned, nothing the session opened is left, for any of the five
\* protocols and in whatever order terminate (closed once, by whichever goroutine is
\* first), the goroutines that open channels, and Close itself came by.
THEOREM SessionIsClosed == Spec => []CloseLeavesNothing
<1>1. InitAll => CloseInv
  BY InitCloses, TunnelAssumption
<1>2. Inv /\ CloseInv /\ [Next]_allVars => CloseInv'
  BY NextCloses, TunnelAssumption
<1>3. Inv /\ CloseInv => CloseLeavesNothing
  BY ClosedLeavesNothing
<1> QED
  BY <1>1, <1>2, <1>3, Invariant, PTL DEF Spec

----------------------------------------------------------------------------
(* The session is what the client takes it for (ClientSession).  Every step obeys *)
(* the same few rules; they and CloseInv make it one the client expects.          *)

LEMMA SessionMayCall ==
    ASSUME CloseShape, UNCHANGED client,
           session' \in {session, Called(session), Called(Counted(session)), Counted(session)}
    PROVE  SessionGoesOn /\ ClientGoesOn
<1>1. session'.cancelled = session.cancelled
  BY ZenonT(30) DEF CloseShape, Called, Counted
<1> QED
  BY <1>1, CallKeeps DEF CloseShape, SessionGoesOn, ClientGoesOn

LEMMA OneGoesOn ==
    ASSUME CloseShape, flavor \in {"anyconnect", "gp", "nc", "pulse", "ppp"},
           UNCHANGED pc \/ \E a \in Actors : GoesOn(a)
    PROVE  WorkersGoOn
<1>1. Workers \subseteq Actors /\ Leader \in Workers /\ "start" \notin Workers /\ "closer" \notin Workers
  BY DEF Workers, Leader, Actors
<1>2. CASE UNCHANGED pc
  BY <1>2 DEF WorkersGoOn
<1>3. ASSUME NEW a \in Actors, GoesOn(a) PROVE WorkersGoOn
  <2>1. \A b \in Workers : Finished(b) => pc'[b] = pc[b]
    BY <1>1, <1>3 DEF GoesOn, Finished
  <2>2. pc["reader"] = "pending" => pc'["reader"] = "pending" \/ flavor # "anyconnect"
    BY <1>3 DEF GoesOn, Workers, Actors
  <2>3. /\ pc["closer"] = "done" => pc'["closer"] = "done"
        /\ pc["closer"] # "done" /\ pc'["closer"] = "done" =>
              session.term = "done" /\ \A b \in Workers : Finished(b)
        /\ pc'["start"] = "launch" => pc["start"] = "launch"
    BY <1>3 DEF GoesOn, Actors
  <2>4. /\ pc[Leader] # "none" => pc'[Leader] # "none"
        /\ pc'[Leader] = "exited" => pc[Leader] = "exited" \/ session.term # "no" \/ session.cancelled
    BY <1>1, <1>3 DEF GoesOn
  <2> QED
    BY <2>1, <2>2, <2>3, <2>4 DEF WorkersGoOn
<1> QED
  BY <1>2, <1>3

\* AnyConnect.
LEMMA ACObeys ==
    ASSUME CloseShape, CloseCommon, ACNext
    PROVE  Obeys
<1> USE DEF ACNext
<1>1. CASE ACStart
  <2>1. SessionGoesOn /\ ClientGoesOn
    BY <1>1, SessionMayCall DEF ACStart
  <2>2. CASE session.closed
    BY <1>1, <2>1, <2>2, OneGoesOn DEF ACStart, Goto, CloseShape, GoesOn, Workers, Leader, Actors, Obeys
  <2>3. CASE ~session.closed
    <3>1. /\ pc' = [pc EXCEPT !["start"] = "launch", !["reader"] = "pending", !["timer"] = "pending",
                              !["control"] = IF session.udp THEN "pending" ELSE "none"]
          /\ pc["closer"] # "done"
      BY <1>1, <2>3 DEF ACStart, CloseCommon, ClosedTerms
    <3> QED
      BY <2>1, <3>1 DEF CloseShape, WorkersGoOn, Leader, Actors, Obeys
  <2> QED
    BY <2>2, <2>3
<1>2. CASE ACLaunch
  <2>1. SessionGoesOn /\ ClientGoesOn
    BY <1>2 DEF ACLaunch, SessionGoesOn, ClientGoesOn, Transports
  <2>2. /\ pc["start"] = "launch" /\ pc'["start"] # "launch" /\ pc'["closer"] = pc["closer"]
        /\ pc'["reader"] = "run"
    BY <1>2 DEF ACLaunch, At, CloseShape, Actors
  <2> QED
    BY <2>1, <2>2 DEF WorkersGoOn, Leader, Workers, Finished, Obeys
<1>3. CASE ACInitialResult \/ ACBecomeReady
  <2>1. SessionGoesOn /\ ClientGoesOn
    BY <1>3 DEF ACInitialResult, ACBecomeReady, CloseShape, SessionGoesOn, ClientGoesOn
  <2>2. GoesOn("start")
    BY <1>3 DEF ACInitialResult, ACBecomeReady, Goto, At, GoesOn, Leader, Workers, CloseShape, Actors
  <2> QED
    BY <2>1, <2>2, OneGoesOn DEF Obeys, Actors
<1>4. CASE ACReaderStep \/ ACTimerStep
  <2>1. PICK a \in {"reader", "timer"} : \/ ACWritePacket(a) \/ ACPacketLocks(a) \/ ACPacketWritten(a)
                                         \/ (a = "reader" /\ ACReadEnds) \/ (a = "timer" /\ ACTimerEnds)
    BY <1>4 DEF ACReaderStep, ACTimerStep
  <2>2. SessionGoesOn /\ ClientGoesOn
    BY Zenon, <2>1, SessionMayCall DEF ACWritePacket, ACPacketLocks, ACPacketWritten, ACReadEnds, ACTimerEnds, Ends, CallTerminate
  <2>3. /\ pc[a] \in {"run", "lock", "writing"}
        /\ \E label \in {"run", "lock", "writing", "terminating", "exited"} : Goto(a, label)
        /\ pc'[a] = "exited" /\ a = "reader" => session.term # "no" \/ session.cancelled
    <3>1. CASE ACWritePacket(a) \/ ACPacketWritten(a)
      BY Zenon, <3>1 DEF ACWritePacket, ACPacketWritten, Ends, Goto, At, CloseShape, Actors
    <3>2. CASE ACPacketLocks(a)
      BY <3>2 DEF ACPacketLocks, Goto, At, CloseShape, CloseCommon, ClosedTerms, Actors
    <3>3. CASE (a = "reader" /\ ACReadEnds) \/ (a = "timer" /\ ACTimerEnds)
      BY <3>3 DEF ACReadEnds, ACTimerEnds, Ends, Goto, At, CloseShape, Actors
    <3> QED
      BY <2>1, <3>1, <3>2, <3>3
  <2>4. GoesOn(a)
    BY <2>3 DEF Goto, GoesOn, Leader, Workers, CloseShape, Actors
  <2> QED
    BY <2>2, <2>4, OneGoesOn DEF Obeys, Actors
<1>5. CASE ACControlStep
  <2>1. SessionGoesOn /\ ClientGoesOn
    <3>1. CASE ACDTLSLoop \/ ACDial \/ ACDecide
      BY <3>1, SessionMayCall DEF ACDTLSLoop, ACDial, ACDecide, CallTerminate
    <3>2. CASE ACInstall \/ ACFallback
      BY <3>2 DEF ACInstall, ACFallback, SessionGoesOn, ClientGoesOn, CloseShape
    <3>3. CASE ACDTLSUp \/ ACReportCSTP
      BY <3>3 DEF ACDTLSUp, ACReportCSTP, SessionGoesOn, ClientGoesOn, Transports
    <3> QED
      BY <1>5, <3>1, <3>2, <3>3 DEF ACControlStep
  <2>2. GoesOn("control")
    BY <1>5 DEF ACControlStep, ACDTLSLoop, ACInstall, ACDial, DialEnds, ACDTLSUp, ACFallback, ACReportCSTP,
       ACDecide, CallTerminate, Goto, At, GoesOn, Leader, Workers, CloseShape, Actors
  <2> QED
    BY <2>1, <2>2, OneGoesOn DEF Obeys, Actors
<1>6. CASE ACWriteBegins \/ ACWriterStep
  <2>1. SessionGoesOn /\ ClientGoesOn
    BY Zenon, <1>6, SessionMayCall DEF ACWriteBegins, ACWriterStep, ACWriteBatch, ACWritePacketDTLS, ACWriteLocks, ACWriteCSTP, Ends
  <2>2. UNCHANGED pc \/ GoesOn("writer")
    BY ZenonT(30), <1>6 DEF ACWriteBegins, ACWriterStep, ACWriteBatch, ACWritePacketDTLS, ACWriteLocks, ACWriteCSTP, Ends,
       NextPacket, WriterReturns, Goto, At, GoesOn, Leader, Workers, CloseShape, Actors
  <2> QED
    BY <2>1, <2>2, OneGoesOn DEF Obeys, Actors
<1>7. CASE ACClose \/ ACCloserStep
  <2>1. SessionGoesOn /\ ClientGoesOn
    BY <1>7, SessionMayCall DEF ACClose, ACCloserStep, ACCloseLocks, ACDisconnect, ACJoin, CallTerminate
  <2>2. GoesOn("closer")
    BY <1>7 DEF ACClose, ACCloserStep, ACCloseLocks, ACDisconnect, ACJoin, CallTerminate,
       Goto, At, GoesOn, Leader, Workers, CloseShape, CloseCommon, Actors
  <2> QED
    BY <2>1, <2>2, OneGoesOn DEF Obeys, Actors
<1>8. CASE ACTerminateStep
  <2>1. SessionGoesOn /\ ClientGoesOn
    BY ZenonT(30), <1>8 DEF ACTerminateStep, ACTerminate, SessionGoesOn, ClientGoesOn, CloseShape, Terms
  <2> QED
    BY <1>8, <2>1, OneGoesOn DEF ACTerminateStep, Obeys
<1> QED
  BY <1>1, <1>2, <1>3, <1>4, <1>5, <1>6, <1>7, <1>8 DEF ACStartStep

\* GlobalProtect.
LEMMA GPOpenObeys ==
    ASSUME CloseShape, CloseCommon, GPClosing, flavor = "gp", NEW a \in Opener, GPOpen(a)
    PROVE  Obeys
<1>1. SessionGoesOn /\ ClientGoesOn
  <2>1. CASE GPCloseOld(a) \/ GPNoGPST(a) \/ GPDialGPST(a) \/ GPAbandon(a)
    BY <2>1, SessionMayCall DEF GPCloseOld, GPNoGPST, GPDialGPST, GPAbandon, CallTerminate
  <2>2. CASE GPJoinOld(a) \/ GPReportGPST(a)
    BY <2>2 DEF GPJoinOld, GPReportGPST, SessionGoesOn, ClientGoesOn, Transports, NoTransport
  <2>3. CASE GPClaim(a) \/ GPNewGPST(a) \/ GPGPSTUp(a)
    BY ZenonT(30), <2>3, SessionMayCall DEF GPClaim, GPNewGPST, GPGPSTUp, CallTerminate, CloseShape, SessionGoesOn, ClientGoesOn
  <2>4. CASE GPGPSTDown(a)
    BY <2>4 DEF GPGPSTDown, Called, CloseShape, SessionGoesOn, ClientGoesOn
  <2> QED
    BY <2>1, <2>2, <2>3, <2>4 DEF GPOpen
<1>2. /\ pc[a] \in {"claim", "closeOld", "joinOld", "gpst", "gpstDial", "gpstDown", "gpstUp", "abandon", "reportGPST"}
      /\ \E label \in {"closeOld", "joinOld", "check", "gpst", "gpstDial", "gpstUp", "gpstDown", "reportGPST",
                       "abandon", "terminating", "finish", "loop"} : Goto(a, label)
  BY DEF GPOpen, GPClaim, GPCloseOld, GPJoinOld, GPNoGPST, GPNewGPST, GPDialGPST, DialEnds, GPGPSTDown,
     GPGPSTUp, GPAbandon, GPReportGPST, CallTerminate, At
<1>3. a \in Actors /\ GoesOn(a)
  BY <1>2 DEF Opener, Goto, GoesOn, Leader, Workers, CloseShape, Actors
<1> QED
  BY <1>1, <1>3, OneGoesOn DEF Obeys

LEMMA GPObeys ==
    ASSUME CloseShape, CloseCommon, GPClosing, GPNext
    PROVE  Obeys
<1> USE DEF GPNext
<1>1. CASE GPFinish
  <2>1. SessionGoesOn /\ ClientGoesOn
    BY <1>1, SessionMayCall DEF GPFinish
  <2>2. CASE session.closed \/ ~session.ready
    BY <1>1, <2>1, <2>2, OneGoesOn DEF GPFinish, Goto, CloseShape, GoesOn, Workers, Leader, Actors, Obeys
  <2>3. CASE ~(session.closed \/ ~session.ready)
    <3>1. /\ pc' = [pc EXCEPT !["start"] = "running", !["control"] = "loop"]
          /\ pc["start"] = "finish"
      BY <1>1, <2>3 DEF GPFinish, At
    <3>2. /\ pc'["closer"] = pc["closer"] /\ pc'["control"] = "loop" /\ pc'["start"] # "launch"
      BY <3>1 DEF CloseShape, Actors
    <3> QED
      BY <2>1, <3>2 DEF WorkersGoOn, Leader, Obeys
  <2> QED
    BY <2>2, <2>3
<1>2. CASE \/ GPStart \/ GPFetch \/ GPCheck \/ GPNoCandidate \/ GPCandidate \/ GPDialESP \/ GPProbe
           \/ GPAwait \/ GPRejoin \/ GPPublishESP \/ GPReportESP
  <2>1. SessionGoesOn /\ ClientGoesOn
    <3>1. CASE GPStart \/ GPFetch \/ GPCheck \/ GPNoCandidate \/ GPDialESP \/ GPProbe \/ GPAwait \/ GPRejoin
      BY <3>1, SessionMayCall DEF GPStart, GPFetch, GPCheck, GPNoCandidate, GPDialESP, GPProbe, GPAwait,
         GPRejoin, CallTerminate
    <3>2. CASE GPCandidate \/ GPPublishESP
      BY ZenonT(30), <3>2 DEF GPCandidate, GPPublishESP, CloseShape, SessionGoesOn, ClientGoesOn
    <3>3. CASE GPReportESP
      BY <3>3 DEF GPReportESP, SessionGoesOn, ClientGoesOn, Transports
    <3> QED
      BY <1>2, <3>1, <3>2, <3>3
  <2>2. \E label : Goto("start", label) /\ label # "launch"
    <3>1. CASE GPStart \/ GPFetch \/ GPCheck \/ GPNoCandidate \/ GPCandidate
      BY <3>1 DEF GPStart, GPFetch, GPCheck, GPNoCandidate, GPCandidate, CallTerminate
    <3>2. CASE GPDialESP \/ GPProbe \/ GPAwait
      BY <3>2 DEF GPDialESP, DialEnds, GPProbe, GPAwait, CallTerminate
    <3>3. CASE GPRejoin \/ GPPublishESP \/ GPReportESP
      BY <3>3 DEF GPRejoin, GPPublishESP, GPReportESP
    <3> QED
      BY <1>2, <3>1, <3>2, <3>3
  <2>3. GoesOn("start")
    BY <2>2 DEF Goto, GoesOn, Leader, Workers, CloseShape, Actors
  <2> QED
    BY <2>1, <2>3, OneGoesOn DEF Obeys, Actors
<1>3. CASE GPLoop \/ GPTransportDone \/ GPCancelled \/ GPCheckAgain \/ GPRekey \/ GPPeriodicCheck
  <2>1. SessionGoesOn /\ ClientGoesOn
    BY <1>3, SessionMayCall DEF GPLoop, GPTransportDone, GPCancelled, GPCheckAgain, GPRekey, GPPeriodicCheck,
       CallTerminate, Ends
  <2>2. /\ pc["control"] \in {"loop", "select", "check"}
        /\ \E label \in {"loop", "select", "check", "claim", "terminating", "exited"} :
              Goto("control", label) /\ (label = "exited" => session.cancelled)
    BY <1>3 DEF GPLoop, GPTransportDone, GPCancelled, GPCheckAgain, GPRekey, GPPeriodicCheck, CallTerminate, Ends, At
  <2>3. GoesOn("control")
    BY <2>2 DEF Goto, GoesOn, Leader, Workers, CloseShape, Actors
  <2> QED
    BY <2>1, <2>3, OneGoesOn DEF Obeys, Actors
<1>4. CASE GPWriterStep
  <2>1. SessionGoesOn /\ ClientGoesOn
    BY <1>4, SessionMayCall DEF GPWriterStep, GPWriteBegins, GPWritePacket
  <2>2. UNCHANGED pc \/ \E label : Goto("writer", label)
    BY <1>4 DEF GPWriterStep, GPWriteBegins, GPWritePacket, WriteToChannel, NextPacket, WriterReturns
  <2>3. UNCHANGED pc \/ GoesOn("writer")
    BY <2>2 DEF Goto, GoesOn, Leader, Workers, CloseShape, Actors
  <2> QED
    BY <2>1, <2>3, OneGoesOn DEF Obeys, Actors
<1>5. CASE GPClose \/ GPJoin
  <2>1. SessionGoesOn /\ ClientGoesOn
    BY <1>5, SessionMayCall DEF GPClose, GPJoin, CallTerminate
  <2>2. GoesOn("closer")
    BY <1>5 DEF GPClose, GPJoin, CallTerminate, Goto, At, GoesOn, Leader, Workers, CloseShape, CloseCommon, Actors
  <2> QED
    BY <2>1, <2>2, OneGoesOn DEF Obeys, Actors
<1>6. CASE GPTerminateStep
  <2>1. SessionGoesOn /\ ClientGoesOn
    BY ZenonT(30), <1>6 DEF GPTerminateStep, GPTerminate, SessionGoesOn, ClientGoesOn, CloseShape, Terms
  <2> QED
    BY <1>6, <2>1, OneGoesOn DEF GPTerminateStep, Obeys
<1>7. CASE \E a \in Opener : GPOpen(a)
  BY <1>7, GPOpenObeys
<1> QED
  BY <1>1, <1>2, <1>3, <1>4, <1>5, <1>6, <1>7 DEF GPStartStep, GPControlStep, GPTimers, Opener

\* Network Connect.
LEMMA NCStartObeys ==
    ASSUME CloseShape, CloseCommon, NCClosing, flavor = "nc", NCStart \/ NCStartStep
    PROVE  Obeys
<1>1. CASE NCReport
  <2>1. SessionGoesOn /\ ClientGoesOn
    BY <1>1 DEF NCReport, SessionGoesOn, ClientGoesOn, Transports
  <2>2. pc'["closer"] = pc["closer"] /\ pc'["reader"] = "read" /\ pc'["start"] # "launch"
    BY <1>1 DEF NCReport, CloseShape, Actors
  <2> QED
    BY <2>1, <2>2 DEF WorkersGoOn, Leader, Obeys
<1>2. CASE \/ NCStart \/ NCDial \/ NCRequest \/ NCConfigure \/ NCInstall
           \/ \E from \in {"request", "configure"} : NCSetupFails(from)
  <2>1. SessionGoesOn /\ ClientGoesOn
    <3>1. CASE NCInstall
      BY Zenon, <3>1 DEF NCInstall, CloseShape, SessionGoesOn, ClientGoesOn
    <3>2. CASE ~NCInstall
      BY <1>2, <3>2, SessionMayCall DEF NCStart, NCDial, NCRequest, NCConfigure, NCSetupFails, CallTerminate
    <3> QED
      BY <3>1, <3>2
  <2>2. \E label : Goto("start", label) /\ label # "launch"
    BY <1>2 DEF NCStart, NCDial, NCRequest, NCConfigure, NCInstall, NCSetupFails, CallTerminate
  <2>3. GoesOn("start")
    BY <2>2 DEF Goto, GoesOn, Leader, Workers, CloseShape, Actors
  <2> QED
    BY <2>1, <2>3, OneGoesOn DEF Obeys, Actors
<1> QED
  BY <1>1, <1>2 DEF NCStartStep

LEMMA NCReaderObeys ==
    ASSUME CloseShape, CloseCommon, NCClosing, flavor = "nc", NCReaderStep
    PROVE  Obeys
<1>1. SessionGoesOn /\ ClientGoesOn
  <2>1. CASE \/ NCReadEnds \/ NCReadRekey \/ NCInstallKeys \/ NCReadDisable
             \/ NCLock("reader", "respond", "responding")
    BY <2>1, SessionMayCall DEF NCReadEnds, NCReadRekey, NCInstallKeys, NCReadDisable, NCLock, Ends
  <2>2. CASE NCRekey
    BY ZenonT(30), <2>2 DEF NCRekey, LockESP, CallTerminate, Called, CloseShape, SessionGoesOn, ClientGoesOn, Transports
  <2>3. CASE NCCloseESP \/ NCDisable \/ NCDisabled
    BY ZenonT(30), <2>3 DEF NCCloseESP, NCDisable, NCDisabled, UnlockESP, CloseShape, SessionGoesOn, ClientGoesOn, Transports
  <2>4. CASE NCRespond
    BY ZenonT(30), <2>4 DEF NCRespond, UnlockESP, Called, Counted, CloseShape, SessionGoesOn, ClientGoesOn, Transports
  <2> QED
    BY <2>1, <2>2, <2>3, <2>4 DEF NCReaderStep
<1>2. /\ pc["reader"] \in {"read", "rekey", "install", "respond", "responding", "disable", "disabled", "close"}
      /\ UNCHANGED pc \/ \E label \in {"read", "rekey", "install", "respond", "responding", "disable", "disabled",
                                       "close", "terminating", "exited"} :
            Goto("reader", label) /\ (label = "exited" => session.cancelled)
  <2>1. CASE NCReadEnds \/ NCReadRekey \/ NCRekey \/ NCInstallKeys \/ NCCloseESP
    BY <2>1 DEF NCReadEnds, NCReadRekey, NCRekey, NCInstallKeys, NCCloseESP, CallTerminate, Ends, At
  <2>2. CASE NCRespond \/ NCLock("reader", "respond", "responding") \/ NCReadDisable \/ NCDisable \/ NCDisabled
    BY Zenon, <2>2 DEF NCRespond, NCLock, NCReadDisable, NCDisable, NCDisabled, At
  <2> QED
    BY <2>1, <2>2 DEF NCReaderStep
<1>3. UNCHANGED pc \/ GoesOn("reader")
  BY <1>2 DEF Goto, GoesOn, Leader, Workers, CloseShape, Actors
<1> QED
  BY <1>1, <1>3, OneGoesOn DEF Obeys, Actors

LEMMA NCControlObeys ==
    ASSUME CloseShape, CloseCommon, NCClosing, flavor = "nc", NCControlStep \/ NCTimers
    PROVE  Obeys
<1>1. SessionGoesOn /\ ClientGoesOn
  <2>1. CASE \/ NCNewESP \/ NCDialESP \/ NCFirstProbe \/ NCCancelled \/ NCEstablished \/ NCProbed \/ NCTimers
             \/ NCLock("control", "enableLock", "enabling") \/ NCLock("control", "disableLock", "disabling")
    BY <2>1, SessionMayCall
    DEF NCNewESP, NCDialESP, NCFirstProbe, NCCancelled, NCEstablished, NCProbed, NCTimers, NCProbe,
        NCPeriodicCheckFails, NCLock, CallTerminate, Ends
  <2>2. CASE NCNoESP \/ NCStartFailed \/ NCInstallESP
    BY <2>2 DEF NCNoESP, NCStartFailed, NCInstallESP, CloseShape, SessionGoesOn, ClientGoesOn
  <2>3. CASE NCEnable
    BY <2>3 DEF NCEnable, LockESP, CallTerminate, Called, CloseShape, SessionGoesOn, ClientGoesOn
  <2>6. CASE NCFallback
    BY <2>6 DEF NCFallback, LockESP, CloseShape, SessionGoesOn, ClientGoesOn
  <2>4. CASE NCEnabled \/ NCFallenBack
    BY ZenonT(30), <2>4 DEF NCEnabled, NCFallenBack, UnlockESP, Called, Counted, CloseShape, SessionGoesOn, ClientGoesOn,
       Transports
  <2>5. CASE NCRelease \/ NCReportONCP
    BY Zenon, <2>5 DEF NCRelease, NCReportONCP, UnlockESP, CloseShape, SessionGoesOn, ClientGoesOn, Transports
  <2> QED
    BY <2>1, <2>2, <2>3, <2>4, <2>5, <2>6 DEF NCControlStep, NCSelected
<1>2. /\ pc["control"] \in {"esp", "dial", "probe", "failed", "install", "select", "up", "enable", "enableLock",
                            "enabling", "disableLock", "disabling", "release", "reportONCP", "closeESP"}
      /\ \E label : Goto("control", label)
  <2>1. CASE NCNoESP \/ NCNewESP \/ NCDialESP \/ NCFirstProbe \/ NCStartFailed \/ NCInstallESP
    BY <2>1 DEF NCNoESP, NCNewESP, NCDialESP, DialEnds, NCFirstProbe, ProbeEnds, NCStartFailed, NCInstallESP, At
  <2>2. CASE NCCancelled \/ NCEstablished \/ NCFallback \/ NCEnable \/ NCEnabled \/ NCFallenBack
    BY Zenon, <2>2 DEF NCCancelled, NCEstablished, NCFallback, NCEnable, NCEnabled, NCFallenBack, Selecting,
       CallTerminate, At
  <2>3. CASE \/ NCRelease \/ NCReportONCP \/ NCProbed \/ NCTimers
             \/ NCLock("control", "enableLock", "enabling") \/ NCLock("control", "disableLock", "disabling")
    BY <2>3 DEF NCRelease, NCReportONCP, NCProbed, NCTimers, NCProbe, ProbeEnds, NCPeriodicCheckFails, NCLock,
       Selecting, Ends, At
  <2> QED
    BY <2>1, <2>2, <2>3 DEF NCControlStep, NCSelected
<1>3. GoesOn("control")
  BY <1>2 DEF Goto, GoesOn, Leader, Workers, CloseShape, Actors
<1> QED
  BY <1>1, <1>3, OneGoesOn DEF Obeys, Actors

LEMMA NCObeys ==
    ASSUME CloseShape, CloseCommon, NCClosing, NCNext
    PROVE  Obeys
<1> USE DEF NCNext
<1>1. CASE NCStart \/ NCStartStep \/ NCReaderStep \/ NCControlStep \/ NCTimers
  BY <1>1, NCStartObeys, NCReaderObeys, NCControlObeys
<1>2. CASE NCWriteBegins \/ NCWriterStep
  <2>1. SessionGoesOn /\ ClientGoesOn
    BY Zenon, <1>2, SessionMayCall DEF NCWriteBegins, NCWriterStep, NCWriteESP, NCLock, NCWriteONCP, Ends
  <2>2. UNCHANGED pc \/ \E label : Goto("writer", label)
    BY Zenon, <1>2 DEF NCWriteBegins, NCWriterStep, NCWriteESP, NCLock, NCWriteONCP, Ends, WriteToChannel, NextPacket,
       WriterReturns
  <2>3. UNCHANGED pc \/ GoesOn("writer")
    BY <2>2 DEF Goto, GoesOn, Leader, Workers, CloseShape, Actors
  <2> QED
    BY <2>1, <2>3, OneGoesOn DEF Obeys, Actors
<1>3. CASE NCClose \/ NCCloserStep
  <2>1. SessionGoesOn /\ ClientGoesOn
    <3>1. CASE NCClose \/ NCJoin \/ NCLock("closer", "lock", "writing")
      BY <3>1, SessionMayCall DEF NCClose, NCJoin, NCLock, CallTerminate
    <3>2. CASE NCGoodbye \/ NCSaidGoodbye
      BY ZenonT(30), <3>2 DEF NCGoodbye, NCSaidGoodbye, LockESP, UnlockESP, Called, CloseShape, SessionGoesOn, ClientGoesOn
    <3> QED
      BY <1>3, <3>1, <3>2 DEF NCCloserStep
  <2>2. GoesOn("closer")
    BY <1>3 DEF NCClose, NCCloserStep, NCJoin, NCLock, NCGoodbye, NCSaidGoodbye, CallTerminate, Goto, At, GoesOn,
       Leader, Workers, CloseShape, CloseCommon, Actors
  <2> QED
    BY <2>1, <2>2, OneGoesOn DEF Obeys, Actors
<1>4. CASE NCTerminateStep
  <2>1. SessionGoesOn /\ ClientGoesOn
    BY ZenonT(30), <1>4 DEF NCTerminateStep, NCTerminate, SessionGoesOn, ClientGoesOn, CloseShape, Terms
  <2> QED
    BY <1>4, <2>1, OneGoesOn DEF NCTerminateStep, Obeys
<1> QED
  BY <1>1, <1>2, <1>3, <1>4

\* Pulse, whose monitors come and go.
LEMMA PulseStartObeys ==
    ASSUME CloseShape, CloseCommon, PulseClosing, flavor = "pulse", PulseStart \/ PulseStartStep,
           pc["start"] = "launch" => pc["reader"] # "none"
    PROVE  Obeys
<1>1. CASE PulseReport
  <2>1. SessionGoesOn /\ ClientGoesOn
    BY <1>1 DEF PulseReport, SessionGoesOn, ClientGoesOn, Transports
  <2>2. pc'["closer"] = pc["closer"] /\ pc'["reader"] = "read"
    BY <1>1 DEF PulseReport, CloseShape, Actors
  <2> QED
    BY <2>1, <2>2 DEF WorkersGoOn, Leader, Obeys
<1>2. CASE PulseLaunch
  <2>1. SessionGoesOn /\ ClientGoesOn
    BY <1>2, SessionMayCall DEF PulseLaunch
  <2>2. /\ pc["start"] = "launch" /\ pc'["start"] = "running"
        /\ pc'["closer"] = pc["closer"] /\ pc'["reader"] = pc["reader"]
    BY <1>2, LaunchedMoves DEF PulseLaunch, At
  <2> QED
    BY <2>1, <2>2 DEF WorkersGoOn, Leader, Obeys
<1>3. CASE PulseStart \/ PulseReconnect \/ PulseConfigure \/ PulseInstall
  <2>1. SessionGoesOn /\ ClientGoesOn
    <3>1. CASE PulseInstall
      BY Zenon, <3>1 DEF PulseInstall, CloseShape, SessionGoesOn, ClientGoesOn
    <3>2. CASE ~PulseInstall
      BY <1>3, <3>2, SessionMayCall DEF PulseStart, PulseReconnect, PulseConfigure, CallTerminate
    <3> QED
      BY <3>1, <3>2
  <2>2. \E label : Goto("start", label) /\ label # "launch"
    BY <1>3 DEF PulseStart, PulseReconnect, PulseConfigure, PulseInstall, CallTerminate
  <2>3. GoesOn("start")
    BY <2>2 DEF Goto, GoesOn, Leader, Workers, CloseShape, Actors
  <2> QED
    BY <2>1, <2>3, OneGoesOn DEF Obeys, Actors
<1> QED
  BY <1>1, <1>2, <1>3 DEF PulseStartStep

LEMMA PulseReaderObeys ==
    ASSUME CloseShape, CloseCommon, PulseClosing, flavor = "pulse", PulseReaderStep
    PROVE  Obeys
<1>1. SessionGoesOn /\ ClientGoesOn
  <2>1. CASE \/ PulseReadEnds \/ PulseLock("reader", "respond", "responding") \/ PulseRespond \/ PulseCloseESP
             \/ PulseReadLicense
    BY Zenon, <2>1, SessionMayCall DEF PulseReadEnds, PulseLock, PulseRespond, PulseCloseESP, PulseReadLicense, Ends
  <2>2. CASE PulseReadRekey
    BY Zenon, <2>2 DEF PulseReadRekey, Counted, CloseShape, SessionGoesOn, ClientGoesOn
  <2>3. CASE PulseSuppress \/ PulseSuppressed
    BY ZenonT(30), <2>3 DEF PulseSuppress, PulseSuppressed, CloseShape, SessionGoesOn, ClientGoesOn, Transports
  <2> QED
    BY <2>1, <2>2, <2>3 DEF PulseReaderStep
<1>2. pc["reader"] \in {"read", "respond", "responding", "suppress", "suppressed", "closeESP"}
  BY Zenon DEF PulseReaderStep, PulseReadEnds, PulseReadRekey, PulseLock, PulseRespond, PulseSuppress, PulseSuppressed,
     PulseCloseESP, PulseReadLicense, Received, At
<1>3. CASE PulseLaunched("reader", "read")
  <2>1. pc'["reader"] = "read" /\ pc'["closer"] = pc["closer"]
    BY <1>3, LaunchedMoves
  <2> QED
    BY <1>1, <2>1 DEF WorkersGoOn, Leader, Obeys
<1>4. CASE \E label \in {"read", "respond", "responding", "suppress", "suppressed", "closeESP", "terminating",
                         "exited"} :
               Goto("reader", label) /\ (label = "exited" => session.closed \/ session.cancelled)
  <2>1. session.closed => session.term # "no"
    BY DEF CloseCommon, ClosedTerms
  <2>2. GoesOn("reader")
    BY <1>2, <1>4, <2>1 DEF Goto, GoesOn, Leader, Workers, CloseShape, Actors
  <2> QED
    BY <1>1, <2>2, OneGoesOn DEF Obeys, Actors
<1>5. CASE PulseRespond \/ PulseReadLicense
  BY Zenon, <1>3, <1>4, <1>5 DEF PulseRespond, PulseReadLicense, ProbeEnds
<1>6. CASE \/ PulseReadEnds \/ PulseReadRekey \/ PulseLock("reader", "respond", "responding")
           \/ PulseSuppress \/ PulseSuppressed \/ PulseCloseESP
  BY <1>4, <1>6 DEF PulseReadEnds, PulseReadRekey, PulseLock, PulseSuppress, PulseSuppressed, PulseCloseESP, Ends
<1> QED
  BY <1>5, <1>6 DEF PulseReaderStep

LEMMA PulseMonitorObeys ==
    ASSUME CloseShape, CloseCommon, PulseClosing, flavor = "pulse", NEW m \in Monitors,
           PulseMonitorStep(m) \/ PulseProbeTimer(m) \/ PulseRetryTimer(m)
    PROVE  Obeys
<1>1. SessionGoesOn /\ ClientGoesOn
  <2>1. CASE \/ PulseDialESP(m) \/ PulseProbe(m) \/ PulseAwait(m) \/ PulseMonitor(m) \/ PulseRejoin(m)
             \/ PulseRetry(m) \/ PulseProbeTimer(m) \/ PulseRetryTimer(m)
    BY <2>1, SessionMayCall
    DEF PulseDialESP, PulseProbe, PulseAwait, PulseMonitor, PulseRejoin, PulseRetry, PulseProbeTimer,
        PulseRetryTimer, MonitorReturns
  <2>2. CASE PulseStartESP(m) \/ PulseFinish(m)
    BY ZenonT(30), <2>2 DEF PulseStartESP, PulseFinish, MonitorReturns, CloseShape, SessionGoesOn, ClientGoesOn
  <2>3. CASE PulseEstablished(m) \/ PulseFallback(m)
    BY <2>3 DEF PulseEstablished, PulseFallback, MonitorReturns, SessionGoesOn, ClientGoesOn, Transports
  <2> QED
    BY <2>1, <2>2, <2>3 DEF PulseMonitorStep
<1>2. /\ pc[m] \in {"launched", "dial", "probe", "await", "established", "monitor", "finish", "fallback", "rejoin",
                   "retry"}
      /\ \E label : Goto(m, label)
  <2>1. CASE PulseStartESP(m) \/ PulseDialESP(m) \/ PulseProbe(m) \/ PulseAwait(m) \/ PulseProbeTimer(m)
    BY <2>1 DEF PulseStartESP, PulseDialESP, DialEnds, PulseProbe, ProbeEnds, PulseAwait, PulseProbeTimer,
       MonitorReturns, MonitorEnds, At
  <2>2. CASE \/ PulseEstablished(m) \/ PulseMonitor(m) \/ PulseFinish(m) \/ PulseFallback(m) \/ PulseRejoin(m)
             \/ PulseRetry(m) \/ PulseRetryTimer(m)
    BY <2>2 DEF PulseEstablished, PulseMonitor, PulseFinish, PulseFallback, PulseRejoin, PulseRetry,
       PulseRetryTimer, MonitorReturns, MonitorEnds, At
  <2> QED
    BY <2>1, <2>2 DEF PulseMonitorStep
<1>3. m \in Actors /\ GoesOn(m)
  BY <1>2 DEF Monitors, Goto, GoesOn, Leader, Workers, CloseShape, Actors
<1> QED
  BY <1>1, <1>3, OneGoesOn DEF Obeys

LEMMA PulseObeys ==
    ASSUME CloseShape, CloseCommon, PulseClosing, PulseNext,
           pc["start"] = "launch" => pc["reader"] # "none"
    PROVE  Obeys
<1> USE DEF PulseNext
<1>1. CASE PulseStart \/ PulseStartStep \/ PulseReaderStep
  BY <1>1, PulseStartObeys, PulseReaderObeys
<1>2. CASE (\E m \in Monitors : PulseMonitorStep(m)) \/ PulseTimers
  BY <1>2, PulseMonitorObeys DEF PulseTimers
<1>3. CASE PulseWriteBegins \/ PulseWriterStep
  <2>1. SessionGoesOn /\ ClientGoesOn
    <3>1. CASE PulseWriteESP
      BY <3>1 DEF PulseWriteESP, SessionGoesOn, ClientGoesOn, Transports
    <3>2. CASE ~PulseWriteESP
      BY Zenon, <1>3, <3>2, SessionMayCall DEF PulseWriteBegins, PulseWriterStep, PulseWritePacket, PulseLock, PulseFlush, Ends
    <3> QED
      BY <3>1, <3>2
  <2>2. UNCHANGED pc \/ \E label : Goto("writer", label)
    BY Zenon, <1>3 DEF PulseWriteBegins, PulseWriterStep, PulseWritePacket, PulseWriteESP, PulseLock, PulseFlush, Ends,
       WriterReturns
  <2>3. UNCHANGED pc \/ GoesOn("writer")
    BY <2>2 DEF Goto, GoesOn, Leader, Workers, CloseShape, Actors
  <2> QED
    BY <2>1, <2>3, OneGoesOn DEF Obeys, Actors
<1>4. CASE PulseClose \/ PulseCloserStep
  <2>1. SessionGoesOn /\ ClientGoesOn
    BY Zenon, <1>4, SessionMayCall DEF PulseClose, PulseCloserStep, PulseLock, PulseBye, PulseJoin, CallTerminate
  <2>2. GoesOn("closer")
    BY ZenonT(30), <1>4 DEF PulseClose, PulseCloserStep, PulseLock, PulseBye, PulseJoin, CallTerminate, Goto, At, GoesOn, Leader,
       Workers, Monitors, CloseShape, CloseCommon, Actors
  <2> QED
    BY <2>1, <2>2, OneGoesOn DEF Obeys, Actors
<1>5. CASE PulseTerminateStep
  <2>1. SessionGoesOn /\ ClientGoesOn
    BY ZenonT(30), <1>5 DEF PulseTerminateStep, PulseTerminate, SessionGoesOn, ClientGoesOn, CloseShape, Terms
  <2> QED
    BY <1>5, <2>1, OneGoesOn DEF PulseTerminateStep, Obeys
<1> QED
  BY <1>1, <1>2, <1>3, <1>4, <1>5

\* A PPP session; the link's goroutines are the link's own affair.
LEMMA PPPStartObeys ==
    ASSUME CloseShape, CloseCommon, flavor = "ppp", PPPStart \/ PPPStartStep \/ PPPCarrierError
    PROVE  Obeys
<1>1. SessionGoesOn /\ ClientGoesOn
  <2>1. CASE PPPStart \/ PPPPrepare \/ PPPStartLink \/ PPPFirstRequest \/ PPPStartWaits \/ PPPCarrierError
    BY Zenon, <2>1, SessionMayCall
    DEF PPPStart, PPPPrepare, PPPStartLink, PPPFirstRequest, PPPLocks, PPPWriteEnds, PPPStartWaits,
        PPPCarrierError, CallTerminate
  <2>2. CASE PPPInstall \/ PPPPublish
    BY <2>2 DEF PPPInstall, PPPPublish, CloseShape, SessionGoesOn, ClientGoesOn
  <2>3. CASE PPPReport
    BY <2>3 DEF PPPReport, SessionGoesOn, ClientGoesOn, Transports
  <2> QED
    BY <2>1, <2>2, <2>3 DEF PPPStartStep
<1>2. CASE PPPReport
  <2>1. pc'["closer"] = pc["closer"] /\ pc'["control"] = "select" /\ pc'["start"] # "launch"
    BY <1>2 DEF PPPReport, CloseShape, Actors
  <2> QED
    BY <1>1, <2>1 DEF WorkersGoOn, Leader, Obeys
<1>3. CASE PPPStartLink /\ link.phase \notin {"closed", "terminating"}
  <2>1. pc'["closer"] = pc["closer"] /\ pc'["control"] = pc["control"] /\ pc'["start"] # "launch"
    BY <1>3 DEF PPPStartLink, CloseShape, Actors
  <2> QED
    BY <1>1, <2>1 DEF WorkersGoOn, Leader, Workers, Obeys
<1>4. CASE ~PPPReport /\ (PPPStartLink => link.phase \in {"closed", "terminating"})
  <2>1. \E label : Goto("start", label) /\ label # "launch"
    <3>1. CASE PPPStart \/ PPPInstall
      BY <3>1 DEF PPPStart, PPPInstall, CallTerminate
    <3>4. CASE PPPPrepare
      <4>1. Goto("start", "install") \/ Goto("start", "terminating")
        BY Zenon, <3>4 DEF PPPPrepare, CallTerminate
      <4> QED
        BY <4>1
    <3>3. CASE PPPStartLink
      <4>1. link.phase \in {"closed", "terminating"}
        BY <1>4, <3>3
      <4> QED
        BY <3>3, <4>1 DEF PPPStartLink, CallTerminate
    <3>2. CASE PPPFirstRequest \/ PPPStartWaits \/ PPPPublish \/ PPPCarrierError
      BY <3>2 DEF PPPFirstRequest, PPPLocks, PPPStartWaits, PPPPublish, PPPCarrierError, CallTerminate
    <3> QED
      BY <1>4, <3>1, <3>2, <3>3, <3>4 DEF PPPStartStep
  <2>2. GoesOn("start")
    BY <2>1 DEF Goto, GoesOn, Leader, Workers, CloseShape, Actors
  <2> QED
    BY <1>1, <2>2, OneGoesOn DEF Obeys, Actors
<1> QED
  BY <1>2, <1>3, <1>4

LEMMA PPPControlObeys ==
    ASSUME CloseShape, CloseCommon, flavor = "ppp", PPPControlStep \/ PPPRetryDTLS
    PROVE  Obeys
<1>1. SessionGoesOn /\ ClientGoesOn
  <2>1. CASE \/ PPPCancelled \/ PPPLinkDone \/ PPPRetryDTLS \/ PPPSwitch \/ PPPCloseOld \/ PPPSwitchRequest
             \/ PPPSwitchWaits \/ PPPSwitchTimeout
    BY <2>1, SessionMayCall
    DEF PPPCancelled, PPPLinkDone, PPPRetryDTLS, PPPSwitch, PPPCloseOld, PPPSwitchRequest, PPPLocks,
        PPPWriteEnds, PPPSwitchWaits, PPPSwitchTimeout, CallTerminate, Ends
  <2>2. CASE PPPWithdraw
    BY <2>2 DEF PPPWithdraw, CallTerminate, Called, CloseShape, SessionGoesOn, ClientGoesOn, Transports, NoTransport
  <2>3. CASE PPPSwitched
    BY <2>3 DEF PPPSwitched, SessionGoesOn, ClientGoesOn, Transports
  <2> QED
    BY <2>1, <2>2, <2>3 DEF PPPControlStep
<1>2. /\ pc["control"] \in {"select", "switch", "closeOld", "lock", "writing", "await", "withdraw", "switched"}
      /\ \E label \in {"select", "switch", "closeOld", "lock", "writing", "await", "withdraw", "switched",
                       "terminating", "exited"} :
            Goto("control", label) /\ (label = "exited" => session.cancelled)
  <2>1. CASE PPPCancelled \/ PPPLinkDone \/ PPPRetryDTLS \/ PPPSwitch \/ PPPCloseOld
    BY <2>1 DEF PPPCancelled, PPPLinkDone, PPPRetryDTLS, PPPSwitch, PPPCloseOld, CallTerminate, Ends, At
  <2>2. CASE PPPSwitchRequest \/ PPPSwitchWaits \/ PPPSwitchTimeout \/ PPPWithdraw \/ PPPSwitched
    BY <2>2 DEF PPPSwitchRequest, PPPLocks, PPPSwitchWaits, PPPSwitchTimeout, PPPWithdraw, PPPSwitched,
       CallTerminate, At
  <2> QED
    BY <2>1, <2>2 DEF PPPControlStep
<1>3. GoesOn("control")
  BY <1>2 DEF Goto, GoesOn, Leader, Workers, CloseShape, Actors
<1> QED
  BY <1>1, <1>3, OneGoesOn DEF Obeys, Actors

LEMMA PPPObeys ==
    ASSUME CloseShape, CloseCommon, PPPNext
    PROVE  Obeys
<1> USE DEF PPPNext
<1>1. CASE PPPStart \/ PPPStartStep \/ PPPCarrierError \/ PPPControlStep \/ PPPRetryDTLS
  BY <1>1, PPPStartObeys, PPPControlObeys
<1>2. CASE \E g \in Carriers : PPPFrame(g) \/ PPPFrameEvent(g) \/ PPPReaderStep(g)
  <2>1. UNCHANGED <<client, pc>> /\ session' \in {session, Counted(session)}
    BY Zenon, <1>2 DEF PPPFrame, PPPFrameEvent, PPPReaderStep, PPPReadEnds, PPPReaderLocks, PPPReaderWritten, PPPConclude,
       PPPWriteEnds, vars
  <2> QED
    BY <2>1, SessionMayCall, OneGoesOn DEF Obeys
<1>3. CASE PPPTick \/ PPPTimerStep
  <2>1. UNCHANGED client /\ session' \in {session, Counted(session)}
    BY <1>3 DEF PPPTick, PPPTimerStep, PPPTimerStops, PPPHandleTimer, PPPTimerWrites, PPPLocks, PPPWriteEnds
  <2>2. \E label : Goto("timer", label)
    BY <1>3 DEF PPPTick, PPPTimerStep, PPPTimerStops, PPPHandleTimer, PPPTimerWrites, PPPLocks
  <2>3. GoesOn("timer")
    BY <2>2 DEF Goto, GoesOn, Leader, Workers, CloseShape, Actors
  <2> QED
    BY <2>1, <2>3, SessionMayCall, OneGoesOn DEF Obeys, Actors
<1>4. CASE PPPWriteBegins \/ PPPWriterStep
  <2>1. UNCHANGED client /\ session' \in {session, Counted(session)}
    BY <1>4 DEF PPPWriteBegins, PPPWriterStep, PPPWriterLocks, PPPWriterWritten, PPPWriteEnds
  <2>2. \E label : Goto("writer", label)
    BY <1>4 DEF PPPWriteBegins, PPPWriterStep, PPPWriterLocks, PPPWriterWritten, WriterReturns
  <2>3. GoesOn("writer")
    BY <2>2 DEF Goto, GoesOn, Leader, Workers, CloseShape, Actors
  <2> QED
    BY <2>1, <2>3, SessionMayCall, OneGoesOn DEF Obeys, Actors
<1>5. CASE PPPClose \/ PPPJoin
  <2>1. SessionGoesOn /\ ClientGoesOn
    BY <1>5, SessionMayCall DEF PPPClose, PPPJoin, CallTerminate
  <2>2. GoesOn("closer")
    BY <1>5 DEF PPPClose, PPPJoin, CallTerminate, Goto, At, GoesOn, Leader, Workers, CloseShape, CloseCommon, Actors
  <2> QED
    BY <2>1, <2>2, OneGoesOn DEF Obeys, Actors
<1>6. CASE PPPTerminateStep
  <2>1. UNCHANGED pc
    BY <1>6 DEF PPPTerminateStep, PPPCloseBegins, PPPCloseTries, PPPCloseLocks, PPPCloseWritten, PPPCloseAwaits,
       PPPCloseJoins, vars
  <2>2. SessionGoesOn /\ ClientGoesOn
    <3>1. CASE PPPTerminate
      BY ZenonT(30), <3>1 DEF PPPTerminate, PPPTerminated, SessionGoesOn, ClientGoesOn, CloseShape, Terms
    <3>2. CASE PPPCloseJoins
      BY <3>2 DEF PPPCloseJoins, PPPTerminated, Closing, SessionGoesOn, ClientGoesOn, CloseShape, Terms
    <3>3. CASE PPPCloseBegins \/ PPPCloseTries \/ PPPCloseLocks \/ PPPCloseWritten \/ PPPCloseAwaits
      BY <3>3, SessionMayCall DEF PPPCloseBegins, PPPCloseTries, PPPCloseLocks, PPPCloseWritten, PPPCloseAwaits, vars
    <3> QED
      BY <1>6, <3>1, <3>2, <3>3 DEF PPPTerminateStep
  <2> QED
    BY <2>1, <2>2, OneGoesOn DEF Obeys
<1> QED
  BY <1>1, <1>2, <1>3, <1>4, <1>5, <1>6

\* What happens to a session of any protocol.
LEMMA ReturnObeys ==
    ASSUME CloseShape, flavor \in {"anyconnect", "gp", "nc", "pulse", "ppp"},
           NEW a \in Actors, TerminateReturns(a)
    PROVE  Obeys
<1>1. SessionGoesOn /\ ClientGoesOn
  BY SessionMayCall DEF TerminateReturns
<1>2. /\ pc[a] = "terminating" /\ session.term = "done"
      /\ \E label \in {"failed", "join", "done", "exited"} :
            Goto(a, label) /\ (label = "done" => a = "writer")
  BY DEF TerminateReturns, At, Actors
<1>3. GoesOn(a)
  BY <1>2 DEF Goto, GoesOn, Leader, Workers, CloseShape, Actors
<1> QED
  BY <1>1, <1>3, OneGoesOn DEF Obeys

LEMMA OthersObey ==
    ASSUME CloseShape, flavor \in {"anyconnect", "gp", "nc", "pulse", "ppp"}, Others
    PROVE  Obeys
<1>1. UNCHANGED pc
  BY DEF Others, Fail, ClientCloses, ChannelProceeds, ChannelActs, WorkersReturn, ReadProbeResponse, ReadFails,
     TimerEnds
<1>2. SessionGoesOn /\ ClientGoesOn
  <2>1. CASE Fail \/ ChannelProceeds \/ ChannelActs
    BY <2>1, SessionMayCall DEF Fail, ChannelProceeds, ChannelActs, WorkersReturn, ReadProbeResponse, ReadFails,
       TimerEnds
  <2>2. CASE ClientCloses
    <3>1. session'.term = session.term
      BY <2>2 DEF ClientCloses, Counted, CloseShape
    <3>2. client'.transportSession # Self
      BY <2>2 DEF ClientCloses, MarkClosed, CloseShape, ClientShape, NoSession, Self
    <3> QED
      BY <2>2, <3>1, <3>2 DEF ClientCloses, SessionGoesOn, ClientGoesOn
  <2> QED
    BY <2>1, <2>2 DEF Others
<1> QED
  BY <1>1, <1>2, OneGoesOn DEF Obeys

\* What the session does to the client's transport.
LEMMA ClientKeepsOn ==
    ASSUME CloseShape, ClientGoesOn
    PROVE  /\ client.transportSession # Self => client'.transportSession # Self
           /\ \/ /\ client'.transportSession = client.transportSession
                 /\ client'.activeTransport = client.activeTransport
              \/ /\ client.transportSession = Self /\ client'.transportSession = Self
                 /\ client'.activeTransport \in Transports
              \/ client'.transportSession # Self /\ client'.activeTransport = NoTransport
<1>1. CASE UNCHANGED client
  BY <1>1
<1>2. CASE \E t \in Transports : Report(t)
  BY <1>2 DEF Report, SetActiveTransport, CloseShape, ClientShape
<1>3. CASE client' = StopActiveTransport(client, Self)
  BY <1>3 DEF StopActiveTransport, CloseShape, ClientShape, NoSession, Self
<1>4. CASE client' = MarkClosed(client)
  BY <1>4 DEF MarkClosed, CloseShape, ClientShape, NoSession, Self
<1> QED
  BY <1>1, <1>2, <1>3, <1>4 DEF ClientGoesOn

LEMMA ContractKept ==
    ASSUME CloseInv, CloseInv', ContractInv, Obeys, flavor' = flavor
    PROVE  ContractInv'
<1>1. /\ CloseShape /\ flavor \in {"anyconnect", "gp", "nc", "pulse", "ppp"}
      /\ Workers' = Workers /\ Leader' = Leader
  BY DEF CloseInv, Workers, Leader
<1>2. client.transportSession # Self => client'.transportSession # Self
  BY <1>1, ClientKeepsOn DEF Obeys
<1>3. session'.term \in Terms /\ (session.term # "no" => session'.term # "no")
  BY DEF ContractInv, Obeys, SessionGoesOn, Terms
<1>4. /\ session'.cancelled => session'.term # "no" \/ client'.transportSession # Self
      /\ pc'[Leader] = "exited" => session'.term # "no" \/ client'.transportSession # Self
  BY <1>2, <1>3 DEF ContractInv, Obeys, SessionGoesOn, WorkersGoOn
<1>5. pc'[Leader] = "none" => \A a \in Workers : pc'[a] \in {"none", "exited"}
  BY DEF ContractInv, Obeys, WorkersGoOn, Finished
<1>6. pc'["closer"] = "done" => \A a \in Workers : pc'[a] \in {"none", "exited"}
  <2>1. CASE flavor = "anyconnect"
    <3>1. CASE pc["closer"] = "done"
      BY <2>1, <3>1 DEF ContractInv, Obeys, WorkersGoOn, Finished
    <3>2. CASE pc["closer"] # "done"
      BY <2>1, <3>2 DEF Obeys, WorkersGoOn, Finished
    <3> QED
      BY <3>1, <3>2
  <2>2. CASE flavor \in {"gp", "ppp"}
    BY <2>2 DEF CloseInv, GPClosing, PPPClosing, Workers
  <2>3. CASE flavor \in {"nc", "pulse"}
    BY <2>3 DEF CloseInv, NCClosing, PulseClosing, Monitors, Workers
  <2> QED
    BY <1>1, <2>1, <2>2, <2>3
<1>7. /\ flavor = "anyconnect" /\ pc'["start"] = "launch" => pc'["reader"] = "pending"
      /\ flavor = "pulse" /\ pc'["start"] = "launch" => pc'["reader"] # "none"
  BY DEF ContractInv, Obeys, WorkersGoOn, Leader
<1> QED
  BY <1>1, <1>3, <1>4, <1>5, <1>6, <1>7 DEF ContractInv, Finished

\* A step that obeys is one the client expects.
LEMMA ObeyingIsExpected ==
    ASSUME CloseInv, CloseInv', ContractInv, ContractInv', Obeys, flavor' = flavor
    PROVE  Contract!Next
<1> DEFINE working == \E a \in Workers : ~Finished(a)
           working1 == \E a \in Workers : pc'[a] \notin {"none", "exited"}
<1>1. /\ CloseShape /\ CloseCommon /\ CloseCommon' /\ Workers' = Workers /\ Leader' = Leader /\ Leader \in Workers
  BY DEF CloseInv, Workers, Leader
<1>2. working' <=> working1
  BY <1>1 DEF Finished
<1>3. Contract!Ends
  <2>1. /\ session'.term = "done" => client'.transportSession # Self
        /\ \/ session'.term = session.term
           \/ session.term = "no" /\ session'.term = "called"
           \/ session.term \notin {"no", "done"} /\ session'.term \in Terms \ {"no"}
    BY <1>1 DEF CloseCommon, Obeys, SessionGoesOn
  <2> QED
    BY <2>1 DEF Contract!Ends, Life
<1>4. Contract!Reports
  <2>1. client.transportSession = Self => Life # "over"
    BY <1>1 DEF CloseCommon, Life
  <2> QED
    BY <1>1, <2>1, ClientKeepsOn DEF Contract!Reports, Contract!Transports, Contract!NoTransport, Obeys, Transports, NoTransport
<1>5. Contract!Works
  <2>1. pc["closer"] = "done" => ~working1
    BY <1>1 DEF ContractInv, Obeys, WorkersGoOn, Finished
  <2>2. working /\ ~working1 => Life # "open" \/ client.transportSession # Self
    <3>1. SUFFICES ASSUME working, ~working1 PROVE session.term # "no" \/ client.transportSession # Self
      BY DEF Life
    <3>2. pc[Leader] # "none" /\ pc'[Leader] \in {"none", "exited"}
      BY <1>1, <3>1 DEF ContractInv
    <3> QED
      BY <3>2 DEF ContractInv, Obeys, WorkersGoOn
  <2> QED
    BY <1>2, <2>1, <2>2 DEF Contract!Works
<1>6. Contract!Closes
  <2>1. /\ pc["closer"] = "done" => pc'["closer"] = "done"
        /\ pc["closer"] # "done" /\ pc'["closer"] = "done" => session.term = "done" /\ ~working /\ ~working1
    BY DEF Obeys, WorkersGoOn, Finished
  <2> QED
    BY <1>2, <2>1 DEF Contract!Closes, Life
<1> QED
  BY <1>3, <1>4, <1>5, <1>6 DEF Contract!Next

LEMMA NextIsExpected ==
    ASSUME TunnelAssumption, Inv, CloseInv, CloseInv', ContractInv, [Next]_allVars
    PROVE  ContractInv' /\ [Contract!Next]_(Contract!sessionVars)
<1>1. /\ CloseShape /\ CloseCommon /\ flavor \in {"anyconnect", "gp", "nc", "pulse", "ppp"}
      /\ flavor = "anyconnect" => ACClosing
      /\ flavor = "gp" => GPClosing
      /\ flavor = "nc" => NCClosing
      /\ flavor = "pulse" => PulseClosing
  BY DEF CloseInv
<1>2. ASSUME Obeys, flavor' = flavor PROVE ContractInv' /\ [Contract!Next]_(Contract!sessionVars)
  BY <1>2, ContractKept, ObeyingIsExpected
<1>3. CASE UNCHANGED allVars
  <2>1. UNCHANGED <<flavor, client, session, pc>>
    BY <1>3 DEF allVars, vars
  <2> QED
    BY <1>1, <1>2, <2>1, SessionMayCall, OneGoesOn DEF Obeys
<1>4. CASE PPPNext
  BY <1>1, <1>2, <1>4, PPPObeys, PPPKeepsFlavor
<1>5. CASE ACNext /\ UNCHANGED link
  <2>1. flavor = "anyconnect"
    BY <1>5 DEF ACNext
  <2> QED
    BY <1>1, <1>2, <1>5, <2>1, ACObeys, ACNextCloses
<1>6. CASE GPNext /\ UNCHANGED link
  <2>1. flavor = "gp"
    BY <1>6 DEF GPNext
  <2> QED
    BY <1>1, <1>2, <1>6, <2>1, GPObeys, GPNextCloses
<1>7. CASE NCNext /\ UNCHANGED link
  <2>1. flavor = "nc"
    BY <1>7 DEF NCNext
  <2> QED
    BY <1>1, <1>2, <1>7, <2>1, NCObeys, NCNextCloses
<1>8. CASE PulseNext /\ UNCHANGED link
  <2>1. flavor = "pulse" /\ (pc["start"] = "launch" => pc["reader"] # "none")
    BY <1>8 DEF PulseNext, ContractInv
  <2> QED
    BY <1>1, <1>2, <1>8, <2>1, PulseObeys, PulseNextCloses
<1>9. CASE \E a \in Actors : TerminateReturns(a)
  BY <1>1, <1>2, <1>9, ReturnObeys DEF TerminateReturns
<1>10. CASE Others
  <2>1. flavor' = flavor
    BY <1>10 DEF Others, Fail, ClientCloses, ChannelProceeds, ChannelActs, WorkersReturn, ReadProbeResponse,
       ReadFails, TimerEnds
  <2> QED
    BY <1>1, <1>2, <1>10, <2>1, OthersObey
<1> QED
  BY <1>3, <1>4, <1>5, <1>6, <1>7, <1>8, <1>9, <1>10 DEF Next, Others, SessionStep

LEMMA InitIsExpected ==
    ASSUME TunnelAssumption, InitAll
    PROVE  ContractInv /\ Contract!Init
<1>1. /\ session.term = "no" /\ ~session.cancelled
      /\ pc = [a \in Actors |-> "none"]
      /\ client = SetCurrentSession(NewClient, Self)
  BY DEF InitAll, Init
<1>2. Workers \subseteq Actors /\ Leader \in Actors
  BY DEF Workers, Leader, Actors
<1>3. \A a \in Actors : Finished(a) /\ pc[a] = "none"
  BY <1>1 DEF Finished
<1>4. client.transportSession = Self /\ client.activeTransport = NoTransport
  BY <1>1 DEF SetCurrentSession, NewClient
<1> QED
  BY <1>1, <1>2, <1>3, <1>4 DEF ContractInv, Terms, Actors, Contract!Init, Contract!NoTransport, NoTransport, Life

\* Every session is one the supervisor can rely on: however the goroutines of the five
\* protocols interleave with Close, Fail and the end of the client, Done is closed once
\* and after the transport was given up, no transport is shown after that, and Close
\* returns only after Done and the last worker (the interface clientSession).
THEOREM TunnelIsClientSession == Spec => IsClientSession
<1>1. InitAll => CloseInv
  BY InitCloses, TunnelAssumption
<1>2. Inv /\ CloseInv /\ [Next]_allVars => CloseInv'
  BY NextCloses, TunnelAssumption
<1>3. InitAll => ContractInv /\ Contract!Init
  BY InitIsExpected, TunnelAssumption
<1>4. Inv /\ CloseInv /\ CloseInv' /\ ContractInv /\ [Next]_allVars =>
          ContractInv' /\ [Contract!Next]_(Contract!sessionVars)
  BY NextIsExpected, TunnelAssumption
<1> QED
  BY <1>1, <1>2, <1>3, <1>4, Invariant, PTL DEF Spec, IsClientSession, Contract!Spec
===============================================================================
