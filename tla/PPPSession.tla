----------------------------- MODULE PPPSession -----------------------------
(********************************************************************************)
(* A Fortinet or F5 session (ppp_session.go) and the goroutines of its link     *)
(* (ppp_link.go): Start connects a carrier and negotiates PPP over it;          *)
(* controlLoop ("control") watches the link and moves it from TLS to DTLS once  *)
(* DTLS works; the link has a readLoop for each carrier (link.readers) and one  *)
(* timerLoop ("timer").  Everyone writes under writeAccess (link.holder), to a  *)
(* connection that may be stuck.  Whoever runs terminate also runs the link's   *)
(* Close ("close").                                                             *)
(********************************************************************************)
EXTENDS TunnelSession, PPPLink

CONSTANT MaxTries       \* Terminate-Requests sent over a datagram carrier

VARIABLE link

allVars == <<vars, link>>

\* The link has its type.
LinkTypeOK == link \in Link

ReaderName(g) == IF g = 1 THEN "reader1" ELSE "reader2"
LinkUnlocked == link.holder = Nobody
Locked(l, a) == [l EXCEPT !.holder = a]
Released(l) == [l EXCEPT !.holder = Nobody]

\* writeOutboundsLocked by a, to carrier g, ends: it succeeds, or it fails because
\* the connection ended, a deadline passed or the peer is gone.  For a carrier
\* that is no longer current neither matters.
WriteResults(g) == IF g = link.carrier THEN {"ok", "failed"} ELSE {"stale"}

PPPWriteEnds(a, g, result) ==
    /\ link.holder = a
    /\ result \in WriteResults(g)
    /\ result = "ok" => link.st[g] = "open"
    /\ result = "failed" => Interruptible(link, g) \/ Event
    /\ session' = IF result = "failed" /\ ~Interruptible(link, g) THEN Counted(session) ELSE session

AfterWrite(g, result) ==
    Released(IF result = "failed" THEN [link EXCEPT !.failed = @ \cup {g}] ELSE link)

\* a takes writeAccess; a packet for a carrier that is no longer current is not
\* written.
PPPLocks(a, g, writing, stale) ==
    /\ LinkUnlocked
    /\ IF g = link.carrier THEN link' = Locked(link, a) /\ Goto(a, writing)
       ELSE UNCHANGED link /\ Goto(a, stale)
    /\ UNCHANGED <<flavor, client, session, conn, channels, keys, local, wire>>

----------------------------------------------------------------------------
(* Start. *)

\* attachSession, preparePPP with connectInitialPPPCarrier, newPPPLink.
PPPStart ==
    /\ At("start", "none")
    /\ IF session.closed THEN Goto("start", "failed") /\ UNCHANGED session
       ELSE (Goto("start", "prepare") /\ UNCHANGED session) \/ CallTerminate("start")
    /\ UNCHANGED <<flavor, client, conn, channels, keys, local, wire, link>>

PPPPrepare ==
    /\ At("start", "prepare")
    /\ \/ /\ \E dtls \in {session.udp, FALSE}, a \in {0, 1} : \E locked \in {FALSE, a # 0} :
                link' = LinkOver(dtls, a, locked)
          /\ Goto("start", "install")
          /\ UNCHANGED session
       \/ CallTerminate("start") /\ UNCHANGED link
    /\ UNCHANGED <<flavor, client, conn, channels, keys, local, wire>>

\* s.link; the link of a session that ended meanwhile is closed again.
PPPInstall ==
    /\ At("start", "install")
    /\ IF session.closed
       THEN /\ link' = LinkClosed(link)
            /\ Goto("start", "failed")
            /\ UNCHANGED session
       ELSE /\ session' = [session EXCEPT !.connected = TRUE]
            /\ Goto("start", "startLink")
            /\ UNCHANGED link
    /\ UNCHANGED <<flavor, client, conn, channels, keys, local, wire>>

PPPStartLink ==
    /\ At("start", "startLink")
    /\ IF link.phase \in {"closed", "terminating"}
       THEN CallTerminate("start") /\ UNCHANGED link
       ELSE /\ link' = Started(link)
            /\ pc' = [pc EXCEPT !["start"] = "lock", !["timer"] = "tick"]
            /\ UNCHANGED session
    /\ UNCHANGED <<flavor, client, conn, channels, keys, local, wire>>

PPPFirstRequest ==
    \/ At("start", "lock") /\ PPPLocks("start", 1, "writing", "await")
    \/ /\ At("start", "writing")
       /\ \E result \in WriteResults(1) :
            /\ PPPWriteEnds("start", 1, result)
            /\ link' = IF result = "failed"
                       THEN CarrierTerminated(AfterWrite(1, result), 1, {"establishing"})
                       ELSE AfterWrite(1, result)
            /\ Goto("start", "await")
       /\ UNCHANGED <<flavor, client, conn, channels, keys, local, wire>>

\* waitUntilReady.  A Fortinet carrier may turn out to be an HTTP error.
PPPStartWaits ==
    /\ At("start", "await")
    /\ \/ link.announced /\ Goto("start", "publish") /\ UNCHANGED session
       \/ link.phase = "closed" /\ CallTerminate("start")
    /\ UNCHANGED <<flavor, client, conn, channels, keys, local, wire, link>>

PPPCarrierError ==
    /\ At("start", "await")
    /\ Event
    /\ session' = Called(Counted(session))
    /\ link' = CarrierTerminated(link, 1, {"establishing"})
    /\ Goto("start", "terminating")
    /\ UNCHANGED <<flavor, client, conn, channels, keys, local, wire>>

PPPPublish ==
    /\ At("start", "publish")
    /\ session' = [session EXCEPT !.ready = TRUE]
    /\ Goto("start", "report")
    /\ UNCHANGED <<flavor, client, conn, channels, keys, local, wire, link>>

PPPReport ==
    /\ At("start", "report")
    /\ Report(IF link.dtls THEN "datagram" ELSE "stream")
    /\ pc' = [pc EXCEPT !["start"] = "running", !["control"] = "select"]
    /\ UNCHANGED <<flavor, session, conn, channels, keys, local, wire, link>>

----------------------------------------------------------------------------
(* controlLoop. *)

PPPCancelled ==
    /\ At("control", "select")
    /\ session.cancelled
    /\ Goto("control", "exited")
    /\ UNCHANGED <<flavor, client, session, conn, channels, keys, local, wire, link>>

PPPLinkDone ==
    /\ At("control", "select")
    /\ link.phase = "closed"
    /\ CallTerminate("control")
    /\ UNCHANGED <<flavor, client, conn, channels, keys, local, wire, link>>

\* The retry timer: connectPPPDTLS works, fails for now, or ends the session (the
\* server no longer knows the session, or the source address has changed).
PPPRetryDTLS ==
    /\ At("control", "select")
    /\ session.udp /\ ~link.dtls /\ link.st[2] = "none"
    /\ \/ /\ link' = [link EXCEPT !.st[2] = "open"]
          /\ Goto("control", "switch")
          /\ UNCHANGED session
       \/ Ends("control", ~session.cancelled) /\ UNCHANGED link
    /\ UNCHANGED <<flavor, client, conn, channels, keys, local, wire>>

\* SwitchCarrier, from its checks to the new carrier; one it refuses is closed.
PPPSwitch ==
    /\ At("control", "switch")
    /\ IF link.phase = "network"
       THEN /\ link' = Switched(link)
            /\ Goto("control", "closeOld")
       ELSE /\ Goto("control", "withdraw")
            /\ UNCHANGED link
    /\ UNCHANGED <<flavor, client, session, conn, channels, keys, local, wire>>

PPPCloseOld ==
    /\ At("control", "closeOld")
    /\ link' = [link EXCEPT !.st[1] = "closed", !.readers[2] = "read"]
    /\ Goto("control", "lock")
    /\ UNCHANGED <<flavor, client, session, conn, channels, keys, local, wire>>

PPPSwitchRequest ==
    \/ At("control", "lock") /\ PPPLocks("control", 2, "writing", "await")
    \/ /\ At("control", "writing")
       /\ \E result \in WriteResults(2) :
            /\ PPPWriteEnds("control", 2, result)
            /\ link' = IF result = "failed"
                       THEN CarrierTerminated(AfterWrite(2, result), 2, {"establishing"})
                       ELSE AfterWrite(2, result)
            /\ Goto("control", "await")
       /\ UNCHANGED <<flavor, client, conn, channels, keys, local, wire>>

PPPSwitchWaits ==
    /\ At("control", "await")
    /\ \/ link.announced /\ Goto("control", "switched")
       \/ link.phase = "closed" /\ Goto("control", "withdraw")
    /\ UNCHANGED <<flavor, client, session, conn, channels, keys, local, wire, link>>

\* The negotiation over the new carrier takes too long.
PPPSwitchTimeout ==
    /\ At("control", "await")
    /\ EndsLink(link, 2, {"establishing"})
    /\ link' = LinkClosed(link)
    /\ Goto("control", "withdraw")
    /\ UNCHANGED <<flavor, client, session, conn, channels, keys, local, wire>>

\* The carrier that failed is closed, and the session starts over without DTLS.
PPPWithdraw ==
    /\ At("control", "withdraw")
    /\ Report("none")
    /\ link' = IF link.st[2] = "open" THEN [link EXCEPT !.st[2] = "closed"] ELSE link
    /\ CallTerminate("control")
    /\ UNCHANGED <<flavor, conn, channels, keys, local, wire>>

PPPSwitched ==
    /\ At("control", "switched")
    /\ Report("datagram")
    /\ Goto("control", "select")
    /\ UNCHANGED <<flavor, session, conn, channels, keys, local, wire, link>>

----------------------------------------------------------------------------
(* readLoop of carrier g. *)

ReaderAt(g, label) == link.readers[g] = label
ReaderGoes(l, g, label) == [l EXCEPT !.readers[g] = label]

\* The first half of handleFrame handles a frame only for the current carrier.
FrameIsFor(g) == link.phase # "closed" /\ link.carrier = g

\* advanceNegotiation after what the peer said, and the packets that calls for; or
\* an error, which ends the link.
Handled(g, l, answer) ==
    link' = IF AdvanceFails(l) THEN ReaderGoes(CarrierTerminated(l, g, Live), g, "exited")
            ELSE ReaderGoes(Advanced(l), g, IF answer \/ Due(l) # {} THEN "lock" ELSE "conclude")

\* What the peer says in the course of a negotiation: LCP first and IPCP next, for
\* every protocol its agreement and then its own request.
Expected(p) ==
    /\ p # "lcp" => Done(link, "lcp")
    /\ p = "ip6cp" /\ "ipcp" \in link.want => Done(link, "ipcp")

PPPFrame(g) ==
    /\ ReaderAt(g, "read")
    /\ link.st[g] = "open"
    /\ FrameIsFor(g)
    /\ \/ \E p \in {"lcp"} \cup link.want :
             /\ Expected(p)
             /\ \/ p \notin link.acked /\ Handled(g, PeerAcknowledges(link, g, p), FALSE)
                \/ /\ p \in link.acked \ link.peerAcked
                   /\ Handled(g, PeerRequests(link, g, p), TRUE)
       \/ /\ link.phase = "terminating" /\ ~link.termAcked
          /\ link' = [link EXCEPT !.termAcked = TRUE]
    /\ UNCHANGED vars

\* What it may say as well, at any time: the same too early or again, a Nak or a
\* rejection, an echo, or a request the client rejects; a Terminate-Request, which
\* is answered before the link ends; anything the client cannot accept.
PPPFrameEvent(g) ==
    /\ ReaderAt(g, "read")
    /\ link.st[g] = "open"
    /\ Event
    /\ FrameIsFor(g)
    /\ \/ \E p \in {"lcp"} \cup link.want :
             \/ Handled(g, PeerAcknowledges(link, g, p), FALSE)
             \/ Handled(g, PeerRequests(link, g, p), TRUE)
       \/ link' = ReaderGoes([link EXCEPT !.acked = @ \ {"lcp"}], g, "lock")
       \/ \E n \in link.want, a \in Addresses :
             MayAssign(link, n, a) /\ link' = ReaderGoes(Assigned(link, n, a), g, "lock")
       \/ \E n \in link.want :
             link.want # {n} /\ Handled(g, [link EXCEPT !.want = @ \ {n}], FALSE)
       \/ link' = ReaderGoes(link, g, "lock")
       \/ link' = [ReaderGoes(link, g, "lock") EXCEPT !.phase = "terminating", !.ending[g] = TRUE]
       \/ link' = ReaderGoes(CarrierTerminated(link, g, Live), g, "exited")
    /\ session' = Counted(session)
    /\ UNCHANGED <<flavor, client, conn, channels, keys, pc, local, wire>>

\* The connection is at its end.  For a carrier that is no longer current, or of
\* a link that is, that means nothing.
PPPReadEnds(g) ==
    /\ ReaderAt(g, "read")
    /\ link.st[g] = "open" => Event
    /\ session' = IF link.st[g] = "open" THEN Counted(session) ELSE session
    /\ link' = ReaderGoes(CarrierTerminated(link, g, Live), g, "exited")
    /\ UNCHANGED <<flavor, client, conn, channels, keys, pc, local, wire>>

PPPReaderLocks(g) ==
    /\ ReaderAt(g, "lock")
    /\ LinkUnlocked
    /\ link' = IF g = link.carrier THEN ReaderGoes(Locked(link, ReaderName(g)), g, "writing")
               ELSE ReaderGoes(link, g, "exited")
    /\ UNCHANGED vars

\* Also the end of a link whose peer has terminated it.
ReaderPhases(g) == Live \cup IF link.ending[g] THEN {"terminating"} ELSE {}

PPPReaderWritten(g) ==
    /\ ReaderAt(g, "writing")
    /\ \E result \in WriteResults(g) :
         /\ PPPWriteEnds(ReaderName(g), g, result)
         /\ link' = IF result = "ok" THEN ReaderGoes(AfterWrite(g, result), g, "conclude")
                    ELSE ReaderGoes(CarrierTerminated(AfterWrite(g, result), g, ReaderPhases(g)),
                                    g, "exited")
    /\ UNCHANGED <<flavor, client, conn, channels, keys, pc, local, wire>>

PPPConclude(g) ==
    /\ ReaderAt(g, "conclude")
    /\ LET l == IF FrameIsFor(g) THEN Conclude(link) ELSE link IN
         link' = IF link.ending[g]
                 THEN ReaderGoes(CarrierTerminated(l, g, Live \cup {"terminating"}), g, "exited")
                 ELSE ReaderGoes(l, g, "read")
    /\ UNCHANGED vars

----------------------------------------------------------------------------
(* timerLoop. *)

PPPTimerStops ==
    /\ At("timer", "tick")
    /\ link.phase = "closed"
    /\ Goto("timer", "exited")
    /\ UNCHANGED <<flavor, client, session, conn, channels, keys, local, wire, link>>

\* The generation is read before the state it is about.
PPPTick ==
    /\ At("timer", "tick")
    /\ link.phase \in Live
    /\ Event
    /\ session' = Counted(session)
    /\ Holding("timer", link.carrier)
    /\ Goto("timer", "handle")
    /\ UNCHANGED <<flavor, client, conn, channels, keys, wire, link>>

\* A request or an echo that is due, or the end of the peer's time: for an answer
\* to a request, or (link.phase = "network") to the echoes.
PPPHandleTimer ==
    /\ At("timer", "handle")
    /\ \/ /\ link.phase \in Live
          /\ Goto("timer", "lock")
          /\ Holding("timer", link.carrier)
          /\ UNCHANGED link
       \/ /\ link' = IF link.phase = "network" \/ ({"lcp"} \cup (link.sent \cap link.want)) \ link.acked # {}
                     THEN CarrierTerminated(link, local.channel["timer"], Live)
                     ELSE link
          /\ Goto("timer", "tick")
          /\ Holding("timer", Nil)
    /\ UNCHANGED <<flavor, client, session, conn, channels, keys, wire>>

PPPTimerWrites ==
    LET g == local.channel["timer"] IN
    \/ At("timer", "lock") /\ PPPLocks("timer", g, "writing", "tick")
    \/ /\ At("timer", "writing")
       /\ \E result \in WriteResults(g) :
            /\ PPPWriteEnds("timer", g, result)
            /\ link' = IF result = "failed" THEN CarrierTerminated(AfterWrite(g, result), g, Live)
                       ELSE AfterWrite(g, result)
       /\ Holding("timer", Nil)
       /\ Goto("timer", "tick")
       /\ UNCHANGED <<flavor, client, conn, channels, keys, wire>>

----------------------------------------------------------------------------
(* WriteDataPacketBuffers. *)

PPPWriteBegins ==
    /\ At("writer", "none")
    /\ session.connected /\ ~session.closed
    /\ link.ready /\ link.phase = "network"
    /\ Holding("writer", link.carrier)
    /\ Goto("writer", "lock")
    /\ UNCHANGED <<flavor, client, session, conn, channels, keys, wire, link>>

PPPWriterLocks ==
    /\ At("writer", "lock")
    /\ LinkUnlocked
    /\ IF link.carrier = local.channel["writer"]
       THEN /\ link' = [Locked(link, "writer") EXCEPT !.carried = TRUE]
            /\ Goto("writer", "writing")
            /\ UNCHANGED local
       ELSE WriterReturns /\ UNCHANGED link
    /\ UNCHANGED <<flavor, client, session, conn, channels, keys, wire>>

PPPWriterWritten ==
    LET g == local.channel["writer"] IN
    /\ At("writer", "writing")
    /\ \E result \in WriteResults(g) :
         /\ PPPWriteEnds("writer", g, result)
         /\ \E n \in IF result = "ok" THEN {BatchSize} ELSE 0 .. BatchSize :
              /\ Sent(1 .. n)
              /\ link' = IF result = "failed"
                         THEN CarrierTerminated(AfterWrite(g, result), g, {"network"})
                         ELSE AfterWrite(g, result)
    /\ WriterReturns
    /\ UNCHANGED <<flavor, client, conn, channels, keys>>

----------------------------------------------------------------------------
(* Close and terminate. *)

PPPClose ==
    /\ At("closer", "none")
    /\ CallTerminate("closer")
    /\ UNCHANGED <<flavor, client, conn, channels, keys, local, wire, link>>

\* The waitGroup counts Start and controlLoop.
PPPJoin ==
    /\ At("closer", "join")
    /\ pc["start"] \in {"none", "failed", "running"}
    /\ Finished("control")
    /\ Goto("closer", "done")
    /\ UNCHANGED <<flavor, client, session, conn, channels, keys, local, wire, link>>

\* The context is cancelled last, when the link is gone.
PPPTerminated(s) == [s EXCEPT !.term = "done", !.cancelled = TRUE]

PPPTerminate ==
    \/ /\ session.term = "called"
       /\ session' = [session EXCEPT !.term = "taken", !.ready = FALSE, !.closed = TRUE]
       /\ UNCHANGED <<client, link>>
    \/ /\ session.term = "taken"
       /\ client' = StopActiveTransport(client, Self)
       /\ session' = IF session.connected THEN [session EXCEPT !.term = "closing"]
                     ELSE PPPTerminated(session)
       /\ UNCHANGED link

----------------------------------------------------------------------------
(* The link's Close, by whoever runs terminate. *)

Closing(label) == session.term = "closing" /\ link.closing = label

\* The end of Close's attempts: terminate, then the wait for the goroutines.
Ended(l) ==
    [LinkClosed(l) EXCEPT !.closing = "join", !.captured = NoCarrier,
                          !.deadline = NoCarrier, !.tries = 0]

\* The phase keeps others from beginning anything; a frame that is just being
\* handled, or a repeated one, may still take it back (Conclude).
PPPCloseBegins ==
    /\ Closing("no")
    /\ link' = IF link.phase = "closed" THEN [link EXCEPT !.closing = "join"]
               ELSE [link EXCEPT !.closing = "try", !.phase = "terminating", !.ready = FALSE,
                                 !.captured = link.carrier]
    /\ UNCHANGED vars

\* Terminate-Request.  A write that is under way gets a deadline, which fails on a
\* connection that is closed already.
PPPCloseTries ==
    /\ Closing("try")
    /\ link' = IF link.phase = "closed" THEN Ended(link)
               ELSE IF LinkUnlocked
               THEN [Locked(link, "close") EXCEPT !.closing = "write", !.deadline = link.captured]
               ELSE IF link.st[link.captured] = "closed" THEN Ended(link)
               ELSE [link EXCEPT !.closing = "lock", !.deadline = link.captured]
    /\ UNCHANGED vars

\* The write that was interrupted failed: the carrier is of no use any more.
PPPCloseLocks ==
    /\ Closing("lock")
    /\ LinkUnlocked
    /\ link' = IF link.captured \in link.failed
               THEN Ended([link EXCEPT !.st[link.captured] = "closed"])
               ELSE [Locked(link, "close") EXCEPT !.closing = "write"]
    /\ UNCHANGED vars

\* The deadline ends this write too.
PPPCloseWritten ==
    /\ Closing("write")
    /\ \/ link' = Ended(Released(link))
       \/ /\ link.captured = link.carrier
          /\ link' = [Released(link) EXCEPT !.closing = "await", !.tries = @ + 1]
    /\ UNCHANGED vars

\* A second for the answer; over datagrams the request is repeated.
PPPCloseAwaits ==
    LET last == link.tries = MaxTries \/ ~Datagram(link, link.captured) IN
    /\ Closing("await")
    /\ \/ /\ link.termAcked \/ link.phase = "closed" \/ last
          /\ link' = Ended(link)
       \/ /\ ~last
          /\ link' = [link EXCEPT !.closing = "try"]
    /\ UNCHANGED vars

PPPCloseJoins ==
    /\ Closing("join")
    /\ Finished("timer") /\ \A g \in Carriers : link.readers[g] \in {"none", "exited"}
    /\ session' = PPPTerminated(session)
    /\ UNCHANGED <<flavor, client, conn, channels, keys, pc, local, wire, link>>

PPPTerminateStep ==
    \/ PPPTerminate /\ UNCHANGED <<flavor, conn, channels, keys, pc, local, wire>>
    \/ PPPCloseBegins \/ PPPCloseTries \/ PPPCloseLocks \/ PPPCloseWritten
    \/ PPPCloseAwaits \/ PPPCloseJoins

----------------------------------------------------------------------------
PPPStartStep ==
    \/ PPPPrepare \/ PPPInstall \/ PPPStartLink \/ PPPFirstRequest \/ PPPStartWaits
    \/ PPPPublish \/ PPPReport
PPPControlStep ==
    \/ PPPCancelled \/ PPPLinkDone \/ PPPSwitch \/ PPPCloseOld \/ PPPSwitchRequest
    \/ PPPSwitchWaits \/ PPPSwitchTimeout \/ PPPWithdraw \/ PPPSwitched
PPPReaderStep(g) ==
    \/ PPPReadEnds(g) \/ PPPReaderLocks(g) \/ PPPReaderWritten(g) \/ PPPConclude(g)
PPPTimerStep == PPPTimerStops \/ PPPHandleTimer \/ PPPTimerWrites
PPPWriterStep == PPPWriterLocks \/ PPPWriterWritten

PPPNext ==
    /\ flavor = "ppp"
    /\ \/ PPPStart \/ PPPStartStep \/ PPPCarrierError
       \/ PPPControlStep \/ PPPRetryDTLS
       \/ \E g \in Carriers : PPPFrame(g) \/ PPPFrameEvent(g) \/ PPPReaderStep(g)
       \/ PPPTick \/ PPPTimerStep
       \/ PPPWriteBegins \/ PPPWriterStep \/ PPPClose \/ PPPJoin \/ PPPTerminateStep

\* What goes on by itself: a write once it is interrupted, a readLoop once its
\* connection is closed.
PPPUnblocked(a, g) == link.holder = a => Moving(link, g)
PPPStarts == flavor = "ppp" /\ PPPUnblocked("start", 1) /\ PPPStartStep
PPPControls == flavor = "ppp" /\ PPPUnblocked("control", 2) /\ PPPControlStep
PPPReads(g) ==
    /\ flavor = "ppp" /\ PPPUnblocked(ReaderName(g), g)
    /\ ReaderAt(g, "read") => link.st[g] = "closed"
    /\ PPPReaderStep(g)
PPPTimes ==
    /\ flavor = "ppp"
    /\ PPPUnblocked("timer", local.channel["timer"])
    /\ PPPTimerStep
PPPWrites ==
    /\ flavor = "ppp"
    /\ PPPUnblocked("writer", local.channel["writer"])
    /\ PPPWriterStep
PPPCloses == flavor = "ppp" /\ PPPJoin
PPPTerminates == flavor = "ppp" /\ PPPTerminateStep
\* The mutex does not starve Close.
PPPUnstarved == flavor = "ppp" /\ (PPPCloseTries \/ PPPCloseLocks)
=============================================================================
