---------------------------- MODULE PulseSession ----------------------------
(********************************************************************************)
(* The Pulse session (pulse_session.go over pulse_ift.go): Start takes the      *)
(* connection authentication left open, or makes another with the cookie;       *)
(* readLoop ("reader") takes data and ESP rekeys from it.  ESP is brought up    *)
(* by goroutines of its own, each from startESP to the end of monitorESP; one   *)
(* that waits to try again and one that a frame of the server launched may run  *)
(* side by side.                                                                *)
(*                                                                              *)
(* espGeneration does not appear: it grows whenever s.esp changes, so           *)
(* s.esp = channel says as much.                                                *)
(********************************************************************************)
EXTENDS TunnelSession

\* Bound: the ESP goroutines that run at a time.
Monitors == {"control", "timer"}

PulseOwns(c) == ~session.closed /\ session.own = c

\* launchESP, with everything else the goroutine a does in the same step; without
\* a free monitor nothing is launched (a bound).
PulseLaunched(a, label) ==
    LET free == {m \in Monitors : pc[m] = "none"}
        may == session.connected /\ ~session.closed /\ session.udp /\ ~session.suppressed
    IN  IF may /\ free # {}
        THEN pc' = [pc EXCEPT ![a] = label, ![CHOOSE m \in free : TRUE] = "launched"]
        ELSE Goto(a, label)

\* a waits for the connection's write lock and writes.
PulseLock(a, from, to) ==
    /\ At(a, from)
    /\ Acquire(a)
    /\ Goto(a, to)
    /\ UNCHANGED <<flavor, client, session, channels, keys, local, wire>>

----------------------------------------------------------------------------
(* Start. *)

\* takeLiveConnection refuses a second tunnel of the same obtained session, and
\* one without a cookie.
PulseStart ==
    /\ At("start", "none")
    /\ IF session.closed THEN Goto("start", "failed") /\ UNCHANGED <<session, conn>>
       ELSE \/ /\ conn' = [conn EXCEPT !.st = "open"]
               /\ Goto("start", "configure")
               /\ UNCHANGED session
            \/ Goto("start", "reconnect") /\ UNCHANGED <<session, conn>>
            \/ CallTerminate("start") /\ UNCHANGED conn
    /\ UNCHANGED <<flavor, client, channels, keys, local, wire>>

\* reconnectWithCookie; its result is closed again if the obtained session has
\* been taken off this tunnel.
PulseReconnect ==
    /\ At("start", "reconnect")
    /\ \/ /\ session.term # "done"
          /\ conn' = [conn EXCEPT !.st = "open"]
          /\ Goto("start", "configure")
          /\ UNCHANGED session
       \/ CallTerminate("start") /\ UNCHANGED conn
    /\ UNCHANGED <<flavor, client, channels, keys, local, wire>>

\* readPulseConfiguration, which no context ends.
PulseConfigure ==
    /\ At("start", "configure")
    /\ \/ Goto("start", "install") /\ UNCHANGED <<session, conn>>
       \/ conn' = [conn EXCEPT !.st = "closed"] /\ CallTerminate("start")
    /\ UNCHANGED <<flavor, client, channels, keys, local, wire>>

PulseInstall ==
    /\ At("start", "install")
    /\ IF session.closed
       THEN /\ conn' = [conn EXCEPT !.st = "closed"]
            /\ Goto("start", "failed")
            /\ UNCHANGED session
       ELSE /\ session' = [session EXCEPT !.connected = TRUE, !.ready = TRUE]
            /\ Goto("start", "report")
            /\ UNCHANGED conn
    /\ UNCHANGED <<flavor, client, channels, keys, local, wire>>

PulseReport ==
    /\ At("start", "report")
    /\ Report("stream")
    /\ pc' = [pc EXCEPT !["start"] = "launch", !["reader"] = "read"]
    /\ UNCHANGED <<flavor, session, conn, channels, keys, local, wire>>

PulseLaunch ==
    /\ At("start", "launch")
    /\ PulseLaunched("start", "running")
    /\ UNCHANGED <<flavor, client, session, conn, channels, keys, local, wire>>

----------------------------------------------------------------------------
(* readLoop. *)

\* A frame cannot be read, or it is a fatal error of the server.
PulseReadEnds ==
    /\ At("reader", "read")
    /\ IF session.closed \/ (session.cancelled /\ conn.st = "closed")
       THEN Goto("reader", "exited") /\ UNCHANGED session
       ELSE Ends("reader", conn.st = "open")
    /\ UNCHANGED <<flavor, client, conn, channels, keys, local, wire>>

Received ==
    /\ At("reader", "read")
    /\ conn.st = "open"
    /\ Event
    /\ ~session.closed

\* handleESPRekey: the keys are replaced, or made again after suppressESP.
PulseReadRekey ==
    /\ Received
    /\ session.udp
    /\ \/ /\ session.keyed => keys = "live"
          /\ keys' = "live"
          /\ session' = [Counted(session) EXCEPT !.keyed = TRUE, !.suppressed = FALSE]
          /\ Holding("reader", session.own)
          /\ Goto("reader", "respond")
       \/ /\ session' = Counted(session)
          /\ Goto("reader", "suppress")
          /\ UNCHANGED <<keys, local>>
    /\ UNCHANGED <<flavor, client, conn, channels, wire>>

PulseRespond ==
    /\ At("reader", "responding")
    /\ \/ /\ WriteEnds("reader", TRUE)
          /\ IF local.channel["reader"] = Nil THEN PulseLaunched("reader", "read")
             ELSE Goto("reader", "read")
       \/ WriteEnds("reader", FALSE) /\ Goto("reader", "suppress")
    /\ Holding("reader", Nil)
    /\ UNCHANGED <<flavor, client, session, channels, keys, wire>>

\* suppressESP: no ESP until the next rekey.
PulseSuppress ==
    /\ At("reader", "suppress")
    /\ IF session.closed THEN Goto("reader", "read") /\ UNCHANGED <<session, local>>
       ELSE /\ session' = [session EXCEPT !.own = Nil, !.keyed = FALSE, !.suppressed = TRUE]
            /\ Holding("reader", session.own)
            /\ Goto("reader", "suppressed")
    /\ UNCHANGED <<flavor, client, conn, channels, keys, wire>>

PulseSuppressed ==
    /\ At("reader", "suppressed")
    /\ Report("stream")
    /\ TerminateChannel(local.channel["reader"], "nil")
    /\ Goto("reader", "closeESP")
    /\ UNCHANGED <<flavor, session, conn, local, wire>>

PulseCloseESP ==
    /\ At("reader", "closeESP")
    /\ ChannelJoined(local.channel["reader"])
    /\ keys' = IF keys = "live" THEN "destroyed" ELSE keys
    /\ Holding("reader", Nil)
    /\ Goto("reader", "read")
    /\ UNCHANGED <<flavor, client, session, conn, channels, wire>>

\* License information makes the client try ESP: triggerESPProbe.
PulseReadLicense ==
    /\ Received
    /\ ~session.suppressed
    /\ session' = Counted(session)
    /\ IF session.own = Nil THEN PulseLaunched("reader", "read") /\ UNCHANGED <<channels, keys>>
       ELSE ~IsReady(session.own) /\ ProbeEnds("reader", session.own, "read", "read")
    /\ UNCHANGED <<flavor, client, conn, local, wire>>

----------------------------------------------------------------------------
(* One ESP goroutine m. *)

MonitorEnds(m) ==
    /\ Goto(m, "none")
    /\ Holding(m, Nil)

MonitorReturns(m) == MonitorEnds(m) /\ UNCHANGED <<flavor, client, session, conn, channels, keys, wire>>

\* startESP up to the dial.  Keys or a channel that cannot be made end it.
PulseStartESP(m) ==
    /\ At(m, "launched")
    /\ \/ /\ ~session.closed /\ session.own = Nil /\ ~session.suppressed
          /\ MayCreateChannel
          /\ channels' = [channels EXCEPT ![NextChannel] = Dialing(NewChannel("esp"))]
          /\ keys' = IF session.keyed THEN keys ELSE "live"
          /\ session' = [session EXCEPT !.own = NextChannel, !.keyed = TRUE]
          /\ Holding(m, NextChannel)
          /\ Goto(m, "dial")
          /\ UNCHANGED <<flavor, client, conn, wire>>
       \/ /\ ~session.closed /\ session.own = Nil /\ ~session.suppressed
          /\ keys' = IF keys = "live" THEN "destroyed" ELSE keys
          /\ session' = [session EXCEPT !.keyed = FALSE]
          /\ MonitorEnds(m)
          /\ UNCHANGED <<flavor, client, conn, channels, wire>>
       \/ MonitorReturns(m)

PulseDialESP(m) ==
    /\ At(m, "dial")
    /\ DialEnds(m, local.channel[m], "probe", "finish", {"err"})
    /\ UNCHANGED <<flavor, client, session, conn, local, wire>>

PulseProbe(m) ==
    /\ At(m, "probe")
    /\ IF PulseOwns(local.channel[m])
       THEN /\ ProbeEnds(m, local.channel[m], "await", "finish")
            /\ UNCHANGED <<flavor, client, session, conn, local, wire>>
       ELSE MonitorReturns(m)

\* The wait for an answer, and for the next round of five probes.
PulseAwait(m) ==
    LET c == local.channel[m] IN
    /\ At(m, "await")
    /\ \/ session.cancelled /\ MonitorReturns(m)
       \/ /\ \/ channels[c].established /\ Goto(m, "established")
             \/ channels[c].done # "open" /\ Goto(m, "finish")
          /\ UNCHANGED <<flavor, client, session, conn, channels, keys, local, wire>>

PulseProbeTimer(m) ==
    /\ At(m, "await")
    /\ Goto(m, "probe")
    /\ UNCHANGED <<flavor, client, session, conn, channels, keys, local, wire>>

\* monitorEstablishedESP; a channel that is down again is left where it is.
PulseEstablished(m) ==
    LET c == local.channel[m] IN
    /\ At(m, "established")
    /\ IF PulseOwns(c) /\ IsReady(c)
       THEN /\ Report("datagram")
            /\ Goto(m, "monitor")
            /\ UNCHANGED <<flavor, session, conn, channels, keys, local, wire>>
       ELSE MonitorReturns(m)

PulseMonitor(m) ==
    /\ At(m, "monitor")
    /\ \/ session.cancelled /\ MonitorReturns(m)
       \/ /\ channels[local.channel[m]].done # "open"
          /\ Goto(m, "finish")
          /\ UNCHANGED <<flavor, client, session, conn, channels, keys, local, wire>>

\* finishESPAttempt.
PulseFinish(m) ==
    /\ At(m, "finish")
    /\ IF PulseOwns(local.channel[m])
       THEN /\ session' = [session EXCEPT !.own = Nil]
            /\ Goto(m, "fallback")
            /\ UNCHANGED <<flavor, client, conn, channels, keys, local, wire>>
       ELSE MonitorReturns(m)

PulseFallback(m) ==
    /\ At(m, "fallback")
    /\ Report("stream")
    /\ TerminateChannel(local.channel[m], "nil")
    /\ Goto(m, "rejoin")
    /\ UNCHANGED <<flavor, session, conn, local, wire>>

\* Nobody asks any more how the channel ended.
PulseRejoin(m) ==
    /\ At(m, "rejoin")
    /\ ChannelJoined(local.channel[m])
    /\ channels' = [channels EXCEPT ![local.channel[m]] = [NoChannel EXCEPT !.st = "closed"]]
    /\ Goto(m, "retry")
    /\ Holding(m, Nil)
    /\ UNCHANGED <<flavor, client, session, conn, keys, wire>>

PulseRetry(m) ==
    /\ At(m, "retry")
    /\ session.cancelled
    /\ MonitorReturns(m)

PulseRetryTimer(m) ==
    /\ At(m, "retry")
    /\ Goto(m, "launched")
    /\ UNCHANGED <<flavor, client, session, conn, channels, keys, local, wire>>

----------------------------------------------------------------------------
(* WriteDataPacketBuffers. *)

PulseWriteBegins ==
    /\ At("writer", "none")
    /\ session.ready /\ session.connected /\ ~session.closed
    /\ Holding("writer", session.own)
    /\ Goto("writer", "packet")
    /\ UNCHANGED <<flavor, client, session, conn, channels, keys, wire>>

WriterAtEnd == local.next > BatchSize

\* A packet ESP cannot carry waits for the next flush.
Pend == local' = [local EXCEPT !.next = @ + 1, !.pending = @ + 1]

PulseWritePacket ==
    /\ At("writer", "packet")
    /\ \/ ~WriterAtEnd /\ Pend /\ UNCHANGED pc
       \/ /\ ~WriterAtEnd /\ IsReady(local.channel["writer"])
          /\ Goto("writer", IF local.pending > 0 THEN "lock" ELSE "esp")
          /\ UNCHANGED local
       \/ /\ WriterAtEnd
          /\ IF local.pending > 0 THEN Goto("writer", "lock") /\ Holding("writer", Nil)
             ELSE WriterReturns
    /\ UNCHANGED <<flavor, client, session, conn, channels, keys, wire>>

\* Mutant: the packet whose ESP write failed takes those before it along.
PulseWriteESPReplayed ==
    LET c == local.channel["writer"] IN
    /\ At("writer", "esp")
    /\ \/ /\ IsReady(c) /\ keys = "live"
          /\ Sent({local.next})
          /\ local' = [local EXCEPT !.next = @ + 1]
          /\ UNCHANGED <<client, channels, keys>>
       \/ /\ TerminateChannel(c, "err")
          /\ Report("stream")
          /\ local' = [local EXCEPT !.next = @ + 1, !.pending = local.next]
          /\ UNCHANGED wire
    /\ Goto("writer", "packet")
    /\ UNCHANGED <<flavor, session, conn>>

\* A packet ESP failed to carry goes the other way.
PulseWriteESP ==
    LET c == local.channel["writer"] IN
    /\ At("writer", "esp")
    /\ \/ /\ IsReady(c) /\ keys = "live"
          /\ Sent({local.next})
          /\ local' = [local EXCEPT !.next = @ + 1]
          /\ UNCHANGED <<client, channels, keys>>
       \/ /\ \/ IsReady(c) /\ \E err \in {"err", "exhausted"} : TerminateChannel(c, err)
             \/ ~IsReady(c) /\ UNCHANGED <<channels, keys>>
          /\ Report("stream")
          /\ Pend
          /\ UNCHANGED wire
    /\ Goto("writer", "packet")
    /\ UNCHANGED <<flavor, session, conn>>

\* flushPending.
PulseFlush ==
    LET first == local.next - local.pending IN
    /\ At("writer", "writing")
    /\ \/ /\ WriteEnds("writer", TRUE)
          /\ Sent(first .. local.next - 1)
          /\ IF WriterAtEnd THEN WriterReturns
             ELSE Goto("writer", "esp") /\ local' = [local EXCEPT !.pending = 0]
          /\ UNCHANGED session
       \/ /\ WriteEnds("writer", FALSE)
          /\ \E n \in first - 1 .. local.next - 1 : Sent(first .. n)
          /\ Ends("writer", ~Interrupted)
          /\ local' = Written(local)
    /\ UNCHANGED <<flavor, client, channels, keys>>

----------------------------------------------------------------------------
(* Close and terminate. *)

\* The server is told; nothing limits that write.
PulseClose ==
    /\ At("closer", "none")
    /\ IF session.connected /\ ~session.closed
       THEN Goto("closer", "lock") /\ UNCHANGED session
       ELSE CallTerminate("closer")
    /\ UNCHANGED <<flavor, client, conn, channels, keys, local, wire>>

PulseBye ==
    /\ At("closer", "writing")
    /\ WriteEnds("closer", FALSE)
    /\ CallTerminate("closer")
    /\ UNCHANGED <<flavor, client, channels, keys, local, wire>>

PulseJoin ==
    /\ At("closer", "join")
    /\ pc["start"] # "report"
    /\ Finished("reader") /\ \A m \in Monitors : Finished(m)
    /\ Goto("closer", "done")
    /\ UNCHANGED <<flavor, client, session, conn, channels, keys, local, wire>>

\* The connection is closed after the channel and its keys.
PulseTerminate ==
    \/ /\ session.term = "called"
       /\ session' = [session EXCEPT !.term = "cancelled", !.cancelled = TRUE, !.ready = FALSE]
       /\ UNCHANGED <<client, conn, channels, keys, local>>
    \/ /\ session.term = "cancelled"
       /\ session' = [session EXCEPT !.term = "taken", !.closed = TRUE, !.own = Nil]
       /\ local' = [local EXCEPT !.taken = session.own]
       /\ UNCHANGED <<client, conn, channels, keys>>
    \/ /\ session.term = "taken"
       /\ client' = StopActiveTransport(client, Self)
       /\ TerminateChannel(local.taken, "nil")
       /\ session' = [session EXCEPT !.term = "closing"]
       /\ UNCHANGED <<conn, local>>
    \/ /\ session.term = "closing"
       /\ ChannelJoined(local.taken)
       /\ keys' = IF session.keyed /\ keys = "live" THEN "destroyed" ELSE keys
       /\ conn' = IF session.connected THEN [conn EXCEPT !.st = "closed"] ELSE conn
       /\ session' = [session EXCEPT !.term = "done", !.keyed = FALSE]
       /\ local' = [local EXCEPT !.taken = Nil]
       /\ UNCHANGED <<client, channels>>

PulseTerminateStep == PulseTerminate /\ UNCHANGED <<flavor, pc, wire>>

----------------------------------------------------------------------------
PulseStartStep ==
    PulseReconnect \/ PulseConfigure \/ PulseInstall \/ PulseReport \/ PulseLaunch
PulseReaderStep ==
    \/ PulseReadEnds \/ PulseReadRekey \/ PulseLock("reader", "respond", "responding")
    \/ PulseRespond \/ PulseSuppress \/ PulseSuppressed \/ PulseCloseESP \/ PulseReadLicense
PulseMonitorStep(m) ==
    \/ PulseStartESP(m) \/ PulseDialESP(m) \/ PulseProbe(m) \/ PulseAwait(m)
    \/ PulseEstablished(m) \/ PulseMonitor(m) \/ PulseFinish(m) \/ PulseFallback(m)
    \/ PulseRejoin(m) \/ PulseRetry(m)
PulseTimers == \E m \in Monitors : PulseProbeTimer(m) \/ PulseRetryTimer(m)
PulseWriterStep ==
    PulseWritePacket \/ PulseWriteESP \/ PulseLock("writer", "lock", "writing") \/ PulseFlush
PulseCloserStep == PulseLock("closer", "lock", "writing") \/ PulseBye \/ PulseJoin

PulseNext ==
    /\ flavor = "pulse"
    /\ \/ PulseStart \/ PulseStartStep \/ PulseReaderStep
       \/ \E m \in Monitors : PulseMonitorStep(m)
       \/ PulseTimers \/ PulseWriteBegins \/ PulseWriterStep
       \/ PulseClose \/ PulseCloserStep \/ PulseTerminateStep

\* What goes on by itself, as for AnyConnect.  Nothing ends a configuration that
\* does not come: Start may stay there for good.
PulseStarts == flavor = "pulse" /\ ~At("start", "configure") /\ PulseStartStep
PulseReads ==
    /\ flavor = "pulse" /\ Unblocked("reader")
    /\ At("reader", "read") => session.closed \/ conn.st = "closed"
    /\ PulseReaderStep
PulseMonitors(m) == flavor = "pulse" /\ PulseMonitorStep(m)
PulseWrites == flavor = "pulse" /\ Unblocked("writer") /\ PulseWriterStep
PulseCloses == flavor = "pulse" /\ Unblocked("closer") /\ PulseCloserStep
PulseTerminates == flavor = "pulse" /\ PulseTerminateStep
\* A mutex does not starve who waits for it, and the timers of the probes leave
\* the select a second for whatever else is ready.
PulseUnstarved == flavor = "pulse" /\ PulseLock("closer", "lock", "writing")
PulseSelects(m) == flavor = "pulse" /\ (PulseAwait(m) \/ PulseMonitor(m) \/ PulseRetry(m))
=============================================================================
