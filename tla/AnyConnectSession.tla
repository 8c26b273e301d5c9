-------------------------- MODULE AnyConnectSession --------------------------
(********************************************************************************)
(* The AnyConnect session (anyconnect_session.go): packets travel over CSTP,    *)
(* the TLS connection the session was given, and over DTLS whenever dtlsLoop    *)
(* has a channel up.  The goroutines are readLoop ("reader"), timerLoop         *)
(* ("timer"), dtlsLoop ("control") and the callers of Start, Close and          *)
(* WriteDataPacketBuffers.  local.result is dtlsLoop's initialResult.           *)
(********************************************************************************)
EXTENDS TunnelSession

----------------------------------------------------------------------------
(* Start. *)

ACStart ==
    /\ At("start", "none")
    /\ IF session.closed
       THEN Goto("start", "failed")
       ELSE /\ pc' = [pc EXCEPT !["start"] = "launch", !["reader"] = "pending",
                                !["timer"] = "pending",
                                !["control"] = IF session.udp THEN "pending" ELSE "none"]
    /\ UNCHANGED <<flavor, client, session, conn, channels, keys, local, wire>>

ACLaunch ==
    /\ At("start", "launch")
    /\ Report("stream")
    /\ pc' = [pc EXCEPT !["start"] = IF session.udp THEN "await" ELSE "check",
                        !["reader"] = "run", !["timer"] = "run",
                        !["control"] = IF session.udp THEN "loop" ELSE "none"]
    /\ UNCHANGED <<flavor, session, conn, channels, keys, local, wire>>

\* <-initialResult: a DTLS that cannot work by policy fails the start.
ACInitialResult ==
    /\ At("start", "await")
    /\ local.result # "open"
    /\ Goto("start", IF local.result = "fatal" THEN "failed" ELSE "check")
    /\ UNCHANGED <<flavor, client, session, conn, channels, keys, local, wire>>

ACBecomeReady ==
    /\ At("start", "check")
    /\ IF session.closed
       THEN Goto("start", "failed") /\ UNCHANGED session
       ELSE Goto("start", "running") /\ session' = [session EXCEPT !.ready = TRUE]
    /\ UNCHANGED <<flavor, client, conn, channels, keys, local, wire>>

----------------------------------------------------------------------------
(* readLoop and timerLoop, and writePacket, which both call. *)

\* A DPD request is answered; a DPD request or a keepalive is due.
ACWritePacket(a) ==
    /\ a \in {"reader", "timer"}
    /\ At(a, "run")
    /\ a = "reader" => conn.st = "open"
    /\ Event
    /\ session' = Counted(session)
    /\ Goto(a, "lock")
    /\ UNCHANGED <<flavor, client, conn, channels, keys, local, wire>>

ACPacketLocks(a) ==
    /\ a \in {"reader", "timer"}
    /\ At(a, "lock")
    /\ IF session.closed
       THEN conn.holder = Nobody /\ Goto(a, "exited") /\ UNCHANGED conn
       ELSE Acquire(a) /\ Goto(a, "writing")
    /\ UNCHANGED <<flavor, client, session, channels, keys, local, wire>>

\* A failed write terminates the session with writeAccess still held.
ACPacketWritten(a) ==
    /\ a \in {"reader", "timer"}
    /\ At(a, "writing")
    /\ \/ WriteEnds(a, TRUE) /\ Goto(a, "run") /\ UNCHANGED session
       \/ Ends(a, ~Interrupted) /\ UNCHANGED conn
    /\ UNCHANGED <<flavor, client, channels, keys, local, wire>>

\* The server disconnects or sends a record it must not, or the connection ends.
ACReadEnds ==
    /\ At("reader", "run")
    /\ Ends("reader", conn.st = "open")
    /\ UNCHANGED <<flavor, client, conn, channels, keys, local, wire>>

\* Dead peer, or a rekey, which takes a new tunnel.
ACTimerEnds ==
    /\ At("timer", "run")
    /\ IF session.cancelled
       THEN Goto("timer", "exited") /\ UNCHANGED session
       ELSE Ends("timer", TRUE)
    /\ UNCHANGED <<flavor, client, conn, channels, keys, local, wire>>

----------------------------------------------------------------------------
(* dtlsLoop. *)

\* The first result is sent once; a loop that never tried a channel sends
\* the context's error, which is no reason to fail the start.
Initial(result) == IF local.result = "open" THEN result ELSE local.result

ACDTLSLoop ==
    /\ At("control", "loop")
    /\ IF session.cancelled \/ session.closed
       THEN /\ Goto("control", "exited")
            /\ local' = [local EXCEPT !.result = Initial("nil")]
            /\ UNCHANGED channels
       ELSE /\ MayCreateChannel
            /\ channels' = [channels EXCEPT ![NextChannel] = NewChannel("dtls")]
            /\ Holding("control", NextChannel)
            /\ Goto("control", "install")
    /\ UNCHANGED <<flavor, client, session, conn, keys, wire>>

\* The channel becomes the session's own only while the session is active:
\* terminate takes it from there.
ACInstall ==
    /\ At("control", "install")
    /\ LET c == local.channel["control"] IN
         IF session.closed
         THEN /\ Goto("control", "exited")
              /\ local' = [local EXCEPT !.result = Initial("nil")]
              /\ UNCHANGED <<session, channels>>
         ELSE /\ session' = [session EXCEPT !.own = c]
              /\ channels' = [channels EXCEPT ![c] = Dialing(@)]
              /\ Goto("control", "dial")
              /\ UNCHANGED local
    /\ UNCHANGED <<flavor, client, conn, keys, wire>>

ACDial ==
    /\ At("control", "dial")
    /\ DialEnds("control", local.channel["control"], "up", "watch", {"err", "fatal"})
    /\ UNCHANGED <<flavor, client, session, conn, local, wire>>

ACDTLSUp ==
    /\ At("control", "up")
    /\ Report("datagram")
    /\ local' = [local EXCEPT !.result = Initial("nil")]
    /\ Goto("control", "watch")
    /\ UNCHANGED <<flavor, session, conn, channels, keys, wire>>

\* Start failed or the channel is done; the session goes on without it.
ACFallback ==
    /\ At("control", "watch")
    /\ LET done == channels[local.channel["control"]].done IN
         /\ done # "open"
         /\ local' = [local EXCEPT !.result = Initial(IF done = "fatal" THEN done ELSE "nil")]
    /\ IF session.own = local.channel["control"]
       THEN /\ session' = [session EXCEPT !.own = Nil]
            /\ Goto("control", IF session.closed THEN "decide" ELSE "report")
       ELSE Goto("control", "decide") /\ UNCHANGED session
    /\ UNCHANGED <<flavor, client, conn, channels, keys, wire>>

\* Mutant: the client keeps showing the transport that is gone.
ACReportCSTPForgotten ==
    /\ At("control", "report")
    /\ Goto("control", "decide")
    /\ UNCHANGED <<flavor, client, session, conn, channels, keys, local, wire>>

ACReportCSTP ==
    /\ At("control", "report")
    /\ Report("stream")
    /\ Goto("control", "decide")
    /\ UNCHANGED <<flavor, session, conn, channels, keys, local, wire>>

\* The loop goes round again, at once for a rekey and after a delay otherwise; the
\* channel and the error it delivered are forgotten.
ACDecide ==
    /\ At("control", "decide")
    /\ IF session.cancelled \/ session.closed
       THEN Goto("control", "exited") /\ UNCHANGED session
       ELSE IF channels[local.channel["control"]].done = "fatal"
       THEN CallTerminate("control")
       ELSE Goto("control", "loop") /\ UNCHANGED session
    /\ channels' = [channels EXCEPT ![local.channel["control"]].done = "nil"]
    /\ Holding("control", Nil)
    /\ UNCHANGED <<flavor, client, conn, keys, wire>>

----------------------------------------------------------------------------
(* WriteDataPacketBuffers. *)

\* The batch is refused when the session is not ready or a packet exceeds the MTU.
ACWriteBegins ==
    /\ At("writer", "none")
    /\ session.ready
    /\ IF IsReady(session.own)
       THEN Holding("writer", session.own) /\ Goto("writer", "batch")
       ELSE Goto("writer", "packets") /\ UNCHANGED local
    /\ UNCHANGED <<flavor, client, session, conn, channels, keys, wire>>

\* A batch goes out in one call where the connection and the compression allow.
\* A failed batch may have sent any prefix, and is not repeated over CSTP.
ACWriteBatch ==
    /\ At("writer", "batch")
    /\ LET c == local.channel["writer"] IN
         \/ Goto("writer", "packets") /\ Holding("writer", Nil) /\ UNCHANGED <<channels, keys, wire>>
         \/ /\ channels[c].ready
            /\ \/ Sent(Packets) /\ WriterReturns /\ UNCHANGED <<channels, keys>>
               \/ /\ \E n \in 0 .. BatchSize : Sent(1 .. n)
                  /\ TerminateChannel(c, "err")
                  /\ WriterReturns
    /\ UNCHANGED <<flavor, client, session, conn>>

\* The next packet over DTLS; when that fails, this one and the rest over CSTP,
\* unless the client requires DTLS (options.DTLSRequired).
ACWritePacketDTLS ==
    /\ At("writer", "packets")
    /\ \/ /\ IsReady(session.own)
          /\ Sent({local.next}) /\ NextPacket
          /\ UNCHANGED <<channels, keys>>
       \/ /\ IF IsReady(session.own) THEN TerminateChannel(session.own, "err")
             ELSE UNCHANGED <<channels, keys>>
          /\ WriterReturns \/ (Goto("writer", "lock") /\ UNCHANGED local)
          /\ UNCHANGED wire
    /\ UNCHANGED <<flavor, client, session, conn>>

ACWriteLocks ==
    /\ At("writer", "lock")
    /\ IF session.closed
       THEN conn.holder = Nobody /\ WriterReturns /\ UNCHANGED conn
       ELSE Acquire("writer") /\ Goto("writer", "writing") /\ UNCHANGED local
    /\ UNCHANGED <<flavor, client, session, channels, keys, wire>>

\* writeAccess is held from the first packet to the last, and given up before
\* terminate.
ACWriteCSTP ==
    /\ At("writer", "writing")
    /\ \/ /\ conn.st = "open"
          /\ Sent({local.next})
          /\ NextPacket
          /\ IF local.next = BatchSize THEN WriteEnds("writer", TRUE) ELSE UNCHANGED conn
          /\ UNCHANGED session
       \/ /\ WriteEnds("writer", FALSE) /\ Ends("writer", ~Interrupted)
          /\ local' = Written(local)
          /\ UNCHANGED wire
       \* The path MTU shrank below this packet.
       \/ WriteEnds("writer", FALSE) /\ WriterReturns /\ UNCHANGED <<session, wire>>
    /\ UNCHANGED <<flavor, client, channels, keys>>

----------------------------------------------------------------------------
(* Close and terminate. *)

\* Mutant: the deadline is set when the connection is already ours.
ACCloseWithoutDeadline ==
    /\ At("closer", "none")
    /\ IF ~session.closed /\ session.ready
       THEN Goto("closer", "lock") /\ UNCHANGED <<conn, session>>
       ELSE CallTerminate("closer") /\ UNCHANGED conn
    /\ UNCHANGED <<flavor, client, channels, keys, local, wire>>

\* The write deadline comes first: it frees the connection from a stuck write.
ACClose ==
    /\ At("closer", "none")
    /\ IF ~session.closed /\ session.ready
       THEN /\ conn' = [conn EXCEPT !.deadline = TRUE]
            /\ Goto("closer", "lock")
            /\ UNCHANGED session
       ELSE CallTerminate("closer") /\ UNCHANGED conn
    /\ UNCHANGED <<flavor, client, channels, keys, local, wire>>

ACCloseLocks ==
    /\ At("closer", "lock")
    /\ IF session.closed
       THEN conn.holder = Nobody /\ CallTerminate("closer") /\ UNCHANGED conn
       ELSE Acquire("closer") /\ Goto("closer", "writing") /\ UNCHANGED session
    /\ UNCHANGED <<flavor, client, channels, keys, local, wire>>

ACDisconnect ==
    /\ At("closer", "writing")
    /\ \E ok \in BOOLEAN : WriteEnds("closer", ok)
    /\ CallTerminate("closer")
    /\ UNCHANGED <<flavor, client, channels, keys, local, wire>>

ACJoin ==
    /\ At("closer", "join")
    /\ \A a \in {"reader", "timer", "control"} : Finished(a)
    /\ Goto("closer", "done")
    /\ UNCHANGED <<flavor, client, session, conn, channels, keys, local, wire>>

ACTerminate ==
    \/ /\ session.term = "called"
       /\ session' = [session EXCEPT !.term = "taken", !.ready = FALSE, !.closed = TRUE]
       /\ UNCHANGED <<client, conn, channels, keys, local>>
    \/ /\ session.term = "taken"
       /\ client' = StopActiveTransport(client, Self)
       /\ session' = [session EXCEPT !.term = "closing", !.cancelled = TRUE, !.own = Nil]
       /\ TerminateChannel(session.own, "nil")
       /\ local' = [local EXCEPT !.taken = session.own]
       /\ UNCHANGED conn
    \/ /\ session.term = "closing"
       /\ ChannelJoined(local.taken)
       /\ conn' = [conn EXCEPT !.st = "closed", !.deadline = FALSE]
       /\ session' = [session EXCEPT !.term = "done"]
       /\ local' = [local EXCEPT !.taken = Nil]
       /\ UNCHANGED <<client, channels, keys>>

ACTerminateStep == ACTerminate /\ UNCHANGED <<flavor, pc, wire>>

----------------------------------------------------------------------------
ACStartStep == ACLaunch \/ ACInitialResult \/ ACBecomeReady
ACReaderStep ==
    ACWritePacket("reader") \/ ACPacketLocks("reader") \/ ACPacketWritten("reader") \/ ACReadEnds
ACTimerStep ==
    ACWritePacket("timer") \/ ACPacketLocks("timer") \/ ACPacketWritten("timer") \/ ACTimerEnds
ACControlStep ==
    \/ ACDTLSLoop \/ ACInstall \/ ACDial \/ ACDTLSUp \/ ACFallback \/ ACReportCSTP
    \/ ACDecide
ACWriterStep == ACWriteBatch \/ ACWritePacketDTLS \/ ACWriteLocks \/ ACWriteCSTP
ACCloserStep == ACCloseLocks \/ ACDisconnect \/ ACJoin

ACNext ==
    /\ flavor = "anyconnect"
    /\ \/ ACStart \/ ACStartStep \/ ACReaderStep \/ ACTimerStep \/ ACControlStep
       \/ ACWriteBegins \/ ACWriterStep \/ ACClose \/ ACCloserStep \/ ACTerminateStep

\* What goes on by itself: a goroutine that writes once its write is interrupted,
\* readLoop once the connection is closed and timerLoop once the context is
\* done; before that the server decides.
ACStarts == flavor = "anyconnect" /\ ACStartStep
ACReads ==
    /\ flavor = "anyconnect" /\ Unblocked("reader")
    /\ At("reader", "run") => conn.st = "closed"
    /\ ACReaderStep
ACTimes ==
    /\ flavor = "anyconnect" /\ Unblocked("timer")
    /\ At("timer", "run") => session.cancelled
    /\ ACTimerStep
ACControls == flavor = "anyconnect" /\ ACControlStep
ACWrites == flavor = "anyconnect" /\ Unblocked("writer") /\ ACWriterStep
ACCloses == flavor = "anyconnect" /\ Unblocked("closer") /\ ACCloserStep
ACTerminates == flavor = "anyconnect" /\ ACTerminateStep
\* The mutex is fair to Close (sync.Mutex does not starve a waiter).
ACUnstarved == flavor = "anyconnect" /\ ACCloseLocks
=============================================================================
