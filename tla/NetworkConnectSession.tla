------------------------ MODULE NetworkConnectSession ------------------------
(********************************************************************************)
(* The Network Connect session (nc_session.go over nc_oncp.go): Start opens     *)
(* the oNCP connection, readLoop ("reader") takes data, ESP rekeys and ESP      *)
(* control messages from it, controlLoop ("control") brings up ESP and agrees   *)
(* with the server on its use.  Every change of that agreement happens under    *)
(* espControlAccess, some of them with a write to the server inside.            *)
(********************************************************************************)
EXTENDS TunnelSession

\* espControlAccess.
LockESP(s, a) == [s EXCEPT !.espLock = a]
ESPUnlocked == session.espLock = Nobody
UnlockESP(s) == [s EXCEPT !.espLock = Nobody]

\* The session still has its connection, and channel c is its own.
Owned(c) == session.connected /\ ~session.closed /\ session.own = c

\* a waits for the connection's write lock and writes.
NCLock(a, from, to) ==
    /\ At(a, from)
    /\ Acquire(a)
    /\ Goto(a, to)
    /\ UNCHANGED <<flavor, client, session, channels, keys, local, wire>>

----------------------------------------------------------------------------
(* Start. *)

\* attachSession refuses a second tunnel of the same obtained session.
NCStart ==
    /\ At("start", "none")
    /\ IF session.closed THEN Goto("start", "failed") /\ UNCHANGED session
       ELSE (Goto("start", "dial") /\ UNCHANGED session) \/ CallTerminate("start")
    /\ UNCHANGED <<flavor, client, conn, channels, keys, local, wire>>

\* openNCONCPConnection: TCP and TLS.
NCDial ==
    /\ At("start", "dial")
    /\ \/ /\ conn' = [conn EXCEPT !.st = "open"]
          /\ Goto("start", "request")
          /\ UNCHANGED session
       \/ CallTerminate("start") /\ UNCHANGED conn
    /\ UNCHANGED <<flavor, client, channels, keys, local, wire>>

\* Setting up fails: the connection is closed again.
NCSetupFails(from) ==
    /\ At("start", from)
    /\ conn' = [conn EXCEPT !.st = "closed"]
    /\ CallTerminate("start")
    /\ UNCHANGED <<flavor, client, channels, keys, local, wire>>

\* The HTTP request and the status of its answer.
NCRequest ==
    /\ At("start", "request")
    /\ Goto("start", "configure")
    /\ UNCHANGED <<flavor, client, session, conn, channels, keys, local, wire>>

\* The authentication packet, the configuration that answers it, and the client's
\* response with its own ESP keys.  The end of the context closes the connection,
\* which nobody may notice before the setup is complete.
NCConfigure ==
    /\ At("start", "configure")
    /\ keys' = IF session.udp THEN "live" ELSE "none"
    /\ Goto("start", "install")
    /\ conn' \in {conn} \cup (IF session.cancelled THEN {[conn EXCEPT !.st = "closed"]} ELSE {})
    /\ UNCHANGED <<flavor, client, session, channels, local, wire>>

NCInstall ==
    /\ At("start", "install")
    /\ IF session.closed
       THEN /\ conn' = [conn EXCEPT !.st = "closed"]
            /\ keys' = IF keys = "live" THEN "destroyed" ELSE keys
            /\ Goto("start", "failed")
            /\ UNCHANGED session
       ELSE /\ session' = [session EXCEPT !.connected = TRUE, !.ready = TRUE]
            /\ Goto("start", "report")
            /\ UNCHANGED <<conn, keys>>
    /\ UNCHANGED <<flavor, client, channels, local, wire>>

NCReport ==
    /\ At("start", "report")
    /\ Report("stream")
    /\ pc' = [pc EXCEPT !["start"] = "running", !["reader"] = "read", !["control"] = "esp"]
    /\ UNCHANGED <<flavor, session, conn, channels, keys, local, wire>>

----------------------------------------------------------------------------
(* readLoop. *)

\* readKMP fails, or brings what it must not; without a context that is nobody's
\* business any more.
NCReadEnds ==
    /\ At("reader", "read")
    /\ IF session.cancelled /\ conn.st = "closed"
       THEN Goto("reader", "exited") /\ UNCHANGED session
       ELSE Ends("reader", conn.st = "open")
    /\ UNCHANGED <<flavor, client, conn, channels, keys, local, wire>>

\* KMP 302: new keys for the channel.  Parameters that do not parse, another port
\* or keys that do not fit close the channel.
NCReadRekey ==
    /\ At("reader", "read")
    /\ conn.st = "open"
    /\ Event
    /\ session' = Counted(session)
    /\ IF session.udp /\ session.own # Nil /\ ~session.closed
       THEN /\ Holding("reader", session.own)
            /\ \/ Goto("reader", "rekey") /\ UNCHANGED <<channels, keys>>
               \/ TerminateChannel(session.own, "nil") /\ Goto("reader", "close")
       ELSE UNCHANGED <<pc, local, channels, keys>>
    /\ UNCHANGED <<flavor, client, conn, wire>>

\* The keys are changed with ESP taken off.
NCRekey ==
    /\ At("reader", "rekey")
    /\ ESPUnlocked
    /\ IF Owned(local.channel["reader"])
       THEN /\ session' = LockESP([session EXCEPT !.espEnabled = FALSE], "reader")
            /\ local' = [local EXCEPT !.wasEnabled = session.espEnabled]
            /\ IF session.espEnabled THEN Report("stream") ELSE UNCHANGED client
            /\ Goto("reader", "install")
       ELSE CallTerminate("reader") /\ UNCHANGED <<client, local>>
    /\ UNCHANGED <<flavor, conn, channels, keys, wire>>

\* Keys that are gone take no others.
NCInstallKeys ==
    /\ At("reader", "install")
    /\ \/ keys = "live" /\ Goto("reader", "respond") /\ UNCHANGED <<channels, keys>>
       \/ TerminateChannel(local.channel["reader"], "nil") /\ Goto("reader", "close")
    /\ UNCHANGED <<flavor, client, session, conn, local, wire>>

\* channel.Close, with or without espControlAccess.
NCCloseESP ==
    /\ At("reader", "close")
    /\ ChannelJoined(local.channel["reader"])
    /\ session' = IF session.espLock = "reader" THEN UnlockESP(session) ELSE session
    /\ Holding("reader", Nil)
    /\ Goto("reader", "read")
    /\ UNCHANGED <<flavor, client, conn, channels, keys, wire>>

\* The response; ESP is used again if it was and if the channel is still up.
NCRespond ==
    /\ At("reader", "responding")
    /\ \/ LET again == local.wasEnabled /\ IsReady(local.channel["reader"]) IN
          /\ WriteEnds("reader", TRUE)
          /\ session' = UnlockESP([session EXCEPT !.espEnabled = @ \/ again])
          /\ IF again THEN Report("datagram") ELSE UNCHANGED client
          /\ Holding("reader", Nil)
          /\ Goto("reader", "read")
       \/ /\ WriteEnds("reader", FALSE)
          /\ ~Interrupted => Event
          /\ session' = Called(UnlockESP(IF Interrupted THEN session ELSE Counted(session)))
          /\ Goto("reader", "terminating")
          /\ UNCHANGED <<client, local>>
    /\ UNCHANGED <<flavor, channels, keys, wire>>

\* KMP 303: the server takes ESP off.
NCReadDisable ==
    /\ At("reader", "read")
    /\ conn.st = "open"
    /\ Event
    /\ session' = Counted(session)
    /\ Goto("reader", "disable")
    /\ UNCHANGED <<flavor, client, conn, channels, keys, local, wire>>

NCDisable ==
    /\ At("reader", "disable")
    /\ ESPUnlocked
    /\ session' = [session EXCEPT !.espEnabled = FALSE, !.own = Nil, !.udp = FALSE]
    /\ local' = [local EXCEPT !.wasEnabled = session.espEnabled, !.channel["reader"] = session.own]
    /\ Goto("reader", "disabled")
    /\ UNCHANGED <<flavor, client, conn, channels, keys, wire>>

NCDisabled ==
    /\ At("reader", "disabled")
    /\ IF local.wasEnabled THEN Report("stream") ELSE UNCHANGED client
    /\ TerminateChannel(local.channel["reader"], "nil")
    /\ Goto("reader", "close")
    /\ UNCHANGED <<flavor, session, conn, local, wire>>

----------------------------------------------------------------------------
(* controlLoop. *)

Offered == session.udp /\ ~session.closed

\* startInitialESP; the keys of a channel that cannot be made are destroyed.
NCNoESP ==
    /\ At("control", "esp")
    /\ IF Offered
       THEN keys' = "destroyed" /\ session' = [session EXCEPT !.udp = FALSE]
       ELSE UNCHANGED <<keys, session>>
    /\ Goto("control", "select")
    /\ UNCHANGED <<flavor, client, conn, channels, local, wire>>

NCNewESP ==
    /\ At("control", "esp")
    /\ Offered
    /\ MayCreateChannel
    /\ channels' = [channels EXCEPT ![NextChannel] = Dialing(NewChannel("esp"))]
    /\ Holding("control", NextChannel)
    /\ Goto("control", "dial")
    /\ UNCHANGED <<flavor, client, session, conn, keys, wire>>

ControlChannel == local.channel["control"]

NCDialESP ==
    /\ At("control", "dial")
    /\ DialEnds("control", ControlChannel, "probe", "failed", {"err"})
    /\ UNCHANGED <<flavor, client, session, conn, local, wire>>

NCFirstProbe ==
    /\ At("control", "probe")
    /\ ProbeEnds("control", ControlChannel, "install", "failed")
    /\ UNCHANGED <<flavor, client, session, conn, local, wire>>

\* The channel's Close.
NCStartFailed ==
    /\ At("control", "failed")
    /\ ChannelJoined(ControlChannel)
    /\ session' = IF session.closed THEN session ELSE [session EXCEPT !.udp = FALSE]
    /\ Holding("control", Nil)
    /\ Goto("control", "select")
    /\ UNCHANGED <<flavor, client, conn, channels, keys, wire>>

NCInstallESP ==
    /\ At("control", "install")
    /\ IF session.closed
       THEN /\ TerminateChannel(ControlChannel, "nil")
            /\ Goto("control", "failed")
            /\ UNCHANGED session
       ELSE /\ session' = [session EXCEPT !.own = ControlChannel]
            /\ Goto("control", "select")
            /\ UNCHANGED <<channels, keys>>
    /\ UNCHANGED <<flavor, client, conn, local, wire>>

\* "select" while the channel may still become established, "up" after that.
Selecting == pc["control"] \in {"select", "up"}

NCCancelled ==
    /\ Selecting
    /\ session.cancelled
    /\ Goto("control", "exited")
    /\ UNCHANGED <<flavor, client, session, conn, channels, keys, local, wire>>

\* Established: a channel that is down again by now ends the session.
NCEstablished ==
    /\ At("control", "select")
    /\ ControlChannel # Nil
    /\ channels[ControlChannel].established
    /\ IF IsReady(ControlChannel) THEN Goto("control", "enable") /\ UNCHANGED session
       ELSE CallTerminate("control")
    /\ UNCHANGED <<flavor, client, conn, channels, keys, local, wire>>

\* enableESP: so does one the server has just taken off.
NCEnable ==
    /\ At("control", "enable")
    /\ ESPUnlocked
    /\ IF Owned(ControlChannel)
       THEN session' = LockESP(session, "control") /\ Goto("control", "enableLock")
       ELSE CallTerminate("control")
    /\ UNCHANGED <<flavor, client, conn, channels, keys, local, wire>>

NCEnabled ==
    /\ At("control", "enabling")
    /\ \/ /\ WriteEnds("control", TRUE)
          /\ session' = UnlockESP([session EXCEPT !.espEnabled = TRUE])
          /\ Report("datagram")
          /\ Goto("control", "up")
       \/ /\ WriteEnds("control", FALSE)
          /\ ~Interrupted => Event
          /\ session' = Called(UnlockESP(IF Interrupted THEN session ELSE Counted(session)))
          /\ Goto("control", "terminating")
          /\ UNCHANGED client
    /\ UNCHANGED <<flavor, channels, keys, local, wire>>

\* The channel is done: fallbackFromESP tells the server, if it has to.
NCFallback ==
    /\ Selecting
    /\ ControlChannel # Nil
    /\ channels[ControlChannel].done # "open"
    /\ ESPUnlocked
    /\ session' = LockESP([session EXCEPT !.espEnabled = FALSE], "control")
    /\ Goto("control", IF session.espEnabled /\ ~session.closed THEN "disableLock" ELSE "release")
    /\ UNCHANGED <<flavor, client, conn, channels, keys, local, wire>>

NCFallenBack ==
    /\ At("control", "disabling")
    /\ \/ WriteEnds("control", TRUE) /\ Goto("control", "release") /\ UNCHANGED session
       \/ /\ WriteEnds("control", FALSE)
          /\ ~Interrupted => Event
          /\ session' = Called(UnlockESP(IF Interrupted THEN session ELSE Counted(session)))
          /\ Goto("control", "terminating")
    /\ UNCHANGED <<flavor, client, channels, keys, local, wire>>

NCRelease ==
    /\ At("control", "release")
    /\ session' = UnlockESP(IF session.own = ControlChannel
                            THEN [session EXCEPT !.own = Nil, !.udp = FALSE] ELSE session)
    /\ Goto("control", "reportONCP")
    /\ UNCHANGED <<flavor, client, conn, channels, keys, local, wire>>

NCReportONCP ==
    /\ At("control", "reportONCP")
    /\ Report("stream")
    /\ Holding("control", Nil)
    /\ Goto("control", "select")
    /\ UNCHANGED <<flavor, session, conn, channels, keys, wire>>

\* Five probes, a second apart; then, or when one fails, the channel is closed,
\* and its end is noticed like any other.
NCProbe ==
    /\ At("control", "select")
    /\ ControlChannel # Nil
    /\ ~IsReady(ControlChannel)
    /\ \/ ProbeEnds("control", ControlChannel, "select", "closeESP")
       \/ TerminateChannel(ControlChannel, "nil") /\ Goto("control", "closeESP")
    /\ UNCHANGED <<flavor, client, session, conn, local, wire>>

NCProbed ==
    /\ At("control", "closeESP")
    /\ ChannelJoined(ControlChannel)
    /\ Goto("control", "select")
    /\ UNCHANGED <<flavor, client, session, conn, channels, keys, local, wire>>

\* runPeriodicTNCC fails.
NCPeriodicCheckFails ==
    /\ Selecting
    /\ Ends("control", TRUE)
    /\ UNCHANGED <<flavor, client, conn, channels, keys, local, wire>>

----------------------------------------------------------------------------
(* WriteDataPacketBuffers. *)

NCWriteBegins ==
    /\ At("writer", "none")
    /\ session.ready /\ session.connected /\ ~session.closed
    /\ IF session.espEnabled /\ IsReady(session.own)
       THEN Goto("writer", "esp") /\ Holding("writer", session.own)
       ELSE Goto("writer", "lock") /\ UNCHANGED local
    /\ UNCHANGED <<flavor, client, session, conn, channels, keys, wire>>

NCWriteESP ==
    /\ At("writer", "esp")
    /\ WriteToChannel
    /\ UNCHANGED <<flavor, client, session, conn>>

\* writeKMPPacketBuffers: the batch in one write.
NCWriteONCP ==
    /\ At("writer", "writing")
    /\ \/ WriteEnds("writer", TRUE) /\ Sent(Packets) /\ WriterReturns /\ UNCHANGED session
       \/ /\ WriteEnds("writer", FALSE)
          /\ \E n \in 0 .. BatchSize : Sent(1 .. n)
          /\ Ends("writer", ~Interrupted)
          /\ UNCHANGED local
    /\ UNCHANGED <<flavor, client, channels, keys>>

----------------------------------------------------------------------------
(* Close and terminate. *)

\* The server is told that ESP is over, if it was agreed on.
NCClose ==
    /\ At("closer", "none")
    /\ IF session.connected /\ ~session.closed /\ session.espEnabled
       THEN Goto("closer", "goodbye") /\ UNCHANGED session
       ELSE CallTerminate("closer")
    /\ UNCHANGED <<flavor, client, conn, channels, keys, local, wire>>

\* The deadline is set with espControlAccess held: a write inside it comes first.
NCGoodbye ==
    /\ At("closer", "goodbye")
    /\ ESPUnlocked
    /\ session' = LockESP([session EXCEPT !.espEnabled = FALSE], "closer")
    /\ conn' = [conn EXCEPT !.deadline = TRUE]
    /\ Goto("closer", "lock")
    /\ UNCHANGED <<flavor, client, channels, keys, local, wire>>

NCSaidGoodbye ==
    /\ At("closer", "writing")
    /\ conn.holder = "closer"
    /\ conn' = [conn EXCEPT !.holder = Nobody, !.deadline = FALSE]
    /\ session' = Called(UnlockESP(session))
    /\ Goto("closer", "terminating")
    /\ UNCHANGED <<flavor, client, channels, keys, local, wire>>

\* The workers are counted before they are started.
NCJoin ==
    /\ At("closer", "join")
    /\ pc["start"] # "report"
    /\ Finished("reader") /\ Finished("control")
    /\ Goto("closer", "done")
    /\ UNCHANGED <<flavor, client, session, conn, channels, keys, local, wire>>

\* The connection and the keys of a Start that is still under way are Start's.
NCTerminate ==
    \/ /\ session.term = "called"
       /\ session' = [session EXCEPT !.term = "cancelled", !.cancelled = TRUE,
                                     !.ready = FALSE, !.espEnabled = FALSE]
       /\ UNCHANGED <<client, conn, channels, keys, local>>
    \/ /\ session.term = "cancelled"
       /\ session' = [session EXCEPT !.term = "taken", !.closed = TRUE, !.own = Nil]
       /\ local' = [local EXCEPT !.taken = session.own]
       /\ UNCHANGED <<client, conn, channels, keys>>
    \/ /\ session.term = "taken"
       /\ client' = StopActiveTransport(client, Self)
       /\ conn' = IF session.connected THEN [conn EXCEPT !.st = "closed"] ELSE conn
       /\ TerminateChannel(local.taken, "nil")
       /\ session' = [session EXCEPT !.term = "closing"]
       /\ UNCHANGED local
    \/ /\ session.term = "closing"
       /\ ChannelJoined(local.taken)
       /\ keys' = IF session.connected /\ keys = "live" THEN "destroyed" ELSE keys
       /\ session' = [session EXCEPT !.term = "done"]
       /\ local' = [local EXCEPT !.taken = Nil]
       /\ UNCHANGED <<client, conn, channels>>

NCTerminateStep == NCTerminate /\ UNCHANGED <<flavor, pc, wire>>

----------------------------------------------------------------------------
NCStartStep ==
    \/ NCDial \/ NCRequest \/ NCConfigure \/ NCInstall \/ NCReport
    \/ NCSetupFails("request") \/ NCSetupFails("configure")
NCReaderStep ==
    \/ NCReadEnds \/ NCReadRekey \/ NCRekey \/ NCInstallKeys \/ NCCloseESP \/ NCRespond
    \/ NCLock("reader", "respond", "responding")
    \/ NCReadDisable \/ NCDisable \/ NCDisabled
NCSelected == NCCancelled \/ NCEstablished \/ NCFallback
NCControlStep ==
    \/ NCNoESP \/ NCNewESP \/ NCDialESP \/ NCFirstProbe \/ NCStartFailed \/ NCInstallESP
    \/ NCSelected \/ NCEnable \/ NCEnabled
    \/ NCLock("control", "enableLock", "enabling")
    \/ NCLock("control", "disableLock", "disabling") \/ NCFallenBack
    \/ NCRelease \/ NCReportONCP \/ NCProbed
NCTimers == NCProbe \/ NCPeriodicCheckFails
NCWriterStep == NCWriteESP \/ NCLock("writer", "lock", "writing") \/ NCWriteONCP
NCCloserStep == NCGoodbye \/ NCLock("closer", "lock", "writing") \/ NCSaidGoodbye \/ NCJoin

NCNext ==
    /\ flavor = "nc"
    /\ \/ NCStart \/ NCStartStep \/ NCReaderStep \/ NCControlStep \/ NCTimers
       \/ NCWriteBegins \/ NCWriterStep \/ NCClose \/ NCCloserStep \/ NCTerminateStep

\* What goes on by itself, as for AnyConnect.
NCStarts == flavor = "nc" /\ NCStartStep
NCReads ==
    /\ flavor = "nc" /\ Unblocked("reader")
    /\ At("reader", "read") => conn.st = "closed"
    /\ NCReaderStep
NCControls == flavor = "nc" /\ Unblocked("control") /\ NCControlStep
NCWrites == flavor = "nc" /\ Unblocked("writer") /\ NCWriterStep
NCCloses == flavor = "nc" /\ Unblocked("closer") /\ NCCloserStep
NCTerminates == flavor = "nc" /\ NCTerminateStep
\* No mutex starves who waits for it, and the ticker of the probes leaves
\* controlLoop's select a second for whatever else is ready.
NCUnstarved == flavor = "nc" /\ (NCGoodbye \/ NCLock("closer", "lock", "writing"))
NCSelects == flavor = "nc" /\ NCSelected
=============================================================================
