------------------------- MODULE GlobalProtectSession -------------------------
(********************************************************************************)
(* The GlobalProtect session (gp_session.go): Start fetches the tunnel's        *)
(* configuration, runs the HIP check and tries ESP for five seconds; without    *)
(* ESP, and whenever ESP ends later, packets travel over GPST.  controlLoop     *)
(* ("control") follows the transport, repeats the HIP check and starts over     *)
(* when a rekey is due.  openGPST runs on Start's goroutine or on controlLoop.  *)
(********************************************************************************)
EXTENDS TunnelSession

Opener == {"start", "control"}
OwnChannel(a) == local.channel[a]

----------------------------------------------------------------------------
(* Start. *)

GPStart ==
    /\ At("start", "none")
    /\ Goto("start", IF session.closed THEN "failed" ELSE "fetch")
    /\ UNCHANGED <<flavor, client, session, conn, channels, keys, local, wire>>

\* The keys come with the configuration; those of a session that ended
\* meanwhile are destroyed at once.
GPFetch ==
    /\ At("start", "fetch")
    /\ \/ CallTerminate("start") /\ UNCHANGED keys
       \/ /\ keys' = CASE ~session.udp -> "none"
                       [] session.closed -> "destroyed"
                       [] OTHER -> "live"
          /\ Goto("start", IF session.closed THEN "failed" ELSE "hip")
          /\ UNCHANGED session
    /\ UNCHANGED <<flavor, client, conn, channels, local, wire>>

GPCheck ==
    /\ At("start", "hip")
    /\ \/ CallTerminate("start")
       \/ Goto("start", IF session.udp THEN "candidate" ELSE "claim") /\ UNCHANGED session
    /\ UNCHANGED <<flavor, client, conn, channels, keys, local, wire>>

\* A configuration ESP cannot work with loses its keys, and GPST is used.
GPNoCandidate ==
    /\ At("start", "candidate")
    /\ keys' = "destroyed"
    /\ Goto("start", "claim")
    /\ UNCHANGED <<flavor, client, session, conn, channels, local, wire>>

\* Mutant: the candidate is installed without looking whether the session ended.
GPCandidateUnchecked ==
    /\ At("start", "candidate")
    /\ MayCreateChannel
    /\ Holding("start", NextChannel)
    /\ session' = [session EXCEPT !.generation = @ + 1, !.phase = "awaitingESP",
                                  !.own = NextChannel]
    /\ channels' = [channels EXCEPT ![NextChannel] = Dialing(NewChannel("esp"))]
    /\ Goto("start", "espDial")
    /\ UNCHANGED <<keys, flavor, client, conn, wire>>

\* The candidate becomes the session's own only while the session lives.
GPCandidate ==
    /\ At("start", "candidate")
    /\ MayCreateChannel
    /\ Holding("start", NextChannel)
    /\ IF session.closed
       THEN /\ channels' = [channels EXCEPT ![NextChannel] = Terminated(NewChannel("esp"), "nil")]
            /\ keys' = "destroyed"
            /\ Goto("start", "claim")
            /\ UNCHANGED session
       ELSE /\ session' = [session EXCEPT !.generation = @ + 1, !.phase = "awaitingESP",
                                         !.own = NextChannel]
            /\ channels' = [channels EXCEPT ![NextChannel] = Dialing(NewChannel("esp"))]
            /\ Goto("start", "espDial")
            /\ UNCHANGED keys
    /\ UNCHANGED <<flavor, client, conn, wire>>

GPDialESP ==
    /\ At("start", "espDial")
    /\ DialEnds("start", OwnChannel("start"), "probe", "rejoin", {"err"})
    /\ UNCHANGED <<flavor, client, session, conn, local, wire>>

\* SendProbe; when it fails, the channel is closed and replaced.
GPProbe ==
    /\ At("start", "probe")
    /\ \/ /\ channels[OwnChannel("start")].st = "up"
          /\ keys = "live"
          /\ Goto("start", "await")
          /\ UNCHANGED <<channels, keys>>
       \/ /\ \E err \in {"nil", "err", "exhausted"} : TerminateChannel(OwnChannel("start"), err)
          /\ Goto("start", "rejoin")
    /\ UNCHANGED <<flavor, client, session, conn, local, wire>>

\* waitForESP: the context, the answered probe, the channel's end or the next
\* of the five probes, whichever the select picks.
GPAwait ==
    /\ At("start", "await")
    /\ LET c == channels[OwnChannel("start")] IN
         \/ session.cancelled /\ Goto("start", "claim") /\ UNCHANGED <<session, channels, keys>>
         \/ c.established /\ Goto("start", "publish") /\ UNCHANGED <<session, channels, keys>>
         \/ c.done = "fatal" /\ CallTerminate("start") /\ UNCHANGED <<channels, keys>>
         \/ /\ c.done \notin {"open", "fatal"}
            /\ TerminateChannel(OwnChannel("start"), "nil")
            /\ Goto("start", "rejoin")
            /\ UNCHANGED session
         \/ \E next \in {"probe", "claim"} : Goto("start", next) /\ UNCHANGED <<session, channels, keys>>
    /\ UNCHANGED <<flavor, client, conn, local, wire>>

\* The failed channel's Close, then another attempt while the window lasts.
GPRejoin ==
    /\ At("start", "rejoin")
    /\ ChannelJoined(OwnChannel("start"))
    /\ \E next \in {"claim"} \cup (IF session.cancelled THEN {} ELSE {"candidate"}) : Goto("start", next)
    /\ UNCHANGED <<flavor, client, session, conn, channels, keys, local, wire>>

GPPublishESP ==
    /\ At("start", "publish")
    /\ IF session.closed \/ session.phase # "awaitingESP"
            \/ session.own # OwnChannel("start") \/ ~IsReady(OwnChannel("start"))
       THEN Goto("start", "claim") /\ UNCHANGED session
       ELSE /\ session' = [session EXCEPT !.phase = "ESP", !.ready = TRUE]
            /\ Goto("start", "reportESP")
    /\ UNCHANGED <<flavor, client, conn, channels, keys, local, wire>>

GPReportESP ==
    /\ At("start", "reportESP")
    /\ Report("datagram")
    /\ Goto("start", "finish")
    /\ UNCHANGED <<flavor, session, conn, channels, keys, local, wire>>

GPFinish ==
    /\ At("start", "finish")
    /\ IF session.closed \/ ~session.ready
       THEN Goto("start", "failed")
       ELSE pc' = [pc EXCEPT !["start"] = "running", !["control"] = "loop"]
    /\ UNCHANGED <<flavor, client, session, conn, channels, keys, local, wire>>

----------------------------------------------------------------------------
(* openGPST. *)

\* claimGPSTPhase.
GPClaim(a) ==
    /\ At(a, "claim")
    /\ IF session.closed
       THEN CallTerminate(a) /\ UNCHANGED local
       ELSE /\ session' = [session EXCEPT !.ready = FALSE, !.generation = @ + 1,
                                          !.own = Nil, !.phase = "startingGPST"]
            /\ local' = [local EXCEPT !.channel[a] = session.own,
                                      !.generation = session.generation + 1]
            /\ Goto(a, "closeOld")
    /\ UNCHANGED <<flavor, client, conn, channels, keys, wire>>

GPCloseOld(a) ==
    /\ At(a, "closeOld")
    /\ TerminateChannel(OwnChannel(a), "nil")
    /\ Goto(a, "joinOld")
    /\ UNCHANGED <<flavor, client, session, conn, local, wire>>

\* No transport is active from here on, and ESP is not used again.
GPJoinOld(a) ==
    /\ At(a, "joinOld")
    /\ ChannelJoined(OwnChannel(a))
    /\ Report(NoTransport)
    /\ keys' = IF keys = "live" /\ ~local.checking THEN "destroyed" ELSE keys
    /\ Goto(a, IF local.checking THEN "check" ELSE "gpst")
    /\ UNCHANGED <<flavor, session, conn, channels, local, wire>>

\* newGPSTChannel refuses the configuration.
GPNoGPST(a) ==
    /\ At(a, "gpst")
    /\ CallTerminate(a)
    /\ UNCHANGED <<flavor, client, conn, channels, keys, local, wire>>

Superseded == session.closed \/ session.generation # local.generation

GPNewGPST(a) ==
    /\ At(a, "gpst")
    /\ MayCreateChannel
    /\ Holding(a, NextChannel)
    /\ IF Superseded \/ session.phase # "startingGPST"
       THEN /\ channels' = [channels EXCEPT ![NextChannel] = Terminated(NewChannel("gpst"), "nil")]
            /\ CallTerminate(a)
       ELSE /\ channels' = [channels EXCEPT ![NextChannel] = Dialing(NewChannel("gpst"))]
            /\ session' = [session EXCEPT !.own = NextChannel]
            /\ Goto(a, "gpstDial")
    /\ UNCHANGED <<flavor, client, conn, keys, wire>>

GPDialGPST(a) ==
    /\ At(a, "gpstDial")
    /\ DialEnds(a, OwnChannel(a), "gpstUp", "gpstDown", {"err", "fatal"})
    /\ UNCHANGED <<flavor, client, session, conn, local, wire>>

GPGPSTDown(a) ==
    /\ At(a, "gpstDown")
    /\ Goto(a, "terminating")
    /\ session' = Called([session EXCEPT !.own = IF @ = OwnChannel(a) THEN Nil ELSE @])
    /\ UNCHANGED <<flavor, client, conn, channels, keys, local, wire>>

GPGPSTUp(a) ==
    /\ At(a, "gpstUp")
    /\ IF Superseded \/ session.own # OwnChannel(a) \/ ~IsReady(OwnChannel(a))
       THEN /\ TerminateChannel(OwnChannel(a), "nil")
            /\ Goto(a, "abandon")
            /\ UNCHANGED session
       ELSE /\ session' = [session EXCEPT !.phase = "GPST", !.ready = TRUE]
            /\ Goto(a, "reportGPST")
            /\ UNCHANGED <<channels, keys>>
    /\ UNCHANGED <<flavor, client, conn, local, wire>>

GPAbandon(a) ==
    /\ At(a, "abandon")
    /\ ChannelJoined(OwnChannel(a))
    /\ CallTerminate(a)
    /\ UNCHANGED <<flavor, client, conn, channels, keys, local, wire>>

GPReportGPST(a) ==
    /\ At(a, "reportGPST")
    /\ Report("stream")
    /\ Goto(a, IF a = "start" THEN "finish" ELSE "loop")
    /\ UNCHANGED <<flavor, session, conn, channels, keys, local, wire>>

GPOpen(a) ==
    \/ GPClaim(a) \/ GPCloseOld(a) \/ GPJoinOld(a) \/ GPNoGPST(a) \/ GPNewGPST(a)
    \/ GPDialGPST(a) \/ GPGPSTDown(a) \/ GPGPSTUp(a) \/ GPAbandon(a) \/ GPReportGPST(a)

----------------------------------------------------------------------------
(* controlLoop. *)

\* activeTransportDone.
GPLoop ==
    /\ At("control", "loop")
    /\ local' = [local EXCEPT
           !.phase = session.phase, !.generation = session.generation, !.checking = FALSE,
           !.channel["control"] = IF session.phase \in {"ESP", "GPST"} THEN session.own ELSE Nil]
    /\ Goto("control", "select")
    /\ UNCHANGED <<flavor, client, session, conn, channels, keys, wire>>

OwnsTransport == ~Superseded /\ session.phase = local.phase

\* The transport ended.
GPTransportDone ==
    /\ At("control", "select")
    /\ OwnChannel("control") # Nil
    /\ channels[OwnChannel("control")].done # "open"
    /\ IF ~OwnsTransport THEN Goto("control", "loop") /\ UNCHANGED session
       ELSE IF local.phase = "ESP" /\ channels[OwnChannel("control")].done # "fatal"
       THEN Goto("control", "claim") /\ UNCHANGED session
       ELSE CallTerminate("control")
    /\ UNCHANGED <<flavor, client, conn, channels, keys, local, wire>>

GPCancelled ==
    /\ At("control", "select")
    /\ session.cancelled
    /\ Goto("control", "exited")
    /\ UNCHANGED <<flavor, client, session, conn, channels, keys, local, wire>>

GPRekey ==
    /\ At("control", "select")
    /\ Ends("control", TRUE)
    /\ UNCHANGED <<flavor, client, conn, channels, keys, local, wire>>

\* performPeriodicHIP: GPST is closed for the check and opened again after it.
GPPeriodicCheck ==
    /\ At("control", "select")
    /\ Event
    /\ session' = Counted(session)
    /\ local' = [local EXCEPT !.checking = session.phase = "GPST"]
    /\ Goto("control", IF session.phase = "GPST" THEN "claim" ELSE "check")
    /\ UNCHANGED <<flavor, client, conn, channels, keys, wire>>

GPCheckAgain ==
    /\ At("control", "check")
    /\ \/ CallTerminate("control") /\ UNCHANGED local
       \/ /\ Goto("control", IF local.checking THEN "claim" ELSE "loop")
          /\ local' = [local EXCEPT !.checking = FALSE]
          /\ UNCHANGED session
    /\ UNCHANGED <<flavor, client, conn, channels, keys, wire>>

----------------------------------------------------------------------------
(* WriteDataPacketBuffers. *)

GPWriteBegins ==
    /\ At("writer", "none")
    /\ session.ready /\ ~session.closed
    /\ session.phase \in {"ESP", "GPST"} /\ session.own # Nil
    /\ Holding("writer", session.own)
    /\ Goto("writer", "write")
    /\ UNCHANGED <<flavor, client, session, conn, channels, keys, wire>>

GPWritePacket ==
    /\ At("writer", "write")
    /\ WriteToChannel
    /\ UNCHANGED <<flavor, client, session, conn>>

----------------------------------------------------------------------------
(* Close and terminate. *)

GPClose ==
    /\ At("closer", "none")
    /\ CallTerminate("closer")
    /\ UNCHANGED <<flavor, client, conn, channels, keys, local, wire>>

\* Close also waits for a Start that is still running.
GPJoin ==
    /\ At("closer", "join")
    /\ pc["start"] \in {"none", "failed", "running"}
    /\ Finished("control")
    /\ Goto("closer", "done")
    /\ UNCHANGED <<flavor, client, session, conn, channels, keys, local, wire>>

GPTerminate ==
    \/ /\ session.term = "called"
       /\ session' = [session EXCEPT !.term = "cancelled", !.cancelled = TRUE]
       /\ UNCHANGED <<client, channels, keys, local>>
    \/ /\ session.term = "cancelled"
       /\ session' = [session EXCEPT !.term = "taken", !.ready = FALSE, !.closed = TRUE,
                                     !.phase = "closed", !.generation = @ + 1, !.own = Nil]
       /\ local' = [local EXCEPT !.taken = session.own]
       /\ UNCHANGED <<client, channels, keys>>
    \/ /\ session.term = "taken"
       /\ client' = StopActiveTransport(client, Self)
       /\ TerminateChannel(local.taken, "nil")
       /\ session' = [session EXCEPT !.term = "closing"]
       /\ UNCHANGED local
    \/ /\ session.term = "closing"
       /\ ChannelJoined(local.taken)
       /\ keys' = IF keys = "live" THEN "destroyed" ELSE keys
       /\ session' = [session EXCEPT !.term = "done"]
       /\ local' = [local EXCEPT !.taken = Nil]
       /\ UNCHANGED <<client, channels>>

GPTerminateStep == GPTerminate /\ UNCHANGED <<flavor, conn, pc, wire>>

----------------------------------------------------------------------------
\* Every step of Start ends: the requests and dials carry the session's context.
GPStartStep ==
    \/ GPFetch \/ GPCheck \/ GPNoCandidate \/ GPCandidate \/ GPDialESP \/ GPProbe
    \/ GPAwait \/ GPRejoin \/ GPPublishESP \/ GPReportESP \/ GPFinish \/ GPOpen("start")
GPControlStep ==
    GPLoop \/ GPTransportDone \/ GPCancelled \/ GPCheckAgain \/ GPOpen("control")
GPTimers == GPRekey \/ GPPeriodicCheck
GPWriterStep == GPWriteBegins \/ GPWritePacket

GPNext ==
    /\ flavor = "gp"
    /\ \/ GPStart \/ GPStartStep \/ GPControlStep \/ GPTimers \/ GPWriterStep
       \/ GPClose \/ GPJoin \/ GPTerminateStep

\* What goes on by itself; nothing is assumed of the callers, of the timers and
\* of a stuck GPST write.
GPStarts == flavor = "gp" /\ GPStartStep
GPControls == flavor = "gp" /\ GPControlStep
GPCloses == flavor = "gp" /\ GPJoin
GPTerminates == flavor = "gp" /\ GPTerminateStep
=============================================================================
