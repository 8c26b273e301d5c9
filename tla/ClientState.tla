---------------------------- MODULE ClientState ----------------------------
(********************************************************************************)
(* The part of the Client that lifecycleAccess (and, where sessions change,     *)
(* dataPlaneAccess) protects: which tunnel session is current, which one is     *)
(* published to readers and writers and at which configuration revision,        *)
(* and whether the client failed or was closed.  Every operator below is        *)
(* one critical section of client_supervisor.go, client.go or transport.go,     *)
(* as a function from the client's state to its next state.  The other          *)
(* modules of the client share them.                                            *)
(*                                                                              *)
(* A session is a number, counted from 1 in the order the sessions are          *)
(* connected; NoSession stands for nil.  Ready(s), the session's own atomic     *)
(* flag, is not part of this state and is passed in where it is consulted.      *)
(********************************************************************************)
EXTENDS Naturals

NoSession == 0
NoTransport == "none"
Transports == {NoTransport, "stream", "datagram"}

Client == [
    closed              : BOOLEAN,
    terminalError       : {"none", "failed", "reconnectTimeout"},
    currentSession      : Nat,
    sessionGeneration   : Nat,
    currentGeneration   : Nat,
    publishedSession    : Nat,
    publishedGeneration : Nat,
    initialRevision     : Nat,
    publishedRevision   : Nat,
    transportSession    : Nat,
    activeTransport     : Transports ]

NewClient == [
    closed              |-> FALSE,
    terminalError       |-> "none",
    currentSession      |-> NoSession,
    sessionGeneration   |-> 0,
    currentGeneration   |-> 0,
    publishedSession    |-> NoSession,
    publishedGeneration |-> 0,
    initialRevision     |-> 0,
    publishedRevision   |-> 0,
    transportSession    |-> NoSession,
    activeTransport     |-> NoTransport ]

----------------------------------------------------------------------------
(* Sessions. *)

\* The body of setCurrentSession; the caller checks closed and the context.
SetCurrentSession(c, s) ==
    [c EXCEPT !.sessionGeneration   = @ + 1,
              !.currentGeneration   = c.sessionGeneration + 1,
              !.currentSession      = s,
              !.publishedSession    = NoSession,
              !.publishedGeneration = 0,
              !.initialRevision     = 0,
              !.publishedRevision   = 0,
              !.transportSession    = s,
              !.activeTransport     = NoTransport]

\* publishCurrentSession's test; cancelled is its context, ready is s.Ready().
CanPublish(c, s, cancelled, ready) ==
    /\ ~c.closed
    /\ c.terminalError = "none"
    /\ ~cancelled
    /\ c.currentSession = s
    /\ ready

PublishCurrentSession(c, s, revision) ==
    [c EXCEPT !.publishedSession    = s,
              !.publishedGeneration = c.currentGeneration,
              !.initialRevision     = revision,
              !.publishedRevision   = revision]

\* The locked part of publishTunnelConfigurationEvent: a newer revision of
\* whichever session is published.
PublishRevision(c, revision) ==
    IF /\ c.publishedSession # NoSession
       /\ c.publishedSession = c.currentSession
       /\ revision > c.publishedRevision
    THEN [c EXCEPT !.publishedRevision = revision]
    ELSE c

NothingCurrent(c) ==
    [c EXCEPT !.currentSession      = NoSession,
              !.publishedSession    = NoSession,
              !.publishedGeneration = 0,
              !.initialRevision     = 0,
              !.publishedRevision   = 0,
              !.transportSession    = NoSession,
              !.activeTransport     = NoTransport]

ClearCurrentSession(c, s) == IF c.currentSession = s THEN NothingCurrent(c) ELSE c

\* A session readers and writers may use: current, published and ready.
ReadySession(c, ready) ==
    /\ ~c.closed
    /\ c.terminalError = "none"
    /\ c.currentSession # NoSession
    /\ c.publishedSession = c.currentSession
    /\ ready

----------------------------------------------------------------------------
(* The end of the client. *)

\* setTerminalError: the first error wins, and none is recorded once closed.
SetTerminalError(c, err) ==
    IF c.closed \/ c.terminalError # "none" THEN c
    ELSE [c EXCEPT !.terminalError    = err,
                   !.transportSession = NoSession,
                   !.activeTransport  = NoTransport]

\* closeSupervisorState, when the supervisor returns.
CloseSupervisorState(c) ==
    NothingCurrent([c EXCEPT !.closed = @ \/ c.terminalError = "none"])

\* The first critical section of Close.
MarkClosed(c) ==
    [c EXCEPT !.closed           = TRUE,
              !.transportSession = NoSession,
              !.activeTransport  = NoTransport]

----------------------------------------------------------------------------
(* The active transport (transport.go). *)

\* Mutant: the transport is not tied to the session that may report it.
SetActiveTransportOfAny(c, s, transport) ==
    IF transport = NoTransport \/ (~c.closed /\ c.terminalError = "none")
    THEN [c EXCEPT !.activeTransport = transport]
    ELSE c

SetActiveTransport(c, s, transport) ==
    IF /\ c.transportSession = s
       /\ transport = NoTransport \/ (~c.closed /\ c.terminalError = "none")
    THEN [c EXCEPT !.activeTransport = transport]
    ELSE c

StopActiveTransport(c, s) ==
    IF c.transportSession = s
    THEN [c EXCEPT !.transportSession = NoSession, !.activeTransport = NoTransport]
    ELSE c
=============================================================================
