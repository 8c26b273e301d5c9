------------------------- MODULE ClientStateProofs -------------------------
(********************************************************************************)
(* Facts about the operators of ClientState that the proofs of the modules      *)
(* built on it share.                                                           *)
(********************************************************************************)
EXTENDS ClientState, TLAPS

----------------------------------------------------------------------------
(* The operators of ClientState keep the client's type. *)

\* A new client has its type.
LEMMA NewClientType == NewClient \in Client
BY DEF NewClient, Client, NoSession, NoTransport, Transports

\* The record setCurrentSession makes has the client's type.
LEMMA NewSessionType ==
    ASSUME NEW c \in Client, NEW s \in Nat, NEW g \in Nat
    PROVE  [c EXCEPT !.sessionGeneration = g, !.currentGeneration = g, !.currentSession = s,
                     !.publishedSession = NoSession, !.publishedGeneration = 0,
                     !.initialRevision = 0, !.publishedRevision = 0,
                     !.transportSession = s, !.activeTransport = NoTransport] \in Client
BY DEF Client, NoSession, NoTransport, Transports

\* setCurrentSession keeps the client's type.
LEMMA SetCurrentSessionType ==
    ASSUME NEW c \in Client, NEW s \in Nat
    PROVE  SetCurrentSession(c, s) \in Client
<1>1. c.sessionGeneration + 1 \in Nat
  BY DEF Client
<1> QED
  BY <1>1, NewSessionType, Zenon DEF SetCurrentSession

\* publishCurrentSession keeps the client's type.
LEMMA PublishCurrentSessionType ==
    ASSUME NEW c \in Client, NEW s \in Nat, NEW revision \in Nat
    PROVE  PublishCurrentSession(c, s, revision) \in Client
BY DEF PublishCurrentSession, Client

\* publishTunnelConfigurationEvent keeps the client's type.
LEMMA PublishRevisionType ==
    ASSUME NEW c \in Client, NEW revision \in Nat
    PROVE  PublishRevision(c, revision) \in Client
BY DEF PublishRevision, Client

\* clearCurrentSession keeps the client's type.
LEMMA ClearCurrentSessionType ==
    ASSUME NEW c \in Client, NEW s \in Nat
    PROVE  ClearCurrentSession(c, s) \in Client
BY DEF ClearCurrentSession, NothingCurrent, Client, NoSession, NoTransport, Transports

\* setTerminalError keeps the client's type.
LEMMA SetTerminalErrorType ==
    ASSUME NEW c \in Client, NEW err \in {"none", "failed", "reconnectTimeout"}
    PROVE  SetTerminalError(c, err) \in Client
BY DEF SetTerminalError, Client, NoSession, NoTransport, Transports

\* The mark of Close keeps the client's type.
LEMMA MarkClosedType ==
    ASSUME NEW c \in Client
    PROVE  MarkClosed(c) \in Client
BY DEF MarkClosed, Client, NoSession, NoTransport, Transports

\* The end of the supervisor keeps the client's type.
LEMMA CloseSupervisorStateType ==
    ASSUME NEW c \in Client
    PROVE  CloseSupervisorState(c) \in Client
BY DEF CloseSupervisorState, NothingCurrent, Client, NoSession, NoTransport, Transports

\* The start of a transport keeps the client's type.
LEMMA SetActiveTransportType ==
    ASSUME NEW c \in Client, NEW s \in Nat, NEW t \in Transports
    PROVE  SetActiveTransport(c, s, t) \in Client
BY DEF SetActiveTransport, Client

\* The end of a transport keeps the client's type.
LEMMA StopActiveTransportType ==
    ASSUME NEW c \in Client, NEW s \in Nat
    PROVE  StopActiveTransport(c, s) \in Client
BY DEF StopActiveTransport, Client, NoSession, NoTransport, Transports

----------------------------------------------------------------------------
(* What the end of the client leaves alone. *)

\* A terminal error and the mark of Close leave the current session and what is
\* published of it alone.
LEMMA EndKeepsSession ==
    ASSUME NEW c \in Client, NEW err, NEW d, d = SetTerminalError(c, err) \/ d = MarkClosed(c)
    PROVE  /\ d.currentSession = c.currentSession
           /\ d.sessionGeneration = c.sessionGeneration
           /\ d.currentGeneration = c.currentGeneration
           /\ d.publishedSession = c.publishedSession
           /\ d.publishedGeneration = c.publishedGeneration
           /\ d.initialRevision = c.initialRevision
           /\ d.publishedRevision = c.publishedRevision
BY DEF SetTerminalError, MarkClosed, Client
=============================================================================
