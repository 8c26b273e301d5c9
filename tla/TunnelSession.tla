---------------------------- MODULE TunnelSession ----------------------------
(********************************************************************************)
(* What the tunnel sessions of all protocols have in common: one session,       *)
(* the stream connection it shares between its goroutines, the                  *)
(* data channels it brings up, the calls Start, Close and Fail and the          *)
(* writer of the outbound data plane, and the client's view of the session's    *)
(* transport.  The modules of the protocols say what each goroutine does.       *)
(*                                                                              *)
(* Packets that are received do not appear: InboundDataPlane takes them from    *)
(* the session on, and no session waits for it.                                 *)
(********************************************************************************)
EXTENDS ClientState, DatagramChannel, FiniteSets

CONSTANTS
    Flavors,        \* protocols in this instance
    MaxChannels,    \* bound: data channels one session creates
    MaxEvents,      \* bound, by protocol: what server, timers and callers do to one session
    BatchSize       \* packets in the batch the data plane writes

ASSUME TunnelAssumption ==
    /\ Flavors \subseteq {"anyconnect", "gp", "nc", "pulse", "ppp"}
    /\ MaxChannels \in Nat
    /\ MaxEvents \in [Flavors -> Nat]
    /\ BatchSize \in Nat \ {0}

Packets == 1 .. BatchSize

Actors == {"start", "closer", "reader", "timer", "control", "writer"}
Nobody == "nobody"
Self == 1           \* this session, among the client's sessions
Nil == 0            \* no channel

VARIABLES
    flavor,
    client,     \* the client's state (ClientState)
    session,    \* the fields of the session
    conn,       \* the session's stream connection
    channels,   \* the data channels created so far
    keys,       \* whether the ESP keys of the configuration exist
    pc,         \* where each goroutine is
    local,      \* the variables of the goroutines
    wire        \* how often each packet of the batch was handed to a network

vars == <<flavor, client, session, conn, channels, keys, pc, local, wire>>

Phases == {"starting", "awaitingESP", "ESP", "startingGPST", "GPST", "closed"}

Session == [
    closed     : BOOLEAN,
    cancelled  : BOOLEAN,    \* the session's context is done
    ready      : BOOLEAN,
    term       : {"no", "called", "cancelled", "taken", "closing", "done"},  \* doneOnce
    own        : 0 .. MaxChannels,      \* s.dtls, s.esp or s.gpst
    udp        : BOOLEAN,    \* the server offers a datagram transport
    generation : Nat,        \* GP
    phase      : Phases,     \* GP
    connected  : BOOLEAN,    \* NC, Pulse: Start has installed the connection
    espEnabled : BOOLEAN,    \* NC: both sides have agreed on ESP
    espLock    : Actors \cup {Nobody},  \* NC: who holds espControlAccess
    keyed      : BOOLEAN,    \* Pulse: s.espKeys is not nil
    suppressed : BOOLEAN,    \* Pulse: no ESP until the next rekey
    events     : Nat ]

Local == [
    channel    : [Actors -> 0 .. MaxChannels],  \* the channel a goroutine works on
    taken      : 0 .. MaxChannels,  \* the channel terminate took from the session
    result     : {"open", "nil", "fatal"},  \* AnyConnect: initialResult
    next       : Nat,               \* the packet the writer is at
    phase      : Phases,            \* GP: what the control loop last saw
    generation : Nat,
    checking   : BOOLEAN,           \* GP: a HIP check interrupts GPST
    wasEnabled : BOOLEAN,           \* NC: what readLoop found when it took ESP off
    pending    : 0 .. BatchSize ]   \* Pulse: packets that wait for a flush

\* Every variable has its type.
TypeOK ==
    /\ flavor \in Flavors
    /\ client \in Client
    /\ session \in Session
    /\ conn \in [st : {"open", "closed"}, holder : Actors \cup {Nobody}, deadline : BOOLEAN]
    /\ channels \in [1 .. MaxChannels -> Channel]
    /\ keys \in {"none", "live", "destroyed"}
    /\ pc \in [Actors -> STRING]
    /\ local \in Local
    /\ wire \in [Packets -> Nat]

Init ==
    /\ flavor \in Flavors
    /\ client = SetCurrentSession(NewClient, Self)
    /\ \E udp \in BOOLEAN :
         session = [closed |-> FALSE, cancelled |-> FALSE, ready |-> FALSE,
                    term |-> "no", own |-> Nil, udp |-> udp, generation |-> 0,
                    phase |-> "starting", connected |-> FALSE, espEnabled |-> FALSE,
                    espLock |-> Nobody, keyed |-> FALSE, suppressed |-> FALSE, events |-> 0]
    \* An AnyConnect session is given its connection; GlobalProtect has none
    \* beside its channels, the others make theirs.
    /\ conn = [st |-> IF flavor = "anyconnect" THEN "open" ELSE "closed",
               holder |-> Nobody, deadline |-> FALSE]
    /\ channels = [c \in 1 .. MaxChannels |-> NoChannel]
    /\ keys = "none"
    /\ pc = [a \in Actors |-> "none"]
    /\ local = [channel |-> [a \in Actors |-> Nil], taken |-> Nil, result |-> "open",
                next |-> 1, phase |-> "starting", generation |-> 0, checking |-> FALSE,
                wasEnabled |-> FALSE, pending |-> 0]
    /\ wire = [p \in Packets |-> 0]

At(a, label) == pc[a] = label
Goto(a, label) == pc' = [pc EXCEPT ![a] = label]
Holding(a, c) == local' = [local EXCEPT !.channel[a] = c]
Report(transport) == client' = SetActiveTransport(client, Self, transport)
\* The writer returns; it forgets its variables.
Written(l) == [l EXCEPT !.next = 1, !.pending = 0, !.channel["writer"] = Nil]
WriterReturns == Goto("writer", "done") /\ local' = Written(local)
NextPacket ==
    IF local.next = BatchSize THEN WriterReturns
    ELSE local' = [local EXCEPT !.next = @ + 1] /\ UNCHANGED pc
Sent(ps) == wire' = [p \in Packets |-> IF p \in ps THEN wire[p] + 1 ELSE wire[p]]

----------------------------------------------------------------------------
(* terminate runs once, on the goroutine that calls it first; the others wait *)
(* for it to finish.  Its steps are in the modules of the protocols.          *)

Called(s) == IF s.term = "no" THEN [s EXCEPT !.term = "called"] ELSE s

CallTerminate(a) == Goto(a, "terminating") /\ session' = Called(session)

\* Control packets and periodic checks, a peer or a connection that dies, a
\* rekey, Fail and the client's Close: MaxEvents[flavor] of these happen to a session.
Event == session.events < MaxEvents[flavor]
Counted(s) == [s EXCEPT !.events = @ + 1]

\* a meets an error: of its own accord, or because the session is ending.
Ends(a, spontaneous) ==
    /\ spontaneous => Event
    /\ Goto(a, "terminating")
    /\ session' = Called(IF spontaneous THEN Counted(session) ELSE session)

TerminateReturns(a) ==
    /\ At(a, "terminating")
    /\ session.term = "done"
    /\ Goto(a, CASE a = "start" -> "failed"
                 [] a = "closer" -> "join"
                 [] a = "writer" -> "done"
                 [] OTHER -> "exited")
    \* A caller that still holds the connection (writePacket) lets it go.
    /\ conn' = [conn EXCEPT !.holder = IF @ = a THEN Nobody ELSE @]
    /\ local' = IF a = "writer" THEN Written(local) ELSE [local EXCEPT !.channel[a] = Nil]
    /\ UNCHANGED <<flavor, client, session, channels, keys, wire>>

\* Fail, called by RestartSession, Suspend or the event dispatcher.
Fail ==
    /\ session.term = "no"
    /\ Event
    /\ session' = Called(Counted(session))
    /\ UNCHANGED <<flavor, client, conn, channels, keys, pc, local, wire>>

\* Client.Close marks the client closed and cancels the context of every
\* session, before it calls Close on the current one.
ClientCloses ==
    /\ ~client.closed
    /\ Event
    /\ client' = MarkClosed(client)
    /\ session' = [Counted(session) EXCEPT !.cancelled = TRUE]
    /\ UNCHANGED <<flavor, conn, channels, keys, pc, local, wire>>

\* The workers the session's waitGroup counts are gone.
Finished(a) == pc[a] \in {"none", "exited"}

----------------------------------------------------------------------------
(* The stream connection.  One goroutine writes at a time; the write ends, or *)
(* it is stuck until the server reads, the connection is closed or a deadline *)
(* passes.                                                                    *)

Acquire(a) ==
    /\ conn.holder = Nobody
    /\ conn' = [conn EXCEPT !.holder = a]

Interrupted == conn.st = "closed" \/ conn.deadline

\* The end of a's write; ok says whether it succeeded.
WriteEnds(a, ok) ==
    /\ conn.holder = a
    /\ ok => conn.st = "open"
    /\ conn' = [conn EXCEPT !.holder = Nobody]

\* A goroutine that is not inside a write, or whose write cannot stay there.
Unblocked(a) == conn.holder = a => Interrupted

----------------------------------------------------------------------------
(* Data channels. *)

NextChannel == Cardinality({c \in 1 .. MaxChannels : channels[c].st # "none"}) + 1
MayCreateChannel == NextChannel <= MaxChannels

IsReady(c) == c # Nil /\ channels[c].ready

\* GlobalProtect keeps the keys of an ESP channel that never became ready
\* (PreserveKeysOnStartupFailure), Pulse those of any that failed
\* (PreserveKeysOnFailure).
Preserved == CASE flavor = "gp" -> "startup" [] flavor = "pulse" -> "failure" [] OTHER -> "never"

\* Network Connect and Pulse log what Done delivers, and treat every end alike.
Delivered(err) == IF flavor \in {"nc", "pulse"} THEN "nil" ELSE err

\* terminate(err) on channel c.
TerminateChannel(c, err) ==
    IF c = Nil THEN UNCHANGED <<channels, keys>>
    ELSE /\ channels' = [channels EXCEPT ![c] = Terminated(@, Delivered(err))]
         /\ keys' = IF DestroysKeys(channels[c], err, Preserved) THEN "destroyed" ELSE keys

ChannelJoined(c) == c # Nil => Joined(channels[c])

\* The dial of Start ends; the caller a goes to one of the labels.
DialEnds(a, c, up, down, failures) ==
    \/ /\ channels[c].st = "dialing"
       /\ channels' = [channels EXCEPT ![c] = Connected(@)]
       /\ Goto(a, up)
       /\ UNCHANGED keys
    \/ \E err \in failures :
          /\ TerminateChannel(c, err)
          /\ Goto(a, down)

\* SendProbe on channel c: a goes on, or the probe fails, which ends the channel
\* unless it has ended before.
ProbeEnds(a, c, sent, failed) ==
    \/ /\ channels[c].st = "up"
       /\ keys = "live"
       /\ Goto(a, sent)
       /\ UNCHANGED <<channels, keys>>
    \/ /\ \E err \in {"err", "exhausted"} : TerminateChannel(c, err)
       /\ Goto(a, failed)

\* The writer's next packet over its channel; the first one that fails ends the
\* batch.
WriteToChannel ==
    LET c == local.channel["writer"] IN
    \/ /\ IsReady(c)
       /\ channels[c].kind = "esp" => keys = "live"
       /\ Sent({local.next}) /\ NextPacket
       /\ UNCHANGED <<channels, keys>>
    \/ /\ IF IsReady(c)
          THEN \E err \in {"err"} \cup (IF channels[c].kind = "esp" THEN {"exhausted"} ELSE {}) :
                   TerminateChannel(c, err)
          ELSE UNCHANGED <<channels, keys>>
       /\ WriterReturns
       /\ UNCHANGED wire

\* The channel's readLoop: an answered probe, or an error that ends the channel.
ReadProbeResponse(c) ==
    /\ channels[c].workers
    /\ channels[c].kind = "esp"
    /\ Established(channels[c]) # channels[c]
    /\ channels' = [channels EXCEPT ![c] = Established(@)]
    /\ UNCHANGED <<flavor, client, session, conn, keys, pc, local, wire>>

ReadFails(c) ==
    /\ channels[c].workers
    /\ channels[c].st = "up"
    \* The connection ended ("nil") or failed, which only matters for the keys
    \* of ESP, or the peer sent what was not negotiated.
    /\ \E err \in {"err", "fatal"} \cup (IF channels[c].kind = "esp" THEN {"nil"} ELSE {}) :
          TerminateChannel(c, err)
    /\ Event
    /\ session' = Counted(session)
    /\ UNCHANGED <<flavor, client, conn, pc, local, wire>>

\* The channel's timerLoop: the peer is dead, or a DTLS rekey is due.
TimerEnds(c) ==
    /\ channels[c].workers
    /\ channels[c].ready
    /\ \E err \in {"err"} \cup (IF channels[c].kind = "dtls" THEN {"rekey"} ELSE {}) :
          TerminateChannel(c, err)
    /\ Event
    /\ session' = Counted(session)
    /\ UNCHANGED <<flavor, client, conn, pc, local, wire>>

\* The workers of a terminated channel return.
WorkersReturn(c) ==
    /\ channels[c].workers /\ channels[c].st = "closed"
    /\ channels' = [channels EXCEPT ![c] = WorkersGone(@)]
    /\ UNCHANGED <<flavor, client, session, conn, keys, pc, local, wire>>

ChannelProceeds == \E c \in 1 .. MaxChannels : WorkersReturn(c)
ChannelActs == \E c \in 1 .. MaxChannels : ReadProbeResponse(c) \/ ReadFails(c) \/ TimerEnds(c)
=============================================================================
