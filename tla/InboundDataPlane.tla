-------------------------- MODULE InboundDataPlane --------------------------
(********************************************************************************)
(* Packets from the tunnel to the application (client.go): the workers of       *)
(* the current session stamp what they receive with the session's               *)
(* generation and the published configuration revision and push it into the     *)
(* incoming queue; readers pop it, wait until the session it belongs to is      *)
(* published, and drop what the current revision did not receive.               *)
(*                                                                              *)
(* Stamping, pushing, popping and resolving are separate critical sections;     *)
(* between any two of them sessions come and go and revisions advance.  Those   *)
(* changes are the ones of ClientSupervisor, without its reasons for them.      *)
(*                                                                              *)
(* The queue is the bounded sequence BoundedFifo promises, with its wake-ups.   *)
(********************************************************************************)
EXTENDS ClientState, Integers, Sequences, FiniteSets

CONSTANTS
    Capacity,       \* options.QueueLength
    Workers,        \* session goroutines that receive packets
    Readers,        \* goroutines of the application that read
    ReadLimits,     \* the maximumPackets arguments they use; 0 is "all"
    MaxBurst,       \* bound: packets a worker pushes at once
    MaxPackets,     \* bound: packets received
    MaxSessions,    \* bound: sessions connected
    MaxRevisions    \* bound: configuration revisions

ASSUME InboundAssumption ==
    /\ Capacity \in Nat \ {0}
    /\ ReadLimits \subseteq Nat
    /\ {MaxBurst, MaxPackets, MaxSessions, MaxRevisions} \subseteq Nat

VARIABLES
    client,     \* the state under lifecycleAccess
    session,    \* [ready, over, relinked] of the current session: Ready(), Done
                \* closed, carrier replaced and the new revision still to come
    stamps,     \* [last, supervisor, worker]: the last revision, the one the
                \* supervisor is about to publish and the one a worker is
    queue,      \* [items, closed]: incomingDataPackets
    worker,     \* [pc, packets]: pushIncomingDataPacketsWithin
    reader,     \* [pc, limit, batch, kept, heard]: readIncomingDataPackets
    closer,     \* progress of Close
    count       \* [received, settled]: packets received, and the ones delivered,
                \* dropped or released

vars == <<client, session, stamps, queue, worker, reader, closer, count>>

Packet == [id : Nat, from : Workers, generation : Nat, revision : Nat]

Session == [ready : BOOLEAN, over : BOOLEAN, relinked : BOOLEAN]
Stamps == [last : Nat, supervisor : Nat, worker : Nat]
Queue == [items : Seq(Packet), closed : BOOLEAN]
Worker == [pc : {"idle", "try", "push"}, packets : Seq(Packet)]
Reader == [pc : {"idle", "top", "pop", "wait", "resolve", "blocked"},
           limit : Nat, batch : Seq(Packet), kept : Seq(Packet), heard : BOOLEAN]
Count == [received : Nat, settled : Nat]

TypeOK ==
    /\ client \in Client
    /\ session \in Session
    /\ stamps \in Stamps
    /\ queue \in Queue /\ Len(queue.items) <= Capacity
    /\ worker \in [Workers -> Worker]
    /\ reader \in [Readers -> Reader]
    /\ closer \in {"idle", "marked", "stopped", "done"}
    /\ count \in Count

IdleWorker == [pc |-> "idle", packets |-> << >>]
IdleReader == [pc |-> "idle", limit |-> 0, batch |-> << >>, kept |-> << >>, heard |-> FALSE]

Init ==
    /\ client = NewClient
    /\ session = [ready |-> FALSE, over |-> TRUE, relinked |-> FALSE]
    /\ stamps = [last |-> 0, supervisor |-> 0, worker |-> 0]
    /\ queue = [items |-> << >>, closed |-> FALSE]
    /\ worker = [w \in Workers |-> IdleWorker]
    /\ reader = [r \in Readers |-> IdleReader]
    /\ closer = "idle"
    /\ count = [received |-> 0, settled |-> 0]

----------------------------------------------------------------------------
(* The client's lifecycle. *)

\* signalStateChangedLocked: whoever captured the channel and still uses it
\* hears it closing.
SignalStateChanged ==
    reader' = [r \in Readers |->
                 IF reader[r].pc \in {"pop", "wait", "blocked"}
                 THEN [reader[r] EXCEPT !.heard = TRUE] ELSE reader[r]]

\* Mutant: the new session is not signalled.
ConnectSilently ==
    /\ ~client.closed /\ client.terminalError = "none"
    /\ client.currentSession = NoSession
    /\ client.sessionGeneration < MaxSessions
    /\ client' = SetCurrentSession(client, client.sessionGeneration + 1)
    /\ session' = [ready |-> FALSE, over |-> FALSE, relinked |-> FALSE]
    /\ UNCHANGED <<stamps, queue, worker, reader, closer, count>>

Connect ==
    /\ ~client.closed /\ client.terminalError = "none"
    /\ client.currentSession = NoSession
    /\ client.sessionGeneration < MaxSessions
    /\ client' = SetCurrentSession(client, client.sessionGeneration + 1)
    /\ session' = [ready |-> FALSE, over |-> FALSE, relinked |-> FALSE]
    /\ SignalStateChanged
    /\ UNCHANGED <<stamps, queue, worker, closer, count>>

\* Start() makes the session ready; nobody is told yet.
BecomeReady ==
    /\ client.currentSession # NoSession /\ client.publishedSession = NoSession
    /\ ~session.over /\ ~session.ready
    /\ session' = [session EXCEPT !.ready = TRUE]
    /\ UNCHANGED <<client, stamps, queue, worker, reader, closer, count>>

SupervisorStamps ==
    /\ session.ready /\ client.publishedSession = NoSession
    /\ stamps.supervisor = 0
    /\ stamps.last < MaxRevisions
    /\ stamps' = [stamps EXCEPT !.last = @ + 1, !.supervisor = stamps.last + 1]
    /\ UNCHANGED <<client, session, queue, worker, reader, closer, count>>

SupervisorPublishes ==
    /\ stamps.supervisor # 0
    /\ CanPublish(client, client.currentSession, FALSE, session.ready)
    /\ client.currentSession # NoSession
    /\ client' = PublishCurrentSession(client, client.currentSession, stamps.supervisor)
    /\ stamps' = [stamps EXCEPT !.supervisor = 0]
    /\ SignalStateChanged
    /\ UNCHANGED <<session, queue, worker, closer, count>>

\* A PPP session moves to another carrier and is not ready meanwhile.
CarrierLost ==
    /\ session.ready /\ client.publishedSession # NoSession
    /\ ~session.relinked /\ stamps.worker = 0
    /\ session' = [session EXCEPT !.ready = FALSE, !.relinked = TRUE]
    /\ UNCHANGED <<client, stamps, queue, worker, reader, closer, count>>

CarrierReplaced ==
    /\ session.relinked /\ ~session.over /\ ~session.ready
    /\ session' = [session EXCEPT !.ready = TRUE]
    /\ UNCHANGED <<client, stamps, queue, worker, reader, closer, count>>

\* A worker's new configuration: a smaller path MTU, or the new carrier's.
WorkerStamps ==
    /\ session.ready
    /\ stamps.worker = 0
    /\ stamps.last < MaxRevisions
    /\ stamps' = [stamps EXCEPT !.last = @ + 1, !.worker = stamps.last + 1]
    /\ UNCHANGED <<client, session, queue, worker, reader, closer, count>>

\* publishTunnelConfigurationEvent signals only what it changes.
WorkerPublishes ==
    /\ stamps.worker # 0
    /\ client' = PublishRevision(client, stamps.worker)
    /\ stamps' = [stamps EXCEPT !.worker = 0]
    /\ session' = [session EXCEPT !.relinked = FALSE]
    /\ IF client' # client THEN SignalStateChanged ELSE UNCHANGED reader
    /\ UNCHANGED <<queue, worker, closer, count>>

SessionEnds ==
    /\ ~session.over
    /\ session' = [ready |-> FALSE, over |-> TRUE, relinked |-> FALSE]
    /\ UNCHANGED <<client, stamps, queue, worker, reader, closer, count>>

\* clearCurrentSession, after session.Close() waited for the workers.
ClearSession ==
    /\ client.currentSession # NoSession
    /\ session.over
    /\ stamps.worker = 0
    /\ \A w \in Workers : worker[w].pc = "idle"
    /\ client' = ClearCurrentSession(client, client.currentSession)
    /\ stamps' = [stamps EXCEPT !.supervisor = 0]
    /\ SignalStateChanged
    /\ UNCHANGED <<session, queue, worker, closer, count>>

ClientFails ==
    /\ ~client.closed /\ client.terminalError = "none"
    /\ client' = SetTerminalError(client, "failed")
    /\ SignalStateChanged
    /\ UNCHANGED <<session, stamps, queue, worker, closer, count>>

\* Close: mark the client, close the queue, end the session and the supervisor,
\* and release what nobody read.
CloseMarks ==
    /\ closer = "idle"
    /\ closer' = "marked"
    /\ client' = MarkClosed(client)
    /\ SignalStateChanged
    /\ UNCHANGED <<session, stamps, queue, worker, count>>

CloseStopsQueue ==
    /\ closer = "marked"
    /\ closer' = "stopped"
    /\ queue' = [queue EXCEPT !.closed = TRUE]
    /\ UNCHANGED <<client, session, stamps, worker, reader, count>>

CloseDrains ==
    /\ closer = "stopped"
    /\ client.currentSession = NoSession
    /\ closer' = "done"
    /\ queue' = [queue EXCEPT !.items = << >>]
    /\ count' = [count EXCEPT !.settled = @ + Len(queue.items)]
    /\ UNCHANGED <<client, session, stamps, worker, reader>>

Lifecycle ==
    \/ Connect \/ BecomeReady \/ SupervisorStamps \/ SupervisorPublishes
    \/ CarrierLost \/ CarrierReplaced \/ WorkerStamps \/ WorkerPublishes
    \/ SessionEnds \/ ClearSession \/ ClientFails
    \/ CloseMarks \/ CloseStopsQueue \/ CloseDrains

----------------------------------------------------------------------------
(* Workers: pushIncomingDataPacketsWithin. *)

\* The first critical section decides whether the packets are allowed and
\* stamps them.
PushAllowed ==
    /\ ~client.closed
    /\ client.terminalError = "none"
    /\ client.currentSession # NoSession

PushRevision ==
    IF client.publishedSession = client.currentSession /\ session.ready
    THEN client.publishedRevision ELSE 0

Receive(w) ==
    /\ worker[w].pc = "idle"
    /\ client.currentSession # NoSession
    /\ \E n \in 1 .. MaxBurst :
          /\ count.received + n <= MaxPackets
          /\ IF PushAllowed
             THEN /\ worker' = [worker EXCEPT ![w] =
                       [pc |-> "try",
                        packets |-> [i \in 1 .. n |->
                           [id |-> count.received + i, from |-> w,
                            generation |-> client.currentGeneration,
                            revision |-> PushRevision]]]]
                  /\ count' = [count EXCEPT !.received = @ + n]
             ELSE /\ count' = [count EXCEPT !.received = @ + n, !.settled = @ + n]
                  /\ UNCHANGED worker
    /\ UNCHANGED <<client, session, stamps, queue, reader, closer>>

\* Mutant: what is queued already is not counted.
RoomOfEmptyQueue == IF queue.closed THEN 0 ELSE Capacity

Room == IF queue.closed THEN 0 ELSE Capacity - Len(queue.items)
Fitting(n) == IF n < Room THEN n ELSE Room

\* The worker gives up on packets it could not push.
DropRest(w, rest) ==
    /\ worker' = [worker EXCEPT ![w] = IdleWorker]
    /\ count' = [count EXCEPT !.settled = @ + Len(rest)]

\* Mutant: the packets that fitted are pushed again.
TryPushRepeats(w) ==
    /\ worker[w].pc = "try"
    /\ LET packets == worker[w].packets
           n == Fitting(Len(packets))
           rest == SubSeq(packets, n + 1, Len(packets))
       IN  /\ queue' = [queue EXCEPT !.items = @ \o SubSeq(packets, 1, n)]
           /\ \/ /\ rest # << >>
                 /\ worker' = [worker EXCEPT ![w].pc = "push"]
                 /\ UNCHANGED count
              \/ DropRest(w, rest)
    /\ UNCHANGED <<client, session, stamps, reader, closer>>

\* TryPushBatch.  Packets from a stream wait for more room, the ones of a
\* datagram that does not fit are dropped.
TryPush(w) ==
    /\ worker[w].pc = "try"
    /\ LET packets == worker[w].packets
           n == Fitting(Len(packets))
           rest == SubSeq(packets, n + 1, Len(packets))
       IN  /\ queue' = [queue EXCEPT !.items = @ \o SubSeq(packets, 1, n)]
           /\ \/ /\ rest # << >>
                 /\ worker' = [worker EXCEPT ![w].pc = "push", ![w].packets = rest]
                 /\ UNCHANGED count
              \/ DropRest(w, rest)
    /\ UNCHANGED <<client, session, stamps, reader, closer>>

\* PushBatch moves one packet per critical section while there is room ...
PushOne(w) ==
    /\ worker[w].pc = "push"
    /\ Room > 0
    /\ queue' = [queue EXCEPT !.items = Append(@, Head(worker[w].packets))]
    /\ IF Len(worker[w].packets) = 1
       THEN worker' = [worker EXCEPT ![w] = IdleWorker]
       ELSE worker' = [worker EXCEPT ![w].packets = Tail(@)]
    /\ UNCHANGED <<client, session, stamps, reader, closer, count>>

\* ... until the wait is over, the session is cancelled or the queue closed.
PushStops(w) ==
    /\ worker[w].pc = "push"
    /\ DropRest(w, worker[w].packets)
    /\ UNCHANGED <<client, session, stamps, queue, reader, closer>>

WorkerNext(w) == Receive(w) \/ TryPush(w) \/ PushOne(w) \/ PushStops(w)

----------------------------------------------------------------------------
(* Readers: readIncomingDataPackets and resolveIncomingDataPacket. *)

Failed == client.terminalError # "none" \/ client.closed

Read(r) ==
    /\ reader[r].pc = "idle"
    /\ \E limit \in ReadLimits :
          reader' = [reader EXCEPT ![r] = [IdleReader EXCEPT !.pc = "top", !.limit = limit]]
    /\ UNCHANGED <<client, session, stamps, queue, worker, closer, count>>

\* The head of the loop captures stateChanged and reports the client's end.
ReadTop(r) ==
    /\ reader[r].pc = "top"
    /\ reader' = [reader EXCEPT ![r] =
                     IF Failed THEN IdleReader ELSE [@ EXCEPT !.pc = "pop", !.heard = FALSE]]
    /\ UNCHANGED <<client, session, stamps, queue, worker, closer, count>>

PopCount(limit) ==
    IF limit > 0 /\ limit < Len(queue.items) THEN limit ELSE Len(queue.items)

ReadPop(r) ==
    /\ reader[r].pc = "pop"
    /\ LET n == PopCount(reader[r].limit) IN
          /\ IF n = 0
             THEN reader' = [reader EXCEPT ![r].pc = "wait"]
             ELSE reader' = [reader EXCEPT ![r] =
                    [@ EXCEPT !.pc = "resolve", !.batch = SubSeq(queue.items, 1, n),
                              !.heard = FALSE]]
          /\ queue' = [queue EXCEPT !.items = SubSeq(@, n + 1, Len(@))]
    /\ UNCHANGED <<client, session, stamps, worker, closer, count>>

\* Woken by a state change, by the queue, or given up by the caller.
ReadWoken(r) ==
    /\ reader[r].pc = "wait"
    /\ reader[r].heard \/ queue.items # << >> \/ queue.closed
    /\ reader' = [reader EXCEPT ![r].pc = "top", ![r].heard = FALSE]
    /\ UNCHANGED <<client, session, stamps, queue, worker, closer, count>>

ReadCancelled(r) ==
    /\ reader[r].pc = "wait"
    /\ reader' = [reader EXCEPT ![r] = IdleReader]
    /\ UNCHANGED <<client, session, stamps, queue, worker, closer, count>>

\* What resolveIncomingDataPacket makes of a packet in the present state.
Stale(packet) == packet.generation # client.currentGeneration
Resolvable == ReadySession(client, session.ready)
\* Mutant: an early packet is given the revision published by now.
ResolvedToPublished(packet) ==
    IF packet.revision = 0 THEN [packet EXCEPT !.revision = client.publishedRevision] ELSE packet

Resolved(packet) ==
    IF packet.revision = 0 THEN [packet EXCEPT !.revision = client.initialRevision] ELSE packet
Current(packet) ==
    /\ ~Stale(packet)
    /\ Resolvable /\ client.publishedGeneration = packet.generation
    /\ Resolved(packet).revision = client.publishedRevision

\* Can the packet be decided now, or does the reader have to wait?
Decidable(packet) ==
    Stale(packet) \/ (Resolvable /\ client.publishedGeneration = packet.generation)

\* The oldest packet of the batch is kept or dropped.
ResolveDecides(r) ==
    /\ reader[r].pc = "resolve"
    /\ reader[r].batch # << >>
    /\ LET packet == Head(reader[r].batch) IN
          /\ Decidable(packet)
          /\ IF Current(packet)
             THEN /\ reader' = [reader EXCEPT ![r] =
                       [@ EXCEPT !.batch = Tail(reader[r].batch),
                                 !.kept = Append(reader[r].kept, Resolved(packet))]]
                  /\ UNCHANGED count
             ELSE /\ reader' = [reader EXCEPT ![r].batch = Tail(@)]
                  /\ count' = [count EXCEPT !.settled = @ + 1]
    /\ UNCHANGED <<client, session, stamps, queue, worker, closer>>

\* Mutant: the packets already resolved are forgotten.
ReleaseUnresolved(r) ==
    /\ reader' = [reader EXCEPT ![r] = IdleReader]
    /\ count' = [count EXCEPT !.settled = @ + Len(reader[r].batch)]

\* The read fails: everything popped is released.
ReleaseAll(r) ==
    /\ reader' = [reader EXCEPT ![r] = IdleReader]
    /\ count' = [count EXCEPT !.settled = @ + Len(reader[r].kept) + Len(reader[r].batch)]

ResolveFails(r) ==
    /\ reader[r].pc = "resolve"
    /\ reader[r].batch # << >>
    /\ ~Decidable(Head(reader[r].batch))
    /\ Failed
    /\ ReleaseAll(r)
    /\ UNCHANGED <<client, session, stamps, queue, worker, closer>>

\* The session is not published or not ready: wait for the next state.
ResolveWaits(r) ==
    /\ reader[r].pc = "resolve"
    /\ reader[r].batch # << >>
    /\ ~Decidable(Head(reader[r].batch))
    /\ ~Failed
    /\ reader' = [reader EXCEPT ![r].pc = "blocked", ![r].heard = FALSE]
    /\ UNCHANGED <<client, session, stamps, queue, worker, closer, count>>

ResolveWoken(r) ==
    /\ reader[r].pc = "blocked"
    /\ reader[r].heard
    /\ reader' = [reader EXCEPT ![r].pc = "resolve", ![r].heard = FALSE]
    /\ UNCHANGED <<client, session, stamps, queue, worker, closer, count>>

ResolveCancelled(r) ==
    /\ reader[r].pc = "blocked"
    /\ ReleaseAll(r)
    /\ UNCHANGED <<client, session, stamps, queue, worker, closer>>

\* The batch is resolved: hand it over, or start again if nothing is left.
ReadReturns(r) ==
    /\ reader[r].pc = "resolve"
    /\ reader[r].batch = << >>
    /\ IF reader[r].kept = << >>
       THEN reader' = [reader EXCEPT ![r].pc = "top"] /\ UNCHANGED count
       ELSE /\ reader' = [reader EXCEPT ![r] = IdleReader]
            /\ count' = [count EXCEPT !.settled = @ + Len(reader[r].kept)]
    /\ UNCHANGED <<client, session, stamps, queue, worker, closer>>

ReaderNext(r) ==
    \/ Read(r) \/ ReadTop(r) \/ ReadPop(r) \/ ReadWoken(r) \/ ReadCancelled(r)
    \/ ResolveDecides(r) \/ ResolveFails(r) \/ ResolveWaits(r) \/ ResolveWoken(r)
    \/ ResolveCancelled(r) \/ ReadReturns(r)

----------------------------------------------------------------------------
Next ==
    \/ Lifecycle
    \/ \E w \in Workers : WorkerNext(w)
    \/ \E r \in Readers : ReaderNext(r)

Spec == Init /\ [][Next]_vars

----------------------------------------------------------------------------
(* Properties. *)

\* A batch handed to the application belongs to one revision: the check for a
\* "batch spans tunnel revisions" in ReadDataPacketsWithRevision never fires,
\* although every packet is resolved in a critical section of its own.
BatchHasOneRevision ==
    \A r \in Readers : \A i, j \in DOMAIN reader[r].kept :
        reader[r].kept[i].revision = reader[r].kept[j].revision

\* What a worker received in order is kept, resolved and queued in that order.
PerWorkerOrder ==
    \A r \in Readers :
        LET line == reader[r].kept \o reader[r].batch \o queue.items IN
        \A i, j \in DOMAIN line :
            (i < j /\ line[i].from = line[j].from) => line[i].id < line[j].id

\* Every packet received is still on its way, or was delivered, counted as
\* dropped, or released by a failed read or by Close: no buffer is leaked or
\* released twice.
InFlight ==
    LET S == {worker[w].packets : w \in Workers} IN
    {p.id : p \in UNION {{s[i] : i \in DOMAIN s} :
        s \in S \cup {queue.items} \cup {reader[r].batch : r \in Readers}
                \cup {reader[r].kept : r \in Readers}}}
PacketsAccountedFor ==
    count.received = Cardinality(InFlight) + count.settled

\* A reader that waits for a state change has not missed one: what it waits
\* for has not come, or a publication that will wake it is on its way.
NoMissedStateChange ==
    \A r \in Readers :
        /\ reader[r].pc = "blocked" /\ ~reader[r].heard =>
              /\ ~Failed
              /\ ~Decidable(Head(reader[r].batch)) \/ session.relinked
        /\ reader[r].pc = "wait" /\ ~reader[r].heard => ~Failed
=============================================================================
