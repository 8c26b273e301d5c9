-------------------------- MODULE OutboundDataPlane --------------------------
(********************************************************************************)
(* Packets from the application to the tunnel (data_packet_writer.go and        *)
(* the writes of client.go).  A queued write stamps its packets with the        *)
(* ready session, its generation and revision, takes a slot and a place in      *)
(* the outgoing queue for each, and waits for one completion that counts        *)
(* them.  The writer goroutine pops them, writes runs of packets of one call    *)
(* while they are still current, and settles them one by one.  A direct write   *)
(* bypasses the queue.                                                          *)
(*                                                                              *)
(* outgoingDataPacketWriteAccess serializes protocol writes.  A protocol write  *)
(* also holds dataPlaneAccess for reading, which every change of the current    *)
(* session or its revision takes for writing; Close and a terminal error do not.*)
(*                                                                              *)
(* The queue is the sequence BoundedFifo promises; its one consumer is woken    *)
(* whenever something is queued (NoLostWakeup of DataPacketQueue).              *)
(********************************************************************************)
EXTENDS ClientState, Integers, Sequences, FiniteSets

CONSTANTS
    QueueLength,    \* options.QueueLength: slots, and capacity of the queue
    Callers,        \* goroutines of the application that write
    Completions,    \* outboundDataPacketCompletion objects, pooled
    MaxBatch,       \* bound: packets in one call
    MaxCalls,       \* bound: calls
    MaxSessions,    \* bound: sessions connected
    MaxRevisions    \* bound: configuration revisions

None == "none"      \* no completion

ASSUME OutboundAssumption ==
    /\ QueueLength \in Nat \ {0}
    /\ {MaxBatch, MaxCalls, MaxSessions, MaxRevisions} \subseteq Nat
    /\ IsFiniteSet(Callers) /\ IsFiniteSet(Completions)
    /\ Cardinality(Completions) >= Cardinality(Callers)
    /\ None \notin Completions

VARIABLES
    client,         \* the state under lifecycleAccess
    session,        \* [ready, over] of the current session
    revision,       \* the last configuration revision
    queue,          \* [items, closed]: outgoingDataPackets
    slots,          \* tokens in outgoingDataPacketSlots
    gone,           \* outgoingDataPacketClosed is closed
    completion,     \* [remaining, err, done] of every completion
    caller,         \* [pc, stamp, size, left, object, written] of every caller
    writer,         \* [pc, batch, count, err]: runOutgoingDataPacketWriter
    closer,         \* progress of Close
    calls           \* calls begun

vars == <<client, session, revision, queue, slots, gone, completion, caller, writer, closer, calls>>
lifecycle == <<client, session, revision>>

Stamp == [session : Nat, generation : Nat, revision : Nat]
Packet == [caller : Callers, stamp : Stamp, object : Completions]
Session == [ready : BOOLEAN, over : BOOLEAN]
Queue == [items : Seq(Packet), closed : BOOLEAN]
Completion == [remaining : Nat, err : BOOLEAN, done : {"empty", "nil", "error"}]
Caller == [pc : {"idle", "slot", "push", "abort", "wait", "lock", "gate", "write"},
           stamp : Stamp, size : Nat, left : Nat, object : Completions \cup {None}, written : Nat]
Writer == [pc : {"pop", "empty", "wait", "popped", "group", "lock", "write", "settle", "free", "done"},
           batch : Seq(Packet), count : Nat, err : BOOLEAN]

TypeOK ==
    /\ client \in Client
    /\ session \in Session
    /\ revision \in Nat
    /\ queue \in Queue
    /\ slots \in 0 .. QueueLength
    /\ gone \in BOOLEAN
    /\ completion \in [Completions -> Completion]
    /\ caller \in [Callers -> Caller]
    /\ writer \in Writer
    /\ closer \in {"idle", "marked", "queue", "callers", "session", "gate", "supervisor", "done"}
    /\ calls \in Nat

NoStamp == [session |-> NoSession, generation |-> 0, revision |-> 0]
IdleCaller == [pc |-> "idle", stamp |-> NoStamp, size |-> 0, left |-> 0,
               object |-> None, written |-> 0]
FreshCompletion == [remaining |-> 0, err |-> FALSE, done |-> "empty"]

Init ==
    /\ client = NewClient
    /\ session = [ready |-> FALSE, over |-> TRUE]
    /\ revision = 0
    /\ queue = [items |-> << >>, closed |-> FALSE]
    /\ slots = 0
    /\ gone = FALSE
    /\ completion = [x \in Completions |-> FreshCompletion]
    /\ caller = [c \in Callers |-> IdleCaller]
    /\ writer = [pc |-> "pop", batch |-> << >>, count |-> 0, err |-> FALSE]
    /\ closer = "idle"
    /\ calls = 0

----------------------------------------------------------------------------
(* The locks. *)

\* outgoingDataPacketWriteAccess is free.
WriteAccessFree == writer.pc # "write" /\ \A c \in Callers : caller[c].pc \notin {"gate", "write"}

\* dataPlaneAccess.Lock(): no protocol write holds it for reading.
DataPlaneFree == writer.pc # "write" /\ \A c \in Callers : caller[c].pc # "write"

----------------------------------------------------------------------------
(* The client's lifecycle, as ClientSupervisor has it. *)

Connect ==
    /\ DataPlaneFree
    /\ ~client.closed /\ client.terminalError = "none"
    /\ client.currentSession = NoSession
    /\ client.sessionGeneration < MaxSessions
    /\ client' = SetCurrentSession(client, client.sessionGeneration + 1)
    /\ session' = [ready |-> TRUE, over |-> FALSE]
    /\ UNCHANGED <<revision, queue, slots, gone, completion, caller, writer, closer, calls>>

Publish ==
    /\ DataPlaneFree
    /\ client.currentSession # NoSession /\ client.publishedSession = NoSession
    /\ CanPublish(client, client.currentSession, FALSE, session.ready)
    /\ revision < MaxRevisions
    /\ revision' = revision + 1
    /\ client' = PublishCurrentSession(client, client.currentSession, revision + 1)
    /\ UNCHANGED <<session, queue, slots, gone, completion, caller, writer, closer, calls>>

\* Mutant: the revision advances without dataPlaneAccess.
ReconfigureUngated ==
    /\ ~session.over
    /\ revision < MaxRevisions
    /\ revision' = revision + 1
    /\ client' = PublishRevision(client, revision + 1)
    /\ UNCHANGED <<session, queue, slots, gone, completion, caller, writer, closer, calls>>

\* publishTunnelConfigurationEvent by a worker of the session.
Reconfigure ==
    /\ DataPlaneFree
    /\ ~session.over
    /\ revision < MaxRevisions
    /\ revision' = revision + 1
    /\ client' = PublishRevision(client, revision + 1)
    /\ UNCHANGED <<session, queue, slots, gone, completion, caller, writer, closer, calls>>

SessionEnds ==
    /\ ~session.over
    /\ session' = [ready |-> FALSE, over |-> TRUE]
    /\ UNCHANGED <<client, revision, queue, slots, gone, completion, caller, writer, closer, calls>>

ClearSession ==
    /\ DataPlaneFree
    /\ client.currentSession # NoSession /\ session.over
    /\ client' = ClearCurrentSession(client, client.currentSession)
    /\ UNCHANGED <<session, revision, queue, slots, gone, completion, caller, writer, closer, calls>>

\* setTerminalError does not wait for a protocol write.
ClientFails ==
    /\ ~client.closed /\ client.terminalError = "none"
    /\ client' = SetTerminalError(client, "failed")
    /\ UNCHANGED <<session, revision, queue, slots, gone, completion, caller, writer, closer, calls>>

Lifecycle == Connect \/ Publish \/ Reconfigure \/ SessionEnds \/ ClearSession \/ ClientFails

----------------------------------------------------------------------------
(* Close. *)

CloseMarks ==
    /\ closer = "idle"
    /\ closer' = "marked"
    /\ client' = MarkClosed(client)
    /\ UNCHANGED <<session, revision, queue, slots, gone, completion, caller, writer, calls>>

CloseStopsQueue ==
    /\ closer = "marked"
    /\ closer' = "queue"
    /\ queue' = [queue EXCEPT !.closed = TRUE]
    /\ UNCHANGED <<lifecycle, slots, gone, completion, caller, writer, calls>>

CloseStopsCallers ==
    /\ closer = "queue"
    /\ closer' = "callers"
    /\ gone' = TRUE
    /\ UNCHANGED <<lifecycle, queue, slots, completion, caller, writer, calls>>

CloseEndsSession ==
    /\ closer = "callers"
    /\ closer' = "session"
    /\ session' = [ready |-> FALSE, over |-> TRUE]
    /\ UNCHANGED <<client, revision, queue, slots, gone, completion, caller, writer, calls>>

\* Lock and Unlock of dataPlaneAccess, then the supervisor, then the writer.
CloseDrainsGate ==
    /\ closer = "session"
    /\ DataPlaneFree
    /\ closer' = "gate"
    /\ UNCHANGED <<lifecycle, queue, slots, gone, completion, caller, writer, calls>>

CloseJoinsSupervisor ==
    /\ closer = "gate"
    /\ client.currentSession = NoSession
    /\ closer' = "supervisor"
    /\ UNCHANGED <<lifecycle, queue, slots, gone, completion, caller, writer, calls>>

CloseJoinsWriter ==
    /\ closer = "supervisor"
    /\ writer.pc = "done"
    /\ closer' = "done"
    /\ UNCHANGED <<lifecycle, queue, slots, gone, completion, caller, writer, calls>>

Close ==
    \/ CloseMarks \/ CloseStopsQueue \/ CloseStopsCallers \/ CloseEndsSession
    \/ CloseDrainsGate \/ CloseJoinsSupervisor \/ CloseJoinsWriter

----------------------------------------------------------------------------
(* Completions. *)

\* Mutant: only the last packet of a call counts.
CompleteForgetsError(x, err) ==
    [remaining |-> x.remaining - 1, err |-> err,
     done |-> IF x.remaining = 1 THEN IF err THEN "error" ELSE "nil" ELSE x.done]

\* complete(err): the first error sticks, the last packet reports.
Complete(x, err) ==
    LET failed == x.err \/ err
        last == x.remaining = 1
    IN  [remaining |-> x.remaining - 1, err |-> failed,
         done |-> IF last THEN IF failed THEN "error" ELSE "nil" ELSE x.done]

----------------------------------------------------------------------------
(* Callers. *)

PresentStamp == [session |-> client.currentSession, generation |-> client.currentGeneration,
                 revision |-> client.publishedRevision]

\* outboundDataPacketCurrent
StampCurrent(stamp) ==
    /\ ~client.closed /\ client.terminalError = "none"
    /\ client.currentSession = stamp.session /\ client.currentGeneration = stamp.generation
    /\ client.publishedSession = stamp.session
    /\ client.publishedGeneration = stamp.generation
    /\ client.publishedRevision = stamp.revision
    /\ session.ready

\* WriteDataPacketBuffers, or the same at the revision that is published: the
\* stamp is taken in one critical section, and an object from the pool.
BeginQueued(c) ==
    /\ caller[c].pc = "idle"
    /\ calls < MaxCalls
    /\ ReadySession(client, session.ready)
    /\ \E n \in 1 .. MaxBatch, x \in Completions \ {caller[d].object : d \in Callers} :
          /\ caller' = [caller EXCEPT ![c] =
                          [pc |-> "slot", stamp |-> PresentStamp, size |-> n, left |-> n,
                           object |-> x, written |-> 0]]
          /\ completion' = [completion EXCEPT ![x] =
                              [remaining |-> n, err |-> FALSE, done |-> completion[x].done]]
    /\ calls' = calls + 1
    /\ UNCHANGED <<lifecycle, queue, slots, gone, writer, closer>>

TakeSlot(c) ==
    /\ caller[c].pc = "slot"
    /\ slots < QueueLength
    /\ slots' = slots + 1
    /\ caller' = [caller EXCEPT ![c].pc = "push"]
    /\ UNCHANGED <<lifecycle, queue, gone, completion, writer, closer, calls>>

\* Mutant: the call returns although packets of it are queued.
SlotsClosedReturns(c) ==
    /\ caller[c].pc = "slot"
    /\ gone
    /\ caller' = [caller EXCEPT ![c] = IdleCaller]
    /\ UNCHANGED <<lifecycle, queue, slots, gone, completion, writer, closer, calls>>

SlotsClosed(c) ==
    /\ caller[c].pc = "slot"
    /\ gone
    /\ caller' = [caller EXCEPT ![c].pc = "abort"]
    /\ UNCHANGED <<lifecycle, queue, slots, gone, completion, writer, closer, calls>>

PacketOf(c) == [caller |-> c, stamp |-> caller[c].stamp, object |-> caller[c].object]

\* PushBatch of one packet; it would wait for room in a full queue.
Push(c) ==
    /\ caller[c].pc = "push"
    /\ ~queue.closed
    /\ Len(queue.items) < QueueLength
    /\ queue' = [queue EXCEPT !.items = Append(@, PacketOf(c))]
    /\ caller' = [caller EXCEPT ![c].left = @ - 1,
                                ![c].pc = IF caller[c].left = 1 THEN "wait" ELSE "slot"]
    /\ UNCHANGED <<lifecycle, slots, gone, completion, writer, closer, calls>>

\* Mutant: the slot is released here and by the abort.
PushClosedReleasesTwice(c) ==
    /\ caller[c].pc = "push"
    /\ queue.closed
    /\ slots' = slots - 2
    /\ caller' = [caller EXCEPT ![c].pc = "abort"]
    /\ UNCHANGED <<lifecycle, queue, gone, completion, writer, closer, calls>>

PushClosed(c) ==
    /\ caller[c].pc = "push"
    /\ queue.closed
    /\ slots' = slots - 1
    /\ caller' = [caller EXCEPT ![c].pc = "abort"]
    /\ UNCHANGED <<lifecycle, queue, gone, completion, writer, closer, calls>>

\* failUnqueuedOutboundDataPackets, packet by packet.
FailUnqueued(c) ==
    /\ caller[c].pc = "abort"
    /\ completion' = [completion EXCEPT ![caller[c].object] = Complete(@, TRUE)]
    /\ caller' = [caller EXCEPT ![c].left = @ - 1,
                                ![c].pc = IF caller[c].left = 1 THEN "wait" ELSE "abort"]
    /\ UNCHANGED <<lifecycle, queue, slots, gone, writer, closer, calls>>

\* completion.wait() receives, and the object goes back to the pool (whoever
\* gets it next resets its count and its error).
Return(c) ==
    /\ caller[c].pc = "wait"
    /\ completion[caller[c].object].done # "empty"
    /\ completion' = [completion EXCEPT ![caller[c].object] = FreshCompletion]
    /\ caller' = [caller EXCEPT ![c] = IdleCaller]
    /\ UNCHANGED <<lifecycle, queue, slots, gone, writer, closer, calls>>

\* WriteDataPacketsDirectAtRevision with a revision the caller saw published.
BeginDirect(c) ==
    /\ caller[c].pc = "idle"
    /\ calls < MaxCalls
    /\ ReadySession(client, session.ready)
    /\ caller' = [caller EXCEPT ![c] =
                    [IdleCaller EXCEPT !.pc = "lock", !.stamp.revision = client.publishedRevision]]
    /\ calls' = calls + 1
    /\ UNCHANGED <<lifecycle, queue, slots, gone, completion, writer, closer>>

\* The write lock is taken; only then the session is looked up.
DirectLocks(c) ==
    /\ caller[c].pc = "lock"
    /\ WriteAccessFree
    /\ caller' = [caller EXCEPT ![c] =
                    IF /\ ReadySession(client, session.ready)
                       /\ client.publishedRevision = caller[c].stamp.revision
                    THEN [caller[c] EXCEPT !.pc = "gate", !.stamp = PresentStamp]
                    ELSE IdleCaller]
    /\ UNCHANGED <<lifecycle, queue, slots, gone, completion, writer, closer, calls>>

DirectChecks(c) ==
    /\ caller[c].pc = "gate"
    /\ caller' = [caller EXCEPT ![c] =
                    IF StampCurrent(caller[c].stamp) THEN [caller[c] EXCEPT !.pc = "write"]
                    ELSE IdleCaller]
    /\ UNCHANGED <<lifecycle, queue, slots, gone, completion, writer, closer, calls>>

DirectReturns(c) ==
    /\ caller[c].pc = "write"
    /\ caller' = [caller EXCEPT ![c] = IdleCaller]
    /\ UNCHANGED <<lifecycle, queue, slots, gone, completion, writer, closer, calls>>

CallerStep(c) ==
    \/ TakeSlot(c) \/ SlotsClosed(c) \/ Push(c) \/ PushClosed(c) \/ FailUnqueued(c) \/ Return(c)
    \/ DirectLocks(c) \/ DirectChecks(c) \/ DirectReturns(c)

----------------------------------------------------------------------------
(* The writer goroutine. *)

WriterPops ==
    /\ writer.pc = "pop"
    /\ writer' = [writer EXCEPT !.pc = IF queue.items = << >> THEN "empty" ELSE "popped",
                                !.batch = queue.items]
    /\ queue' = [queue EXCEPT !.items = << >>]
    /\ UNCHANGED <<lifecycle, slots, gone, completion, caller, closer, calls>>

\* Nothing was popped: stop if the queue is closed by now, wait otherwise.
WriterFindsNothing ==
    /\ writer.pc = "empty"
    /\ writer' = [writer EXCEPT !.pc = IF queue.closed THEN "done" ELSE "wait"]
    /\ UNCHANGED <<lifecycle, queue, slots, gone, completion, caller, closer, calls>>

WriterWoken ==
    /\ writer.pc = "wait"
    /\ queue.items # << >> \/ queue.closed
    /\ writer' = [writer EXCEPT !.pc = "pop"]
    /\ UNCHANGED <<lifecycle, queue, slots, gone, completion, caller, closer, calls>>

\* What was popped from a queue that is closed by now fails as a whole.
WriterChecksClosed ==
    /\ writer.pc = "popped"
    /\ writer' = IF queue.closed
                 THEN [writer EXCEPT !.pc = "settle", !.count = Len(writer.batch), !.err = TRUE]
                 ELSE [writer EXCEPT !.pc = "group"]
    /\ UNCHANGED <<lifecycle, queue, slots, gone, completion, caller, closer, calls>>

\* The packets at the front of the batch that share a completion.
RunLength(batch) ==
    CHOOSE n \in 1 .. Len(batch) :
        /\ \A i \in 1 .. n : batch[i].object = batch[1].object
        /\ n < Len(batch) => batch[n + 1].object # batch[1].object

\* The next run is written, unless a packet of its call failed already.
WriterGroups ==
    /\ writer.pc = "group"
    /\ writer' = IF writer.batch = << >> THEN [writer EXCEPT !.pc = "pop", !.count = 0, !.err = FALSE]
                 ELSE [writer EXCEPT !.count = RunLength(writer.batch), !.err = FALSE,
                          !.pc = IF completion[writer.batch[1].object].err THEN "settle" ELSE "lock"]
    /\ UNCHANGED <<lifecycle, queue, slots, gone, completion, caller, closer, calls>>

\* Both locks, and the check that the run is still current.
WriterLocks ==
    /\ writer.pc = "lock"
    /\ WriteAccessFree
    /\ writer' = IF StampCurrent(writer.batch[1].stamp)
                 THEN [writer EXCEPT !.pc = "write"]
                 ELSE [writer EXCEPT !.pc = "settle", !.err = TRUE]
    /\ UNCHANGED <<lifecycle, queue, slots, gone, completion, caller, closer, calls>>

\* The session's protocol write succeeds or fails as a whole.
WriterWrites ==
    /\ writer.pc = "write"
    /\ \/ /\ ~session.over
          /\ writer' = [writer EXCEPT !.pc = "settle"]
          /\ caller' = [caller EXCEPT ![writer.batch[1].caller].written = @ + writer.count]
       \/ /\ writer' = [writer EXCEPT !.pc = "settle", !.err = TRUE]
          /\ UNCHANGED caller
    /\ UNCHANGED <<lifecycle, queue, slots, gone, completion, closer, calls>>

\* Mutant: the slot is given back with the completion, too.
WriterFreesTwice ==
    /\ writer.pc = "settle"
    /\ completion' = [completion EXCEPT ![writer.batch[1].object] = Complete(@, writer.err)]
    /\ slots' = slots - 1
    /\ writer' = [writer EXCEPT !.pc = "free", !.batch = Tail(@), !.count = @ - 1]
    /\ UNCHANGED <<lifecycle, queue, gone, caller, closer, calls>>

\* One packet of the run is completed ...
WriterCompletes ==
    /\ writer.pc = "settle"
    /\ completion' = [completion EXCEPT ![writer.batch[1].object] = Complete(@, writer.err)]
    /\ writer' = [writer EXCEPT !.pc = "free", !.batch = Tail(@), !.count = @ - 1]
    /\ UNCHANGED <<lifecycle, queue, slots, gone, caller, closer, calls>>

\* ... and its slot is given back.
WriterFrees ==
    /\ writer.pc = "free"
    /\ slots' = slots - 1
    /\ writer' = [writer EXCEPT !.pc = IF writer.count = 0 THEN "group" ELSE "settle"]
    /\ UNCHANGED <<lifecycle, queue, gone, completion, caller, closer, calls>>

WriterStep ==
    \/ WriterPops \/ WriterFindsNothing \/ WriterWoken \/ WriterChecksClosed \/ WriterGroups
    \/ WriterLocks \/ WriterWrites \/ WriterCompletes \/ WriterFrees

----------------------------------------------------------------------------
\* Everything has been closed and every call has returned.
Finished ==
    /\ closer = "done"
    /\ UNCHANGED vars

Next ==
    \/ Lifecycle
    \/ Close
    \/ \E c \in Callers : BeginQueued(c) \/ BeginDirect(c) \/ CallerStep(c)
    \/ WriterStep
    \/ Finished

Spec == Init /\ [][Next]_vars

\* Goroutines keep running, a protocol write ends (a dead peer ends its
\* session), and the supervisor clears a session that is over.  Mutexes are
\* fair to a waiter (sync.Mutex hands over a starved lock), so a step that
\* waits for one is not passed over forever.
Fairness ==
    /\ \A c \in Callers : SF_vars(CallerStep(c))
    /\ SF_vars(WriterStep)
    /\ WF_vars(CloseStopsQueue \/ CloseStopsCallers \/ CloseEndsSession)
    /\ SF_vars(CloseDrainsGate)
    /\ WF_vars(CloseJoinsSupervisor \/ CloseJoinsWriter)
    /\ SF_vars(ClearSession)

FairSpec == Spec /\ Fairness

----------------------------------------------------------------------------
(* Properties. *)

\* While a protocol write is in progress the session it goes to stays current
\* and published, at the revision the packets were stamped with: session and
\* revision transitions stay behind it (writeQueuedOutboundDataPackets), although
\* the client may fail or be closed meanwhile.
StampPublished(stamp) ==
    /\ client.currentSession = stamp.session /\ client.currentGeneration = stamp.generation
    /\ client.publishedSession = stamp.session /\ client.publishedRevision = stamp.revision
WriteIsCurrent ==
    /\ writer.pc = "write" => \A i \in 1 .. writer.count : StampPublished(writer.batch[i].stamp)
    /\ \A c \in Callers : caller[c].pc = "write" => StampPublished(caller[c].stamp)

\* A call is told "nil" exactly when every packet of it was written, whatever
\* part of it failed, was queued or was still to be queued.
ResultIsHonest ==
    \A c \in Callers :
        (caller[c].pc = "wait" /\ completion[caller[c].object].done # "empty") =>
            (completion[caller[c].object].done = "nil" <=> caller[c].written = caller[c].size)

\* A completion counts exactly the packets of its call that are still to be
\* queued, queued or popped; an object in the pool is referred to by none, so
\* that no late packet completes a later call.
Occurrences(s, x) == Cardinality({i \in DOMAIN s : s[i].object = x})
CompletionCountsPackets ==
    \A x \in Completions :
        LET owners == {c \in Callers : caller[c].object = x}
            travelling == Occurrences(queue.items, x) + Occurrences(writer.batch, x)
        IN  IF owners = {} THEN travelling = 0 /\ completion[x].done = "empty"
            ELSE \A c \in owners : completion[x].remaining = caller[c].left + travelling

\* A slot stands for every packet on its way, so PushBatch, which has no
\* deadline, never has to wait for room.
SlotsBoundQueue ==
    \A c \in Callers : caller[c].pc = "push" => Len(queue.items) < QueueLength

\* What WriteDataPacketBuffers says of itself: it releases every buffer before
\* it returns; so it must return.
WriteReturns == \A c \in Callers : caller[c].pc = "wait" ~> caller[c].pc # "wait"
=============================================================================
