-------------------------- MODULE DataPacketQueue --------------------------
(********************************************************************************)
(* The ring buffer both data planes of the client use                           *)
(* (data_packet_queue.go).  A mutex guards the ring; two channels carry the     *)
(* wake-ups:                                                                    *)
(*                                                                              *)
(*   notEmpty  a channel of capacity one.  A token in it wakes one              *)
(*             consumer.  Close() closes it, which wakes every consumer;        *)
(*             sending on it afterwards would panic.                            *)
(*   notFull   a broadcast channel: it is closed and replaced whenever a        *)
(*             full queue gets room.  A producer that finds the queue full      *)
(*             captures the channel under the mutex and waits for it after      *)
(*             unlocking.  What matters of a captured channel is whether it     *)
(*             is still the open one, so the model keeps the set of             *)
(*             producers that hold the open one.                                *)
(*                                                                              *)
(* Each action is one critical section of the mutex or one channel              *)
(* operation outside of it.                                                     *)
(********************************************************************************)
EXTENDS Integers, Sequences, FiniteSets

CONSTANTS
    Capacity,    \* length of the ring
    Producers,   \* goroutines that push
    Consumers,   \* goroutines that pop
    Item,        \* the packets
    Zero,        \* the zero value an empty slot holds
    MaxBatch,    \* bound: packets in one call of PushBatch or TryPushBatch
    PopLimits    \* the maximumItems arguments consumers use; 0 is "all"

ASSUME QueueAssumption ==
    /\ Capacity \in Nat \ {0}
    /\ MaxBatch \in Nat \ {0}
    /\ PopLimits \subseteq Nat
    /\ Zero \notin Item

VARIABLES
    items,       \* the ring
    head,        \* index of the oldest item
    length,      \* number of items
    closed,      \* Close() was called; notEmpty is then closed as well
    notEmpty,    \* a token is in the notEmpty channel
    panicked,    \* a send hit the closed notEmpty channel
    notFull,     \* producers whose captured notFull channel is still open
    producer,    \* producer's progress: [pc, batch]
    consumer     \* consumer's progress

ring == <<items, head, length>>
vars == <<items, head, length, closed, notEmpty, panicked, notFull, producer, consumer>>

Batches == UNION { [1 .. n -> Item] : n \in 1 .. MaxBatch }

TypeOK ==
    /\ items \in [0 .. Capacity - 1 -> Item \cup {Zero}]
    /\ head \in 0 .. Capacity - 1
    /\ length \in 0 .. Capacity
    /\ closed \in BOOLEAN
    /\ notEmpty \in BOOLEAN
    /\ panicked \in BOOLEAN
    /\ notFull \subseteq Producers
    /\ producer \in [Producers -> [pc : {"idle", "push", "wait"}, batch : Seq(Item)]]
    /\ consumer \in [Consumers -> {"idle", "pop", "wake", "wait"}]

Init ==
    /\ items = [i \in 0 .. Capacity - 1 |-> Zero]
    /\ head = 0
    /\ length = 0
    /\ closed = FALSE
    /\ notEmpty = FALSE
    /\ panicked = FALSE
    /\ notFull = {}
    /\ producer = [p \in Producers |-> [pc |-> "idle", batch |-> << >>]]
    /\ consumer = [c \in Consumers |-> "idle"]

----------------------------------------------------------------------------
(* Channel helpers. *)

\* signalNotEmptyLocked: a token unless one is there already; on a closed
\* channel the send panics, even inside a select.
SignalNotEmpty ==
    /\ panicked' = (panicked \/ closed)
    /\ notEmpty' = TRUE

\* signalNotFullLocked: close the channel every waiting producer holds, and
\* replace it by a new one nobody holds yet.
SignalNotFull == notFull' = {}

\* Mutant: the index is not wrapped at the end of the ring.
SlotWithoutWrap(i) == head + i

Slot(i) == (head + i) % Capacity

\* The ring after the first n packets of batch are stored behind its tail.
Stored(batch, n) ==
    [k \in 0 .. Capacity - 1 |->
        IF \E i \in 1 .. n : Slot(length + i - 1) = k
        THEN batch[CHOOSE i \in 1 .. n : Slot(length + i - 1) = k]
        ELSE items[k]]

\* The ring after its oldest n slots are reset.
Cleared(n) ==
    [k \in 0 .. Capacity - 1 |->
        IF \E i \in 0 .. n - 1 : Slot(i) = k THEN Zero ELSE items[k]]

----------------------------------------------------------------------------
(* Producers. *)

\* A PushBatch call begins.
PushBatch(p) ==
    /\ producer[p].pc = "idle"
    /\ \E batch \in Batches :
          producer' = [producer EXCEPT ![p] = [pc |-> "push", batch |-> batch]]
    /\ UNCHANGED <<ring, closed, notEmpty, panicked, notFull, consumer>>

\* The call ends, with or without everything pushed.
PushReturn(p) == producer' = [producer EXCEPT ![p] = [pc |-> "idle", batch |-> << >>]]

\* Mutant: a packet is stored in a closed queue.
PushOneUnchecked(p) ==
    /\ producer[p].pc = "push"
    /\ length < Capacity
    /\ items' = Stored(producer[p].batch, 1)
    /\ length' = length + 1
    /\ IF length = 0 THEN SignalNotEmpty ELSE UNCHANGED <<notEmpty, panicked>>
    /\ IF Len(producer[p].batch) = 1
       THEN PushReturn(p)
       ELSE producer' = [producer EXCEPT ![p].batch = Tail(@)]
    /\ UNCHANGED <<head, closed, notFull, consumer>>

\* Mutant: the wake-up is sent for the second packet.
PushOneSignalsLate(p) ==
    /\ producer[p].pc = "push"
    /\ ~closed
    /\ length < Capacity
    /\ items' = Stored(producer[p].batch, 1)
    /\ length' = length + 1
    /\ IF length = 1 THEN SignalNotEmpty ELSE UNCHANGED <<notEmpty, panicked>>
    /\ IF Len(producer[p].batch) = 1
       THEN PushReturn(p)
       ELSE producer' = [producer EXCEPT ![p].batch = Tail(@)]
    /\ UNCHANGED <<head, closed, notFull, consumer>>

\* One iteration under the mutex stores one packet.
PushOne(p) ==
    /\ producer[p].pc = "push"
    /\ ~closed
    /\ length < Capacity
    /\ items' = Stored(producer[p].batch, 1)
    /\ length' = length + 1
    /\ IF length = 0 THEN SignalNotEmpty ELSE UNCHANGED <<notEmpty, panicked>>
    /\ IF Len(producer[p].batch) = 1
       THEN PushReturn(p)
       ELSE producer' = [producer EXCEPT ![p].batch = Tail(@)]
    /\ UNCHANGED <<head, closed, notFull, consumer>>

\* The queue is full: capture notFull, then wait for it unlocked.
PushFull(p) ==
    /\ producer[p].pc = "push"
    /\ ~closed
    /\ length = Capacity
    /\ notFull' = notFull \cup {p}
    /\ producer' = [producer EXCEPT ![p].pc = "wait"]
    /\ UNCHANGED <<ring, closed, notEmpty, panicked, consumer>>

\* The captured channel was closed.
PushWoken(p) ==
    /\ producer[p].pc = "wait"
    /\ p \notin notFull
    /\ producer' = [producer EXCEPT ![p].pc = "push"]
    /\ UNCHANGED <<ring, closed, notEmpty, panicked, notFull, consumer>>

\* The iteration finds the queue closed.
PushClosed(p) ==
    /\ producer[p].pc = "push"
    /\ closed
    /\ PushReturn(p)
    /\ UNCHANGED <<ring, closed, notEmpty, panicked, notFull, consumer>>

\* The caller's context ends, before an iteration or during the wait.
PushCancelled(p) ==
    /\ producer[p].pc \in {"push", "wait"}
    /\ PushReturn(p)
    /\ notFull' = notFull \ {p}
    /\ UNCHANGED <<ring, closed, notEmpty, panicked, consumer>>

\* TryPushBatch stores what fits and returns, in one critical section.
TryPushBatch(p) ==
    /\ producer[p].pc = "idle"
    /\ ~closed
    /\ length < Capacity
    /\ \E batch \in Batches :
          LET room == Capacity - length
              count == IF Len(batch) < room THEN Len(batch) ELSE room
          IN  /\ items' = Stored(batch, count)
              /\ length' = length + count
    /\ IF length = 0 THEN SignalNotEmpty ELSE UNCHANGED <<notEmpty, panicked>>
    /\ UNCHANGED <<head, closed, notFull, producer, consumer>>

----------------------------------------------------------------------------
(* Consumers: pop, and wait for a wake-up when there was nothing. *)

\* A consumer asks for packets.
BeginPop(c) ==
    /\ consumer[c] = "idle"
    /\ consumer' = [consumer EXCEPT ![c] = "pop"]
    /\ UNCHANGED <<ring, closed, notEmpty, panicked, notFull, producer>>

PopReturn(c) == consumer' = [consumer EXCEPT ![c] = "idle"]

PopCount(limit) == IF limit > 0 /\ limit < length THEN limit ELSE length

\* Mutant: a queue left non-empty does not pass the wake-up on.
PopIntoWithoutSignal(c) ==
    /\ consumer[c] = "pop"
    /\ length > 0
    /\ \E limit \in PopLimits : LET count == PopCount(limit) IN
          /\ items' = Cleared(count)
          /\ head' = Slot(count)
          /\ length' = length - count
    /\ IF length = Capacity THEN SignalNotFull ELSE UNCHANGED notFull
    /\ PopReturn(c)
    /\ UNCHANGED <<closed, notEmpty, panicked, producer>>

\* PopInto with something to take.  A queue left non-empty passes the wake-up
\* on; an emptied one takes a stale token back.
PopInto(c) ==
    /\ consumer[c] = "pop"
    /\ length > 0
    /\ \E limit \in PopLimits : LET count == PopCount(limit) IN
          /\ items' = Cleared(count)
          /\ head' = Slot(count)
          /\ length' = length - count
          /\ IF length = count THEN notEmpty' = FALSE /\ UNCHANGED panicked
             ELSE IF ~closed THEN SignalNotEmpty
             ELSE UNCHANGED <<notEmpty, panicked>>
    /\ IF length = Capacity THEN SignalNotFull ELSE UNCHANGED notFull
    /\ PopReturn(c)
    /\ UNCHANGED <<closed, producer>>

\* PopInto on an empty queue.  The consumer asks for the channel to wait on,
\* unless it looks whether the queue is closed first.
PopNothing(c) ==
    /\ consumer[c] = "pop"
    /\ length = 0
    /\ \/ closed /\ PopReturn(c)
       \/ consumer' = [consumer EXCEPT ![c] = "wake"]
    /\ UNCHANGED <<ring, closed, notEmpty, panicked, notFull, producer>>

\* Mutant: the channel may be closed when the token is sent.
WakeUnchecked(c) ==
    /\ consumer[c] = "wake"
    /\ consumer' = [consumer EXCEPT ![c] = "wait"]
    /\ IF length > 0 THEN SignalNotEmpty ELSE UNCHANGED <<notEmpty, panicked>>
    /\ UNCHANGED <<ring, closed, notFull, producer>>

\* Wake returns the channel; packets that arrived since the pop count.
Wake(c) ==
    /\ consumer[c] = "wake"
    /\ consumer' = [consumer EXCEPT ![c] = "wait"]
    /\ IF ~closed /\ length > 0 THEN SignalNotEmpty ELSE UNCHANGED <<notEmpty, panicked>>
    /\ UNCHANGED <<ring, closed, notFull, producer>>

\* The receive: a token is taken; a closed channel never blocks.
Woken(c) ==
    /\ consumer[c] = "wait"
    /\ notEmpty \/ closed
    /\ notEmpty' = FALSE
    /\ consumer' = [consumer EXCEPT ![c] = "pop"]
    /\ UNCHANGED <<ring, closed, panicked, notFull, producer>>

\* The consumer gives up waiting (its context ended, or the client's state
\* changed); it took no token.
WakeAbandoned(c) ==
    /\ consumer[c] = "wait"
    /\ PopReturn(c)
    /\ UNCHANGED <<ring, closed, notEmpty, panicked, notFull, producer>>

----------------------------------------------------------------------------
\* Mutant: waiting producers are not told of the close.
CloseSilently ==
    /\ ~closed
    /\ closed' = TRUE
    /\ UNCHANGED <<ring, notEmpty, panicked, notFull, producer, consumer>>

Close ==
    /\ ~closed
    /\ closed' = TRUE
    /\ SignalNotFull
    /\ UNCHANGED <<ring, notEmpty, panicked, producer, consumer>>

\* Drain pops everything for the caller of Close.
Drain ==
    /\ closed
    /\ length > 0
    /\ items' = Cleared(length)
    /\ head' = Slot(length)
    /\ length' = 0
    /\ notEmpty' = FALSE
    /\ IF length = Capacity THEN SignalNotFull ELSE UNCHANGED notFull
    /\ UNCHANGED <<closed, panicked, producer, consumer>>

ProducerStep(p) == PushOne(p) \/ PushFull(p) \/ PushWoken(p) \/ PushClosed(p)
ConsumerStep(c) == PopInto(c) \/ PopNothing(c) \/ Wake(c) \/ Woken(c)

Next ==
    \/ \E p \in Producers :
          PushBatch(p) \/ ProducerStep(p) \/ PushCancelled(p) \/ TryPushBatch(p)
    \/ \E c \in Consumers : BeginPop(c) \/ ConsumerStep(c) \/ WakeAbandoned(c)
    \/ Close
    \/ Drain

Spec == Init /\ [][Next]_vars

\* A goroutine inside a call keeps running; when calls begin, when a context
\* ends and when the queue is closed is up to the environment.  A consumer
\* between two pops comes back for more.
Fairness ==
    /\ \A p \in Producers : WF_vars(ProducerStep(p))
    /\ \A c \in Consumers : WF_vars(ConsumerStep(c)) /\ WF_vars(BeginPop(c))

FairSpec == Spec /\ Fairness

----------------------------------------------------------------------------
(* Properties. *)

\* No goroutine ever sends on the closed notEmpty channel, whatever the order
\* of pushes, pops, wake requests and the close (signalNotEmptyLocked).
NoSendOnClosedChannel == ~panicked

\* While packets are queued, a consumer blocked on the wake-up channel has a
\* token to receive, or some other consumer is already on its way to pop: the
\* single-token channel loses no wake-up.
NoLostWakeup ==
    (length > 0 /\ ~closed /\ \E c \in Consumers : consumer[c] = "wait")
        => \/ notEmpty
           \/ \E c \in Consumers : consumer[c] \in {"pop", "wake"}

\* A producer blocked on the open notFull channel is blocked by a queue that
\* is full and open now: no pop and no close leaves it behind.
BlockedOnlyWhenFull == notFull # {} => length = Capacity /\ ~closed

Contents == [i \in 1 .. length |-> items[Slot(i - 1)]]

\* The ring behaves like a bounded first-in first-out queue.
Abstract == INSTANCE BoundedFifo WITH fifo <- Contents
ImplementsFifo == Abstract!Spec

\* The oldest packet of an open queue is eventually popped: consumers that
\* keep reading are woken for it.
FrontLeaves ==
    \A h \in 0 .. Capacity - 1 :
        (length > 0 /\ head = h) ~> (length = 0 \/ head # h \/ closed)
=============================================================================
