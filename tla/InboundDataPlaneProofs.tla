----------------------- MODULE InboundDataPlaneProofs -----------------------
(********************************************************************************)
(* Proofs about InboundDataPlane, for any number of workers, readers,           *)
(* sessions, revisions and packets.                                             *)
(********************************************************************************)
EXTENDS InboundDataPlane, ClientStateProofs, SequenceTheorems, FiniteSetTheorems,
        FunctionTheorems, TLAPS

----------------------------------------------------------------------------
(* The inductive invariant behind BatchHasOneRevision. *)

\* A packet never carries a generation from the future, and one of the current
\* generation no revision from the future: until its session is published a
\* packet carries none.
StampInPast(p, c) ==
    /\ p.generation <= c.currentGeneration
    /\ p.generation = c.currentGeneration =>
          /\ c.publishedSession # NoSession => p.revision <= c.publishedRevision
          /\ c.publishedSession = NoSession /\ c.currentSession # NoSession => p.revision = 0

StampsInPast(s, c) == \A i \in 1 .. Len(s) : StampInPast(s[i], c)

AllStampsInPast ==
    /\ StampsInPast(queue.items, client)
    /\ \A w \in Workers : StampsInPast(worker[w].packets, client)
    /\ \A r \in Readers : StampsInPast(reader[r].batch, client)

\* Generations count up, a published session's revisions only grow, and the
\* supervisor publishes a session once.
LifecycleInv ==
    /\ client.currentGeneration <= client.sessionGeneration
    /\ client.publishedSession # NoSession => client.initialRevision <= client.publishedRevision
    /\ stamps.supervisor # 0 => client.publishedSession = NoSession

\* What a reader has kept has one generation and one revision, and nothing left
\* in its batch is younger than that.
KeptIsUniform(kept, batch) ==
    Len(kept) > 0 =>
        /\ \A i \in 1 .. Len(kept) : /\ kept[i].generation = kept[1].generation
                                     /\ kept[i].revision = kept[1].revision
        /\ \A i \in 1 .. Len(batch) :
              /\ batch[i].generation <= kept[1].generation
              /\ batch[i].generation = kept[1].generation
                    => batch[i].revision <= kept[1].revision

\* What it has kept was published: it is of an earlier generation, or lies
\* between the first and the present revision of this one.
WasPublished(p, c) ==
    /\ p.generation <= c.currentGeneration
    /\ p.generation = c.currentGeneration =>
          /\ c.currentSession # NoSession => c.publishedSession # NoSession
          /\ c.publishedSession # NoSession => /\ c.initialRevision <= p.revision
                                              /\ p.revision <= c.publishedRevision

KeptWasPublished(kept, c) == Len(kept) > 0 => WasPublished(kept[1], c)

KeptOnlyWhileResolving(r) ==
    reader[r].pc \notin {"resolve", "blocked"} => reader[r].kept = << >> /\ reader[r].batch = << >>

ReaderInv(r) ==
    /\ KeptIsUniform(reader[r].kept, reader[r].batch)
    /\ KeptWasPublished(reader[r].kept, client)
    /\ KeptOnlyWhileResolving(r)

\* A worker in PushBatch still has packets to push.
PushingHasPackets ==
    \A w \in Workers : worker[w].pc = "push" => worker[w].packets # << >>

Inv ==
    /\ TypeOK
    /\ PushingHasPackets
    /\ LifecycleInv
    /\ AllStampsInPast
    /\ \A r \in Readers : ReaderInv(r)

----------------------------------------------------------------------------
(* Type correctness. *)

LEMMA InitType == Init => TypeOK
<1> SUFFICES ASSUME Init PROVE TypeOK
  OBVIOUS
<1>1. << >> \in Seq(Packet) /\ Len(<< >>) = 0
  BY EmptySeq
<1> QED
  BY <1>1, NewClientType, InboundAssumption DEF Init, TypeOK, IdleWorker, IdleReader, Session, Stamps, Queue, Worker, Reader, Count

\* A reader's record does not change its type when a state change is signalled.
LEMMA SignalType ==
    ASSUME TypeOK, SignalStateChanged
    PROVE  /\ reader' \in [Readers -> Reader]
           /\ \A r \in Readers : /\ reader'[r].batch = reader[r].batch
                                 /\ reader'[r].kept = reader[r].kept
                                 /\ reader'[r].pc = reader[r].pc
BY DEF TypeOK, SignalStateChanged, Reader

LEMMA LifecycleType == TypeOK /\ Lifecycle => TypeOK'
<1> SUFFICES ASSUME TypeOK, Lifecycle PROVE TypeOK'
  OBVIOUS
<1> USE DEF TypeOK
<1>1. CASE Connect
  <2>1. client.sessionGeneration + 1 \in Nat
    BY DEF Client
  <2>2. client' \in Client
    BY <1>1, <2>1, SetCurrentSessionType DEF Connect
  <2>3. session' \in Session
    BY <1>1 DEF Connect, Session
  <2> QED
    BY <1>1, <2>2, <2>3, SignalType DEF Connect
<1>2. CASE BecomeReady
  BY <1>2 DEF BecomeReady, Session
<1>3. CASE SupervisorStamps
  <2>1. stamps.last + 1 \in Nat
    BY DEF Stamps
  <2>2. stamps' \in Stamps
    BY <1>3, <2>1 DEF SupervisorStamps, Stamps
  <2> QED
    BY <1>3, <2>2 DEF SupervisorStamps
<1>4. CASE SupervisorPublishes
  <2>1. client.currentSession \in Nat /\ stamps.supervisor \in Nat /\ stamps' \in Stamps
    BY <1>4 DEF SupervisorPublishes, Client, Stamps
  <2>2. client' \in Client
    BY <1>4, <2>1, PublishCurrentSessionType DEF SupervisorPublishes
  <2> QED
    BY <1>4, <2>1, <2>2, SignalType DEF SupervisorPublishes
<1>5. CASE CarrierLost
  BY <1>5 DEF CarrierLost, Session
<1>6. CASE CarrierReplaced
  BY <1>6 DEF CarrierReplaced, Session
<1>7. CASE WorkerStamps
  <2>1. stamps.last + 1 \in Nat
    BY DEF Stamps
  <2>2. stamps' \in Stamps
    BY <1>7, <2>1 DEF WorkerStamps, Stamps
  <2> QED
    BY <1>7, <2>2 DEF WorkerStamps
<1>8. CASE WorkerPublishes
  BY <1>8, SignalType, PublishRevisionType DEF WorkerPublishes, Stamps, Session
<1>9. CASE SessionEnds
  BY <1>9 DEF SessionEnds, Session
<1>10. CASE ClearSession
  <2>1. client.currentSession \in Nat /\ stamps' \in Stamps
    BY <1>10 DEF ClearSession, Client, Stamps
  <2>2. client' \in Client
    BY <1>10, <2>1, ClearCurrentSessionType DEF ClearSession
  <2> QED
    BY <1>10, <2>1, <2>2, SignalType DEF ClearSession
<1>11. CASE ClientFails
  BY <1>11, SignalType, SetTerminalErrorType DEF ClientFails
<1>12. CASE CloseMarks
  BY <1>12, SignalType, MarkClosedType DEF CloseMarks
<1>13. CASE CloseStopsQueue
  BY <1>13 DEF CloseStopsQueue, Queue
<1>14. CASE CloseDrains
  <2>0. << >> \in Seq(Packet) /\ Len(<< >>) = 0
    BY EmptySeq
  <2>1. queue' \in Queue
    BY <1>14, <2>0 DEF CloseDrains, Queue
  <2>4. queue'.items = << >>
    BY <1>14 DEF CloseDrains, Queue
  <2>5. Len(queue'.items) <= Capacity
    BY <2>0, <2>4, InboundAssumption
  <2>2. Len(queue.items) \in Nat
    BY LenProperties DEF Queue
  <2>3. count' \in Count
    BY <1>14, <2>2 DEF CloseDrains, Count
  <2> QED
    BY <1>14, <2>1, <2>3, <2>5 DEF CloseDrains
<1> QED
  BY <1>1, <1>2, <1>3, <1>4, <1>5, <1>6, <1>7, <1>8, <1>9, <1>10, <1>11, <1>12, <1>13, <1>14
  DEF Lifecycle

----------------------------------------------------------------------------
(* Sequences: what the parts of a batch or a queue consist of. *)

\* Every element of s is one of t.
From(s, t) == \A i \in 1 .. Len(s) : \E j \in 1 .. Len(t) : s[i] = t[j]

LEMMA PrefixFacts ==
    ASSUME NEW S, NEW s \in Seq(S), NEW n \in 0 .. Len(s)
    PROVE  SubSeq(s, 1, n) \in Seq(S) /\ Len(SubSeq(s, 1, n)) = n /\ From(SubSeq(s, 1, n), s)
<1>1. Len(s) \in Nat /\ \A i \in 1 .. n : s[i] \in S
  BY LenProperties, ElementOfSeq
<1>2. /\ SubSeq(s, 1, n) \in Seq(S)
      /\ Len(SubSeq(s, 1, n)) = IF 1 <= n THEN n - 1 + 1 ELSE 0
      /\ \A i \in 1 .. n - 1 + 1 : SubSeq(s, 1, n)[i] = s[1 + i - 1]
  BY <1>1, SubSeqProperties
<1> QED
  BY <1>1, <1>2 DEF From

LEMMA SuffixFacts ==
    ASSUME NEW S, NEW s \in Seq(S), NEW n \in 0 .. Len(s)
    PROVE  /\ SubSeq(s, n + 1, Len(s)) \in Seq(S)
           /\ Len(SubSeq(s, n + 1, Len(s))) = Len(s) - n
           /\ From(SubSeq(s, n + 1, Len(s)), s)
<1>1. n + 1 \in Int /\ Len(s) \in Int /\ \A i \in n + 1 .. Len(s) : s[i] \in S
  BY LenProperties, ElementOfSeq
<1>2. /\ SubSeq(s, n + 1, Len(s)) \in Seq(S)
      /\ Len(SubSeq(s, n + 1, Len(s))) = IF n + 1 <= Len(s) THEN Len(s) - (n + 1) + 1 ELSE 0
      /\ \A i \in 1 .. Len(s) - (n + 1) + 1 :
            SubSeq(s, n + 1, Len(s))[i] = s[n + 1 + i - 1]
  BY <1>1, SubSeqProperties
<1> QED
  BY <1>1, <1>2 DEF From

LEMMA TailFacts ==
    ASSUME NEW S, NEW s \in Seq(S), s # << >>
    PROVE  /\ Head(s) = s[1] /\ Head(s) \in S
           /\ Tail(s) \in Seq(S) /\ Len(Tail(s)) = Len(s) - 1
           /\ From(Tail(s), s)
<1>1. Len(s) \in Nat /\ Len(s) > 0
  BY EmptySeq
<1> QED
  BY <1>1, HeadTailProperties DEF From

LEMMA TailNonEmpty ==
    ASSUME NEW S, NEW s \in Seq(S), s # << >>, Len(s) # 1
    PROVE  Tail(s) # << >>
<1>1. Len(s) \in Nat /\ Len(s) > 0
  BY EmptySeq
<1>2. Len(Tail(s)) = Len(s) - 1
  BY TailFacts, Zenon
<1>3. Len(Tail(s)) # 0
  BY <1>1, <1>2
<1>4. Len(<< >>) = 0
  BY EmptySeq
<1> QED
  BY <1>3, <1>4, Zenon

\* A property of all elements of two sequences is one of their concatenation,
\* and the same for a sequence and an appended element.
LEMMA ConcatFacts ==
    ASSUME NEW S, NEW s \in Seq(S), NEW t \in Seq(S)
    PROVE  /\ s \o t \in Seq(S) /\ Len(s \o t) = Len(s) + Len(t)
           /\ \A i \in 1 .. Len(s \o t) : \/ \E j \in 1 .. Len(s) : (s \o t)[i] = s[j]
                                          \/ \E j \in 1 .. Len(t) : (s \o t)[i] = t[j]
<1>1. Len(s) \in Nat /\ Len(t) \in Nat
  BY LenProperties
<1> QED
  BY <1>1, ConcatProperties

LEMMA AppendFacts ==
    ASSUME NEW S, NEW s \in Seq(S), NEW e \in S
    PROVE  /\ Append(s, e) \in Seq(S) /\ Len(Append(s, e)) = Len(s) + 1
           /\ \A i \in 1 .. Len(s) : Append(s, e)[i] = s[i]
           /\ Append(s, e)[Len(s) + 1] = e
BY AppendProperties

LEMMA FromStamps ==
    ASSUME NEW s, NEW t, NEW c, From(s, t), StampsInPast(t, c)
    PROVE  StampsInPast(s, c)
BY DEF From, StampsInPast

LEMMA FunctionIsSeq ==
    ASSUME NEW S, NEW n \in Nat, NEW f \in [1 .. n -> S]
    PROVE  f \in Seq(S) /\ Len(f) = n
OBVIOUS

----------------------------------------------------------------------------
(* Workers. *)

LEMMA ReceiveFacts ==
    ASSUME TypeOK, NEW w \in Workers, Receive(w)
    PROVE  /\ worker' \in [Workers -> Worker] /\ count' \in Count
           /\ \A v \in Workers :
                \/ worker'[v].packets = worker[v].packets
                \/ \A i \in 1 .. Len(worker'[v].packets) :
                      /\ worker'[v].packets[i].generation = client.currentGeneration
                      /\ worker'[v].packets[i].revision = PushRevision
<1> USE DEF TypeOK
<1>1. PICK n \in 1 .. MaxBurst : Receive(w)!3!(n)
  BY DEF Receive
<1>2. n \in Nat
  BY InboundAssumption
<1>3. count' \in Count
  <2>1. count.received + n \in Nat /\ count.settled + n \in Nat
    BY <1>2 DEF Count
  <2>2. CASE PushAllowed
    BY <1>1, <2>1, <2>2 DEF Count
  <2>3. CASE ~PushAllowed
    BY <1>1, <2>1, <2>3 DEF Count
  <2> QED
    BY <2>2, <2>3
<1>4. CASE ~PushAllowed
  BY <1>1, <1>3, <1>4
<1>5. CASE PushAllowed
  <2> DEFINE stamped == [i \in 1 .. n |-> [id |-> count.received + i, from |-> w,
                                           generation |-> client.currentGeneration,
                                           revision |-> PushRevision]]
  <2>1. \A i \in 1 .. n : stamped[i] \in Packet
    BY <1>2 DEF Packet, Client, Count, PushRevision
  <2>2. stamped \in Seq(Packet) /\ Len(stamped) = n
    BY <1>2, <2>1, FunctionIsSeq
  <2>3. worker' = [worker EXCEPT ![w] = [pc |-> "try", packets |-> stamped]]
    BY <1>1, <1>5
  <2>4. \A i \in 1 .. Len(stamped) : /\ stamped[i].generation = client.currentGeneration
                                     /\ stamped[i].revision = PushRevision
    BY <2>2
  <2> HIDE DEF stamped
  <2> QED
    BY <1>3, <2>2, <2>3, <2>4 DEF Worker
<1> QED
  BY <1>4, <1>5

\* The packets a worker drops are counted.
LEMMA DropRestType ==
    ASSUME TypeOK, NEW w \in Workers, NEW rest \in Seq(Packet), DropRest(w, rest)
    PROVE  /\ worker' \in [Workers -> Worker] /\ count' \in Count
           /\ \A v \in Workers : From(worker'[v].packets, worker[v].packets)
<1> USE DEF TypeOK
<1>1. Len(rest) \in Nat /\ << >> \in Seq(Packet) /\ Len(<< >>) = 0
  BY LenProperties, EmptySeq
<1>2. count.settled + Len(rest) \in Nat
  BY <1>1 DEF Count
<1>3. count' \in Count
  BY <1>2 DEF DropRest, Count
<1>4. worker' \in [Workers -> Worker] /\ worker'[w].packets = << >>
  BY <1>1 DEF DropRest, Worker, IdleWorker
<1>5. \A v \in Workers : v # w => worker'[v] = worker[v]
  BY DEF DropRest
<1> QED
  BY <1>1, <1>3, <1>4, <1>5 DEF From

\* What a push leaves: the queue within its capacity, made of what it held and
\* what the worker carried.
QueueFrom(w) ==
    \A i \in 1 .. Len(queue'.items) :
        \/ \E j \in 1 .. Len(queue.items) : queue'.items[i] = queue.items[j]
        \/ \E j \in 1 .. Len(worker[w].packets) : queue'.items[i] = worker[w].packets[j]

LEMMA TryPushFacts ==
    ASSUME TypeOK, NEW w \in Workers, TryPush(w)
    PROVE  /\ queue' \in Queue /\ Len(queue'.items) <= Capacity
           /\ worker' \in [Workers -> Worker] /\ count' \in Count
           /\ QueueFrom(w)
           /\ \A v \in Workers : From(worker'[v].packets, worker[v].packets)
<1> USE DEF TypeOK
<1> DEFINE packets == worker[w].packets
           n == Fitting(Len(packets))
           rest == SubSeq(packets, n + 1, Len(packets))
<1>1. /\ packets \in Seq(Packet) /\ queue.items \in Seq(Packet)
      /\ Len(packets) \in Nat /\ Len(queue.items) \in Nat /\ Capacity \in Nat
  BY LenProperties, InboundAssumption DEF Worker, Queue
<1>2. n \in 0 .. Len(packets) /\ Len(queue.items) + n <= Capacity
  <2>1. Room \in Nat /\ Len(queue.items) + Room <= Capacity
    <3>1. CASE queue.closed
      BY <1>1, <3>1 DEF Room
    <3>2. CASE ~queue.closed
      BY <1>1, <3>2 DEF Room
    <3> QED
      BY <3>1, <3>2
  <2>2. \A k \in Nat : Fitting(k) \in 0 .. k /\ Fitting(k) <= Room
    BY <2>1 DEF Fitting
  <2>3. n \in 0 .. Len(packets) /\ n <= Room
    BY <1>1, <2>2
  <2> HIDE DEF n
  <2> QED
    BY <1>1, <2>1, <2>3
<1>3. /\ SubSeq(packets, 1, n) \in Seq(Packet) /\ Len(SubSeq(packets, 1, n)) = n
      /\ From(SubSeq(packets, 1, n), packets)
  BY <1>1, <1>2, PrefixFacts
<1>4. rest \in Seq(Packet) /\ From(rest, packets)
  BY <1>1, <1>2, SuffixFacts
<1>5. /\ queue' = [queue EXCEPT !.items = @ \o SubSeq(packets, 1, n)]
      /\ \/ /\ worker' = [worker EXCEPT ![w].pc = "push", ![w].packets = rest]
            /\ count' = count
         \/ DropRest(w, rest)
  BY DEF TryPush
<1> HIDE DEF n, rest
<1>6. /\ queue'.items = queue.items \o SubSeq(packets, 1, n)
      /\ queue'.closed = queue.closed
  BY <1>5 DEF Queue
<1>7. /\ queue'.items \in Seq(Packet)
      /\ Len(queue'.items) = Len(queue.items) + n
      /\ QueueFrom(w)
  <2>1. \A s, t \in Seq(Packet) : From(t, packets) =>
          /\ s \o t \in Seq(Packet) /\ Len(s \o t) = Len(s) + Len(t)
          /\ \A i \in 1 .. Len(s \o t) :
                \/ \E j \in 1 .. Len(s) : (s \o t)[i] = s[j]
                \/ \E j \in 1 .. Len(packets) : (s \o t)[i] = packets[j]
    <3> TAKE s, t \in Seq(Packet)
    <3> HAVE From(t, packets)
    <3> HIDE DEF packets
    <3> QED
      BY ConcatFacts DEF From
  <2> QED
    <3> DEFINE front == SubSeq(packets, 1, n)
    <3>1. front \in Seq(Packet) /\ Len(front) = n /\ From(front, packets)
      BY <1>3
    <3>2. queue'.items = queue.items \o front
      BY <1>6
    <3> HIDE DEF front, packets
    <3>3. /\ queue.items \o front \in Seq(Packet)
          /\ Len(queue.items \o front) = Len(queue.items) + Len(front)
          /\ \A i \in 1 .. Len(queue.items \o front) :
                \/ \E j \in 1 .. Len(queue.items) : (queue.items \o front)[i] = queue.items[j]
                \/ \E j \in 1 .. Len(packets) : (queue.items \o front)[i] = packets[j]
      BY <1>1, <2>1, <3>1, Zenon
    <3>4. QueueFrom(w)
      BY <3>2, <3>3, Zenon DEF QueueFrom, packets
    <3> QED
      BY <3>1, <3>2, <3>3, <3>4
<1>8. queue' \in Queue /\ Len(queue'.items) <= Capacity
  <2>1. queue' \in Queue
    BY <1>5, <1>6, <1>7 DEF Queue
  <2> QED
    BY <2>1, <1>1, <1>2, <1>7
<1>9. CASE DropRest(w, rest)
  BY <1>4, <1>7, <1>8, <1>9, DropRestType
<1>10. CASE /\ worker' = [worker EXCEPT ![w].pc = "push", ![w].packets = rest]
            /\ count' = count
  <2>1. worker' \in [Workers -> Worker] /\ worker'[w].packets = rest
    BY <1>4, <1>10 DEF Worker
  <2>2. \A v \in Workers : v # w => worker'[v] = worker[v]
    BY <1>10
  <2>3. \A v \in Workers : From(worker'[v].packets, worker[v].packets)
    BY <1>4, <2>1, <2>2, SMTT(30) DEF From
  <2> QED
    BY <1>7, <1>8, <1>10, <2>1, <2>3
<1> QED
  BY <1>5, <1>9, <1>10

LEMMA PushOneFacts ==
    ASSUME TypeOK, PushingHasPackets, NEW w \in Workers, PushOne(w)
    PROVE  /\ queue' \in Queue /\ Len(queue'.items) <= Capacity
           /\ worker' \in [Workers -> Worker]
           /\ QueueFrom(w)
           /\ \A v \in Workers : From(worker'[v].packets, worker[v].packets)
<1> USE DEF TypeOK
<1> DEFINE packets == worker[w].packets
           next == IF Len(packets) = 1 THEN IdleWorker
                   ELSE [worker[w] EXCEPT !.packets = Tail(packets)]
<1>1. /\ packets \in Seq(Packet) /\ packets # << >> /\ queue.items \in Seq(Packet)
      /\ Len(packets) \in Nat /\ Len(queue.items) \in Nat /\ Capacity \in Nat
      /\ << >> \in Seq(Packet) /\ Len(<< >>) = 0
  BY LenProperties, EmptySeq, InboundAssumption DEF Worker, Queue, PushOne, PushingHasPackets
<1>2. /\ Head(packets) = packets[1] /\ Head(packets) \in Packet
      /\ Tail(packets) \in Seq(Packet) /\ From(Tail(packets), packets)
      /\ Len(packets) > 0
  BY <1>1, TailFacts, EmptySeq
<1>3. /\ queue' = [queue EXCEPT !.items = Append(queue.items, Head(packets))]
      /\ worker' = [worker EXCEPT ![w] = next]
  <2>1. CASE Len(packets) = 1
    BY <2>1, Zenon DEF PushOne
  <2>2. CASE Len(packets) # 1
    BY <2>2, Zenon DEF PushOne
  <2> QED
    BY <2>1, <2>2
<1>4. Len(queue.items) + 1 <= Capacity
  <2>1. CASE queue.closed
    BY <2>1 DEF PushOne, Room
  <2>2. CASE ~queue.closed
    BY <1>1, <2>2 DEF PushOne, Room
  <2> QED
    BY <2>1, <2>2
<1>5. next \in Worker /\ From(next.packets, packets)
  <2>1. CASE Len(packets) = 1
    BY <1>1, <2>1 DEF Worker, IdleWorker, From
  <2>2. CASE Len(packets) # 1
    BY <1>2, <2>2 DEF Worker
  <2> QED
    BY <2>1, <2>2
<1> HIDE DEF next
<1>6. /\ worker' \in [Workers -> Worker] /\ worker'[w] = next
      /\ \A v \in Workers : v # w => worker'[v] = worker[v]
  BY <1>3, <1>5
<1>7. \A v \in Workers : From(worker'[v].packets, worker[v].packets)
  BY <1>5, <1>6 DEF From
<1> DEFINE longer == Append(queue.items, Head(packets))
<1>8. /\ longer \in Seq(Packet) /\ Len(longer) = Len(queue.items) + 1
      /\ \A i \in 1 .. Len(queue.items) : longer[i] = queue.items[i]
      /\ longer[Len(queue.items) + 1] = packets[1]
  BY <1>1, <1>2, AppendFacts
<1> HIDE DEF longer, packets
<1>9. queue' \in Queue /\ queue'.items = longer
  BY <1>3, <1>8 DEF Queue, longer
<1>10. \A i \in 1 .. Len(longer) :
          \/ \E j \in 1 .. Len(queue.items) : longer[i] = queue.items[j]
          \/ \E j \in 1 .. Len(packets) : longer[i] = packets[j]
  BY <1>1, <1>2, <1>8, SMTT(30)
<1>11. QueueFrom(w)
  BY <1>9, <1>10, Zenon DEF QueueFrom, packets
<1> QED
  BY <1>1, <1>4, <1>6, <1>7, <1>8, <1>9, <1>11

LEMMA WorkerStepType ==
    ASSUME TypeOK, PushingHasPackets, NEW w \in Workers, WorkerNext(w)
    PROVE  TypeOK' /\ PushingHasPackets'
<1> USE DEF TypeOK
<1>1. CASE Receive(w)
  <2>1. TypeOK'
    BY <1>1, ReceiveFacts DEF Receive
  <2>2. \A v \in Workers : worker'[v].pc = "push" => worker'[v] = worker[v]
    BY <1>1 DEF Receive
  <2> QED
    BY <2>1, <2>2 DEF PushingHasPackets
<1>2. CASE TryPush(w)
  <2>1. TypeOK'
    BY <1>2, TryPushFacts DEF TryPush
  <2>2. \A v \in Workers : v # w => worker'[v] = worker[v]
    BY <1>2 DEF TryPush, DropRest
  <2>3. worker'[w].pc = "push" => worker'[w].packets # << >>
    BY <1>2 DEF TryPush, DropRest, IdleWorker, Worker
  <2> QED
    BY <2>1, <2>2, <2>3 DEF PushingHasPackets
<1>3. CASE PushOne(w)
  <2>1. TypeOK'
    BY <1>3, PushOneFacts DEF PushOne
  <2>2. \A v \in Workers : v # w => worker'[v] = worker[v]
    BY <1>3 DEF PushOne
  <2>3. /\ worker[w].packets \in Seq(Packet) /\ worker[w].packets # << >>
        /\ Len(worker[w].packets) \in Nat /\ Len(worker[w].packets) > 0
    BY <1>3, EmptySeq DEF PushOne, PushingHasPackets, Worker
  <2>4. CASE Len(worker[w].packets) = 1
    BY <1>3, <2>1, <2>2, <2>4 DEF PushOne, PushingHasPackets, IdleWorker
  <2>5. CASE Len(worker[w].packets) # 1
    <3>2. Tail(worker[w].packets) # << >>
      BY <2>3, <2>5, TailNonEmpty
    <3>1. worker' = [worker EXCEPT ![w].packets = Tail(worker[w].packets)]
      BY <1>3, <2>5, Zenon DEF PushOne
    <3>3. worker'[w].packets = Tail(worker[w].packets)
      BY <3>1 DEF Worker
    <3> QED
      BY <2>1, <2>2, <3>2, <3>3 DEF PushingHasPackets
  <2> QED
    BY <2>4, <2>5
<1>4. CASE PushStops(w)
  <2>1. worker[w].packets \in Seq(Packet) /\ DropRest(w, worker[w].packets)
    BY <1>4 DEF PushStops, Worker
  <2>2. TypeOK'
    BY <1>4, <2>1, DropRestType DEF PushStops
  <2>3. \A v \in Workers : worker'[v].pc = "push" => worker'[v] = worker[v]
    BY <2>1 DEF DropRest, IdleWorker
  <2> QED
    BY <2>2, <2>3 DEF PushingHasPackets
<1> QED
  BY <1>1, <1>2, <1>3, <1>4 DEF WorkerNext

\* A worker stamps packets with the present, and moves stamped ones.
LEMMA WorkerStepStamps ==
    ASSUME Inv, NEW w \in Workers, WorkerNext(w)
    PROVE  AllStampsInPast'
<1>1. TypeOK /\ PushingHasPackets
  BY SMTT(30) DEF Inv
<1>2. client' = client /\ reader' = reader
  BY DEF WorkerNext, Receive, TryPush, PushOne, PushStops
<1>3. ASSUME QueueFrom(w)
      PROVE  StampsInPast(queue'.items, client)
  BY <1>3 DEF QueueFrom, StampsInPast, Inv, AllStampsInPast
<1>4. ASSUME \A v \in Workers : From(worker'[v].packets, worker[v].packets)
      PROVE  \A v \in Workers : StampsInPast(worker'[v].packets, client)
  BY <1>4, FromStamps DEF Inv, AllStampsInPast
<1>5. CASE Receive(w)
  <2>1. queue' = queue
    BY <1>5 DEF Receive
  <2>2. ASSUME NEW p, p.generation = client.currentGeneration, p.revision = PushRevision
        PROVE  StampInPast(p, client)
    BY <1>1, <2>2 DEF StampInPast, PushRevision, TypeOK, Client, NoSession
  <2>3. \A v \in Workers : StampsInPast(worker'[v].packets, client)
    BY <1>1, <1>5, <2>2, ReceiveFacts DEF Inv, AllStampsInPast, StampsInPast
  <2> QED
    BY <1>2, <2>1, <2>3 DEF Inv, AllStampsInPast
<1>6. CASE TryPush(w)
  BY <1>1, <1>2, <1>3, <1>4, <1>6, TryPushFacts DEF Inv, AllStampsInPast
<1>7. CASE PushOne(w)
  BY <1>1, <1>2, <1>3, <1>4, <1>7, PushOneFacts DEF Inv, AllStampsInPast
<1>8. CASE PushStops(w)
  <2>1. /\ worker[w].packets \in Seq(Packet) /\ DropRest(w, worker[w].packets)
        /\ queue' = queue
    BY <1>1, <1>8 DEF PushStops, TypeOK, Worker
  <2> QED
    BY <1>1, <1>2, <1>4, <2>1, DropRestType DEF Inv, AllStampsInPast
<1> QED
  BY <1>5, <1>6, <1>7, <1>8 DEF WorkerNext

LEMMA WorkerStepInv ==
    ASSUME Inv, NEW w \in Workers, WorkerNext(w)
    PROVE  Inv'
<1>1. TypeOK' /\ PushingHasPackets'
  BY WorkerStepType, SMTT(30) DEF Inv
<1>2. client' = client /\ reader' = reader /\ stamps' = stamps
  BY DEF WorkerNext, Receive, TryPush, PushOne, PushStops
<1>3. LifecycleInv' /\ \A r \in Readers : ReaderInv(r)'
  BY <1>2 DEF Inv, LifecycleInv, ReaderInv, KeptIsUniform, KeptWasPublished,
              KeptOnlyWhileResolving
<1> QED
  BY <1>1, <1>3, WorkerStepStamps DEF Inv

----------------------------------------------------------------------------
(* The lifecycle: the client's state moves on under the packets in flight. *)

\* How a step may change what stamps are compared with, from c to d.
SameSession(c, d) ==
    /\ d.currentGeneration = c.currentGeneration
    /\ d.sessionGeneration = c.sessionGeneration
    /\ d.currentSession = c.currentSession
    /\ d.publishedSession = c.publishedSession
    /\ d.initialRevision = c.initialRevision
    /\ d.publishedRevision >= c.publishedRevision

NewSession(c, d) ==
    /\ d.sessionGeneration = c.sessionGeneration + 1
    /\ d.currentGeneration = c.sessionGeneration + 1
    /\ d.publishedSession = NoSession

Publication(c, d) ==
    /\ d.currentGeneration = c.currentGeneration
    /\ d.sessionGeneration = c.sessionGeneration
    /\ c.currentSession # NoSession /\ c.publishedSession = NoSession
    /\ d.publishedSession # NoSession
    /\ d.initialRevision = d.publishedRevision

NoMoreSession(c, d) ==
    /\ d.currentGeneration = c.currentGeneration
    /\ d.sessionGeneration = c.sessionGeneration
    /\ d.currentSession = NoSession
    /\ d.publishedSession = NoSession

Evolution(c, d) ==
    SameSession(c, d) \/ NewSession(c, d) \/ Publication(c, d) \/ NoMoreSession(c, d)

\* A stamp that is not from the future stays so, and what a reader kept stays
\* published.
LEMMA EvolutionKeepsStamps ==
    ASSUME NEW c \in Client, NEW d \in Client, NEW p \in Packet, Evolution(c, d),
           c.currentGeneration <= c.sessionGeneration, StampInPast(p, c)
    PROVE  StampInPast(p, d)
BY DEF Client, Packet, Evolution, SameSession, NewSession, Publication, NoMoreSession,
       StampInPast, NoSession

LEMMA EvolutionKeepsPublished ==
    ASSUME NEW c \in Client, NEW d \in Client, NEW p \in Packet, Evolution(c, d),
           c.currentGeneration <= c.sessionGeneration, WasPublished(p, c)
    PROVE  WasPublished(p, d)
BY DEF Client, Packet, Evolution, SameSession, NewSession, Publication, NoMoreSession,
       WasPublished, NoSession

LEMMA EvolutionKeepsKept ==
    ASSUME NEW c \in Client, NEW d \in Client, NEW kept \in Seq(Packet), Evolution(c, d),
           c.currentGeneration <= c.sessionGeneration, KeptWasPublished(kept, c)
    PROVE  KeptWasPublished(kept, d)
<1> SUFFICES ASSUME Len(kept) > 0 PROVE WasPublished(kept[1], d)
  BY DEF KeptWasPublished
<1>1. kept[1] \in Packet
  BY LenProperties, ElementOfSeq
<1> QED
  BY <1>1, EvolutionKeepsPublished DEF KeptWasPublished

\* Every action of the lifecycle is such a step.
LEMMA LifecycleEvolution ==
    ASSUME TypeOK, LifecycleInv, Lifecycle
    PROVE  Evolution(client, client') /\ LifecycleInv'
<1>0. client' \in Client
  BY LifecycleType DEF TypeOK
<1> USE DEF TypeOK, LifecycleInv
<1>1. CASE Connect
  <2>1. NewSession(client, client')
    BY <1>1 DEF Connect, SetCurrentSession, Client, NewSession
  <2>2. stamps' = stamps
    BY <1>1 DEF Connect
  <2> QED
    BY <2>1, <2>2 DEF Evolution, NewSession, Client
<1>2. CASE client' = client /\ stamps' = stamps
  BY <1>2 DEF Evolution, SameSession, Client
<1>3. CASE SupervisorStamps \/ WorkerStamps
  <2>1. client' = client /\ (stamps'.supervisor # 0 => client.publishedSession = NoSession)
    BY <1>3 DEF SupervisorStamps, WorkerStamps, Stamps
  <2> QED
    BY <2>1 DEF Evolution, SameSession, Client
<1>4. CASE SupervisorPublishes
  <2>1. Publication(client, client') /\ stamps'.supervisor = 0
    BY <1>4 DEF SupervisorPublishes, PublishCurrentSession, Client, Publication, Stamps
  <2> QED
    BY <1>0, <2>1 DEF Evolution, Publication, Client
<1>5. CASE WorkerPublishes
  <2>1. SameSession(client, client') /\ stamps'.supervisor = stamps.supervisor
    BY <1>5 DEF WorkerPublishes, PublishRevision, Client, SameSession, Stamps
  <2> QED
    BY <1>0, <2>1 DEF Evolution, SameSession, Client
<1>6. CASE ClearSession
  <2>1. NoMoreSession(client, client') /\ stamps'.supervisor = 0
    BY <1>6 DEF ClearSession, ClearCurrentSession, NothingCurrent, Client, NoMoreSession, Stamps
  <2> QED
    BY <2>1 DEF Evolution, NoMoreSession, Client
<1>7. CASE ClientFails \/ CloseMarks
  <2>1. /\ SameSession(client, client') /\ stamps' = stamps
        /\ client'.publishedRevision = client.publishedRevision
    <3>1. CASE ClientFails
      BY <3>1 DEF ClientFails, SetTerminalError, Client, SameSession
    <3>2. CASE CloseMarks
      BY <3>2 DEF CloseMarks, MarkClosed, Client, SameSession
    <3> QED
      BY <1>7, <3>1, <3>2
  <2> QED
    BY <2>1 DEF Evolution, SameSession, Client
<1> QED
  BY <1>1, <1>2, <1>3, <1>4, <1>5, <1>6, <1>7
  DEF Lifecycle, BecomeReady, CarrierLost, CarrierReplaced, SessionEnds, CloseStopsQueue,
      CloseDrains

LEMMA LifecycleFrame ==
    ASSUME TypeOK, Lifecycle
    PROVE  /\ worker' = worker
           /\ queue'.items = queue.items \/ queue'.items = << >>
           /\ \A r \in Readers : /\ reader'[r].batch = reader[r].batch
                                 /\ reader'[r].kept = reader[r].kept
                                 /\ reader'[r].pc = reader[r].pc
<1>1. worker' = worker
  BY DEF Lifecycle, Connect, BecomeReady, SupervisorStamps, SupervisorPublishes, CarrierLost,
         CarrierReplaced, WorkerStamps, WorkerPublishes, SessionEnds, ClearSession, ClientFails,
         CloseMarks, CloseStopsQueue, CloseDrains
<1>2. queue'.items = queue.items \/ queue'.items = << >>
  BY DEF Lifecycle, Connect, BecomeReady, SupervisorStamps, SupervisorPublishes, CarrierLost,
         CarrierReplaced, WorkerStamps, WorkerPublishes, SessionEnds, ClearSession, ClientFails,
         CloseMarks, CloseStopsQueue, CloseDrains, TypeOK, Queue
<1>3. reader' = reader \/ SignalStateChanged
  BY DEF Lifecycle, Connect, BecomeReady, SupervisorStamps, SupervisorPublishes, CarrierLost,
         CarrierReplaced, WorkerStamps, WorkerPublishes, SessionEnds, ClearSession, ClientFails,
         CloseMarks, CloseStopsQueue, CloseDrains
<1> QED
  BY <1>1, <1>2, <1>3, SignalType

LEMMA LifecycleStepInv ==
    ASSUME Inv, Lifecycle
    PROVE  Inv'
<1>1. TypeOK /\ TypeOK' /\ Evolution(client, client') /\ LifecycleInv'
  BY LifecycleType, LifecycleEvolution DEF Inv
<1>2. /\ client \in Client /\ client' \in Client
      /\ client.currentGeneration <= client.sessionGeneration
  BY <1>1 DEF TypeOK, Inv, LifecycleInv
<1>3. ASSUME NEW s \in Seq(Packet), StampsInPast(s, client)
      PROVE  StampsInPast(s, client')
  BY <1>1, <1>2, <1>3, EvolutionKeepsStamps, ElementOfSeq DEF StampsInPast
<1>4. PushingHasPackets'
  BY <1>1, LifecycleFrame DEF Inv, PushingHasPackets
<1>5. AllStampsInPast'
  <2>1. StampsInPast(queue'.items, client')
    <3>1. CASE queue'.items = queue.items
      BY <1>1, <1>3, <3>1 DEF TypeOK, Queue, Inv, AllStampsInPast
    <3>2. CASE queue'.items = << >>
      <4>1. Len(queue'.items) = 0
        BY <3>2, EmptySeq
      <4> QED
        BY <4>1 DEF StampsInPast
    <3> QED
      BY <1>1, <3>1, <3>2, LifecycleFrame
  <2>2. \A w \in Workers : StampsInPast(worker'[w].packets, client')
    BY <1>1, <1>3, LifecycleFrame DEF TypeOK, Worker, Inv, AllStampsInPast
  <2>3. \A r \in Readers : StampsInPast(reader'[r].batch, client')
    BY <1>1, <1>3, LifecycleFrame DEF TypeOK, Reader, Inv, AllStampsInPast
  <2> QED
    BY <2>1, <2>2, <2>3 DEF AllStampsInPast
<1>6. \A r \in Readers : ReaderInv(r)'
  <2> SUFFICES ASSUME NEW r \in Readers PROVE ReaderInv(r)'
    OBVIOUS
  <2>1. reader[r].kept \in Seq(Packet) /\ KeptWasPublished(reader[r].kept, client)
    BY <1>1 DEF TypeOK, Reader, Inv, ReaderInv
  <2>2. KeptWasPublished(reader[r].kept, client')
    BY <1>1, <1>2, <2>1, EvolutionKeepsKept
  <2> QED
    BY <1>1, <2>2, LifecycleFrame DEF Inv, ReaderInv, KeptOnlyWhileResolving
<1> QED
  BY <1>1, <1>4, <1>5, <1>6 DEF Inv

----------------------------------------------------------------------------
(* Readers. *)

LEMMA ReaderFrame ==
    ASSUME TypeOK, NEW r \in Readers, ReaderNext(r)
    PROVE  /\ client' = client /\ session' = session /\ stamps' = stamps
           /\ worker' = worker /\ closer' = closer
           /\ \A v \in Readers : v # r => reader'[v] = reader[v]
BY DEF TypeOK, ReaderNext, Read, ReadTop, ReadPop, ReadWoken, ReadCancelled, ResolveDecides,
       ResolveFails, ResolveWaits, ResolveWoken, ResolveCancelled, ReadReturns, ReleaseAll

\* What has to be shown of a reader's step: the records keep their types, the
\* stamps stay in the past, and the reader's own invariant holds afterwards.
ReaderStepGoal(r) ==
    /\ reader' \in [Readers -> Reader] /\ count' \in Count
    /\ queue' \in Queue /\ Len(queue'.items) <= Capacity
    /\ StampsInPast(queue'.items, client) /\ StampsInPast(reader'[r].batch, client)
    /\ KeptIsUniform(reader'[r].kept, reader'[r].batch)
    /\ KeptWasPublished(reader'[r].kept, client)
    /\ KeptOnlyWhileResolving(r)'

LEMMA IdleReaderFacts ==
    /\ IdleReader \in Reader /\ IdleReader.kept = << >> /\ IdleReader.batch = << >>
    /\ << >> \in Seq(Packet) /\ Len(<< >>) = 0
<1>1. << >> \in Seq(Packet) /\ Len(<< >>) = 0
  BY EmptySeq
<1> QED
  BY <1>1 DEF IdleReader, Reader

\* A reader that holds no packets satisfies its invariant trivially.
LEMMA EmptyHandedGoal ==
    ASSUME Inv, NEW r \in Readers, reader' \in [Readers -> Reader], count' \in Count,
           queue' = queue, reader'[r].kept = << >>, reader'[r].batch = << >>
    PROVE  ReaderStepGoal(r)
<1>1. Len(reader'[r].kept) = 0 /\ Len(reader'[r].batch) = 0
  BY IdleReaderFacts
<1> QED
  BY <1>1 DEF Inv, TypeOK, AllStampsInPast, ReaderStepGoal, StampsInPast, KeptIsUniform,
              KeptWasPublished, KeptOnlyWhileResolving

\* A reader that only changes its program counter between resolving states.
LEMMA SameHandsGoal ==
    ASSUME Inv, NEW r \in Readers, reader' \in [Readers -> Reader], count' = count,
           queue' = queue, reader'[r].kept = reader[r].kept,
           reader'[r].batch = reader[r].batch, reader'[r].pc \in {"resolve", "blocked"}
    PROVE  ReaderStepGoal(r)
BY DEF Inv, TypeOK, AllStampsInPast, ReaderInv, ReaderStepGoal, KeptOnlyWhileResolving

LEMMA ReleaseAllType ==
    ASSUME TypeOK, NEW r \in Readers, ReleaseAll(r)
    PROVE  /\ reader' \in [Readers -> Reader] /\ reader'[r] = IdleReader
           /\ count' \in Count
<1>1. Len(reader[r].kept) \in Nat /\ Len(reader[r].batch) \in Nat
  BY LenProperties DEF TypeOK, Reader
<1>2. count.settled + Len(reader[r].kept) + Len(reader[r].batch) \in Nat
  BY <1>1 DEF TypeOK, Count
<1>3. count' \in Count
  BY <1>2 DEF ReleaseAll, TypeOK, Count
<1> QED
  BY <1>3, IdleReaderFacts DEF ReleaseAll, TypeOK

LEMMA WaitingReaderGoal ==
    ASSUME Inv, NEW r \in Readers,
           Read(r) \/ ReadTop(r) \/ ReadWoken(r) \/ ReadCancelled(r)
    PROVE  ReaderStepGoal(r)
<1>1. TypeOK /\ KeptOnlyWhileResolving(r)
  BY DEF Inv, ReaderInv
<1>2. count' = count /\ queue' = queue /\ count \in Count
  BY <1>1 DEF TypeOK, Read, ReadTop, ReadWoken, ReadCancelled
<1>3. reader[r].kept = << >> /\ reader[r].batch = << >>
  BY <1>1 DEF KeptOnlyWhileResolving, Read, ReadTop, ReadWoken, ReadCancelled
<1>4. CASE Read(r)
  <2>1. PICK limit \in ReadLimits :
          reader' = [reader EXCEPT ![r] = [IdleReader EXCEPT !.pc = "top", !.limit = limit]]
    BY <1>4 DEF Read
  <2>2. limit \in Nat
    BY InboundAssumption
  <2>3. [IdleReader EXCEPT !.pc = "top", !.limit = limit] \in Reader
    BY <2>2, IdleReaderFacts DEF Reader
  <2>4. /\ reader' \in [Readers -> Reader]
        /\ reader'[r].kept = << >> /\ reader'[r].batch = << >>
    BY <1>1, <2>1, <2>3, IdleReaderFacts DEF TypeOK, IdleReader
  <2> QED
    BY <1>2, <2>4, EmptyHandedGoal
<1>5. CASE ReadTop(r)
  <2>1. CASE Failed
    BY <1>1, <1>2, <1>5, <2>1, IdleReaderFacts, EmptyHandedGoal DEF ReadTop, TypeOK
  <2>2. CASE ~Failed
    <3>1. reader' = [reader EXCEPT ![r] = [reader[r] EXCEPT !.pc = "pop", !.heard = FALSE]]
      BY <1>5, <2>2 DEF ReadTop
    <3>2. /\ reader' \in [Readers -> Reader]
          /\ reader'[r].kept = << >> /\ reader'[r].batch = << >>
      BY <1>1, <1>3, <3>1 DEF TypeOK, Reader
    <3> QED
      BY <1>2, <3>2, EmptyHandedGoal
  <2> QED
    BY <2>1, <2>2
<1>6. CASE ReadWoken(r)
  <2>1. /\ reader' \in [Readers -> Reader]
        /\ reader'[r].kept = << >> /\ reader'[r].batch = << >>
    BY <1>1, <1>3, <1>6, ZenonT(30) DEF ReadWoken, TypeOK, Reader
  <2> QED
    BY <1>2, <2>1, EmptyHandedGoal
<1>7. CASE ReadCancelled(r)
  BY <1>1, <1>2, <1>7, IdleReaderFacts, EmptyHandedGoal DEF ReadCancelled, TypeOK
<1> QED
  BY <1>4, <1>5, <1>6, <1>7

LEMMA ReadPopGoal ==
    ASSUME Inv, NEW r \in Readers, ReadPop(r)
    PROVE  ReaderStepGoal(r)
<1> DEFINE items == queue.items
           n == PopCount(reader[r].limit)
           popped == SubSeq(items, 1, n)
           left == SubSeq(items, n + 1, Len(items))
<1>1. /\ TypeOK /\ items \in Seq(Packet) /\ Len(items) \in Nat /\ Len(items) <= Capacity
      /\ Capacity \in Nat /\ reader[r].limit \in Nat
      /\ StampsInPast(items, client) /\ count' = count /\ count \in Count
      /\ reader[r].kept = << >>
  BY LenProperties, InboundAssumption
  DEF Inv, TypeOK, Queue, Reader, AllStampsInPast, ReadPop, ReaderInv, KeptOnlyWhileResolving
<1>2. n \in 0 .. Len(items)
  BY <1>1 DEF PopCount
<1>3. /\ IF n = 0 THEN reader' = [reader EXCEPT ![r].pc = "wait"]
         ELSE reader' = [reader EXCEPT ![r] =
                [reader[r] EXCEPT !.pc = "resolve", !.batch = popped, !.heard = FALSE]]
      /\ queue' = [queue EXCEPT !.items = left]
  BY DEF ReadPop
<1> HIDE DEF n
<1>4. popped \in Seq(Packet) /\ Len(popped) = n /\ StampsInPast(popped, client)
  BY <1>1, <1>2, PrefixFacts, FromStamps
<1>5. left \in Seq(Packet) /\ Len(left) = Len(items) - n /\ StampsInPast(left, client)
  BY <1>1, <1>2, SuffixFacts, FromStamps
<1> HIDE DEF popped, left
<1>6. queue' \in Queue /\ queue'.items = left
  BY <1>1, <1>3, <1>5 DEF TypeOK, Queue
<1>7. Len(queue'.items) <= Capacity
  BY <1>1, <1>2, <1>5, <1>6
<1>8. n = 0 => popped = << >>
  BY <1>4, EmptySeq
<1>9. reader[r].batch = << >> /\ reader[r].kept = << >> /\ reader[r] \in Reader
  BY <1>1 DEF Inv, ReaderInv, KeptOnlyWhileResolving, ReadPop, TypeOK
<1>10. /\ reader' \in [Readers -> Reader]
       /\ reader'[r].batch = popped /\ reader'[r].kept = << >>
       /\ n # 0 => reader'[r].pc = "resolve"
  <2>1. CASE n = 0
    <3>1. [reader[r] EXCEPT !.pc = "wait"] \in Reader
      BY <1>9 DEF Reader
    <3>2. reader' = [reader EXCEPT ![r] = [reader[r] EXCEPT !.pc = "wait"]]
      BY <1>3, <2>1
    <3> QED
      BY <1>1, <1>8, <1>9, <2>1, <3>1, <3>2 DEF TypeOK, Reader
  <2>2. CASE n # 0
    <3> DEFINE next == [reader[r] EXCEPT !.pc = "resolve", !.batch = popped, !.heard = FALSE]
    <3>1. /\ next \in Reader /\ next.batch = popped /\ next.kept = << >>
          /\ next.pc = "resolve"
      BY <1>4, <1>9 DEF Reader
    <3>2. reader' = [reader EXCEPT ![r] = next]
      BY <1>3, <2>2
    <3> HIDE DEF next
    <3> QED
      BY <1>1, <3>1, <3>2 DEF TypeOK
  <2> QED
    BY <2>1, <2>2
<1>12. KeptIsUniform(reader'[r].kept, popped) /\ KeptWasPublished(reader'[r].kept, client)
  BY <1>10, IdleReaderFacts DEF KeptIsUniform, KeptWasPublished
<1> QED
  BY <1>1, <1>4, <1>5, <1>6, <1>7, <1>8, <1>10, <1>12
  DEF ReaderStepGoal, KeptOnlyWhileResolving

\* The heart of the argument: a packet that is current now agrees with what the
\* reader kept before it.
LEMMA CurrentAgreesWithKept ==
    ASSUME Inv, NEW p \in Packet, NEW k \in Packet, Current(p),
           WasPublished(k, client), p.generation <= k.generation,
           p.generation = k.generation => p.revision <= k.revision
    PROVE  p.generation = k.generation /\ Resolved(p).revision = k.revision
<1>1. client \in Client
  BY DEF Inv, TypeOK
<1>2. /\ p.generation = client.currentGeneration
      /\ client.publishedSession # NoSession
      /\ Resolved(p).revision = client.publishedRevision
  BY DEF Current, Stale, Resolvable, ReadySession
<1>3. k.generation = p.generation
  BY <1>1, <1>2 DEF WasPublished, Packet, Client
<1>4. client.initialRevision <= k.revision /\ k.revision <= client.publishedRevision
  BY <1>2, <1>3 DEF WasPublished
<1>5. CASE p.revision = 0
  BY <1>1, <1>2, <1>3, <1>4, <1>5 DEF Resolved, Packet, Client
<1>6. CASE p.revision # 0
  BY <1>1, <1>2, <1>3, <1>4, <1>6 DEF Resolved, Packet, Client
<1> QED
  BY <1>5, <1>6

\* The oldest packet is dropped: only the batch gets shorter.
LEMMA DropOldestGoal ==
    ASSUME Inv, NEW r \in Readers, reader[r].pc = "resolve", reader[r].batch # << >>,
           reader' = [reader EXCEPT ![r].batch = Tail(@)],
           count' = [count EXCEPT !.settled = @ + 1], queue' = queue
    PROVE  ReaderStepGoal(r)
<1> DEFINE batch == reader[r].batch
           kept == reader[r].kept
<1>1. /\ TypeOK /\ reader[r] \in Reader /\ batch \in Seq(Packet) /\ batch # << >>
      /\ StampsInPast(batch, client)
      /\ KeptIsUniform(kept, batch) /\ KeptWasPublished(kept, client)
  BY DEF Inv, TypeOK, Reader, ReaderInv, AllStampsInPast
<1>2. /\ Tail(batch) \in Seq(Packet) /\ From(Tail(batch), batch)
      /\ StampsInPast(Tail(batch), client)
  BY <1>1, TailFacts, FromStamps
<1>3. KeptIsUniform(kept, Tail(batch))
  BY <1>1, <1>2 DEF KeptIsUniform, From
<1>4. [reader[r] EXCEPT !.batch = Tail(batch)] \in Reader
  BY <1>1, <1>2 DEF Reader
<1>5. /\ reader' \in [Readers -> Reader]
      /\ reader'[r].batch = Tail(batch) /\ reader'[r].kept = kept /\ reader'[r].pc = "resolve"
  BY <1>1, <1>4 DEF TypeOK, Reader
<1>6. count' \in Count
  BY <1>1 DEF TypeOK, Count
<1> QED
  BY <1>1, <1>2, <1>3, <1>5, <1>6
  DEF ReaderStepGoal, KeptOnlyWhileResolving, Inv, TypeOK, AllStampsInPast

\* The oldest packet is kept.
LEMMA KeepOldestGoal ==
    ASSUME Inv, NEW r \in Readers, reader[r].pc = "resolve", reader[r].batch # << >>,
           Current(Head(reader[r].batch)),
           reader' = [reader EXCEPT ![r] =
                       [reader[r] EXCEPT
                          !.batch = Tail(reader[r].batch),
                          !.kept = Append(reader[r].kept, Resolved(Head(reader[r].batch)))]],
           count' = count, queue' = queue
    PROVE  ReaderStepGoal(r)
<1> DEFINE batch == reader[r].batch
           kept == reader[r].kept
           p == batch[1]
           longer == Append(kept, Resolved(p))
<1>1. /\ TypeOK /\ client \in Client /\ reader[r] \in Reader
      /\ batch \in Seq(Packet) /\ batch # << >> /\ kept \in Seq(Packet)
      /\ StampsInPast(batch, client)
      /\ KeptIsUniform(kept, batch) /\ KeptWasPublished(kept, client) /\ LifecycleInv
  BY DEF Inv, TypeOK, Reader, ReaderInv, AllStampsInPast
<1>2. /\ Head(batch) = p /\ p \in Packet /\ Tail(batch) \in Seq(Packet)
      /\ From(Tail(batch), batch) /\ StampsInPast(Tail(batch), client)
      /\ Len(batch) \in Nat /\ Len(batch) > 0
  BY <1>1, TailFacts, FromStamps, EmptySeq
<1>3. /\ Resolved(p) \in Packet /\ Resolved(p).generation = p.generation
      /\ p.generation = client.currentGeneration
      /\ client.publishedSession # NoSession
      /\ Resolved(p).revision = client.publishedRevision
  BY <1>1, <1>2 DEF Current, Stale, Resolvable, ReadySession, Resolved, Packet, Client
<1>4. /\ longer \in Seq(Packet) /\ Len(longer) = Len(kept) + 1 /\ Len(kept) \in Nat
      /\ \A i \in 1 .. Len(kept) : longer[i] = kept[i]
      /\ longer[Len(kept) + 1] = Resolved(p)
  BY <1>1, <1>3, AppendFacts, LenProperties
<1>5. reader' = [reader EXCEPT ![r] = [reader[r] EXCEPT !.batch = Tail(batch), !.kept = longer]]
  BY <1>2, Zenon
<1> HIDE DEF longer, kept, batch, p
<1>6. KeptIsUniform(longer, Tail(batch)) /\ KeptWasPublished(longer, client)
  <2>1. CASE Len(kept) = 0
    <3>1. longer[1] = Resolved(p) /\ Len(longer) = 1
      BY <1>4, <2>1
    <3>2. WasPublished(Resolved(p), client)
      BY <1>1, <1>3 DEF WasPublished, LifecycleInv, Client
    <3>3. \A i \in 1 .. Len(Tail(batch)) :
             /\ Tail(batch)[i].generation <= Resolved(p).generation
             /\ Tail(batch)[i].generation = Resolved(p).generation
                   => Tail(batch)[i].revision <= Resolved(p).revision
      BY <1>2, <1>3 DEF StampsInPast, StampInPast
    <3> QED
      BY <3>1, <3>2, <3>3 DEF KeptIsUniform, KeptWasPublished
  <2>2. CASE Len(kept) > 0
    <3>1. /\ kept[1] \in Packet /\ WasPublished(kept[1], client) /\ longer[1] = kept[1]
          /\ p.generation <= kept[1].generation
          /\ p.generation = kept[1].generation => p.revision <= kept[1].revision
      BY <1>1, <1>2, <1>4, <2>2, ElementOfSeq DEF KeptIsUniform, KeptWasPublished, p
    <3>2. p.generation = kept[1].generation /\ Resolved(p).revision = kept[1].revision
      BY <1>2, <3>1, CurrentAgreesWithKept DEF batch
    <3>3. \A i \in 1 .. Len(longer) : /\ longer[i].generation = longer[1].generation
                                      /\ longer[i].revision = longer[1].revision
      BY <1>1, <1>3, <1>4, <2>2, <3>1, <3>2 DEF KeptIsUniform
    <3>4. \A i \in 1 .. Len(Tail(batch)) :
             /\ Tail(batch)[i].generation <= longer[1].generation
             /\ Tail(batch)[i].generation = longer[1].generation
                   => Tail(batch)[i].revision <= longer[1].revision
      BY <1>1, <1>2, <2>2, <3>1 DEF KeptIsUniform, From
    <3> QED
      BY <3>1, <3>3, <3>4 DEF KeptIsUniform, KeptWasPublished
  <2> QED
    BY <1>4, <2>1, <2>2
<1> DEFINE next == [reader[r] EXCEPT !.batch = Tail(batch), !.kept = longer]
<1>7. next \in Reader /\ next.batch = Tail(batch) /\ next.kept = longer /\ next.pc = "resolve"
  BY <1>1, <1>2, <1>4 DEF Reader
<1> HIDE DEF next
<1>8. reader' \in [Readers -> Reader] /\ reader'[r] = next
  BY <1>1, <1>5, <1>7 DEF TypeOK, next
<1> QED
  BY <1>1, <1>2, <1>6, <1>7, <1>8
  DEF ReaderStepGoal, KeptOnlyWhileResolving, Inv, TypeOK, AllStampsInPast

LEMMA ResolvingReaderGoal ==
    ASSUME Inv, NEW r \in Readers,
           \/ ResolveDecides(r) \/ ResolveFails(r) \/ ResolveWaits(r) \/ ResolveWoken(r)
           \/ ResolveCancelled(r) \/ ReadReturns(r)
    PROVE  ReaderStepGoal(r)
<1>1. TypeOK /\ reader[r] \in Reader
  BY DEF Inv, TypeOK
<1>2. CASE ResolveDecides(r)
  <2>1. CASE Current(Head(reader[r].batch))
    BY <1>2, <2>1, KeepOldestGoal DEF ResolveDecides
  <2>2. CASE ~Current(Head(reader[r].batch))
    BY <1>2, <2>2, DropOldestGoal DEF ResolveDecides
  <2> QED
    BY <2>1, <2>2
<1>3. CASE ResolveFails(r) \/ ResolveCancelled(r)
  <2>1. ReleaseAll(r) /\ queue' = queue
    BY <1>3 DEF ResolveFails, ResolveCancelled
  <2> QED
    BY <1>1, <2>1, ReleaseAllType, IdleReaderFacts, EmptyHandedGoal
<1>4. CASE ResolveWaits(r) \/ ResolveWoken(r)
  <2>1. PICK pc \in {"resolve", "blocked"} :
          reader' = [reader EXCEPT ![r].pc = pc, ![r].heard = FALSE]
    BY <1>4 DEF ResolveWaits, ResolveWoken
  <2>2. /\ reader' \in [Readers -> Reader] /\ reader'[r].kept = reader[r].kept
        /\ reader'[r].batch = reader[r].batch /\ reader'[r].pc = pc
    BY <1>1, <2>1 DEF TypeOK, Reader
  <2> QED
    BY <1>4, <2>2, SameHandsGoal DEF ResolveWaits, ResolveWoken
<1>5. CASE ReadReturns(r)
  <2>1. CASE reader[r].kept = << >>
    <3>1. /\ reader' \in [Readers -> Reader] /\ reader'[r].kept = << >>
          /\ reader'[r].batch = << >>
      <4>1. /\ reader' = [reader EXCEPT ![r] = [reader[r] EXCEPT !.pc = "top"]]
            /\ reader[r].batch = << >>
        BY <1>5, <2>1 DEF ReadReturns
      <4>2. [reader[r] EXCEPT !.pc = "top"] \in Reader
        BY <1>1 DEF Reader
      <4> QED
        BY <1>1, <2>1, <4>1, <4>2 DEF TypeOK, Reader
    <3> QED
      BY <1>1, <1>5, <2>1, <3>1, EmptyHandedGoal DEF ReadReturns, TypeOK
  <2>2. CASE reader[r].kept # << >>
    <3>1. count.settled + Len(reader[r].kept) \in Nat
      BY <1>1, LenProperties DEF TypeOK, Count, Reader
    <3>2. count' \in Count
      BY <1>1, <1>5, <2>2, <3>1 DEF ReadReturns, TypeOK, Count
    <3>3. reader' = [reader EXCEPT ![r] = IdleReader] /\ queue' = queue
      BY <1>5, <2>2 DEF ReadReturns
    <3> QED
      BY <1>1, <3>2, <3>3, IdleReaderFacts, EmptyHandedGoal DEF TypeOK
  <2> QED
    BY <2>1, <2>2
<1> QED
  BY <1>2, <1>3, <1>4, <1>5

LEMMA ReaderStepInv ==
    ASSUME Inv, NEW r \in Readers, ReaderNext(r)
    PROVE  Inv'
<1>1. ReaderStepGoal(r)
  BY WaitingReaderGoal, ReadPopGoal, ResolvingReaderGoal DEF ReaderNext
<1>2. TypeOK /\ PushingHasPackets /\ LifecycleInv /\ AllStampsInPast
  BY DEF Inv
<1>3. TypeOK' /\ PushingHasPackets' /\ LifecycleInv'
  BY <1>1, <1>2, ReaderFrame DEF ReaderStepGoal, TypeOK, PushingHasPackets, LifecycleInv
<1>4. AllStampsInPast'
  BY <1>1, <1>2, ReaderFrame DEF ReaderStepGoal, AllStampsInPast
<1>5. ASSUME NEW v \in Readers PROVE ReaderInv(v)'
  <2>1. CASE v = r
    BY <1>1, <1>2, <2>1, ReaderFrame DEF ReaderStepGoal, ReaderInv
  <2>2. CASE v # r
    BY <1>2, <2>2, ReaderFrame DEF Inv, ReaderInv, KeptOnlyWhileResolving
  <2> QED
    BY <2>1, <2>2
<1> QED
  BY <1>3, <1>4, <1>5 DEF Inv

----------------------------------------------------------------------------
(* The theorems. *)

LEMMA InitInv == Init => Inv
<1> SUFFICES ASSUME Init PROVE Inv
  OBVIOUS
<1>1. TypeOK
  BY InitType
<1>2. Len(<< >>) = 0
  BY EmptySeq
<1>3. PushingHasPackets
  BY DEF Init, IdleWorker, PushingHasPackets
<1>4. LifecycleInv
  BY DEF Init, NewClient, LifecycleInv, NoSession
<1>5. AllStampsInPast
  BY <1>2 DEF Init, IdleWorker, IdleReader, AllStampsInPast, StampsInPast
<1>6. \A r \in Readers : ReaderInv(r)
  BY <1>2 DEF Init, IdleReader, ReaderInv, KeptIsUniform, KeptWasPublished,
              KeptOnlyWhileResolving
<1> QED
  BY <1>1, <1>3, <1>4, <1>5, <1>6 DEF Inv

LEMMA NextInv == Inv /\ [Next]_vars => Inv'
<1> SUFFICES ASSUME Inv, [Next]_vars PROVE Inv'
  OBVIOUS
<1>1. CASE Lifecycle
  BY <1>1, LifecycleStepInv
<1>2. CASE \E w \in Workers : WorkerNext(w)
  BY <1>2, WorkerStepInv
<1>3. CASE \E r \in Readers : ReaderNext(r)
  BY <1>3, ReaderStepInv
<1>4. CASE UNCHANGED vars
  BY <1>4 DEF vars, Inv, TypeOK, PushingHasPackets, LifecycleInv, AllStampsInPast, ReaderInv,
              KeptOnlyWhileResolving
<1> QED
  BY <1>1, <1>2, <1>3, <1>4 DEF Next

LEMMA InvImpliesBatch == Inv => BatchHasOneRevision
<1> SUFFICES ASSUME Inv, NEW r \in Readers,
                    NEW i \in DOMAIN reader[r].kept, NEW j \in DOMAIN reader[r].kept
             PROVE  reader[r].kept[i].revision = reader[r].kept[j].revision
  BY DEF BatchHasOneRevision
<1>1. /\ reader[r].kept \in Seq(Packet)
      /\ KeptIsUniform(reader[r].kept, reader[r].batch)
  BY DEF Inv, TypeOK, Reader, ReaderInv
<1>2. /\ Len(reader[r].kept) \in Nat
      /\ i \in 1 .. Len(reader[r].kept) /\ j \in 1 .. Len(reader[r].kept)
  BY <1>1, LenProperties
<1> QED
  BY <1>1, <1>2 DEF KeptIsUniform

\* Every state of the inbound data plane is well typed, and its queue stays
\* within options.QueueLength.
THEOREM TypeCorrect == Spec => []TypeOK
<1>1. Inv => TypeOK
  BY DEF Inv
<1> QED
  BY <1>1, InitInv, NextInv, PTL DEF Spec

\* For any number of workers, readers, sessions and revisions, a batch that
\* readIncomingDataPackets returns belongs to one configuration revision: the
\* "batch spans tunnel revisions" error of ReadDataPacketsWithRevision cannot
\* happen.
THEOREM BatchesAreUniform == Spec => []BatchHasOneRevision
<1> QED
  BY InvImpliesBatch, InitInv, NextInv, PTL DEF Spec

----------------------------------------------------------------------------
(* Waiting readers. *)

\* Revisions count up, the published one was stamped, and a session whose carrier
\* was replaced is published; the revision its worker is about to publish is
\* newer than the published one.
RevisionsCountUp ==
    /\ client.publishedRevision <= stamps.last
    /\ stamps.supervisor <= stamps.last /\ stamps.worker <= stamps.last
    /\ client.publishedSession \in {NoSession, client.currentSession}
    /\ session.ready => ~session.over
    /\ session.relinked => ~session.over /\ client.publishedSession # NoSession
    /\ session.relinked /\ stamps.worker # 0 => stamps.worker > client.publishedRevision

\* What a reader that has heard nothing yet can rely on, from the moment it
\* captured stateChanged on.
WaitsRightly(r) ==
    /\ reader[r].pc = "blocked" => reader[r].batch # << >>
    /\ reader[r].pc = "blocked" /\ ~reader[r].heard =>
          /\ ~Failed
          /\ ~Stale(Head(reader[r].batch))
          /\ \/ ~Resolvable
             \/ client.publishedGeneration # Head(reader[r].batch).generation
             \/ session.relinked
    /\ reader[r].pc \in {"pop", "wait"} /\ ~reader[r].heard => ~Failed

WakeInv == RevisionsCountUp /\ \A r \in Readers : WaitsRightly(r)

\* Revisions keep counting up.
LEMMA LifecycleCountsUp ==
    ASSUME Inv, RevisionsCountUp, Lifecycle
    PROVE  RevisionsCountUp'
<1>1. /\ client \in Client /\ session \in Session /\ stamps \in Stamps
      /\ stamps.supervisor # 0 => client.publishedSession = NoSession
  BY DEF Inv, TypeOK, LifecycleInv
<1>2. /\ client.publishedRevision \in Nat /\ stamps.last \in Nat /\ stamps.supervisor \in Nat
      /\ stamps.worker \in Nat
  BY <1>1 DEF Client, Stamps
<1> USE DEF RevisionsCountUp
<1>3. CASE Connect
  <2>1. /\ client'.publishedRevision = 0 /\ client'.publishedSession = NoSession
        /\ stamps' = stamps /\ ~session'.relinked /\ ~session'.ready
    BY <1>1, <1>3 DEF Connect, SetCurrentSession, Client
  <2> QED
    BY <1>2, <2>1
<1>4. CASE SupervisorStamps \/ WorkerStamps
  <2>1. UNCHANGED <<client, session>> /\ stamps'.last = stamps.last + 1
    BY <1>1, <1>4 DEF SupervisorStamps, WorkerStamps, Stamps
  <2>2. stamps'.supervisor \in {stamps.supervisor, stamps.last + 1}
        /\ stamps'.worker \in {stamps.worker, stamps.last + 1}
    BY <1>1, <1>4 DEF SupervisorStamps, WorkerStamps, Stamps
  <2> QED
    BY <1>2, <2>1, <2>2
<1>5. CASE SupervisorPublishes
  <2>1. /\ client'.publishedRevision = stamps.supervisor /\ client'.publishedSession = client.currentSession
        /\ client'.currentSession = client.currentSession
        /\ stamps'.last = stamps.last /\ stamps'.worker = stamps.worker /\ stamps'.supervisor = 0
        /\ session' = session /\ client.publishedSession = NoSession
    BY <1>1, <1>5 DEF SupervisorPublishes, PublishCurrentSession, Client, Stamps
  <2> QED
    BY <1>2, <2>1
<1>6. CASE WorkerPublishes
  <2>1. /\ client'.publishedRevision \in {client.publishedRevision, stamps.worker}
        /\ client'.publishedSession = client.publishedSession
        /\ client'.currentSession = client.currentSession
    BY <1>1, <1>6 DEF WorkerPublishes, PublishRevision, Client
  <2>2. /\ stamps'.last = stamps.last /\ stamps'.worker = 0 /\ stamps'.supervisor = stamps.supervisor
        /\ ~session'.relinked /\ session'.ready = session.ready /\ session'.over = session.over
    BY <1>1, <1>6 DEF WorkerPublishes, Stamps, Session
  <2> QED
    BY <1>2, <2>1, <2>2
<1>7. CASE ClearSession
  <2>1. /\ client'.publishedRevision = 0 /\ client'.publishedSession = NoSession
        /\ stamps'.last = stamps.last /\ stamps'.worker = stamps.worker /\ stamps'.supervisor = 0
        /\ session' = session /\ session.over
    BY <1>1, <1>7 DEF ClearSession, ClearCurrentSession, NothingCurrent, Client, Stamps
  <2> QED
    BY <1>2, <2>1
<1>8. CASE ClientFails \/ CloseMarks
  <2>1. /\ client'.publishedRevision = client.publishedRevision
        /\ client'.publishedSession = client.publishedSession
        /\ client'.currentSession = client.currentSession
        /\ UNCHANGED <<session, stamps>>
    BY <1>1, <1>8, EndKeepsSession DEF ClientFails, CloseMarks
  <2> QED
    BY <2>1
<1>9. CASE BecomeReady \/ CarrierLost \/ CarrierReplaced \/ SessionEnds
  <2>1. UNCHANGED <<client, stamps>>
    BY <1>9 DEF BecomeReady, CarrierLost, CarrierReplaced, SessionEnds
  <2>2. CASE CarrierLost
    BY <1>1, <2>1, <2>2 DEF CarrierLost, Session
  <2>3. CASE BecomeReady \/ CarrierReplaced \/ SessionEnds
    BY <1>1, <2>1, <2>3 DEF BecomeReady, CarrierReplaced, SessionEnds, Session
  <2> QED
    BY <1>9, <2>2, <2>3
<1>10. CASE CloseStopsQueue \/ CloseDrains
  BY <1>10 DEF CloseStopsQueue, CloseDrains
<1> QED
  BY <1>3, <1>4, <1>5, <1>6, <1>7, <1>8, <1>9, <1>10 DEF Lifecycle

\* A signalled change leaves no reader waiting that has not heard of it.
LEMMA SignalWakes ==
    ASSUME TypeOK, SignalStateChanged, \A r \in Readers : WaitsRightly(r)
    PROVE  \A r \in Readers : WaitsRightly(r)'
<1> SUFFICES ASSUME NEW r \in Readers PROVE WaitsRightly(r)'
  OBVIOUS
<1>1. reader[r] \in Reader /\ reader'[r].batch = reader[r].batch /\ reader'[r].pc = reader[r].pc
  BY SignalType DEF TypeOK
<1>2. reader[r].pc \in {"pop", "wait", "blocked"} => reader'[r].heard
  BY <1>1 DEF SignalStateChanged, Reader
<1> QED
  BY <1>1, <1>2 DEF WaitsRightly

\* A change that is not signalled decides nothing for the readers.
LEMMA SilentChange ==
    ASSUME UNCHANGED <<client, reader>>, \A r \in Readers : WaitsRightly(r),
           \/ ~session'.ready \/ session'.relinked \/ client.publishedSession = NoSession
           \/ session'.ready = session.ready /\ ~session.relinked
    PROVE  \A r \in Readers : WaitsRightly(r)'
BY DEF WaitsRightly, Failed, Stale, Resolvable, ReadySession

\* What a worker publishes for a new carrier is published and signalled.
LEMMA CarrierIsSignalled ==
    ASSUME Inv, RevisionsCountUp, WorkerPublishes, session.relinked
    PROVE  client' # client
<1>1. client \in Client /\ stamps \in Stamps
  BY DEF Inv, TypeOK
<1>2. /\ client.publishedSession # NoSession /\ client.publishedSession = client.currentSession
      /\ stamps.worker > client.publishedRevision /\ stamps.worker # client.publishedRevision
  <2>1. stamps.worker # 0 /\ client.publishedRevision \in Nat /\ stamps.worker \in Nat
    BY <1>1 DEF WorkerPublishes, Client, Stamps
  <2> QED
    BY <2>1 DEF RevisionsCountUp
<1>3. client' = [client EXCEPT !.publishedRevision = stamps.worker]
  BY <1>2 DEF WorkerPublishes, PublishRevision
<1>4. client'.publishedRevision = stamps.worker
  BY <1>1, <1>3 DEF Client
<1> QED
  BY <1>2, <1>4

\* The lifecycle keeps every waiting reader waiting rightly.
LEMMA LifecycleWakes ==
    ASSUME Inv, WakeInv, Lifecycle
    PROVE  WakeInv'
<1>1. TypeOK /\ RevisionsCountUp /\ (\A r \in Readers : WaitsRightly(r)) /\ session \in Session
  BY DEF Inv, WakeInv, TypeOK
<1>2. \/ SignalStateChanged
      \/ /\ UNCHANGED <<client, reader>>
         /\ \/ ~session'.ready \/ session'.relinked \/ client.publishedSession = NoSession
            \/ session'.ready = session.ready /\ ~session.relinked
            \/ UNCHANGED session
  <2>1. CASE WorkerPublishes
    <3>1. SignalStateChanged \/ UNCHANGED <<client, reader>>
      BY <2>1 DEF WorkerPublishes
    <3>2. session'.ready = session.ready
      BY <1>1, <2>1 DEF WorkerPublishes, Session
    <3>3. session.relinked => client' # client
      BY <1>1, <2>1, CarrierIsSignalled
    <3> QED
      BY <3>1, <3>2, <3>3
  <2>2. CASE BecomeReady \/ CarrierLost \/ CarrierReplaced \/ SessionEnds
    <3>1. UNCHANGED <<client, reader>>
      BY <2>2 DEF BecomeReady, CarrierLost, CarrierReplaced, SessionEnds
    <3>2. BecomeReady => client.publishedSession = NoSession
      BY DEF BecomeReady
    <3>3. CarrierLost => ~session'.ready
      BY <1>1 DEF CarrierLost, Session
    <3>4. SessionEnds => ~session'.ready
      BY DEF SessionEnds
    <3>5. CarrierReplaced => session'.relinked
      BY <1>1 DEF CarrierReplaced, Session
    <3> QED
      BY <2>2, <3>1, <3>2, <3>3, <3>4, <3>5
  <2>3. CASE SupervisorStamps \/ WorkerStamps \/ CloseStopsQueue \/ CloseDrains
    BY <2>3 DEF SupervisorStamps, WorkerStamps, CloseStopsQueue, CloseDrains
  <2>4. CASE Connect \/ SupervisorPublishes \/ ClearSession \/ ClientFails \/ CloseMarks
    BY <2>4 DEF Connect, SupervisorPublishes, ClearSession, ClientFails, CloseMarks
  <2> QED
    BY <2>1, <2>2, <2>3, <2>4 DEF Lifecycle
<1>3. CASE SignalStateChanged
  BY <1>1, <1>3, SignalWakes, LifecycleCountsUp DEF WakeInv
<1>4. CASE UNCHANGED <<client, reader, session>>
  <2>1. \A r \in Readers : WaitsRightly(r)'
    BY <1>1, <1>4 DEF WaitsRightly, Failed, Stale, Resolvable, ReadySession
  <2> QED
    BY <1>1, <2>1, LifecycleCountsUp DEF WakeInv
<1>5. CASE /\ UNCHANGED <<client, reader>>
           /\ \/ ~session'.ready \/ session'.relinked \/ client.publishedSession = NoSession
              \/ session'.ready = session.ready /\ ~session.relinked
  BY <1>1, <1>5, SilentChange, LifecycleCountsUp DEF WakeInv
<1> QED
  BY <1>2, <1>3, <1>4, <1>5

\* A reader waits only for what has not come.
LEMMA ReaderWaits ==
    ASSUME Inv, WakeInv, NEW r \in Readers, ReaderNext(r)
    PROVE  WakeInv'
<1>1. /\ TypeOK /\ reader[r] \in Reader
      /\ client' = client /\ session' = session /\ stamps' = stamps
      /\ \A v \in Readers : v # r => reader'[v] = reader[v]
  BY ReaderFrame DEF Inv, TypeOK
<1>2. RevisionsCountUp'
  BY <1>1 DEF WakeInv, RevisionsCountUp
<1>3. \A v \in Readers : v # r => WaitsRightly(v)'
  BY <1>1 DEF WakeInv, WaitsRightly, Failed, Stale, Resolvable, ReadySession
<1>4. WaitsRightly(r) /\ reader \in [Readers -> Reader]
  BY <1>1 DEF WakeInv, TypeOK
<1>5. WaitsRightly(r)'
  <2>1. CASE reader'[r].pc \notin {"pop", "wait", "blocked"}
    BY <2>1 DEF WaitsRightly
  <2>2. CASE ReadTop(r)
    <3>1. CASE Failed
      BY <1>4, <2>2, <3>1 DEF ReadTop, IdleReader, WaitsRightly
    <3>2. CASE ~Failed
      <4>1. reader'[r].pc = "pop"
        BY <1>1, <1>4, <2>2, <3>2 DEF ReadTop, Reader
      <4> QED
        BY <1>1, <3>2, <4>1 DEF WaitsRightly, Failed
    <3> QED
      BY <3>1, <3>2
  <2>3. CASE ReadPop(r)
    <3>1. PICK n : n = PopCount(reader[r].limit)
      OBVIOUS
    <3>2. CASE n = 0
      <4>1. reader'[r].pc = "wait" /\ reader'[r].heard = reader[r].heard /\ reader[r].pc = "pop"
        BY <1>1, <1>4, <2>3, <3>1, <3>2 DEF ReadPop, Reader
      <4> QED
        BY <1>1, <1>4, <4>1 DEF WaitsRightly, Failed
    <3>3. CASE n # 0
      <4>1. PICK b : b = SubSeq(queue.items, 1, n)
        OBVIOUS
      <4>2. reader' = [reader EXCEPT ![r] = [reader[r] EXCEPT !.pc = "resolve", !.batch = b, !.heard = FALSE]]
        BY <2>3, <3>1, <3>3, <4>1 DEF ReadPop
      <4>3. reader'[r].pc = "resolve"
        BY <1>1, <1>4, <4>2 DEF Reader
      <4> QED
        BY <2>1, <4>3
    <3> QED
      BY <3>2, <3>3
  <2>4. CASE ResolveWaits(r)
    <3>1. /\ reader'[r].pc = "blocked" /\ reader'[r].batch = reader[r].batch
          /\ reader[r].batch # << >> /\ ~Decidable(Head(reader[r].batch)) /\ ~Failed
      BY <1>1, <1>4, <2>4 DEF ResolveWaits, Reader
    <3> QED
      BY <1>1, <3>1 DEF WaitsRightly, Decidable, Failed, Stale, Resolvable, ReadySession
  <2>5. CASE Read(r) \/ ReadWoken(r) \/ ReadCancelled(r) \/ ResolveWoken(r)
    <3>1. reader'[r].pc \in {"idle", "top", "resolve"}
      <4>1. CASE ReadCancelled(r)
        BY <1>4, <4>1 DEF ReadCancelled, IdleReader
      <4>2. CASE Read(r)
        <5>1. PICK limit : reader' = [reader EXCEPT ![r] = [IdleReader EXCEPT !.pc = "top", !.limit = limit]]
          BY <4>2 DEF Read
        <5> QED
          BY <1>4, <5>1, IdleReaderFacts DEF Reader
      <4>3. CASE ReadWoken(r) \/ ResolveWoken(r)
        BY <1>1, <1>4, <4>3 DEF ReadWoken, ResolveWoken, Reader
      <4> QED
        BY <2>5, <4>1, <4>2, <4>3
    <3> QED
      BY <2>1, <3>1
  <2>6. CASE ResolveDecides(r)
    <3>1. reader[r].pc = "resolve" /\ reader'[r].pc = reader[r].pc
      <4>1. PICK b, k : /\ b = Tail(reader[r].batch)
                        /\ k = Append(reader[r].kept, Resolved(Head(reader[r].batch)))
        OBVIOUS
      <4>2. \/ reader' = [reader EXCEPT ![r] = [reader[r] EXCEPT !.batch = b, !.kept = k]]
            \/ reader' = [reader EXCEPT ![r].batch = b]
        BY <2>6, <4>1 DEF ResolveDecides
      <4>3. reader[r].pc = "resolve"
        BY <2>6 DEF ResolveDecides
      <4> QED
        BY <1>1, <1>4, <4>2, <4>3 DEF Reader
    <3> QED
      BY <2>1, <3>1
  <2>7. CASE ResolveFails(r) \/ ResolveCancelled(r) \/ ReadReturns(r)
    <3>1. reader'[r].pc \in {"idle", "top"}
      BY <1>1, <1>4, <2>7 DEF ResolveFails, ResolveCancelled, ReadReturns, ReleaseAll, IdleReader, Reader
    <3> QED
      BY <2>1, <3>1
  <2> QED
    BY <2>2, <2>3, <2>4, <2>5, <2>6, <2>7 DEF ReaderNext
<1> QED
  BY <1>2, <1>3, <1>5 DEF WakeInv

\* Every step keeps the waiting readers waiting rightly.
LEMMA NextWake == ASSUME Inv, WakeInv, [Next]_vars PROVE WakeInv'
<1>1. CASE Lifecycle
  BY <1>1, LifecycleWakes
<1>2. CASE (\E w \in Workers : WorkerNext(w)) \/ UNCHANGED vars
  <2>1. UNCHANGED <<client, session, stamps, reader>>
    BY <1>2 DEF WorkerNext, Receive, TryPush, PushOne, PushStops, vars
  <2> QED
    BY <2>1, SMTT(30) DEF WakeInv, RevisionsCountUp, WaitsRightly, Failed, Stale, Resolvable, ReadySession
<1>3. CASE \E r \in Readers : ReaderNext(r)
  BY <1>3, ReaderWaits
<1> QED
  BY <1>1, <1>2, <1>3 DEF Next

\* Nobody waits initially.
LEMMA InitWake == ASSUME Init PROVE WakeInv
BY DEF Init, NewClient, IdleReader, WakeInv, RevisionsCountUp, WaitsRightly, NoSession

\* A reader that waits for a state change has not missed one, for any number of
\* readers, sessions and revisions: every change of the client that decides a
\* packet, or ends the client, closes the channel the reader captured.
THEOREM NoStateChangeIsMissed == Spec => []NoMissedStateChange
<1>1. WakeInv => NoMissedStateChange
  BY DEF WakeInv, WaitsRightly, NoMissedStateChange, Decidable
<1> QED
  BY <1>1, InitInv, NextInv, InitWake, NextWake, PTL DEF Spec

----------------------------------------------------------------------------
(* Packets on their way. *)

\* The places a packet can be: with a worker, in the queue, in the batch a reader
\* popped, or among the ones it kept.
WorkerPlace(w) == <<"worker", w>>
BatchPlace(r) == <<"batch", r>>
KeptPlace(r) == <<"kept", r>>
QueuePlace == <<"queue", "queue">>
Place == {WorkerPlace(w) : w \in Workers} \cup {BatchPlace(r) : r \in Readers}
            \cup {KeptPlace(r) : r \in Readers} \cup {QueuePlace}

LinesOf(queued, working, reading) ==
    [p \in Place |-> CASE p[1] = "worker" -> working[p[2]].packets
                      [] p[1] = "batch"  -> reading[p[2]].batch
                      [] p[1] = "kept"   -> reading[p[2]].kept
                      [] OTHER           -> queued.items]
Lines == LinesOf(queue, worker, reader)

Ids(s) == {s[i].id : i \in 1 .. Len(s)}
Distinct(s) == \A i, j \in 1 .. Len(s) : s[i].id = s[j].id => i = j
AllIds(l) == UNION {Ids(l[p]) : p \in Place}

\* No packet is in two places, and those that are nowhere were settled.
Accounted(l, received, settled) ==
    /\ \A p \in Place : Distinct(l[p]) /\ Ids(l[p]) \subseteq 1 .. received
    /\ \A p, q \in Place : p # q => Ids(l[p]) \cap Ids(l[q]) = {}
    /\ received = Cardinality(AllIds(l)) + settled

\* The order of packets, and which place is ahead of which.
Tags(s) == {<<s[i].from, s[i].id>> : i \in 1 .. Len(s)}
Precedes(S, T) == \A a \in S, b \in T : a[1] = b[1] => a[2] < b[2]
InOrder(s) == \A i, j \in 1 .. Len(s) : i < j /\ s[i].from = s[j].from => s[i].id < s[j].id
Ahead(p, q) ==
    \/ p[1] = "kept" /\ q[1] = "batch" /\ p[2] = q[2]
    \/ p[1] \in {"kept", "batch"} /\ q[1] \in {"queue", "worker"}
    \/ p[1] = "queue" /\ q[1] = "worker"

InLine(l) ==
    /\ \A p \in Place : InOrder(l[p])
    /\ \A p, q \in Place : Ahead(p, q) => Precedes(Tags(l[p]), Tags(l[q]))
    /\ \A p \in Place : p[1] = "worker" => \A a \in Tags(l[p]) : a[1] = p[2]

IdleHoldsNothing == \A w \in Workers : worker[w].pc = "idle" => worker[w].packets = << >>

PacketsInv ==
    /\ IdleHoldsNothing
    /\ Accounted(Lines, count.received, count.settled)
    /\ InLine(Lines)

\* s is a followed by b, as far as packets are told apart.
Joined(s, a, b) ==
    /\ Len(s) \in Nat /\ Len(a) \in Nat /\ Len(b) \in Nat /\ Len(s) = Len(a) + Len(b)
    /\ \A i \in 1 .. Len(a) : s[i].id = a[i].id /\ s[i].from = a[i].from
    /\ \A i \in 1 .. Len(b) : s[Len(a) + i].id = b[i].id /\ s[Len(a) + i].from = b[i].from

\* What a joined sequence consists of, and when it is distinct and in order.
LEMMA JoinedFacts ==
    ASSUME NEW s, NEW a, NEW b, Joined(s, a, b)
    PROVE  /\ Ids(s) = Ids(a) \cup Ids(b)
           /\ Tags(s) = Tags(a) \cup Tags(b)
           /\ Distinct(s) <=> Distinct(a) /\ Distinct(b) /\ Ids(a) \cap Ids(b) = {}
           /\ InOrder(s) <=> InOrder(a) /\ InOrder(b) /\ Precedes(Tags(a), Tags(b))
<1>1. PICK n \in Nat, k \in Nat : n = Len(a) /\ k = Len(b) /\ Len(s) = n + k
  BY DEF Joined
<1>2. /\ \A i \in 1 .. n : i \in 1 .. n + k /\ s[i].id = a[i].id /\ s[i].from = a[i].from
      /\ \A i \in 1 .. k : n + i \in 1 .. n + k /\ s[n + i].id = b[i].id /\ s[n + i].from = b[i].from
  <2>1. /\ \A i \in 1 .. n : s[i].id = a[i].id /\ s[i].from = a[i].from
        /\ \A i \in 1 .. k : s[n + i].id = b[i].id /\ s[n + i].from = b[i].from
    BY <1>1, Zenon DEF Joined
  <2>2. (\A i \in 1 .. n : i \in 1 .. n + k) /\ (\A i \in 1 .. k : n + i \in 1 .. n + k)
    BY <1>1
  <2> QED
    BY <2>1, <2>2, Zenon
<1>3. \A i \in 1 .. n + k : i \in 1 .. n \/ \E j \in 1 .. k : i = n + j
  <2> SUFFICES ASSUME NEW i \in 1 .. n + k, i > n
               PROVE  \E j \in 1 .. k : i = n + j
    BY <1>1
  <2>1. i - n \in 1 .. k /\ i = n + (i - n)
    BY <1>1
  <2> QED
    BY <2>1
<1>4. Ids(s) = Ids(a) \cup Ids(b)
  <2>1. /\ Ids(s) = {s[i].id : i \in 1 .. n + k} /\ Ids(a) = {a[i].id : i \in 1 .. n}
        /\ Ids(b) = {b[i].id : i \in 1 .. k}
    BY <1>1, Zenon DEF Ids
  <2>2. ASSUME NEW v \in Ids(s)
        PROVE  v \in Ids(a) \cup Ids(b)
    <3>1. PICK i \in 1 .. n + k : v = s[i].id
      BY <2>1, Zenon
    <3>2. CASE i \in 1 .. n
      BY <1>2, <2>1, <3>1, <3>2, Zenon
    <3>3. ASSUME NEW j \in 1 .. k, i = n + j
          PROVE  v \in Ids(b)
      <4>1. v = b[j].id
        BY <1>2, <3>1, <3>3, Zenon
      <4> QED
        BY <2>1, <4>1, Zenon
    <3> QED
      BY <1>3, <3>2, <3>3, Zenon
  <2>3. \A v \in Ids(a) \cup Ids(b) : v \in Ids(s)
    BY <1>2, <2>1, Zenon
  <2> QED
    BY <2>2, <2>3, Zenon
<1>5. Tags(s) = Tags(a) \cup Tags(b)
  <2>1. /\ Tags(s) = {<<s[i].from, s[i].id>> : i \in 1 .. n + k}
        /\ Tags(a) = {<<a[i].from, a[i].id>> : i \in 1 .. n}
        /\ Tags(b) = {<<b[i].from, b[i].id>> : i \in 1 .. k}
    BY <1>1, Zenon DEF Tags
  <2>2. ASSUME NEW v \in Tags(s)
        PROVE  v \in Tags(a) \cup Tags(b)
    <3>1. PICK i \in 1 .. n + k : v = <<s[i].from, s[i].id>>
      BY <2>1, Zenon
    <3>2. CASE i \in 1 .. n
      BY <1>2, <2>1, <3>1, <3>2, Zenon
    <3>3. ASSUME NEW j \in 1 .. k, i = n + j
          PROVE  v \in Tags(b)
      <4>1. v = <<b[j].from, b[j].id>>
        BY <1>2, <3>1, <3>3, Zenon
      <4> QED
        BY <2>1, <4>1, Zenon
    <3> QED
      BY <1>3, <3>2, <3>3, Zenon
  <2>3. \A v \in Tags(a) \cup Tags(b) : v \in Tags(s)
    BY <1>2, <2>1, Zenon
  <2> QED
    BY <2>2, <2>3, Zenon
<1>6. ASSUME Distinct(s)
      PROVE  Distinct(a) /\ Distinct(b) /\ Ids(a) \cap Ids(b) = {}
  <2>1. Distinct(a)
    BY <1>1, <1>2, <1>6 DEF Distinct
  <2>2. Distinct(b)
    <3> SUFFICES ASSUME NEW i \in 1 .. k, NEW j \in 1 .. k, b[i].id = b[j].id
                 PROVE  i = j
      BY <1>1 DEF Distinct
    <3>1. n + i \in 1 .. Len(s) /\ n + j \in 1 .. Len(s) /\ s[n + i].id = s[n + j].id
      BY <1>1, <1>2, Zenon
    <3>2. n + i = n + j
      BY <1>6, <3>1, Zenon DEF Distinct
    <3> QED
      BY <1>1, <3>2
  <2>3. \A i \in 1 .. n, j \in 1 .. k : a[i].id # b[j].id
    <3> SUFFICES ASSUME NEW i \in 1 .. n, NEW j \in 1 .. k, a[i].id = b[j].id
                 PROVE  FALSE
      OBVIOUS
    <3>1. i = n + j
      BY <1>1, <1>2, <1>6 DEF Distinct
    <3> QED
      BY <1>1, <3>1
  <2> QED
    BY <1>1, <2>1, <2>2, <2>3 DEF Ids
<1>7. ASSUME Distinct(a), Distinct(b), Ids(a) \cap Ids(b) = {}
      PROVE  Distinct(s)
  <2>1. \A i \in 1 .. n, j \in 1 .. k : a[i].id # b[j].id
    BY <1>1, <1>7 DEF Ids
  <2> SUFFICES ASSUME NEW i \in 1 .. n + k, NEW j \in 1 .. n + k, s[i].id = s[j].id
               PROVE  i = j
    BY <1>1 DEF Distinct
  <2>2. CASE i \in 1 .. n /\ j \in 1 .. n
    BY <1>1, <1>2, <1>7, <2>2 DEF Distinct
  <2>3. CASE i \in 1 .. n /\ j \notin 1 .. n
    BY <1>2, <1>3, <2>1, <2>3
  <2>4. CASE i \notin 1 .. n /\ j \in 1 .. n
    BY <1>2, <1>3, <2>1, <2>4
  <2>5. CASE i \notin 1 .. n /\ j \notin 1 .. n
    <3>1. PICK u \in 1 .. k, v \in 1 .. k : i = n + u /\ j = n + v
      BY <1>3, <2>5
    <3>2. u = v
      BY <1>1, <1>2, <1>7, <3>1 DEF Distinct
    <3> QED
      BY <3>1, <3>2
  <2> QED
    BY <2>2, <2>3, <2>4, <2>5
<1>8. Precedes(Tags(a), Tags(b)) <=>
         \A i \in 1 .. n, j \in 1 .. k : a[i].from = b[j].from => a[i].id < b[j].id
  <2>1. /\ Tags(a) = {<<a[i].from, a[i].id>> : i \in 1 .. n}
        /\ Tags(b) = {<<b[i].from, b[i].id>> : i \in 1 .. k}
    BY <1>1, Zenon DEF Tags
  <2>2. \A x, y : <<x, y>>[1] = x /\ <<x, y>>[2] = y
    OBVIOUS
  <2>3. ASSUME Precedes(Tags(a), Tags(b)), NEW i \in 1 .. n, NEW j \in 1 .. k, a[i].from = b[j].from
        PROVE  a[i].id < b[j].id
    <3>1. <<a[i].from, a[i].id>> \in Tags(a) /\ <<b[j].from, b[j].id>> \in Tags(b)
      BY <2>1, Zenon
    <3>2. <<a[i].from, a[i].id>>[2] < <<b[j].from, b[j].id>>[2]
      BY <2>2, <2>3, <3>1, Zenon DEF Precedes
    <3> QED
      BY <2>2, <3>2, Zenon
  <2>4. ASSUME \A i \in 1 .. n, j \in 1 .. k : a[i].from = b[j].from => a[i].id < b[j].id
        PROVE  Precedes(Tags(a), Tags(b))
    <3> SUFFICES ASSUME NEW u \in Tags(a), NEW v \in Tags(b), u[1] = v[1]
                 PROVE  u[2] < v[2]
      BY Zenon DEF Precedes
    <3>1. PICK i \in 1 .. n, j \in 1 .. k :
             u = <<a[i].from, a[i].id>> /\ v = <<b[j].from, b[j].id>>
      BY <2>1, Zenon
    <3>2. a[i].from = b[j].from
      BY <2>2, <3>1, Zenon
    <3>3. a[i].id < b[j].id
      BY <2>4, <3>2, Zenon
    <3> QED
      BY <2>2, <3>1, <3>3, Zenon
  <2> QED
    BY <2>3, <2>4, Zenon
<1>9. ASSUME InOrder(s)
      PROVE  InOrder(a) /\ InOrder(b) /\ Precedes(Tags(a), Tags(b))
  <2>1. InOrder(a)
    BY <1>1, <1>2, <1>9 DEF InOrder
  <2>2. InOrder(b)
    <3> SUFFICES ASSUME NEW i \in 1 .. k, NEW j \in 1 .. k, i < j, b[i].from = b[j].from
                 PROVE  b[i].id < b[j].id
      BY <1>1 DEF InOrder
    <3>1. n + i \in 1 .. n + k /\ n + j \in 1 .. n + k /\ n + i < n + j
      BY <1>1
    <3> QED
      BY <1>1, <1>2, <1>9, <3>1, SMTT(30) DEF InOrder
  <2>3. ASSUME NEW i \in 1 .. n, NEW j \in 1 .. k, a[i].from = b[j].from
        PROVE  a[i].id < b[j].id
    <3>1. i \in 1 .. n + k /\ n + j \in 1 .. n + k /\ i < n + j
      BY <1>1
    <3> QED
      BY <1>1, <1>2, <1>9, <2>3, <3>1 DEF InOrder
  <2> QED
    BY <1>8, <2>1, <2>2, <2>3
<1>10. ASSUME InOrder(a), InOrder(b), Precedes(Tags(a), Tags(b))
       PROVE  InOrder(s)
  <2> SUFFICES ASSUME NEW i \in 1 .. n + k, NEW j \in 1 .. n + k, i < j, s[i].from = s[j].from
               PROVE  s[i].id < s[j].id
    BY <1>1 DEF InOrder
  <2>1. CASE j \in 1 .. n
    <3>1. i \in 1 .. n
      BY <1>1, <2>1
    <3> QED
      BY <1>1, <1>2, <1>10, <2>1, <3>1 DEF InOrder
  <2>2. CASE i \in 1 .. n /\ j \notin 1 .. n
    BY <1>2, <1>3, <1>8, <1>10, <2>2
  <2>3. CASE i \notin 1 .. n /\ j \notin 1 .. n
    <3>1. PICK u \in 1 .. k, v \in 1 .. k : i = n + u /\ j = n + v
      BY <1>3, <2>3
    <3>2. u < v
      BY <1>1, <3>1
    <3> QED
      BY <1>1, <1>2, <1>10, <3>1, <3>2 DEF InOrder
  <2> QED
    BY <2>1, <2>2, <2>3
<1> QED
  BY <1>4, <1>5, <1>6, <1>7, <1>9, <1>10

\* Nothing is in an empty sequence.
LEMMA EmptyParts ==
    Ids(<< >>) = {} /\ Tags(<< >>) = {} /\ Distinct(<< >>) /\ InOrder(<< >>)
<1>1. Len(<< >>) = 0
  BY EmptySeq
<1> QED
  BY <1>1 DEF Ids, Tags, Distinct, InOrder

\* A sequence cut in two.
LEMMA SplitJoins ==
    ASSUME NEW s \in Seq(Packet), NEW n \in 0 .. Len(s)
    PROVE  Joined(s, SubSeq(s, 1, n), SubSeq(s, n + 1, Len(s)))
<1>1. Len(s) \in Nat /\ n \in Nat /\ n + 1 \in Int
  BY LenProperties
<1>2. \A i \in 1 .. Len(s) : s[i] \in Packet
  BY ElementOfSeq
<1>3. /\ Len(SubSeq(s, 1, n)) = IF 1 <= n THEN n - 1 + 1 ELSE 0
      /\ \A i \in 1 .. n - 1 + 1 : SubSeq(s, 1, n)[i] = s[1 + i - 1]
  BY <1>1, <1>2, SubSeqProperties
<1>4. /\ Len(SubSeq(s, n + 1, Len(s))) = IF n + 1 <= Len(s) THEN Len(s) - (n + 1) + 1 ELSE 0
      /\ \A i \in 1 .. Len(s) - (n + 1) + 1 : SubSeq(s, n + 1, Len(s))[i] = s[n + 1 + i - 1]
  BY <1>1, <1>2, SubSeqProperties
<1>5. PICK a, b : a = SubSeq(s, 1, n) /\ b = SubSeq(s, n + 1, Len(s))
  OBVIOUS
<1>6. PICK k \in Nat : k = Len(s) - n /\ Len(s) = n + k
  BY <1>1
<1>7. Len(a) = n /\ Len(b) = k
  BY <1>1, <1>3, <1>4, <1>5, <1>6
<1>8. \A i \in 1 .. n : a[i] = s[i]
  BY <1>1, <1>3, <1>5
<1>9. \A i \in 1 .. k : b[i] = s[n + i]
  <2> SUFFICES ASSUME NEW i \in 1 .. k PROVE b[i] = s[n + i]
    OBVIOUS
  <2>1. i \in 1 .. Len(s) - (n + 1) + 1 /\ n + 1 + i - 1 = n + i
    BY <1>1, <1>6
  <2> QED
    BY <1>4, <1>5, <2>1
<1> QED
  BY <1>1, <1>5, <1>6, <1>7, <1>8, <1>9 DEF Joined

\* One sequence after another.
LEMMA ConcatJoins ==
    ASSUME NEW s \in Seq(Packet), NEW t \in Seq(Packet)
    PROVE  Joined(s \o t, s, t)
<1>1. Len(s) \in Nat /\ Len(t) \in Nat
  BY LenProperties
<1>2. /\ Len(s \o t) = Len(s) + Len(t)
      /\ \A i \in 1 .. Len(s) + Len(t) : (s \o t)[i] = IF i <= Len(s) THEN s[i] ELSE t[i - Len(s)]
  BY <1>1, ConcatProperties
<1>3. \A i \in 1 .. Len(s) : (s \o t)[i] = s[i]
  BY <1>1, <1>2
<1>4. \A i \in 1 .. Len(t) : (s \o t)[Len(s) + i] = t[i]
  BY <1>1, <1>2
<1> QED
  BY <1>1, <1>2, <1>3, <1>4 DEF Joined

\* A packet appended, by whatever revision it is known now.
LEMMA AppendJoins ==
    ASSUME NEW s \in Seq(Packet), NEW e \in Packet, NEW p, p.id = e.id, p.from = e.from
    PROVE  Joined(Append(s, e), s, <<p>>)
<1>1. /\ Len(Append(s, e)) = Len(s) + 1 /\ Len(s) \in Nat
      /\ \A i \in 1 .. Len(s) : Append(s, e)[i] = s[i]
      /\ Append(s, e)[Len(s) + 1] = e
  BY AppendFacts, LenProperties
<1>2. Len(<<p>>) = 1 /\ <<p>>[1] = p
  OBVIOUS
<1> QED
  BY <1>1, <1>2 DEF Joined

\* The oldest packet and the others.
LEMMA TailJoins ==
    ASSUME NEW s \in Seq(Packet), s # << >>
    PROVE  Joined(s, <<Head(s)>>, Tail(s))
<1>1. Len(s) \in Nat /\ Len(s) > 0
  BY EmptySeq
<1>2. /\ Head(s) = s[1] /\ Len(Tail(s)) = Len(s) - 1
      /\ \A i \in 1 .. Len(Tail(s)) : Tail(s)[i] = s[i + 1]
  BY <1>1, HeadTailProperties
<1>3. Len(<<Head(s)>>) = 1 /\ <<Head(s)>>[1] = Head(s)
  OBVIOUS
<1> QED
  BY <1>1, <1>2, <1>3 DEF Joined

\* Distinct packets have as many identities as the sequence is long.
LEMMA IdsCount ==
    ASSUME NEW s \in Seq(Packet), Distinct(s)
    PROVE  IsFiniteSet(Ids(s)) /\ Cardinality(Ids(s)) = Len(s)
<1>1. Len(s) \in Nat
  BY LenProperties
<1>2. PICK f : f = [i \in 1 .. Len(s) |-> s[i].id]
  OBVIOUS
<1>3. f \in Bijection(1 .. Len(s), Ids(s))
  <2>1. f \in [1 .. Len(s) -> Ids(s)]
    BY <1>2 DEF Ids
  <2>2. \A i, j \in 1 .. Len(s) : f[i] = f[j] => i = j
    BY <1>2 DEF Distinct
  <2>3. \A v \in Ids(s) : \E i \in 1 .. Len(s) : f[i] = v
    BY <1>2 DEF Ids
  <2> QED
    BY <2>1, <2>2, <2>3, Fun_IsBij
<1>4. ExistsBijection(1 .. Len(s), Ids(s))
  BY <1>3, Fun_ExistsBij
<1>5. IsFiniteSet(1 .. Len(s)) /\ Cardinality(1 .. Len(s)) = Len(s)
  <2>1. /\ IsFiniteSet(1 .. Len(s))
        /\ Cardinality(1 .. Len(s)) = IF 1 > Len(s) THEN 0 ELSE Len(s) - 1 + 1
    BY <1>1, FS_Interval, SMTT(30)
  <2> QED
    BY <1>1, <2>1
<1> QED
  BY <1>4, <1>5, FS_Bijection

\* A place is not ahead of itself.
LEMMA AheadIsStrict == \A p : ~Ahead(p, p)
BY DEF Ahead

\* The packets on their way are finitely many.
LEMMA AllIdsFinite ==
    ASSUME NEW l, NEW received \in Nat, \A p \in Place : Ids(l[p]) \subseteq 1 .. received
    PROVE  IsFiniteSet(AllIds(l)) /\ Cardinality(AllIds(l)) \in Nat
<1>1. AllIds(l) \subseteq 1 .. received
  BY Zenon DEF AllIds
<1>2. IsFiniteSet(1 .. received)
  BY FS_Interval
<1> QED
  BY <1>1, <1>2, FS_Subset, FS_CardinalityType

\* Packets x leave the front of the line at A and are settled.
LEMMA Drop ==
    ASSUME NEW l, NEW m, NEW A \in Place, NEW x \in Seq(Packet), NEW y,
           Joined(l[A], x, y), m[A] = y, \A p \in Place : p # A => m[p] = l[p],
           NEW received \in Nat, NEW settled \in Nat,
           Accounted(l, received, settled), InLine(l)
    PROVE  Accounted(m, received, settled + Len(x)) /\ InLine(m)
<1>1. /\ Ids(l[A]) = Ids(x) \cup Ids(y) /\ Tags(l[A]) = Tags(x) \cup Tags(y)
      /\ Distinct(l[A]) <=> Distinct(x) /\ Distinct(y) /\ Ids(x) \cap Ids(y) = {}
      /\ InOrder(l[A]) <=> InOrder(x) /\ InOrder(y) /\ Precedes(Tags(x), Tags(y))
  BY JoinedFacts
<1>2. Distinct(x) /\ Distinct(y) /\ Ids(x) \cap Ids(y) = {} /\ InOrder(y)
  BY <1>1, Zenon DEF Accounted, InLine
<1>3. \A p \in Place : Distinct(m[p]) /\ Ids(m[p]) \subseteq 1 .. received
  BY <1>1, <1>2, Zenon DEF Accounted
<1>4. \A p \in Place : Ids(m[p]) \subseteq Ids(l[p]) /\ Tags(m[p]) \subseteq Tags(l[p])
  BY <1>1, Zenon
<1>5. \A p, q \in Place : p # q => Ids(m[p]) \cap Ids(m[q]) = {}
  BY <1>4, Zenon DEF Accounted
<1>6. AllIds(l) = Ids(x) \cup AllIds(m) /\ Ids(x) \cap AllIds(m) = {}
  <2>1. \A v \in AllIds(l) : v \in Ids(x) \cup AllIds(m)
    <3> SUFFICES ASSUME NEW v \in AllIds(l), v \notin Ids(x)
                 PROVE  v \in AllIds(m)
      BY Zenon
    <3>1. PICK p \in Place : v \in Ids(l[p])
      BY Zenon DEF AllIds
    <3>2. v \in Ids(m[p])
      <4>1. CASE p = A
        BY <1>1, <3>1, <4>1, Zenon
      <4>2. CASE p # A
        BY <3>1, <4>2, Zenon
      <4> QED
        BY <4>1, <4>2, Zenon
    <3> QED
      BY <3>2, Zenon DEF AllIds
  <2>2. \A v \in Ids(x) \cup AllIds(m) : v \in AllIds(l)
    BY <1>1, <1>4, Zenon DEF AllIds
  <2>3. \A v \in AllIds(m) : v \notin Ids(x)
    <3> SUFFICES ASSUME NEW p \in Place, NEW v \in Ids(m[p]), v \in Ids(x)
                 PROVE  FALSE
      BY Zenon DEF AllIds
    <3>1. CASE p = A
      BY <1>2, <3>1, Zenon
    <3>2. CASE p # A
      BY <1>1, <3>2, Zenon DEF Accounted
    <3> QED
      BY <3>1, <3>2, Zenon
  <2> QED
    BY <2>1, <2>2, <2>3, Zenon
<1>7. received = Cardinality(AllIds(m)) + (settled + Len(x))
  <2>1. /\ IsFiniteSet(AllIds(m)) /\ Cardinality(AllIds(m)) \in Nat
        /\ IsFiniteSet(Ids(x)) /\ Cardinality(Ids(x)) = Len(x) /\ Len(x) \in Nat
    BY <1>2, <1>3, AllIdsFinite, IdsCount, LenProperties
  <2>2. Cardinality(Ids(x) \cup AllIds(m)) =
           Cardinality(Ids(x)) + Cardinality(AllIds(m)) - Cardinality(Ids(x) \cap AllIds(m))
    BY <2>1, FS_Union
  <2>3. Cardinality(Ids(x) \cap AllIds(m)) = 0
    BY <1>6, FS_EmptySet, Zenon
  <2>4. Cardinality(AllIds(l)) = Cardinality(Ids(x) \cup AllIds(m))
    BY <1>6, Zenon
  <2>5. received = Cardinality(AllIds(l)) + settled
    BY Zenon DEF Accounted
  <2> QED
    BY <2>1, <2>2, <2>3, <2>4, <2>5
<1>8. Accounted(m, received, settled + Len(x))
  BY <1>3, <1>5, <1>7, Zenon DEF Accounted
<1>9. InLine(m)
  <2>1. \A p \in Place : InOrder(m[p])
    BY <1>2, Zenon DEF InLine
  <2>2. \A p, q \in Place : Ahead(p, q) => Precedes(Tags(m[p]), Tags(m[q]))
    BY <1>4, Zenon DEF InLine, Precedes
  <2>3. \A p \in Place : p[1] = "worker" => \A a \in Tags(m[p]) : a[1] = p[2]
    BY <1>4, Zenon DEF InLine
  <2> QED
    BY <2>1, <2>2, <2>3, Zenon DEF InLine
<1> QED
  BY <1>8, <1>9

\* Packets x leave the front of the line at A for the end of the one at B, which
\* is ahead of it with nothing in between.
LEMMA Transfer ==
    ASSUME NEW l, NEW m, NEW A \in Place, NEW B \in Place, A # B, NEW x, NEW y,
           Joined(l[A], x, y), m[A] = y, Joined(m[B], l[B], x),
           \A p \in Place : p # A /\ p # B => m[p] = l[p],
           Ahead(B, A), ~Ahead(A, B), B[1] # "worker",
           \A p \in Place : Ahead(p, B) => Ahead(p, A),
           \A q \in Place : Ahead(B, q) /\ q # A => Precedes(Tags(l[A]), Tags(l[q])),
           NEW received, NEW settled, Accounted(l, received, settled), InLine(l)
    PROVE  Accounted(m, received, settled) /\ InLine(m)
<1>1. /\ Ids(l[A]) = Ids(x) \cup Ids(y) /\ Tags(l[A]) = Tags(x) \cup Tags(y)
      /\ Distinct(l[A]) <=> Distinct(x) /\ Distinct(y) /\ Ids(x) \cap Ids(y) = {}
      /\ InOrder(l[A]) <=> InOrder(x) /\ InOrder(y) /\ Precedes(Tags(x), Tags(y))
  BY JoinedFacts
<1>2. /\ Ids(m[B]) = Ids(l[B]) \cup Ids(x) /\ Tags(m[B]) = Tags(l[B]) \cup Tags(x)
      /\ Distinct(m[B]) <=> Distinct(l[B]) /\ Distinct(x) /\ Ids(l[B]) \cap Ids(x) = {}
      /\ InOrder(m[B]) <=> InOrder(l[B]) /\ InOrder(x) /\ Precedes(Tags(l[B]), Tags(x))
  BY JoinedFacts
<1>3. /\ Distinct(x) /\ Distinct(y) /\ Ids(x) \cap Ids(y) = {} /\ InOrder(x) /\ InOrder(y)
      /\ Precedes(Tags(x), Tags(y)) /\ Ids(l[A]) \cap Ids(l[B]) = {}
      /\ Precedes(Tags(l[B]), Tags(l[A])) /\ Distinct(l[B]) /\ InOrder(l[B])
  BY <1>1, Zenon DEF Accounted, InLine
<1>17. \A T : /\ Precedes(Tags(l[A]), T) => Precedes(Tags(x), T) /\ Precedes(Tags(y), T)
              /\ Precedes(T, Tags(l[A])) => Precedes(T, Tags(x)) /\ Precedes(T, Tags(y))
  BY <1>1, Zenon DEF Precedes
<1>18. \A T : /\ Precedes(Tags(l[B]), T) /\ Precedes(Tags(x), T) => Precedes(Tags(m[B]), T)
              /\ Precedes(T, Tags(l[B])) /\ Precedes(T, Tags(x)) => Precedes(T, Tags(m[B]))
  <2>1. Tags(m[B]) = Tags(l[B]) \cup Tags(x)
    BY <1>2, Zenon
  <2> QED
    BY <2>1, Zenon DEF Precedes
<1>4. /\ Ids(l[B]) \cap Ids(x) = {}
      /\ Precedes(Tags(l[B]), Tags(x)) /\ Precedes(Tags(l[B]), Tags(y))
  <2>1. Ids(l[B]) \cap Ids(x) = {}
    BY <1>1, <1>3, Zenon
  <2> QED
    BY <1>3, <1>17, <2>1, Zenon
<1>5. Distinct(m[A]) /\ Distinct(m[B]) /\ InOrder(m[A]) /\ InOrder(m[B])
  BY <1>2, <1>3, <1>4, Zenon
<1>6. \A p \in Place : Ids(m[p]) \subseteq Ids(l[p]) \cup Ids(x)
  BY <1>1, <1>2, Zenon
<1>7. \A p \in Place : p # B => Ids(m[p]) \subseteq Ids(l[p]) /\ Tags(m[p]) \subseteq Tags(l[p])
  BY <1>1, Zenon
<1>8. \A p \in Place : Distinct(m[p]) /\ Ids(m[p]) \subseteq 1 .. received
  <2>1. \A p \in Place : Distinct(m[p])
    BY <1>5, Zenon DEF Accounted
  <2>2. Ids(x) \subseteq 1 .. received
    BY <1>1, Zenon DEF Accounted
  <2> QED
    BY <1>6, <2>1, <2>2, Zenon DEF Accounted
<1>9. \A p \in Place : p # B => Ids(m[p]) \cap Ids(m[B]) = {}
  <2> SUFFICES ASSUME NEW p \in Place, p # B, NEW v \in Ids(m[p]), v \in Ids(m[B])
               PROVE  FALSE
    BY Zenon
  <2>1. CASE p = A
    BY <1>1, <1>2, <1>3, <2>1, Zenon
  <2>2. CASE p # A
    <3>1. v \in Ids(l[p])
      BY <2>2, Zenon
    <3>2. v \in Ids(l[A]) \/ v \in Ids(l[B])
      BY <1>1, <1>2, Zenon
    <3> QED
      BY <2>2, <3>1, <3>2, Zenon DEF Accounted
  <2> QED
    BY <2>1, <2>2, Zenon
<1>10. \A p, q \in Place : p # q => Ids(m[p]) \cap Ids(m[q]) = {}
  <2> SUFFICES ASSUME NEW p \in Place, NEW q \in Place, p # q
               PROVE  Ids(m[p]) \cap Ids(m[q]) = {}
    BY Zenon
  <2>1. CASE p = B \/ q = B
    BY <1>9, <2>1, Zenon
  <2>2. CASE p # B /\ q # B
    BY <1>7, <2>2, Zenon DEF Accounted
  <2> QED
    BY <2>1, <2>2, Zenon
<1>11. AllIds(m) = AllIds(l)
  <2>1. \A v \in AllIds(m) : v \in AllIds(l)
    <3> SUFFICES ASSUME NEW p \in Place, NEW v \in Ids(m[p])
                 PROVE  v \in AllIds(l)
      BY Zenon DEF AllIds
    <3>1. v \in Ids(l[p]) \/ v \in Ids(l[A])
      BY <1>1, <1>6, Zenon
    <3> QED
      BY <3>1, Zenon DEF AllIds
  <2>2. ASSUME NEW p \in Place, NEW v \in Ids(l[p])
        PROVE  v \in AllIds(m)
    <3>1. v \in Ids(m[p]) \/ v \in Ids(m[B])
      <4>1. CASE p = A
        BY <1>1, <1>2, <2>2, <4>1, Zenon
      <4>2. CASE p = B
        BY <1>2, <2>2, <4>2, Zenon
      <4>3. CASE p # A /\ p # B
        BY <2>2, <4>3, Zenon
      <4> QED
        BY <4>1, <4>2, <4>3, Zenon
    <3> QED
      BY <3>1, Zenon DEF AllIds
  <2>3. \A v \in AllIds(l) : v \in AllIds(m)
    BY <2>2, Zenon DEF AllIds
  <2> QED
    BY <2>1, <2>3, Zenon
<1>12. Accounted(m, received, settled)
  BY <1>8, <1>10, <1>11, Zenon DEF Accounted
<1>13. \A p \in Place : InOrder(m[p])
  BY <1>5, Zenon DEF InLine
<1>14. \A p \in Place : p[1] = "worker" => \A a \in Tags(m[p]) : a[1] = p[2]
  BY <1>7, Zenon DEF InLine
<1>15. ASSUME NEW p \in Place, NEW q \in Place, Ahead(p, q)
       PROVE  Precedes(Tags(m[p]), Tags(m[q]))
  <2>1. Precedes(Tags(l[p]), Tags(l[q]))
    BY <1>15, Zenon DEF InLine
  <2>2. CASE p # B /\ q # B
    BY <1>7, <2>1, <2>2, Zenon DEF Precedes
  <2>3. CASE p = B /\ q = A
    BY <1>3, <1>4, <1>18, <2>3, Zenon
  <2>4. CASE p = B /\ q # A
    <3>1. q # B
      BY <1>15, <2>4, AheadIsStrict, Zenon
    <3>2. m[q] = l[q] /\ Precedes(Tags(l[A]), Tags(l[q]))
      BY <1>15, <2>4, <3>1, Zenon
    <3>3. Precedes(Tags(x), Tags(l[q]))
      BY <1>17, <3>2, Zenon
    <3> QED
      BY <1>18, <2>1, <2>4, <3>2, <3>3, Zenon
  <2>5. CASE q = B
    <3>1. p # A /\ p # B
      BY <1>15, <2>5, AheadIsStrict, Zenon
    <3>2. m[p] = l[p] /\ Precedes(Tags(l[p]), Tags(l[A]))
      BY <1>15, <2>5, <3>1, Zenon DEF InLine
    <3>3. Precedes(Tags(l[p]), Tags(x))
      BY <1>17, <3>2, Zenon
    <3> QED
      BY <1>18, <2>1, <2>5, <3>2, <3>3, Zenon
  <2> QED
    BY <2>2, <2>3, <2>4, <2>5, Zenon
<1>16. InLine(m)
  BY <1>13, <1>14, <1>15, Zenon DEF InLine
<1> QED
  BY <1>12, <1>16

\* Packets that worker w received next, after the first "received" of all.
Numbered(s, n, received, w) ==
    Len(s) = n /\ \A i \in 1 .. n : s[i].id = received + i /\ s[i].from = w

\* New packets, numbered on from the ones received, come to a worker that has none.
LEMMA Arrive ==
    ASSUME NEW l, NEW m, NEW w \in Workers, l[WorkerPlace(w)] = << >>,
           NEW received \in Nat, NEW settled \in Nat, NEW n \in Nat, NEW s \in Seq(Packet),
           Numbered(s, n, received, w),
           m[WorkerPlace(w)] = s, \A p \in Place : p # WorkerPlace(w) => m[p] = l[p],
           Accounted(l, received, settled), InLine(l)
    PROVE  Accounted(m, received + n, settled) /\ InLine(m)
<1> USE DEF Numbered
<1>1. PICK A \in Place : A = WorkerPlace(w) /\ A[1] = "worker" /\ A[2] = w
  BY DEF Place, WorkerPlace
<1>2. /\ \A v \in Ids(s) : \E i \in 1 .. n : v = received + i
      /\ \A a \in Tags(s) : a[1] = w /\ \E i \in 1 .. n : a[2] = received + i
  <2>1. \A v \in Ids(s) : \E i \in 1 .. n : v = received + i
    BY DEF Ids
  <2>2. ASSUME NEW a \in Tags(s)
        PROVE  a[1] = w /\ \E i \in 1 .. n : a[2] = received + i
    <3>1. PICK i \in 1 .. n : a = <<s[i].from, s[i].id>>
      BY DEF Tags
    <3> QED
      BY <3>1
  <2> QED
    BY <2>1, <2>2
<1>3. Distinct(s) /\ InOrder(s)
  <2>1. \A i, j \in 1 .. n : received + i = received + j => i = j
    OBVIOUS
  <2>2. \A i, j \in 1 .. n : i < j => received + i < received + j
    OBVIOUS
  <2>3. Distinct(s)
    BY <2>1 DEF Distinct
  <2> QED
    BY <2>2, <2>3 DEF InOrder
<1>4. Ids(l[A]) = {} /\ Tags(l[A]) = {}
  BY <1>1, EmptyParts, Zenon
<1>5. /\ 1 .. received \subseteq 1 .. received + n
      /\ \A i \in 1 .. n : received + i \in 1 .. received + n /\ received + i \notin 1 .. received
      /\ \A k \in 1 .. received, i \in 1 .. n : k < received + i
  OBVIOUS
<1>6. \A p \in Place : Distinct(m[p]) /\ InOrder(m[p]) /\ Ids(m[p]) \subseteq 1 .. received + n
  <2> SUFFICES ASSUME NEW p \in Place
               PROVE  Distinct(m[p]) /\ InOrder(m[p]) /\ Ids(m[p]) \subseteq 1 .. received + n
    BY Zenon
  <2>1. CASE p = A
    <3>1. m[p] = s
      BY <1>1, <2>1, Zenon
    <3>2. Ids(s) \subseteq 1 .. received + n
      BY <1>2, <1>5
    <3> QED
      BY <1>3, <3>1, <3>2, Zenon
  <2>2. CASE p # A
    BY <1>1, <1>5, <2>2, Zenon DEF Accounted, InLine
  <2> QED
    BY <2>1, <2>2
<1>7. \A p \in Place : Ids(l[p]) \cap Ids(s) = {}
  <2>1. \A v \in Ids(s) : v \notin 1 .. received
    BY <1>2, <1>5
  <2> QED
    BY <2>1, Zenon DEF Accounted
<1>8. \A p, q \in Place : p # q => Ids(m[p]) \cap Ids(m[q]) = {}
  <2> SUFFICES ASSUME NEW p \in Place, NEW q \in Place, p # q
               PROVE  Ids(m[p]) \cap Ids(m[q]) = {}
    BY Zenon
  <2>1. CASE p = A \/ q = A
    BY <1>1, <1>7, <2>1, Zenon
  <2>2. CASE p # A /\ q # A
    BY <1>1, <2>2, Zenon DEF Accounted
  <2> QED
    BY <2>1, <2>2, Zenon
<1>9. AllIds(m) = AllIds(l) \cup Ids(s) /\ AllIds(l) \cap Ids(s) = {}
  <2>1. \A v \in AllIds(m) : v \in AllIds(l) \cup Ids(s)
    BY <1>1, Zenon DEF AllIds
  <2>2. ASSUME NEW p \in Place, NEW v \in Ids(l[p])
        PROVE  v \in AllIds(m)
    <3>1. p # A
      BY <1>4, <2>2, Zenon
    <3>2. v \in Ids(m[p])
      BY <1>1, <2>2, <3>1, Zenon
    <3> QED
      BY <3>2, Zenon DEF AllIds
  <2>3. \A v \in Ids(s) : v \in AllIds(m)
    BY <1>1, Zenon DEF AllIds
  <2>4. \A v \in AllIds(l) : v \in AllIds(m) /\ v \notin Ids(s)
    BY <1>7, <2>2, Zenon DEF AllIds
  <2> QED
    BY <2>1, <2>3, <2>4, Zenon
<1>10. received + n = Cardinality(AllIds(m)) + settled
  <2>1. /\ IsFiniteSet(AllIds(l)) /\ Cardinality(AllIds(l)) \in Nat
        /\ IsFiniteSet(Ids(s)) /\ Cardinality(Ids(s)) = n
    BY <1>3, AllIdsFinite, IdsCount DEF Accounted
  <2>2. Cardinality(AllIds(l) \cup Ids(s)) =
           Cardinality(AllIds(l)) + Cardinality(Ids(s)) - Cardinality(AllIds(l) \cap Ids(s))
    BY <2>1, FS_Union
  <2>3. Cardinality(AllIds(l) \cap Ids(s)) = 0
    BY <1>9, FS_EmptySet, Zenon
  <2>4. Cardinality(AllIds(m)) = Cardinality(AllIds(l) \cup Ids(s))
    BY <1>9, Zenon
  <2>5. received = Cardinality(AllIds(l)) + settled
    BY Zenon DEF Accounted
  <2> QED
    BY <2>1, <2>2, <2>3, <2>4, <2>5
<1>11. Accounted(m, received + n, settled)
  BY <1>6, <1>8, <1>10, Zenon DEF Accounted
<1>12. \A p \in Place : p[1] = "worker" => \A a \in Tags(m[p]) : a[1] = p[2]
  <2> SUFFICES ASSUME NEW p \in Place, p[1] = "worker" PROVE \A a \in Tags(m[p]) : a[1] = p[2]
    BY Zenon
  <2>1. CASE p = A
    BY <1>1, <1>2, <2>1, Zenon
  <2>2. CASE p # A
    BY <1>1, <2>2, Zenon DEF InLine
  <2> QED
    BY <2>1, <2>2, Zenon
<1>13. ASSUME NEW p \in Place, NEW q \in Place, Ahead(p, q)
       PROVE  Precedes(Tags(m[p]), Tags(m[q]))
  <2>1. p # A
    BY <1>1, <1>13 DEF Ahead
  <2>2. m[p] = l[p]
    BY <1>1, <2>1, Zenon
  <2>3. CASE q # A
    BY <1>1, <1>13, <2>2, <2>3, Zenon DEF InLine
  <2>4. CASE q = A
    <3>1. \A a \in Tags(l[p]) : a[2] \in 1 .. received
      <4> SUFFICES ASSUME NEW a \in Tags(l[p]) PROVE a[2] \in 1 .. received
        BY Zenon
      <4>1. PICK i \in 1 .. Len(l[p]) : a = <<l[p][i].from, l[p][i].id>>
        BY Zenon DEF Tags
      <4>2. a[2] = l[p][i].id
        BY <4>1
      <4>3. l[p][i].id \in Ids(l[p])
        BY Zenon DEF Ids
      <4> QED
        BY <4>2, <4>3, Zenon DEF Accounted
    <3>2. \A a \in Tags(l[p]), b \in Tags(s) : a[2] < b[2]
      <4> SUFFICES ASSUME NEW a \in Tags(l[p]), NEW b \in Tags(s) PROVE a[2] < b[2]
        BY Zenon
      <4>1. PICK i \in 1 .. n : b[2] = received + i
        BY <1>2, Zenon
      <4> QED
        BY <1>5, <3>1, <4>1
    <3> QED
      BY <1>1, <2>2, <2>4, <3>2, Zenon DEF Precedes
  <2> QED
    BY <2>3, <2>4
<1>14. InLine(m)
  BY <1>6, <1>12, <1>13, Zenon DEF InLine
<1> QED
  BY <1>11, <1>14

----------------------------------------------------------------------------
(* The places, and the steps that move packets between them. *)

\* The places, and what is in line at each.
LEMMA PlaceFacts ==
    /\ \A w \in Workers : WorkerPlace(w) \in Place /\ WorkerPlace(w)[1] = "worker"
                          /\ WorkerPlace(w)[2] = w
    /\ \A r \in Readers : /\ BatchPlace(r) \in Place /\ BatchPlace(r)[1] = "batch"
                          /\ BatchPlace(r)[2] = r
                          /\ KeptPlace(r) \in Place /\ KeptPlace(r)[1] = "kept"
                          /\ KeptPlace(r)[2] = r
    /\ QueuePlace \in Place /\ QueuePlace[1] = "queue"
    /\ \A p \in Place : \/ p = QueuePlace
                        \/ p[1] = "worker" /\ p[2] \in Workers /\ p = WorkerPlace(p[2])
                        \/ p[1] = "batch" /\ p[2] \in Readers /\ p = BatchPlace(p[2])
                        \/ p[1] = "kept" /\ p[2] \in Readers /\ p = KeptPlace(p[2])
BY DEF Place, WorkerPlace, BatchPlace, KeptPlace, QueuePlace

\* The line at each place is the variable it stands for.
LEMMA LinesAt ==
    ASSUME NEW queued, NEW working, NEW reading
    PROVE  /\ \A w \in Workers : LinesOf(queued, working, reading)[WorkerPlace(w)] = working[w].packets
           /\ \A r \in Readers : /\ LinesOf(queued, working, reading)[BatchPlace(r)] = reading[r].batch
                                 /\ LinesOf(queued, working, reading)[KeptPlace(r)] = reading[r].kept
           /\ LinesOf(queued, working, reading)[QueuePlace] = queued.items
<1>1. \A w \in Workers : LinesOf(queued, working, reading)[WorkerPlace(w)] = working[w].packets
  BY PlaceFacts DEF LinesOf
<1>2. \A r \in Readers : LinesOf(queued, working, reading)[BatchPlace(r)] = reading[r].batch
  BY PlaceFacts DEF LinesOf
<1>3. \A r \in Readers : LinesOf(queued, working, reading)[KeptPlace(r)] = reading[r].kept
  BY PlaceFacts DEF LinesOf
<1>4. LinesOf(queued, working, reading)[QueuePlace] = queued.items
  BY PlaceFacts DEF LinesOf
<1> QED
  BY <1>1, <1>2, <1>3, <1>4

\* A worker's step leaves the other lines alone, except the queue ...
LEMMA WorkerLines ==
    ASSUME NEW w \in Workers, NEW q, NEW q1, NEW wk, NEW wk1, NEW rd,
           \A v \in Workers : v # w => wk1[v] = wk[v]
    PROVE  \A p \in Place : p # WorkerPlace(w) /\ p # QueuePlace
              => LinesOf(q1, wk1, rd)[p] = LinesOf(q, wk, rd)[p]
<1> SUFFICES ASSUME NEW p \in Place, p # WorkerPlace(w), p # QueuePlace
             PROVE  LinesOf(q1, wk1, rd)[p] = LinesOf(q, wk, rd)[p]
  BY Zenon
<1>1. CASE p[1] = "worker"
  <2>1. p[2] \in Workers /\ p = WorkerPlace(p[2]) /\ p[2] # w
    BY <1>1, PlaceFacts
  <2> QED
    BY <1>1, <2>1 DEF LinesOf
<1>2. CASE p[1] # "worker"
  <2>1. p[1] \in {"batch", "kept"}
    BY <1>2, PlaceFacts
  <2> QED
    BY <2>1 DEF LinesOf
<1> QED
  BY <1>1, <1>2

\* ... and a reader's step all lines but the queue and its own.
LEMMA ReaderLines ==
    ASSUME NEW r \in Readers, NEW q, NEW q1, NEW wk, NEW rd, NEW rd1,
           \A v \in Readers : v # r => rd1[v] = rd[v]
    PROVE  \A p \in Place : p # BatchPlace(r) /\ p # KeptPlace(r) /\ p # QueuePlace
              => LinesOf(q1, wk, rd1)[p] = LinesOf(q, wk, rd)[p]
<1> SUFFICES ASSUME NEW p \in Place, p # BatchPlace(r), p # KeptPlace(r), p # QueuePlace
             PROVE  LinesOf(q1, wk, rd1)[p] = LinesOf(q, wk, rd)[p]
  BY Zenon
<1>1. CASE p[1] = "worker"
  <2>1. p[2] \in Workers /\ p = WorkerPlace(p[2])
    BY <1>1, PlaceFacts
  <2> QED
    BY <1>1, <2>1 DEF LinesOf
<1>2. CASE p[1] = "batch"
  <2>1. p[2] \in Readers /\ p = BatchPlace(p[2]) /\ p[2] # r
    BY <1>2, PlaceFacts
  <2> QED
    BY <1>2, <2>1 DEF LinesOf
<1>3. CASE p[1] = "kept"
  <2>1. p[2] \in Readers /\ p = KeptPlace(p[2]) /\ p[2] # r
    BY <1>3, PlaceFacts
  <2> QED
    BY <1>3, <2>1 DEF LinesOf
<1> QED
  BY <1>1, <1>2, <1>3, PlaceFacts

\* A worker's oldest packets go to the end of the queue.
LEMMA ToQueue ==
    ASSUME NEW l, NEW m, NEW w \in Workers, NEW x, NEW y,
           Joined(l[WorkerPlace(w)], x, y), m[WorkerPlace(w)] = y,
           Joined(m[QueuePlace], l[QueuePlace], x),
           \A p \in Place : p # WorkerPlace(w) /\ p # QueuePlace => m[p] = l[p],
           NEW received, NEW settled, Accounted(l, received, settled), InLine(l)
    PROVE  Accounted(m, received, settled) /\ InLine(m)
<1>1. PICK A \in Place, B \in Place : A = WorkerPlace(w) /\ B = QueuePlace
  BY PlaceFacts
<1>2. A[1] = "worker" /\ A[2] = w /\ B[1] = "queue"
  BY <1>1, PlaceFacts
<1>3. A # B /\ Ahead(B, A) /\ ~Ahead(A, B) /\ B[1] # "worker"
  BY <1>2 DEF Ahead
<1>4. \A p \in Place : Ahead(p, B) => Ahead(p, A)
  BY <1>2 DEF Ahead
<1>5. ASSUME NEW q \in Place, Ahead(B, q), q # A
      PROVE  Precedes(Tags(l[A]), Tags(l[q]))
  <2>1. q[1] = "worker"
    BY <1>2, <1>5 DEF Ahead
  <2>2. q[2] # w
    BY <1>1, <1>2, <1>5, <2>1, PlaceFacts
  <2>3. /\ \A a \in Tags(l[A]) : a[1] = w
        /\ \A b \in Tags(l[q]) : b[1] = q[2]
    BY <1>2, <2>1, Zenon DEF InLine
  <2> QED
    BY <2>2, <2>3, Zenon DEF Precedes
<1>6. Joined(l[A], x, y) /\ m[A] = y /\ Joined(m[B], l[B], x)
  BY <1>1, Zenon
<1>7. \A p \in Place : p # A /\ p # B => m[p] = l[p]
  BY <1>1, Zenon
<1> QED
  BY <1>3, <1>4, <1>5, <1>6, <1>7, Transfer

\* A reader that has nothing pops the oldest packets of the queue.
LEMMA ToBatch ==
    ASSUME NEW l, NEW m, NEW r \in Readers, NEW x, NEW y,
           Joined(l[QueuePlace], x, y), m[QueuePlace] = y,
           Joined(m[BatchPlace(r)], l[BatchPlace(r)], x),
           \A p \in Place : p # BatchPlace(r) /\ p # QueuePlace => m[p] = l[p],
           NEW received, NEW settled, Accounted(l, received, settled), InLine(l)
    PROVE  Accounted(m, received, settled) /\ InLine(m)
<1>1. PICK A \in Place, B \in Place : A = QueuePlace /\ B = BatchPlace(r)
  BY PlaceFacts
<1>2. A[1] = "queue" /\ B[1] = "batch" /\ B[2] = r
  BY <1>1, PlaceFacts
<1>3. A # B /\ Ahead(B, A) /\ ~Ahead(A, B) /\ B[1] # "worker"
  BY <1>2 DEF Ahead
<1>4. \A p \in Place : Ahead(p, B) => Ahead(p, A)
  BY <1>2 DEF Ahead
<1>5. ASSUME NEW q \in Place, Ahead(B, q), q # A
      PROVE  Precedes(Tags(l[A]), Tags(l[q]))
  <2>1. Ahead(A, q)
    BY <1>1, <1>2, <1>5, PlaceFacts DEF Ahead
  <2> QED
    BY <2>1, Zenon DEF InLine
<1>6. Joined(l[A], x, y) /\ m[A] = y /\ Joined(m[B], l[B], x)
  BY <1>1, Zenon
<1>7. \A p \in Place : p # A /\ p # B => m[p] = l[p]
  BY <1>1, Zenon
<1> QED
  BY <1>3, <1>4, <1>5, <1>6, <1>7, Transfer

\* A reader keeps the oldest packets of its batch.
LEMMA ToKept ==
    ASSUME NEW l, NEW m, NEW r \in Readers, NEW x, NEW y,
           Joined(l[BatchPlace(r)], x, y), m[BatchPlace(r)] = y,
           Joined(m[KeptPlace(r)], l[KeptPlace(r)], x),
           \A p \in Place : p # BatchPlace(r) /\ p # KeptPlace(r) => m[p] = l[p],
           NEW received, NEW settled, Accounted(l, received, settled), InLine(l)
    PROVE  Accounted(m, received, settled) /\ InLine(m)
<1>1. PICK A \in Place, B \in Place : A = BatchPlace(r) /\ B = KeptPlace(r)
  BY PlaceFacts
<1>2. A[1] = "batch" /\ A[2] = r /\ B[1] = "kept" /\ B[2] = r
  BY <1>1, PlaceFacts
<1>3. A # B /\ Ahead(B, A) /\ ~Ahead(A, B) /\ B[1] # "worker"
  BY <1>2 DEF Ahead
<1>4. \A p \in Place : Ahead(p, B) => Ahead(p, A)
  BY <1>2 DEF Ahead
<1>5. ASSUME NEW q \in Place, Ahead(B, q), q # A
      PROVE  Precedes(Tags(l[A]), Tags(l[q]))
  <2>1. Ahead(A, q)
    BY <1>1, <1>2, <1>5, PlaceFacts DEF Ahead
  <2> QED
    BY <2>1, Zenon DEF InLine
<1>6. Joined(l[A], x, y) /\ m[A] = y /\ Joined(m[B], l[B], x)
  BY <1>1, Zenon
<1>7. \A p \in Place : p # A /\ p # B => m[p] = l[p]
  BY <1>1, Zenon
<1> QED
  BY <1>3, <1>4, <1>5, <1>6, <1>7, Transfer

\* A whole sequence, or nothing of it.
LEMMA WholeJoins ==
    ASSUME NEW s \in Seq(Packet)
    PROVE  Joined(s, s, << >>) /\ Joined(s, << >>, s)
<1>1. Len(s) \in Nat /\ Len(<< >>) = 0
  BY LenProperties, EmptySeq
<1>2. \A i \in 1 .. 0 : FALSE
  OBVIOUS
<1>3. Joined(s, s, << >>)
  BY <1>1 DEF Joined
<1>4. \A i \in 1 .. Len(s) : s[0 + i] = s[i]
  BY <1>1
<1>5. Joined(s, << >>, s)
  BY <1>1, <1>4 DEF Joined
<1> QED
  BY <1>3, <1>5

\* More was received and as much settled at once.
LEMMA AccountedTogether ==
    ASSUME NEW l, NEW received \in Nat, NEW settled \in Nat, NEW n \in Nat,
           Accounted(l, received, settled)
    PROVE  Accounted(l, received + n, settled + n)
<1>1. 1 .. received \subseteq 1 .. received + n
  OBVIOUS
<1>2. Cardinality(AllIds(l)) \in Nat
  BY AllIdsFinite DEF Accounted
<1>3. received = Cardinality(AllIds(l)) + settled
  BY Zenon DEF Accounted
<1>4. received + n = Cardinality(AllIds(l)) + (settled + n)
  BY <1>2, <1>3
<1> QED
  BY <1>1, <1>4, Zenon DEF Accounted

\* The lines and the counts, before and after.
LEMMA LineTypes ==
    ASSUME TypeOK
    PROVE  /\ count.received \in Nat /\ count.settled \in Nat
           /\ queue.items \in Seq(Packet)
           /\ \A w \in Workers : worker[w] \in Worker /\ worker[w].packets \in Seq(Packet)
           /\ \A r \in Readers : /\ reader[r] \in Reader /\ reader[r].batch \in Seq(Packet)
                                 /\ reader[r].kept \in Seq(Packet)
BY DEF TypeOK, Count, Queue, Worker, Reader

\* A worker numbers the packets it receives on, whether they are pushed or refused.
LEMMA ReceiveKeepsPackets ==
    ASSUME Inv, PacketsInv, NEW w \in Workers, Receive(w)
    PROVE  PacketsInv'
<1>1. PICK n \in 1 .. MaxBurst : Receive(w)!3!(n)
  BY DEF Receive
<1>2. n \in Nat /\ TypeOK /\ count.received \in Nat /\ count.settled \in Nat /\ client \in Client
      /\ count \in Count /\ worker \in [Workers -> Worker]
  BY InboundAssumption, LineTypes DEF Inv, TypeOK
<1>3. queue' = queue /\ reader' = reader /\ worker[w].pc = "idle"
  BY DEF Receive
<1>4. PICK l, m : l = Lines /\ m = Lines'
  OBVIOUS
<1>5. Accounted(l, count.received, count.settled) /\ InLine(l) /\ IdleHoldsNothing
  BY <1>4 DEF PacketsInv
<1>6. CASE PushAllowed
  <2> DEFINE stamped == [i \in 1 .. n |-> [id |-> count.received + i, from |-> w,
                                           generation |-> client.currentGeneration,
                                           revision |-> PushRevision]]
  <2>1. \A i \in 1 .. n : /\ stamped[i] \in Packet /\ stamped[i].id = count.received + i
                          /\ stamped[i].from = w
    BY <1>2 DEF Packet, Client, PushRevision
  <2>2. stamped \in Seq(Packet) /\ Len(stamped) = n
    BY <1>2, <2>1, FunctionIsSeq
  <2>3. worker' = [worker EXCEPT ![w] = [pc |-> "try", packets |-> stamped]]
    BY <1>1, <1>6
  <2>4. count'.received = count.received + n /\ count'.settled = count.settled
    BY <1>1, <1>2, <1>6 DEF Count
  <2> HIDE DEF stamped
  <2>5. /\ worker'[w].pc = "try" /\ worker'[w].packets = stamped
        /\ \A v \in Workers : v # w => worker'[v] = worker[v]
    BY <1>2, <2>3
  <2>6. l[WorkerPlace(w)] = << >> /\ m[WorkerPlace(w)] = stamped
    BY <1>3, <1>4, <1>5, <2>5, LinesAt DEF Lines, IdleHoldsNothing
  <2>7. \A p \in Place : p # WorkerPlace(w) => m[p] = l[p]
    <3>1. \A p \in Place : p # WorkerPlace(w) /\ p # QueuePlace => m[p] = l[p]
      BY <1>3, <1>4, <2>5, WorkerLines DEF Lines
    <3>2. m[QueuePlace] = l[QueuePlace]
      BY <1>3, <1>4, LinesAt DEF Lines
    <3> QED
      BY <3>1, <3>2, Zenon
  <2>8. Accounted(m, count.received + n, count.settled) /\ InLine(m)
    <3>1. PICK s \in Seq(Packet) : s = stamped
      BY <2>2
    <3>2. /\ Len(s) = n /\ m[WorkerPlace(w)] = s
          /\ \A i \in 1 .. n : s[i].id = count.received + i /\ s[i].from = w
      BY <2>1, <2>2, <2>6, <3>1
    <3>3. l[WorkerPlace(w)] = << >>
      BY <2>6
    <3>4. PICK received \in Nat, settled \in Nat : received = count.received /\ settled = count.settled
      BY <1>2
    <3>5. \A i \in 1 .. n : s[i].id = received + i /\ s[i].from = w
      BY <3>2, <3>4
    <3>6. Accounted(l, received, settled)
      BY <1>5, <3>4
    <3>7. n \in Nat /\ InLine(l) /\ Numbered(s, n, received, w) /\ m[WorkerPlace(w)] = s
      BY <1>2, <1>5, <3>2, <3>5 DEF Numbered
    <3>8. Accounted(m, received + n, settled) /\ InLine(m)
      BY <2>7, <3>3, <3>6, <3>7, Arrive
    <3> QED
      BY <3>4, <3>8
  <2>9. IdleHoldsNothing'
    BY <1>5, <2>5 DEF IdleHoldsNothing
  <2> QED
    BY <1>4, <2>4, <2>8, <2>9, Zenon DEF PacketsInv
<1>7. CASE ~PushAllowed
  <2>1. worker' = worker
    BY <1>1, <1>7
  <2>2. count'.received = count.received + n /\ count'.settled = count.settled + n
    BY <1>1, <1>2, <1>7 DEF Count
  <2>3. m = l
    BY <1>3, <1>4, <2>1 DEF Lines
  <2>4. Accounted(m, count'.received, count'.settled)
    BY <1>2, <1>5, <2>2, <2>3, AccountedTogether
  <2>5. IdleHoldsNothing'
    BY <1>5, <2>1 DEF IdleHoldsNothing
  <2> QED
    BY <1>4, <1>5, <2>3, <2>4, <2>5, Zenon DEF PacketsInv
<1> QED
  BY <1>6, <1>7

\* A worker's oldest packets x go to the queue; the rest stays with it or is dropped.
LEMMA PushKeepsPackets ==
    ASSUME Inv, PacketsInv, NEW w \in Workers, NEW x, NEW rest \in Seq(Packet),
           Joined(worker[w].packets, x, rest), Joined(queue'.items, queue.items, x),
           reader' = reader, \A v \in Workers : v # w => worker'[v] = worker[v],
           count'.received = count.received,
           \/ worker'[w].pc # "idle" /\ worker'[w].packets = rest /\ count'.settled = count.settled
           \/ worker'[w].packets = << >> /\ count'.settled = count.settled + Len(rest)
    PROVE  PacketsInv'
<1>1. count.received \in Nat /\ count.settled \in Nat
  BY LineTypes DEF Inv
<1>2. PICK l, m : l = Lines /\ m = Lines'
  OBVIOUS
<1>3. Accounted(l, count.received, count.settled) /\ InLine(l) /\ IdleHoldsNothing
  BY <1>2 DEF PacketsInv
<1>4. WorkerPlace(w) \in Place /\ QueuePlace \in Place /\ WorkerPlace(w) # QueuePlace
  BY PlaceFacts
<1>5. PICK k : k = [l EXCEPT ![WorkerPlace(w)] = rest, ![QueuePlace] = queue'.items]
  OBVIOUS
<1>6. DOMAIN l = Place
  BY <1>2, Zenon DEF Lines, LinesOf
<1>7. /\ k[WorkerPlace(w)] = rest /\ k[QueuePlace] = queue'.items
      /\ \A p \in Place : p # WorkerPlace(w) /\ p # QueuePlace => k[p] = l[p]
  BY <1>4, <1>5, <1>6
<1>8. l[WorkerPlace(w)] = worker[w].packets /\ l[QueuePlace] = queue.items
  BY <1>2, LinesAt DEF Lines
<1>9. Joined(l[WorkerPlace(w)], x, rest) /\ Joined(k[QueuePlace], l[QueuePlace], x)
  BY <1>7, <1>8, Zenon
<1>10. Accounted(k, count.received, count.settled) /\ InLine(k)
  BY <1>3, <1>7, <1>9, ToQueue
<1>11. /\ m[WorkerPlace(w)] = worker'[w].packets /\ m[QueuePlace] = queue'.items
       /\ \A p \in Place : p # WorkerPlace(w) /\ p # QueuePlace => m[p] = l[p]
  BY <1>2, LinesAt, WorkerLines DEF Lines
<1>12. \A p \in Place : p # WorkerPlace(w) => m[p] = k[p]
  BY <1>7, <1>11, Zenon
<1>13. Accounted(m, count'.received, count'.settled) /\ InLine(m)
  <2>1. CASE worker'[w].packets = rest /\ count'.settled = count.settled
    <3>1. Joined(k[WorkerPlace(w)], << >>, rest) /\ << >> \in Seq(Packet) /\ Len(<< >>) = 0
      BY <1>7, WholeJoins, EmptySeq
    <3>2. m[WorkerPlace(w)] = rest
      BY <1>11, <2>1, Zenon
    <3>3. Accounted(m, count.received, count.settled + 0) /\ InLine(m)
      BY <1>1, <1>4, <1>10, <1>12, <3>1, <3>2, Drop
    <3> QED
      BY <1>1, <2>1, <3>3
  <2>2. CASE worker'[w].packets = << >> /\ count'.settled = count.settled + Len(rest)
    <3>1. Joined(k[WorkerPlace(w)], rest, << >>)
      BY <1>7, WholeJoins
    <3>2. m[WorkerPlace(w)] = << >>
      BY <1>11, <2>2, Zenon
    <3>3. Accounted(m, count.received, count.settled + Len(rest)) /\ InLine(m)
      BY <1>1, <1>4, <1>10, <1>12, <3>1, <3>2, Drop
    <3> QED
      BY <2>2, <3>3
  <2> QED
    BY <2>1, <2>2
<1>14. IdleHoldsNothing'
  BY <1>3 DEF IdleHoldsNothing
<1> QED
  BY <1>2, <1>13, <1>14, Zenon DEF PacketsInv

\* What a worker does with its packets.
LEMMA WorkerKeepsPackets ==
    ASSUME Inv, PacketsInv, NEW w \in Workers, WorkerNext(w)
    PROVE  PacketsInv'
<1>1. /\ TypeOK /\ worker \in [Workers -> Worker] /\ queue \in Queue /\ count \in Count
      /\ worker[w] \in Worker /\ worker[w].packets \in Seq(Packet) /\ queue.items \in Seq(Packet)
      /\ Len(worker[w].packets) \in Nat /\ << >> \in Seq(Packet) /\ Len(<< >>) = 0
      /\ PushingHasPackets
  BY LineTypes, LenProperties, EmptySeq DEF Inv, TypeOK
<1>2. PICK packets \in Seq(Packet) : packets = worker[w].packets
  BY <1>1
<1>3. CASE TryPush(w)
  <2>1. PICK n : n = Fitting(Len(packets))
    OBVIOUS
  <2>2. n \in 0 .. Len(packets)
    <3>1. PICK room : room = Room
      OBVIOUS
    <3>2. room \in Nat
      BY <1>1, <3>1, LenProperties, InboundAssumption DEF Room, TypeOK
    <3> QED
      BY <1>1, <1>2, <2>1, <3>1, <3>2 DEF Fitting
  <2>3. PICK x, rest : x = SubSeq(packets, 1, n) /\ rest = SubSeq(packets, n + 1, Len(packets))
    OBVIOUS
  <2>4. x \in Seq(Packet) /\ rest \in Seq(Packet)
    BY <2>2, <2>3, PrefixFacts, SuffixFacts
  <2>5. /\ queue' = [queue EXCEPT !.items = queue.items \o x] /\ reader' = reader
        /\ \/ worker' = [worker EXCEPT ![w].pc = "push", ![w].packets = rest] /\ count' = count
           \/ DropRest(w, rest)
    BY <1>2, <1>3, <2>1, <2>3 DEF TryPush
  <2>6. Joined(worker[w].packets, x, rest)
    BY <1>2, <2>2, <2>3, SplitJoins
  <2>7. queue'.items = queue.items \o x
    BY <1>1, <2>5 DEF Queue
  <2>8. Joined(queue'.items, queue.items, x)
    BY <1>1, <2>4, <2>7, ConcatJoins
  <2>9. CASE worker' = [worker EXCEPT ![w].pc = "push", ![w].packets = rest] /\ count' = count
    <3>1. /\ worker'[w].pc # "idle" /\ worker'[w].packets = rest
          /\ \A v \in Workers : v # w => worker'[v] = worker[v]
      BY <1>1, <2>9 DEF Worker
    <3> QED
      BY <2>4, <2>5, <2>6, <2>8, <2>9, <3>1, PushKeepsPackets
  <2>10. CASE DropRest(w, rest)
    <3>1. /\ worker'[w].packets = << >> /\ \A v \in Workers : v # w => worker'[v] = worker[v]
          /\ count'.settled = count.settled + Len(rest) /\ count'.received = count.received
      BY <1>1, <2>10 DEF DropRest, IdleWorker, Count
    <3> QED
      BY <2>4, <2>5, <2>6, <2>8, <3>1, PushKeepsPackets
  <2> QED
    BY <2>5, <2>9, <2>10
<1>4. CASE PushOne(w)
  <2>1. packets # << >>
    BY <1>1, <1>2, <1>4 DEF PushOne, PushingHasPackets
  <2>2. Head(packets) \in Packet /\ Tail(packets) \in Seq(Packet) /\ Len(Tail(packets)) = Len(packets) - 1
    BY <2>1, TailFacts
  <2>3. Joined(packets, <<Head(packets)>>, Tail(packets))
    BY <2>1, TailJoins
  <2>4. Joined(Append(queue.items, Head(packets)), queue.items, <<Head(packets)>>)
    BY <1>1, <2>2, AppendJoins
  <2>5. queue'.items = Append(queue.items, Head(packets)) /\ reader' = reader /\ count' = count
    BY <1>1, <1>2, <1>4 DEF PushOne, Queue
  <2>6. /\ \A v \in Workers : v # w => worker'[v] = worker[v]
        /\ \/ worker'[w].pc # "idle" /\ worker'[w].packets = Tail(packets)
           \/ worker'[w].packets = << >> /\ Len(Tail(packets)) = 0
    <3>1. CASE Len(packets) = 1
      <4>1. worker' = [worker EXCEPT ![w] = IdleWorker]
        BY <1>2, <1>4, <3>1 DEF PushOne
      <4> QED
        BY <1>1, <2>2, <3>1, <4>1 DEF IdleWorker
    <3>2. CASE Len(packets) # 1
      <4>1. PICK t : t = Tail(packets)
        OBVIOUS
      <4>2. worker' = [worker EXCEPT ![w].packets = t] /\ worker[w].pc = "push"
        BY <1>2, <1>4, <3>2, <4>1 DEF PushOne
      <4> QED
        BY <1>1, <4>1, <4>2 DEF Worker
    <3> QED
      BY <3>1, <3>2
  <2>7. count.settled = count.settled + 0
    BY <1>1 DEF Count
  <2>8. \/ worker'[w].pc # "idle" /\ worker'[w].packets = Tail(packets) /\ count'.settled = count.settled
        \/ worker'[w].packets = << >> /\ count'.settled = count.settled + Len(Tail(packets))
    BY <2>5, <2>6, <2>7
  <2>9. Joined(worker[w].packets, <<Head(packets)>>, Tail(packets))
        /\ Joined(queue'.items, queue.items, <<Head(packets)>>)
    BY <1>2, <2>3, <2>4, <2>5, Zenon
  <2> QED
    BY <2>2, <2>5, <2>6, <2>8, <2>9, PushKeepsPackets
<1>5. CASE PushStops(w)
  <2>1. /\ worker'[w].packets = << >> /\ \A v \in Workers : v # w => worker'[v] = worker[v]
        /\ count'.settled = count.settled + Len(packets) /\ count'.received = count.received
        /\ queue' = queue /\ reader' = reader
    BY <1>1, <1>2, <1>5 DEF PushStops, DropRest, IdleWorker, Count
  <2>2. Joined(worker[w].packets, << >>, packets) /\ Joined(queue'.items, queue.items, << >>)
    BY <1>1, <1>2, <2>1, WholeJoins
  <2> QED
    BY <2>1, <2>2, PushKeepsPackets
<1> QED
  BY <1>3, <1>4, <1>5, ReceiveKeepsPackets DEF WorkerNext

\* A reader's step that changes nobody's packets.
LEMMA SameLines ==
    ASSUME PacketsInv, queue'.items = queue.items, worker' = worker, count' = count,
           \A r \in Readers : reader'[r].batch = reader[r].batch /\ reader'[r].kept = reader[r].kept
    PROVE  PacketsInv'
<1>1. Lines' = Lines
  <2>1. \A p \in Place : Lines'[p] = Lines[p]
    BY PlaceFacts DEF Lines, LinesOf
  <2> QED
    BY <2>1 DEF Lines, LinesOf
<1> QED
  BY <1>1 DEF PacketsInv, IdleHoldsNothing

\* A reader takes the oldest packets of the queue.
LEMMA PopKeepsPackets ==
    ASSUME Inv, PacketsInv, NEW r \in Readers, ReadPop(r)
    PROVE  PacketsInv'
<1>1. /\ TypeOK /\ queue \in Queue /\ queue.items \in Seq(Packet) /\ Len(queue.items) \in Nat
      /\ reader[r] \in Reader /\ reader \in [Readers -> Reader] /\ reader[r].limit \in Nat
      /\ reader[r].kept = << >> /\ reader[r].batch = << >>
  BY LineTypes, LenProperties DEF Inv, TypeOK, ReaderInv, KeptOnlyWhileResolving, ReadPop, Reader
<1>2. PICK n : n = PopCount(reader[r].limit)
  OBVIOUS
<1>3. n \in 0 .. Len(queue.items)
  BY <1>1, <1>2 DEF PopCount
<1>4. PICK x, y : x = SubSeq(queue.items, 1, n) /\ y = SubSeq(queue.items, n + 1, Len(queue.items))
  OBVIOUS
<1>5. x \in Seq(Packet) /\ y \in Seq(Packet) /\ Len(x) = n /\ Joined(queue.items, x, y)
  BY <1>1, <1>3, <1>4, PrefixFacts, SuffixFacts, SplitJoins
<1>6. /\ queue'.items = y /\ worker' = worker /\ count' = count
      /\ \A v \in Readers : v # r => reader'[v] = reader[v]
  <2>1. queue' = [queue EXCEPT !.items = y] /\ worker' = worker /\ count' = count
    BY <1>2, <1>4 DEF ReadPop
  <2> QED
    BY <1>1, <2>1, ReaderFrame DEF Queue, ReaderNext
<1>7. reader'[r].batch = x /\ reader'[r].kept = reader[r].kept
  <2>1. CASE n = 0
    <3>1. x = << >>
      BY <1>5, <2>1, EmptySeq
    <3>2. reader' = [reader EXCEPT ![r].pc = "wait"]
      BY <1>2, <2>1 DEF ReadPop
    <3> QED
      BY <1>1, <3>1, <3>2 DEF Reader
  <2>2. CASE n # 0
    <3>1. reader' = [reader EXCEPT ![r] = [reader[r] EXCEPT !.pc = "resolve", !.batch = x, !.heard = FALSE]]
      BY <1>2, <1>4, <2>2 DEF ReadPop
    <3> QED
      BY <1>1, <3>1 DEF Reader
  <2> QED
    BY <2>1, <2>2
<1>8. PICK l, m : l = Lines /\ m = Lines'
  OBVIOUS
<1>9. Accounted(l, count.received, count.settled) /\ InLine(l)
  BY <1>8 DEF PacketsInv
<1>10. /\ l[QueuePlace] = queue.items /\ l[BatchPlace(r)] = << >>
       /\ m[QueuePlace] = y /\ m[BatchPlace(r)] = x
  BY <1>1, <1>6, <1>7, <1>8, LinesAt DEF Lines
<1>11. \A p \in Place : p # BatchPlace(r) /\ p # QueuePlace => m[p] = l[p]
  <2>1. m[KeptPlace(r)] = l[KeptPlace(r)]
    BY <1>7, <1>8, LinesAt DEF Lines
  <2>2. \A p \in Place : p # BatchPlace(r) /\ p # KeptPlace(r) /\ p # QueuePlace => m[p] = l[p]
    BY <1>6, <1>8, ReaderLines DEF Lines
  <2> QED
    BY <2>1, <2>2, Zenon
<1>12. Joined(l[QueuePlace], x, y) /\ Joined(m[BatchPlace(r)], l[BatchPlace(r)], x)
  BY <1>5, <1>10, WholeJoins
<1>13. Accounted(m, count.received, count.settled) /\ InLine(m)
  BY <1>9, <1>10, <1>11, <1>12, ToBatch
<1> QED
  BY <1>6, <1>8, <1>13 DEF PacketsInv, IdleHoldsNothing

\* The oldest packet of the batch is kept with its identity, or settled.
LEMMA DecideKeepsPackets ==
    ASSUME Inv, PacketsInv, NEW r \in Readers, ResolveDecides(r)
    PROVE  PacketsInv'
<1>1. /\ TypeOK /\ reader[r] \in Reader /\ reader \in [Readers -> Reader] /\ count \in Count
      /\ reader[r].batch \in Seq(Packet) /\ reader[r].kept \in Seq(Packet) /\ reader[r].batch # << >>
      /\ count.received \in Nat /\ count.settled \in Nat /\ client \in Client
  BY LineTypes DEF Inv, TypeOK, ResolveDecides
<1>2. PICK batch \in Seq(Packet), kept \in Seq(Packet) : batch = reader[r].batch /\ kept = reader[r].kept
  BY <1>1
<1>3. PICK packet \in Packet, rest \in Seq(Packet) : packet = Head(batch) /\ rest = Tail(batch)
  BY <1>1, <1>2, TailFacts
<1>4. Joined(batch, <<packet>>, rest) /\ <<packet>> \in Seq(Packet) /\ Len(<<packet>>) = 1
  BY <1>1, <1>2, <1>3, TailJoins
<1>5. /\ worker' = worker /\ queue' = queue
      /\ \A v \in Readers : v # r => reader'[v] = reader[v]
  BY <1>1, ReaderFrame DEF ReaderNext, ResolveDecides
<1>6. PICK l, m : l = Lines /\ m = Lines'
  OBVIOUS
<1>7. Accounted(l, count.received, count.settled) /\ InLine(l)
  BY <1>6 DEF PacketsInv
<1>8. /\ l[BatchPlace(r)] = batch /\ l[KeptPlace(r)] = kept
      /\ m[BatchPlace(r)] = reader'[r].batch /\ m[KeptPlace(r)] = reader'[r].kept
      /\ m[QueuePlace] = l[QueuePlace]
  BY <1>2, <1>5, <1>6, LinesAt DEF Lines
<1>9. \A p \in Place : p # BatchPlace(r) /\ p # KeptPlace(r) => m[p] = l[p]
  <2>1. \A p \in Place : p # BatchPlace(r) /\ p # KeptPlace(r) /\ p # QueuePlace => m[p] = l[p]
    BY <1>5, <1>6, ReaderLines DEF Lines
  <2> QED
    BY <1>8, <2>1, Zenon
<1>10. Accounted(m, count'.received, count'.settled) /\ InLine(m)
  <2>1. CASE Current(packet)
    <3>1. PICK longer : longer = Append(kept, Resolved(packet))
      OBVIOUS
    <3>2. /\ reader' = [reader EXCEPT ![r] = [reader[r] EXCEPT !.batch = rest, !.kept = longer]]
          /\ count' = count
      BY <1>2, <1>3, <2>1, <3>1 DEF ResolveDecides
    <3>3. reader'[r].batch = rest /\ reader'[r].kept = longer
      BY <1>1, <3>2 DEF Reader
    <3>4. Resolved(packet) \in Packet /\ Resolved(packet).id = packet.id
          /\ Resolved(packet).from = packet.from
      BY <1>1 DEF Resolved, Packet, Client
    <3>5. Joined(longer, kept, <<packet>>)
      BY <3>1, <3>4, AppendJoins
    <3>6. Joined(l[BatchPlace(r)], <<packet>>, rest) /\ m[BatchPlace(r)] = rest
          /\ Joined(m[KeptPlace(r)], l[KeptPlace(r)], <<packet>>)
      BY <1>4, <1>8, <3>3, <3>5
    <3> QED
      BY <1>7, <1>9, <3>2, <3>6, ToKept
  <2>2. CASE ~Current(packet)
    <3>1. /\ reader' = [reader EXCEPT ![r].batch = rest]
          /\ count' = [count EXCEPT !.settled = @ + 1]
      BY <1>2, <1>3, <2>2 DEF ResolveDecides
    <3>2. /\ reader'[r].batch = rest /\ reader'[r].kept = kept
          /\ count'.received = count.received /\ count'.settled = count.settled + 1
      BY <1>1, <1>2, <3>1 DEF Reader, Count
    <3>3. BatchPlace(r) \in Place /\ \A p \in Place : p # BatchPlace(r) => m[p] = l[p]
      BY <1>8, <1>9, <3>2, PlaceFacts
    <3>4. Joined(l[BatchPlace(r)], <<packet>>, rest) /\ m[BatchPlace(r)] = rest
      BY <1>4, <1>8, <3>2
    <3>5. Accounted(m, count.received, count.settled + Len(<<packet>>)) /\ InLine(m)
      BY <1>1, <1>4, <1>7, <3>3, <3>4, Drop
    <3> QED
      BY <1>4, <3>2, <3>5
  <2> QED
    BY <2>1, <2>2
<1> QED
  BY <1>5, <1>6, <1>10 DEF PacketsInv, IdleHoldsNothing

\* Everything a reader holds is settled at once.
LEMMA ReleaseKeepsPackets ==
    ASSUME Inv, PacketsInv, NEW r \in Readers, ReleaseAll(r), queue' = queue, worker' = worker
    PROVE  PacketsInv'
<1>1. /\ TypeOK /\ reader \in [Readers -> Reader] /\ count \in Count
      /\ reader[r].batch \in Seq(Packet) /\ reader[r].kept \in Seq(Packet)
      /\ count.received \in Nat /\ count.settled \in Nat
      /\ Len(reader[r].batch) \in Nat /\ Len(reader[r].kept) \in Nat
  BY LineTypes, LenProperties DEF Inv, TypeOK
<1>2. PICK batch \in Seq(Packet), kept \in Seq(Packet) : batch = reader[r].batch /\ kept = reader[r].kept
  BY <1>1
<1>3. /\ reader'[r].batch = << >> /\ reader'[r].kept = << >>
      /\ \A v \in Readers : v # r => reader'[v] = reader[v]
      /\ count'.received = count.received /\ count'.settled = count.settled + Len(kept) + Len(batch)
  BY <1>1, <1>2, IdleReaderFacts DEF ReleaseAll, Count
<1>4. PICK l, m : l = Lines /\ m = Lines'
  OBVIOUS
<1>5. Accounted(l, count.received, count.settled) /\ InLine(l) /\ DOMAIN l = Place
  BY <1>4 DEF PacketsInv, Lines, LinesOf
<1>6. /\ l[BatchPlace(r)] = batch /\ l[KeptPlace(r)] = kept
      /\ m[BatchPlace(r)] = << >> /\ m[KeptPlace(r)] = << >>
      /\ m[QueuePlace] = l[QueuePlace]
  BY <1>2, <1>3, <1>4, LinesAt DEF Lines
<1>7. \A p \in Place : p # BatchPlace(r) /\ p # KeptPlace(r) => m[p] = l[p]
  <2>1. \A p \in Place : p # BatchPlace(r) /\ p # KeptPlace(r) /\ p # QueuePlace => m[p] = l[p]
    BY <1>3, <1>4, ReaderLines DEF Lines
  <2> QED
    BY <1>6, <2>1, Zenon
<1>8. PICK A \in Place, B \in Place : A = KeptPlace(r) /\ B = BatchPlace(r) /\ A # B
  BY PlaceFacts
<1>9. PICK k : k = [l EXCEPT ![A] = << >>]
  OBVIOUS
<1>10. k[A] = << >> /\ \A p \in Place : p # A => k[p] = l[p]
  BY <1>5, <1>9
<1>11. Joined(kept, kept, << >>) /\ Joined(batch, batch, << >>)
  BY WholeJoins
<1>12. Accounted(k, count.received, count.settled + Len(kept)) /\ InLine(k)
  <2>1. Joined(l[A], kept, << >>)
    BY <1>6, <1>8, <1>11
  <2> QED
    BY <1>1, <1>5, <1>10, <2>1, Drop
<1>13. Accounted(m, count.received, (count.settled + Len(kept)) + Len(batch)) /\ InLine(m)
  <2>1. Joined(k[B], batch, << >>) /\ m[B] = << >> /\ \A p \in Place : p # B => m[p] = k[p]
    BY <1>6, <1>7, <1>8, <1>10, <1>11
  <2>2. count.settled + Len(kept) \in Nat
    BY <1>1, <1>2
  <2>3. PICK settled \in Nat : settled = count.settled + Len(kept)
    BY <2>2
  <2>4. Accounted(k, count.received, settled) /\ InLine(k)
    BY <1>12, <2>3
  <2>5. Accounted(m, count.received, settled + Len(batch)) /\ InLine(m)
    BY <1>1, <1>8, <2>1, <2>4, Drop
  <2> QED
    BY <2>3, <2>5
<1> QED
  BY <1>3, <1>4, <1>13 DEF PacketsInv, IdleHoldsNothing

\* What a reader does with its packets.
LEMMA ReaderKeepsPackets ==
    ASSUME Inv, PacketsInv, NEW r \in Readers, ReaderNext(r)
    PROVE  PacketsInv'
<1>1. /\ TypeOK /\ reader[r] \in Reader /\ reader \in [Readers -> Reader] /\ worker' = worker
      /\ \A v \in Readers : v # r => reader'[v] = reader[v]
      /\ KeptOnlyWhileResolving(r) /\ count \in Count
  BY ReaderFrame DEF Inv, ReaderInv, TypeOK
<1>2. CASE Read(r) \/ ReadTop(r) \/ ReadWoken(r) \/ ReadCancelled(r)
  <2>1. queue' = queue /\ count' = count /\ reader[r].batch = << >> /\ reader[r].kept = << >>
    BY <1>1, <1>2 DEF Read, ReadTop, ReadWoken, ReadCancelled, KeptOnlyWhileResolving
  <2>2. reader'[r].batch = << >> /\ reader'[r].kept = << >>
    <3>1. CASE Read(r)
      <4>1. PICK limit : reader' = [reader EXCEPT ![r] = [IdleReader EXCEPT !.pc = "top", !.limit = limit]]
        BY <3>1 DEF Read
      <4> QED
        BY <1>1, <4>1 DEF IdleReader
    <3>2. CASE ReadTop(r)
      <4>1. \/ reader' = [reader EXCEPT ![r] = IdleReader]
            \/ reader' = [reader EXCEPT ![r] = [reader[r] EXCEPT !.pc = "pop", !.heard = FALSE]]
        BY <3>2 DEF ReadTop
      <4>2. CASE reader' = [reader EXCEPT ![r] = IdleReader]
        BY <1>1, <4>2, IdleReaderFacts
      <4>3. CASE reader' = [reader EXCEPT ![r] = [reader[r] EXCEPT !.pc = "pop", !.heard = FALSE]]
        BY <1>1, <2>1, <4>3 DEF Reader
      <4> QED
        BY <4>1, <4>2, <4>3
    <3>3. CASE ReadWoken(r)
      BY <1>1, <2>1, <3>3 DEF ReadWoken, Reader
    <3>4. CASE ReadCancelled(r)
      BY <1>1, <3>4, IdleReaderFacts DEF ReadCancelled
    <3> QED
      BY <1>2, <3>1, <3>2, <3>3, <3>4
  <2> QED
    BY <1>1, <2>1, <2>2, SameLines
<1>3. CASE ResolveWaits(r) \/ ResolveWoken(r)
  <2>1. /\ queue' = queue /\ count' = count
        /\ reader'[r].batch = reader[r].batch /\ reader'[r].kept = reader[r].kept
    BY <1>1, <1>3 DEF ResolveWaits, ResolveWoken, Reader
  <2> QED
    BY <1>1, <2>1, SameLines
<1>4. CASE ResolveFails(r) \/ ResolveCancelled(r)
  BY <1>4, ReleaseKeepsPackets DEF ResolveFails, ResolveCancelled
<1>5. CASE ReadReturns(r)
  <2>1. queue' = queue /\ reader[r].batch = << >>
    BY <1>5 DEF ReadReturns
  <2>2. CASE reader[r].kept = << >>
    <3>1. /\ count' = count /\ reader'[r].batch = reader[r].batch /\ reader'[r].kept = reader[r].kept
      BY <1>1, <1>5, <2>2 DEF ReadReturns, Reader
    <3> QED
      BY <1>1, <2>1, <3>1, SameLines
  <2>3. CASE reader[r].kept # << >>
    <3>1. /\ reader' = [reader EXCEPT ![r] = IdleReader]
          /\ count' = [count EXCEPT !.settled = @ + Len(reader[r].kept)]
      BY <1>5, <2>3 DEF ReadReturns
    <3>2. count.settled + Len(reader[r].kept) = count.settled + Len(reader[r].kept) + Len(reader[r].batch)
      BY <1>1, <2>1, LineTypes, LenProperties, EmptySeq
    <3>3. ReleaseAll(r)
      BY <3>1, <3>2, Zenon DEF ReleaseAll
    <3> QED
      BY <1>1, <2>1, <3>3, ReleaseKeepsPackets
  <2> QED
    BY <2>2, <2>3
<1> QED
  BY <1>2, <1>3, <1>4, <1>5, PopKeepsPackets, DecideKeepsPackets DEF ReaderNext

\* The client's own steps leave the packets alone, but for the queue Close drains.
LEMMA LifecycleKeepsPackets ==
    ASSUME Inv, PacketsInv, Lifecycle
    PROVE  PacketsInv'
<1>1. TypeOK /\ worker' = worker
      /\ \A r \in Readers : reader'[r].batch = reader[r].batch /\ reader'[r].kept = reader[r].kept
  BY LifecycleFrame DEF Inv
<1>2. CASE ~CloseDrains
  <2>1. queue'.items = queue.items /\ count' = count
    BY <1>1, <1>2 DEF Lifecycle, Connect, BecomeReady, SupervisorStamps, SupervisorPublishes, CarrierLost,
         CarrierReplaced, WorkerStamps, WorkerPublishes, SessionEnds, ClearSession, ClientFails,
         CloseMarks, CloseStopsQueue, TypeOK, Queue
  <2> QED
    BY <1>1, <2>1, SameLines
<1>3. CASE CloseDrains
  <2>1. /\ count.received \in Nat /\ count.settled \in Nat /\ queue.items \in Seq(Packet)
        /\ count \in Count /\ queue \in Queue
    BY <1>1, LineTypes DEF TypeOK
  <2>2. /\ queue'.items = << >> /\ count'.received = count.received
        /\ count'.settled = count.settled + Len(queue.items) /\ reader' = reader
    BY <1>3, <2>1 DEF CloseDrains, Queue, Count
  <2>3. PICK l, m : l = Lines /\ m = Lines'
    OBVIOUS
  <2>4. Accounted(l, count.received, count.settled) /\ InLine(l)
    BY <2>3 DEF PacketsInv
  <2>5. /\ QueuePlace \in Place /\ l[QueuePlace] = queue.items /\ m[QueuePlace] = << >>
    BY <2>2, <2>3, LinesAt, PlaceFacts DEF Lines
  <2>6. \A p \in Place : p # QueuePlace => m[p] = l[p]
    BY <1>1, <2>2, <2>3, PlaceFacts DEF Lines, LinesOf
  <2>7. Joined(l[QueuePlace], queue.items, << >>)
    BY <2>1, <2>5, WholeJoins
  <2>8. Accounted(m, count.received, count.settled + Len(queue.items)) /\ InLine(m)
    BY <2>1, <2>4, <2>5, <2>6, <2>7, Drop
  <2> QED
    BY <1>1, <2>2, <2>3, <2>8 DEF PacketsInv, IdleHoldsNothing
<1> QED
  BY <1>2, <1>3

\* Every step keeps account of the packets and their order.
LEMMA NextPackets == ASSUME Inv, PacketsInv, [Next]_vars PROVE PacketsInv'
<1>1. CASE Next
  BY <1>1, LifecycleKeepsPackets, WorkerKeepsPackets, ReaderKeepsPackets DEF Next
<1>2. CASE UNCHANGED vars
  <2>1. queue' = queue /\ worker' = worker /\ reader' = reader /\ count' = count
    BY <1>2 DEF vars
  <2> QED
    BY <2>1, SameLines
<1> QED
  BY <1>1, <1>2

\* No packet is on its way initially.
LEMMA InitPackets == ASSUME Init PROVE PacketsInv
<1>1. PICK l : l = Lines
  OBVIOUS
<1>2. \A p \in Place : l[p] = << >>
  BY <1>1, PlaceFacts, LinesAt DEF Init, IdleWorker, IdleReader, Lines, LinesOf
<1>3. \A p \in Place : Ids(l[p]) = {} /\ Tags(l[p]) = {} /\ Distinct(l[p]) /\ InOrder(l[p])
  BY <1>2, EmptyParts
<1>4. AllIds(l) = {}
  BY <1>3, Zenon DEF AllIds
<1>5. count.received = 0 /\ count.settled = 0
  BY DEF Init
<1>6. 0 = Cardinality(AllIds(l)) + 0
  BY <1>4, FS_EmptySet
<1>7. Accounted(l, count.received, count.settled)
  BY <1>3, <1>5, <1>6 DEF Accounted
<1>8. InLine(l)
  BY <1>3, Zenon DEF InLine, Precedes
<1>9. IdleHoldsNothing
  BY DEF Init, IdleWorker, IdleHoldsNothing
<1> QED
  BY <1>1, <1>7, <1>8, <1>9 DEF PacketsInv

\* The packets in flight are those in line somewhere.
LEMMA InFlightIsInLine == ASSUME TypeOK PROVE InFlight = AllIds(Lines)
<1>1. PICK l : l = Lines
  OBVIOUS
<1>2. PICK T : T = {worker[w].packets : w \in Workers} \cup {queue.items}
                     \cup {reader[r].batch : r \in Readers} \cup {reader[r].kept : r \in Readers}
  OBVIOUS
<1>3. T = {l[p] : p \in Place}
  <2>1. \A s \in T : \E p \in Place : s = l[p]
    BY <1>1, <1>2, PlaceFacts, LinesAt DEF Lines
  <2>2. \A p \in Place : l[p] \in T
    BY <1>1, <1>2, PlaceFacts DEF Lines, LinesOf
  <2> QED
    BY <2>1, <2>2
<1>4. \A s \in T : DOMAIN s = 1 .. Len(s)
  <2>1. \A s \in T : s \in Seq(Packet)
    BY <1>2, LineTypes
  <2> QED
    BY <2>1, LenProperties
<1>5. InFlight = {p.id : p \in UNION {{s[i] : i \in DOMAIN s} : s \in T}}
  BY <1>2, Zenon DEF InFlight
<1>6. ASSUME NEW v \in InFlight
      PROVE  v \in AllIds(l)
  <2>1. PICK e \in UNION {{s[i] : i \in DOMAIN s} : s \in T} : v = e.id
    BY <1>5, Zenon
  <2>2. PICK s \in T : e \in {s[i] : i \in DOMAIN s}
    BY Zenon
  <2>3. PICK i \in DOMAIN s : e = s[i]
    BY <2>2, Zenon
  <2>4. i \in 1 .. Len(s)
    BY <1>4, Zenon
  <2>5. v \in Ids(s)
    BY <2>1, <2>3, <2>4, Zenon DEF Ids
  <2>6. PICK p \in Place : s = l[p]
    BY <1>3, Zenon
  <2> QED
    BY <2>5, <2>6, Zenon DEF AllIds
<1>7. ASSUME NEW v \in AllIds(l)
      PROVE  v \in InFlight
  <2>1. PICK p \in Place : v \in Ids(l[p])
    BY Zenon DEF AllIds
  <2>2. PICK s \in T : s = l[p]
    BY <1>3, Zenon
  <2>3. PICK i \in 1 .. Len(s) : v = s[i].id
    BY <2>1, <2>2, Zenon DEF Ids
  <2>4. i \in DOMAIN s
    BY <1>4, Zenon
  <2>5. s[i] \in {s[j] : j \in DOMAIN s}
    BY <2>4, Zenon
  <2>6. s[i] \in UNION {{t[j] : j \in DOMAIN t} : t \in T}
    BY <2>5, Zenon
  <2> QED
    BY <1>5, <2>3, <2>6, Zenon
<1> QED
  BY <1>1, <1>6, <1>7, Zenon

\* pushIncomingDataPacketsWithin, readIncomingDataPackets and Close hand every
\* packet on, deliver it or release it exactly once, for any number of workers,
\* readers and packets: what was received is in one place, or settled.
THEOREM PacketsAreAccountedFor == Spec => []PacketsAccountedFor
<1>1. ASSUME Inv, PacketsInv PROVE PacketsAccountedFor
  BY <1>1, InFlightIsInLine DEF Inv, PacketsInv, Accounted, PacketsAccountedFor
<1> QED
  BY <1>1, InitInv, NextInv, InitPackets, NextPackets, PTL DEF Spec

\* What a worker received in order reaches every reader in that order, for any
\* number of workers and readers: the queue, the batch popped from it and the
\* packets kept of the batch are one line, which packets join at the end only.
THEOREM WorkersStayInOrder == Spec => []PerWorkerOrder
<1>1. ASSUME Inv, PacketsInv PROVE PerWorkerOrder
  <2> SUFFICES ASSUME NEW r \in Readers
               PROVE  InOrder(reader[r].kept \o reader[r].batch \o queue.items)
                      /\ LET line == reader[r].kept \o reader[r].batch \o queue.items
                         IN  DOMAIN line = 1 .. Len(line)
    BY Zenon DEF PerWorkerOrder, InOrder
  <2>1. PICK kept \in Seq(Packet), batch \in Seq(Packet), items \in Seq(Packet) :
           kept = reader[r].kept /\ batch = reader[r].batch /\ items = queue.items
    BY <1>1, LineTypes DEF Inv
  <2>2. PICK l : l = Lines /\ InLine(l)
    BY <1>1 DEF PacketsInv
  <2>3. l[KeptPlace(r)] = kept /\ l[BatchPlace(r)] = batch /\ l[QueuePlace] = items
    BY <2>1, <2>2, LinesAt DEF Lines
  <2>4. InOrder(kept) /\ InOrder(batch) /\ InOrder(items)
    BY <2>2, <2>3, PlaceFacts DEF InLine
  <2>5. /\ Ahead(KeptPlace(r), BatchPlace(r)) /\ Ahead(KeptPlace(r), QueuePlace)
        /\ Ahead(BatchPlace(r), QueuePlace)
    BY PlaceFacts DEF Ahead
  <2>6. /\ Precedes(Tags(kept), Tags(batch)) /\ Precedes(Tags(kept), Tags(items))
        /\ Precedes(Tags(batch), Tags(items))
    BY <2>2, <2>3, <2>5, PlaceFacts DEF InLine
  <2>7. PICK held \in Seq(Packet) : held = kept \o batch
    BY ConcatFacts
  <2>8. Joined(held, kept, batch) /\ Joined(held \o items, held, items)
    BY <2>7, ConcatJoins
  <2>9. InOrder(held) /\ Tags(held) = Tags(kept) \cup Tags(batch)
    BY <2>4, <2>6, <2>8, JoinedFacts
  <2>10. Precedes(Tags(held), Tags(items))
    BY <2>6, <2>9, Zenon DEF Precedes
  <2>11. InOrder(held \o items)
    BY <2>4, <2>8, <2>9, <2>10, JoinedFacts
  <2>12. held \o items \in Seq(Packet)
    BY ConcatFacts
  <2>13. DOMAIN (held \o items) = 1 .. Len(held \o items)
    BY <2>12, LenProperties
  <2> QED
    BY <2>1, <2>7, <2>11, <2>13, Zenon
<1> QED
  BY <1>1, InitInv, NextInv, InitPackets, NextPackets, PTL DEF Spec
=============================================================================
