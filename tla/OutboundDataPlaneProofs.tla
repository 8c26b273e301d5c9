---------------------- MODULE OutboundDataPlaneProofs ----------------------
(********************************************************************************)
(* Proofs about OutboundDataPlane, for any number of callers, completions,      *)
(* packets, sessions and revisions, and any length of the queue.                *)
(********************************************************************************)
EXTENDS OutboundDataPlane, ClientStateProofs, SequenceTheorems, FiniteSetTheorems,
        WellFoundedInduction, TLAPS

----------------------------------------------------------------------------
(* The inductive invariant. *)

Queued == {"slot", "push", "abort", "wait"}

\* A call that goes through the queue owns a completion of its own until it
\* returns, and knows how many of its packets are still to be queued.
CallsOwnObjects ==
    /\ \A c \in Callers : caller[c].object # None <=> caller[c].pc \in Queued
    /\ \A c, d \in Callers : caller[c].object = caller[d].object /\ caller[c].object # None => c = d
    /\ \A c \in Callers : caller[c].pc \in {"slot", "push", "abort"} => caller[c].left # 0
    /\ \A c \in Callers : caller[c].pc = "wait" => caller[c].left = 0

\* A packet on its way is one of the present call of its caller.
BelongsToCall(p) == caller[p.caller].object = p.object /\ caller[p.caller].stamp = p.stamp
PacketsBelongToCalls ==
    /\ \A i \in 1 .. Len(queue.items) : BelongsToCall(queue.items[i])
    /\ \A i \in 1 .. Len(writer.batch) : BelongsToCall(writer.batch[i])

\* What the writer holds at each step of its loop.
WriterHolds ==
    /\ writer.pc \in {"pop", "empty", "wait", "done"} => writer.batch = << >>
    /\ writer.pc \in {"popped", "lock", "write", "settle"} => writer.batch # << >>
    /\ writer.pc \in {"lock", "write", "settle"} => writer.count \in 1 .. Len(writer.batch)
    /\ writer.pc = "free" => writer.count \in 0 .. Len(writer.batch)
    /\ writer.pc \in {"lock", "write"} =>
          /\ ~writer.err
          /\ \A i \in 1 .. writer.count : writer.batch[i].object = writer.batch[1].object

\* A slot is held by every caller about to push, every queued packet and every
\* popped one, and by the packet that was completed and not yet freed.
Pushing == {c \in Callers : caller[c].pc = "push"}
Freeing == IF writer.pc = "free" THEN 1 ELSE 0
SlotsCount ==
    slots = Cardinality(Pushing) + Len(queue.items) + Len(writer.batch) + Freeing

\* A completion reports when its count is zero, and then an error if there was
\* one.
DoneReports ==
    \A c \in Callers : caller[c].pc \in Queued =>
        LET x == completion[caller[c].object]
        IN  x.done = IF x.remaining # 0 THEN "empty" ELSE IF x.err THEN "error" ELSE "nil"

\* The packets of object x in the run that the writer has dealt with and is
\* settling; the run failed if the writer says so.
Settling(x) ==
    IF writer.pc \in {"settle", "free"}
    THEN {i \in 1 .. writer.count : writer.batch[i].object = x} ELSE {}
Failing(x) == writer.err /\ Settling(x) # {}

\* The packets of a call: those written and those that still may be are all of
\* them as long as nothing failed, and not all of them afterwards.
WrittenOrPending ==
    \A c \in Callers : caller[c].pc \in Queued =>
        LET x == caller[c].object
            sum == caller[c].written + completion[x].remaining - Cardinality(Settling(x))
        IN  IF completion[x].err \/ Failing(x) THEN sum < caller[c].size
            ELSE sum = caller[c].size

\* CompletionCountsPackets, in the form the proofs use: by owner.
Travelling(x) == Occurrences(queue.items, x) + Occurrences(writer.batch, x)
PacketsCounted ==
    \A x \in Completions :
        /\ (\A c \in Callers : caller[c].object # x) =>
              Travelling(x) = 0 /\ completion[x].done = "empty"
        /\ \A c \in Callers : caller[c].object = x =>
              completion[x].remaining = caller[c].left + Travelling(x)

Inv ==
    /\ TypeOK
    /\ CallsOwnObjects
    /\ PacketsBelongToCalls
    /\ WriterHolds
    /\ WriteIsCurrent
    /\ SlotsCount
    /\ PacketsCounted
    /\ DoneReports
    /\ WrittenOrPending

----------------------------------------------------------------------------
(* Counting the packets of a completion in a sequence. *)

\* The indices of the elements of s for object x.
Of(s, x) == {i \in 1 .. Len(s) : s[i].object = x}

\* A set of positions and the same positions after the first one is gone.
LEMMA ShiftCardinality ==
    ASSUME NEW n \in Nat, NEW A \in SUBSET (1 .. n), NEW B, B = {i \in 1 .. n - 1 : i + 1 \in A}
    PROVE  /\ IsFiniteSet(A) /\ Cardinality(A) \in Nat
           /\ IsFiniteSet(B) /\ Cardinality(B) \in Nat
           /\ Cardinality(B) = Cardinality(A) - (IF 1 \in A THEN 1 ELSE 0)
<1>1. IsFiniteSet(1 .. n) /\ IsFiniteSet(1 .. n - 1)
  BY FS_Interval
<1>2. IsFiniteSet(A) /\ IsFiniteSet(B)
  <2>1. B \in SUBSET (1 .. n - 1)
    OBVIOUS
  <2> QED
    BY <1>1, <2>1, FS_Subset
<1>3. Cardinality(A) \in Nat /\ Cardinality(B) \in Nat
  BY <1>2, FS_CardinalityType
<1> DEFINE f == [i \in B |-> i + 1]
           C == A \ {1}
<1>4. f \in Bijection(B, C)
  <2>1. f \in [B -> C]
    OBVIOUS
  <2>2. \A i, j \in B : f[i] = f[j] => i = j
    OBVIOUS
  <2>3. \A k \in C : \E i \in B : f[i] = k
    <3> TAKE k \in C
    <3>1. k - 1 \in B /\ f[k - 1] = k
      OBVIOUS
    <3> QED
      BY <3>1
  <2> QED
    BY <2>1, <2>2, <2>3 DEF Bijection, Injection, Surjection, IsInjective
<1>5. ExistsBijection(B, C)
  BY <1>4 DEF ExistsBijection
<1>6. Cardinality(C) = Cardinality(B)
  BY <1>2, <1>5, FS_Bijection
<1>7. Cardinality(C) = IF 1 \in A THEN Cardinality(A) - 1 ELSE Cardinality(A)
  BY <1>2, FS_RemoveElement
<1> QED
  BY <1>2, <1>3, <1>6, <1>7

\* Occurrences counts Of.
LEMMA OccurrencesCounts ==
    ASSUME NEW S, NEW s \in Seq(S), NEW x
    PROVE  /\ Of(s, x) \in SUBSET (1 .. Len(s))
           /\ IsFiniteSet(Of(s, x))
           /\ Occurrences(s, x) = Cardinality(Of(s, x))
           /\ Occurrences(s, x) \in Nat
           /\ Occurrences(s, x) = 0 <=> Of(s, x) = {}
<1>1. DOMAIN s = 1 .. Len(s) /\ Len(s) \in Nat
  BY LenProperties
<1>2. Of(s, x) \in SUBSET (1 .. Len(s))
  BY DEF Of
<1>3. IsFiniteSet(1 .. Len(s))
  BY <1>1, FS_Interval
<1>4. IsFiniteSet(Of(s, x))
  BY <1>2, <1>3, FS_Subset
<1>5. Occurrences(s, x) = Cardinality(Of(s, x))
  BY <1>1 DEF Occurrences, Of
<1>6. Cardinality(Of(s, x)) \in Nat /\ (Cardinality(Of(s, x)) = 0 <=> Of(s, x) = {})
  BY <1>4, FS_CardinalityType, FS_EmptySet
<1> QED
  BY <1>2, <1>4, <1>5, <1>6

\* An appended packet adds one to the count of its completion.
LEMMA OccurrencesAppend ==
    ASSUME NEW S, NEW s \in Seq(S), NEW e \in S, NEW x
    PROVE  Occurrences(Append(s, e), x) = Occurrences(s, x) + (IF e.object = x THEN 1 ELSE 0)
<1> DEFINE t == Append(s, e)
<1>1. /\ t \in Seq(S) /\ Len(t) = Len(s) + 1 /\ Len(s) \in Nat
      /\ \A i \in 1 .. Len(s) : t[i] = s[i]
      /\ t[Len(s) + 1] = e
  BY AppendProperties, LenProperties
<1> HIDE DEF t
<1>2. Of(t, x) = IF e.object = x THEN Of(s, x) \cup {Len(s) + 1} ELSE Of(s, x)
  BY <1>1 DEF Of
<1>3. Len(s) + 1 \notin Of(s, x)
  BY <1>1 DEF Of
<1>4. IsFiniteSet(Of(s, x)) /\ Occurrences(s, x) = Cardinality(Of(s, x)) /\ Occurrences(s, x) \in Nat
  BY OccurrencesCounts
<1>5. Occurrences(t, x) = Cardinality(Of(t, x))
  BY <1>1, OccurrencesCounts
<1>6. Cardinality(Of(s, x) \cup {Len(s) + 1}) = Cardinality(Of(s, x)) + 1
  BY <1>3, <1>4, FS_AddElement
<1> QED
  BY <1>2, <1>4, <1>5, <1>6 DEF t

\* The packets for object x among the first n of a batch.
FrontOf(s, n, x) == {i \in 1 .. n : s[i].object = x}

\* The first n packets of a batch, and the first n - 1 of its tail.
LEMMA PrefixOfTail ==
    ASSUME NEW S, NEW s \in Seq(S), s # << >>, NEW n \in 1 .. Len(s), NEW x
    PROVE  /\ IsFiniteSet(FrontOf(s, n, x)) /\ Cardinality(FrontOf(s, n, x)) \in Nat
           /\ IsFiniteSet(FrontOf(Tail(s), n - 1, x))
           /\ Cardinality(FrontOf(Tail(s), n - 1, x)) \in Nat
           /\ Cardinality(FrontOf(Tail(s), n - 1, x))
                 = Cardinality(FrontOf(s, n, x)) - (IF s[1].object = x THEN 1 ELSE 0)
<1> DEFINE A == FrontOf(s, n, x)
           B == FrontOf(Tail(s), n - 1, x)
<1> USE DEF FrontOf
<1>1. Len(s) \in Nat
  BY LenProperties
<1>2. \A i \in 1 .. Len(s) - 1 : Tail(s)[i] = s[i + 1]
  BY HeadTailProperties
<1>3. n \in Nat /\ A \in SUBSET (1 .. n)
  BY <1>1
<1>4. B = {i \in 1 .. n - 1 : i + 1 \in A}
  BY <1>1, <1>2
<1>5. 1 \in A <=> s[1].object = x
  BY <1>1
<1> HIDE DEF A, B
<1>6. /\ IsFiniteSet(A) /\ Cardinality(A) \in Nat
      /\ IsFiniteSet(B) /\ Cardinality(B) \in Nat
      /\ Cardinality(B) = Cardinality(A) - (IF 1 \in A THEN 1 ELSE 0)
  BY <1>3, <1>4, ShiftCardinality, ZenonT(30)
<1> QED
  BY <1>5, <1>6 DEF A, B

\* Taking the first packet off takes one from the count of its completion.
LEMMA OccurrencesTail ==
    ASSUME NEW S, NEW s \in Seq(S), s # << >>, NEW x
    PROVE  /\ Tail(s) \in Seq(S) /\ Len(Tail(s)) = Len(s) - 1
           /\ \A i \in 1 .. Len(s) - 1 : Tail(s)[i] = s[i + 1]
           /\ Occurrences(Tail(s), x) = Occurrences(s, x) - (IF s[1].object = x THEN 1 ELSE 0)
<1>1. Len(s) \in Nat \ {0}
  BY EmptySeq
<1>2. /\ Tail(s) \in Seq(S) /\ Len(Tail(s)) = Len(s) - 1
      /\ \A i \in 1 .. Len(s) - 1 : Tail(s)[i] = s[i + 1]
  BY HeadTailProperties
<1>3. Len(s) \in 1 .. Len(s)
  BY <1>1
<1>4. Cardinality(FrontOf(Tail(s), Len(s) - 1, x))
         = Cardinality(FrontOf(s, Len(s), x)) - (IF s[1].object = x THEN 1 ELSE 0)
  BY <1>3, PrefixOfTail
<1>5. Occurrences(Tail(s), x) = Cardinality(Of(Tail(s), x)) /\ Occurrences(s, x) = Cardinality(Of(s, x))
  BY <1>2, OccurrencesCounts
<1>6. Of(s, x) = FrontOf(s, Len(s), x) /\ Of(Tail(s), x) = FrontOf(Tail(s), Len(s) - 1, x)
  BY <1>2 DEF Of, FrontOf
<1> QED
  BY <1>2, <1>4, <1>5, <1>6

\* Nothing is counted in an empty sequence.
LEMMA OccurrencesEmpty == ASSUME NEW x PROVE Occurrences(<< >>, x) = 0
<1>1. << >> \in Seq({}) /\ Len(<< >>) = 0
  BY EmptySeq
<1>2. Of(<< >>, x) = {}
  BY <1>1 DEF Of
<1> QED
  BY <1>1, <1>2, OccurrencesCounts

\* RunLength is the length of the longest run at the front of a batch: the
\* first packet of another completion ends it, if there is one.
LEMMA RunLengthValue ==
    ASSUME NEW b \in Seq(Packet), b # << >>
    PROVE  /\ RunLength(b) \in 1 .. Len(b)
           /\ \A i \in 1 .. RunLength(b) : b[i].object = b[1].object
<1>1. Len(b) \in Nat \ {0}
  BY EmptySeq
<1> DEFINE IsRun(n) == /\ \A i \in 1 .. n : b[i].object = b[1].object
                       /\ n < Len(b) => b[n + 1].object # b[1].object
           T == {i \in 1 .. Len(b) : b[i].object # b[1].object}
<1>2. \E n \in 1 .. Len(b) : IsRun(n)
  <2>1. CASE T = {}
    <3>1. Len(b) \in 1 .. Len(b) /\ IsRun(Len(b))
      BY <1>1, <2>1
    <3> QED
      BY <3>1
  <2>2. CASE T # {}
    <3> DEFINE R == OpToRel(<, Nat)
    <3>1. IsWellFoundedOn(R, Nat)
      BY NatLessThanWellFounded
    <3>2. T \subseteq Nat
      OBVIOUS
    <3> HIDE DEF T, R
    <3>3. PICK m \in T : \A k \in T : ~ (<<k, m>> \in R)
      BY <2>2, <3>1, <3>2, WFMin
    <3>4. \A k \in T : ~ (k < m)
      BY <3>2, <3>3 DEF R, OpToRel
    <3>5. m \in 2 .. Len(b) /\ b[m].object # b[1].object
      BY <1>1 DEF T
    <3>6. \A i \in 1 .. m - 1 : b[i].object = b[1].object
      BY <3>4, <3>5 DEF T
    <3>7. m - 1 \in 1 .. Len(b) /\ (m - 1) + 1 = m
      BY <1>1, <3>5
    <3>8. IsRun(m - 1)
      BY <3>5, <3>6, <3>7
    <3> QED
      BY <3>7, <3>8
  <2> QED
    BY <2>1, <2>2
<1>3. RunLength(b) = CHOOSE n \in 1 .. Len(b) : IsRun(n)
  BY DEF RunLength
<1> HIDE DEF IsRun
<1>4. RunLength(b) \in 1 .. Len(b) /\ IsRun(RunLength(b))
  BY <1>2, <1>3
<1> QED
  BY <1>4 DEF IsRun

----------------------------------------------------------------------------
(* Types. *)

\* The types of the fields, of the packets on their way and of the lengths.
LEMMA Fields ==
    ASSUME TypeOK
    PROVE  /\ \A c \in Callers :
                /\ caller[c] \in Caller
                /\ caller[c].pc \in {"idle", "slot", "push", "abort", "wait", "lock", "gate", "write"}
                /\ caller[c].stamp \in Stamp
                /\ caller[c].size \in Nat /\ caller[c].left \in Nat /\ caller[c].written \in Nat
                /\ caller[c].object \in Completions \cup {None}
           /\ \A x \in Completions :
                /\ completion[x] \in Completion
                /\ completion[x].remaining \in Nat
                /\ completion[x].err \in BOOLEAN
                /\ completion[x].done \in {"empty", "nil", "error"}
           /\ queue.items \in Seq(Packet) /\ queue.closed \in BOOLEAN /\ Len(queue.items) \in Nat
           /\ writer.batch \in Seq(Packet) /\ writer.count \in Nat /\ writer.err \in BOOLEAN
           /\ Len(writer.batch) \in Nat
           /\ \A i \in 1 .. Len(queue.items) : queue.items[i] \in Packet
           /\ \A i \in 1 .. Len(writer.batch) : writer.batch[i] \in Packet
           /\ \A p \in Packet : p.caller \in Callers /\ p.stamp \in Stamp /\ p.object \in Completions
<1>1. queue.items \in Seq(Packet) /\ writer.batch \in Seq(Packet)
  BY DEF TypeOK, Queue, Writer
<1>2. Len(queue.items) \in Nat /\ Len(writer.batch) \in Nat
  BY <1>1, LenProperties
<1>3. /\ \A i \in 1 .. Len(queue.items) : queue.items[i] \in Packet
      /\ \A i \in 1 .. Len(writer.batch) : writer.batch[i] \in Packet
  BY <1>1, ElementOfSeq
<1>4. queue.closed \in BOOLEAN /\ writer.count \in Nat /\ writer.err \in BOOLEAN
  BY DEF TypeOK, Queue, Writer
<1>5. \A p \in Packet : p.caller \in Callers /\ p.stamp \in Stamp /\ p.object \in Completions
  BY DEF Packet
<1>6. \A c \in Callers :
         /\ caller[c] \in Caller
         /\ caller[c].pc \in {"idle", "slot", "push", "abort", "wait", "lock", "gate", "write"}
         /\ caller[c].stamp \in Stamp
         /\ caller[c].size \in Nat /\ caller[c].left \in Nat /\ caller[c].written \in Nat
         /\ caller[c].object \in Completions \cup {None}
  BY DEF TypeOK, Caller
<1>7. \A x \in Completions :
         /\ completion[x] \in Completion
         /\ completion[x].remaining \in Nat
         /\ completion[x].err \in BOOLEAN
         /\ completion[x].done \in {"empty", "nil", "error"}
  BY DEF TypeOK, Completion
<1> QED
  BY <1>1, <1>2, <1>3, <1>4, <1>5, <1>6, <1>7

\* One caller's record changes to another one.
LEMMA CallerUpdate ==
    ASSUME TypeOK, NEW c \in Callers, NEW r \in Caller, caller' = [caller EXCEPT ![c] = r]
    PROVE  /\ caller' \in [Callers -> Caller]
           /\ caller'[c] = r
           /\ \A d \in Callers : d # c => caller'[d] = caller[d]
BY DEF TypeOK

\* One completion's record changes to another one.
LEMMA CompletionUpdate ==
    ASSUME TypeOK, NEW x \in Completions, NEW r \in Completion,
           completion' = [completion EXCEPT ![x] = r]
    PROVE  /\ completion' \in [Completions -> Completion]
           /\ completion'[x] = r
           /\ \A y \in Completions : y # x => completion'[y] = completion[y]
BY DEF TypeOK

\* What complete makes of a completion that still counts packets.
LEMMA CompleteValue ==
    ASSUME NEW x \in Completion, x.remaining # 0, NEW err \in BOOLEAN
    PROVE  /\ Complete(x, err) \in Completion
           /\ Complete(x, err).remaining = x.remaining - 1
           /\ Complete(x, err).err = (x.err \/ err)
           /\ Complete(x, err).done = IF x.remaining = 1 THEN IF x.err \/ err THEN "error" ELSE "nil"
                                      ELSE x.done
BY DEF Complete, Completion

\* A caller outside of a call holds nothing.
LEMMA IdleCallerType ==
    /\ IdleCaller \in Caller
    /\ IdleCaller.pc = "idle" /\ IdleCaller.object = None /\ IdleCaller.left = 0
BY DEF IdleCaller, Caller, NoStamp, Stamp, NoSession

\* The stamp a call takes has its type.
LEMMA PresentStampType == TypeOK => PresentStamp \in Stamp
BY DEF TypeOK, Client, PresentStamp, Stamp

----------------------------------------------------------------------------
(* The lifecycle and Close: they touch no packet. *)

\* Nothing but the lifecycle, the close of the queue and counters change.
DataUnchanged ==
    /\ queue'.items = queue.items
    /\ UNCHANGED <<slots, completion, caller, writer>>

\* A step that touches no packet keeps the invariant, if what it changes keeps its
\* type and leaves a write in progress current.
LEMMA DataUnchangedInv ==
    ASSUME Inv, TypeOK', WriteIsCurrent', DataUnchanged
    PROVE  Inv'
<1> USE DEF DataUnchanged
<1>1. CallsOwnObjects' /\ PacketsBelongToCalls' /\ WriterHolds'
  BY DEF Inv, CallsOwnObjects, PacketsBelongToCalls, BelongsToCall, WriterHolds
<1>2. SlotsCount'
  BY DEF Inv, SlotsCount, Pushing, Freeing
<1>3. PacketsCounted'
  BY DEF Inv, PacketsCounted, Travelling
<1>4. DoneReports'
  BY DEF Inv, DoneReports
<1>5. WrittenOrPending'
  BY DEF Inv, WrittenOrPending, Settling, Failing
<1> QED
  BY <1>1, <1>2, <1>3, <1>4, <1>5 DEF Inv

\* The lifecycle and Close keep the types.
LEMMA LifecycleType == ASSUME TypeOK, Lifecycle \/ Close PROVE TypeOK'
<1> USE DEF TypeOK
<1>1. CASE Connect
  <2>1. client.sessionGeneration + 1 \in Nat
    BY DEF Client
  <2>2. client' \in Client
    BY <1>1, <2>1, SetCurrentSessionType DEF Connect
  <2> QED
    BY <1>1, <2>2 DEF Connect, Session
<1>2. CASE Publish
  <2>1. client.currentSession \in Nat /\ revision + 1 \in Nat
    BY DEF Client
  <2>2. client' \in Client
    BY <1>2, <2>1, PublishCurrentSessionType DEF Publish
  <2> QED
    BY <1>2, <2>1, <2>2 DEF Publish
<1>3. CASE Reconfigure
  <2>1. revision + 1 \in Nat
    OBVIOUS
  <2>2. client' \in Client
    BY <1>3, <2>1, PublishRevisionType DEF Reconfigure
  <2> QED
    BY <1>3, <2>1, <2>2 DEF Reconfigure
<1>4. CASE SessionEnds
  BY <1>4 DEF SessionEnds, Session
<1>5. CASE ClearSession
  <2>1. client.currentSession \in Nat
    BY DEF Client
  <2>2. client' \in Client
    BY <1>5, <2>1, ClearCurrentSessionType DEF ClearSession
  <2> QED
    BY <1>5, <2>2 DEF ClearSession
<1>6. CASE ClientFails
  <2>1. client' \in Client
    BY <1>6, SetTerminalErrorType DEF ClientFails
  <2> QED
    BY <1>6, <2>1 DEF ClientFails
<1>7. CASE CloseMarks
  <2>1. client' \in Client
    BY <1>7, MarkClosedType DEF CloseMarks
  <2> QED
    BY <1>7, <2>1 DEF CloseMarks
<1>8. CASE CloseStopsQueue
  BY <1>8 DEF CloseStopsQueue, Queue, lifecycle
<1>9. CASE CloseStopsCallers \/ CloseDrainsGate \/ CloseJoinsSupervisor \/ CloseJoinsWriter
  BY <1>9 DEF CloseStopsCallers, CloseDrainsGate, CloseJoinsSupervisor, CloseJoinsWriter, lifecycle
<1>10. CASE CloseEndsSession
  BY <1>10 DEF CloseEndsSession, Session
<1> QED
  BY <1>1, <1>2, <1>3, <1>4, <1>5, <1>6, <1>7, <1>8, <1>9, <1>10 DEF Lifecycle, Close

\* The lifecycle and Close touch no packet.
LEMMA LifecycleData == ASSUME TypeOK, Lifecycle \/ Close PROVE DataUnchanged
<1>1. CASE CloseStopsQueue
  BY <1>1 DEF CloseStopsQueue, DataUnchanged, TypeOK, Queue
<1>2. CASE Lifecycle
  BY <1>2 DEF Lifecycle, Connect, Publish, Reconfigure, SessionEnds, ClearSession, ClientFails,
              DataUnchanged
<1>3. CASE Close /\ ~CloseStopsQueue
  BY <1>3 DEF Close, CloseMarks, CloseStopsCallers, CloseEndsSession, CloseDrainsGate,
              CloseJoinsSupervisor, CloseJoinsWriter, DataUnchanged
<1> QED
  BY <1>1, <1>2, <1>3

\* Whatever changes the session or the revision waits for dataPlaneAccess; a
\* terminal error and the mark of Close change neither.
LEMMA LifecycleWriteIsCurrent ==
    ASSUME TypeOK, WriteIsCurrent, Lifecycle \/ Close
    PROVE  WriteIsCurrent'
<1>1. writer' = writer /\ caller' = caller
  BY LifecycleData DEF DataUnchanged
<1>2. CASE DataPlaneFree
  BY <1>1, <1>2 DEF DataPlaneFree, WriteIsCurrent
<1>3. CASE UNCHANGED client
  BY <1>1, <1>3 DEF WriteIsCurrent, StampPublished
<1>4. CASE ClientFails \/ CloseMarks
  <2>1. /\ client'.currentSession = client.currentSession
        /\ client'.currentGeneration = client.currentGeneration
        /\ client'.publishedSession = client.publishedSession
        /\ client'.publishedRevision = client.publishedRevision
    BY <1>4, EndKeepsSession DEF ClientFails, CloseMarks, TypeOK
  <2> QED
    BY <1>1, <2>1 DEF WriteIsCurrent, StampPublished
<1>5. CASE SessionEnds
  BY <1>3, <1>5 DEF SessionEnds
<1>6. CASE Close /\ ~CloseMarks
  BY <1>3, <1>6 DEF Close, CloseStopsQueue, CloseStopsCallers, CloseEndsSession, CloseDrainsGate,
                    CloseJoinsSupervisor, CloseJoinsWriter, lifecycle
<1>7. CASE Connect \/ Publish \/ Reconfigure \/ ClearSession
  BY <1>2, <1>7 DEF Connect, Publish, Reconfigure, ClearSession
<1> QED
  BY <1>4, <1>5, <1>6, <1>7 DEF Lifecycle, Close

\* The lifecycle and Close keep the invariant.
LEMMA LifecycleInv == ASSUME Inv, Lifecycle \/ Close PROVE Inv'
BY LifecycleType, LifecycleData, LifecycleWriteIsCurrent, DataUnchangedInv DEF Inv

----------------------------------------------------------------------------
(* Direct writes: the caller owns no completion before and after. *)

\* A caller that is in no queued call, before and after, changes nothing the queue
\* is concerned with.
LEMMA DirectInv ==
    ASSUME Inv, NEW c \in Callers, NEW r \in Caller,
           caller' = [caller EXCEPT ![c] = r],
           caller[c].pc \notin Queued, r.pc \notin Queued, r.object = None,
           r.pc = "write" => StampPublished(r.stamp),
           calls' \in Nat,
           UNCHANGED <<lifecycle, queue, slots, gone, completion, writer, closer>>
    PROVE  Inv'
<1> USE DEF lifecycle
<1>1. /\ caller' \in [Callers -> Caller]
      /\ caller'[c] = r
      /\ \A d \in Callers : d # c => caller'[d] = caller[d]
  BY CallerUpdate DEF Inv
<1>2. caller[c].object = None
  BY DEF Inv, CallsOwnObjects
<1>3. TypeOK'
  BY <1>1 DEF Inv, TypeOK
<1>4. CallsOwnObjects'
  BY <1>1, <1>2 DEF Inv, CallsOwnObjects, Queued
<1>5. PacketsBelongToCalls'
  <2>1. ASSUME NEW p \in Packet, BelongsToCall(p)
        PROVE  BelongsToCall(p)'
    <3>1. p.object # None /\ p.caller \in Callers
      BY OutboundAssumption DEF Packet
    <3>2. p.caller # c
      BY <1>2, <2>1, <3>1 DEF BelongsToCall
    <3> QED
      BY <1>1, <2>1, <3>1, <3>2 DEF BelongsToCall
  <2>2. /\ \A i \in 1 .. Len(queue.items) : queue.items[i] \in Packet /\ BelongsToCall(queue.items[i])
        /\ \A i \in 1 .. Len(writer.batch) : writer.batch[i] \in Packet /\ BelongsToCall(writer.batch[i])
    BY Fields DEF Inv, PacketsBelongToCalls
  <2> QED
    BY <2>1, <2>2 DEF PacketsBelongToCalls
<1>6. WriterHolds'
  BY DEF Inv, WriterHolds
<1>7. WriteIsCurrent'
  BY <1>1 DEF Inv, WriteIsCurrent, StampPublished
<1>8. SlotsCount'
  <2>1. Pushing' = Pushing
    BY <1>1 DEF Pushing, Queued
  <2> QED
    BY <2>1 DEF Inv, SlotsCount, Freeing
<1>9. PacketsCounted'
  <2>1. \A x \in Completions : x # None
    BY OutboundAssumption
  <2>2. \A x \in Completions, d \in Callers : caller'[d].object = x <=> caller[d].object = x
    BY <1>1, <1>2, <2>1
  <2>3. \A d \in Callers : caller'[d].object # None => caller'[d].left = caller[d].left
    BY <1>1
  <2>4. \A x \in Completions : Travelling(x)' = Travelling(x)
    BY DEF Travelling
  <2> QED
    BY <2>1, <2>2, <2>3, <2>4 DEF Inv, PacketsCounted
<1>10. DoneReports'
  BY <1>1 DEF Inv, DoneReports
<1>11. WrittenOrPending'
  BY <1>1 DEF Inv, WrittenOrPending, Settling, Failing
<1> QED
  BY <1>3, <1>4, <1>5, <1>6, <1>7, <1>8, <1>9, <1>10, <1>11 DEF Inv

\* The steps of a direct write keep the invariant.
LEMMA DirectStepInv ==
    ASSUME Inv, NEW c \in Callers,
           BeginDirect(c) \/ DirectLocks(c) \/ DirectChecks(c) \/ DirectReturns(c)
    PROVE  Inv'
<1>0. /\ caller[c] \in Caller /\ caller[c].stamp \in Stamp /\ PresentStamp \in Stamp
      /\ client.publishedRevision \in Nat /\ calls \in Nat
  BY Fields, PresentStampType DEF Inv, TypeOK, Client
<1>1. CASE BeginDirect(c)
  <2>0. PICK r : r = [IdleCaller EXCEPT !.pc = "lock", !.stamp.revision = client.publishedRevision]
    OBVIOUS
  <2>1. r \in Caller /\ r.pc = "lock" /\ r.object = None
    BY <1>0, <2>0 DEF IdleCaller, Caller, NoStamp, Stamp, NoSession
  <2>2. caller' = [caller EXCEPT ![c] = r] /\ caller[c].pc = "idle" /\ calls' = calls + 1
        /\ UNCHANGED <<lifecycle, queue, slots, gone, completion, writer, closer>>
    BY <1>1, <2>0 DEF BeginDirect
  <2>3. calls' \in Nat
    BY <1>0, <2>2
  <2> QED
    BY <1>0, <2>1, <2>2, <2>3, DirectInv DEF Queued
<1>2. CASE DirectLocks(c)
  <2>1. caller[c].pc = "lock" /\ caller[c].object = None /\ calls' = calls
        /\ UNCHANGED <<lifecycle, queue, slots, gone, completion, writer, closer>>
    BY <1>2 DEF DirectLocks, Inv, CallsOwnObjects, Queued
  <2>2. PICK r : /\ caller' = [caller EXCEPT ![c] = r]
                 /\ \/ r = [caller[c] EXCEPT !.pc = "gate", !.stamp = PresentStamp]
                    \/ r = IdleCaller
    BY <1>2 DEF DirectLocks
  <2>3. r \in Caller /\ r.pc \in {"gate", "idle"} /\ r.object = None
    BY <1>0, <2>1, <2>2, IdleCallerType DEF Caller
  <2> QED
    BY <1>0, <2>1, <2>2, <2>3, DirectInv DEF Queued
<1>3. CASE DirectChecks(c)
  <2>1. caller[c].pc = "gate" /\ caller[c].object = None /\ calls' = calls
        /\ UNCHANGED <<lifecycle, queue, slots, gone, completion, writer, closer>>
    BY <1>3 DEF DirectChecks, Inv, CallsOwnObjects, Queued
  <2>2. PICK r : /\ caller' = [caller EXCEPT ![c] = r]
                 /\ \/ r = [caller[c] EXCEPT !.pc = "write"] /\ StampCurrent(caller[c].stamp)
                    \/ r = IdleCaller
    BY <1>3 DEF DirectChecks
  <2>3. /\ r \in Caller /\ r.pc \in {"write", "idle"} /\ r.object = None
        /\ r.pc = "write" => StampPublished(r.stamp)
    <3>1. CASE r = IdleCaller
      BY <3>1, IdleCallerType
    <3>2. CASE r = [caller[c] EXCEPT !.pc = "write"] /\ StampCurrent(caller[c].stamp)
      <4>1. r \in Caller /\ r.pc = "write" /\ r.object = None /\ r.stamp = caller[c].stamp
        BY <1>0, <2>1, <3>2 DEF Caller
      <4> QED
        BY <3>2, <4>1 DEF StampCurrent, StampPublished
    <3> QED
      BY <2>2, <3>1, <3>2
  <2> QED
    BY <1>0, <2>1, <2>2, <2>3, DirectInv DEF Queued
<1>4. CASE DirectReturns(c)
  <2>1. caller[c].pc = "write" /\ calls' = calls /\ caller' = [caller EXCEPT ![c] = IdleCaller]
        /\ UNCHANGED <<lifecycle, queue, slots, gone, completion, writer, closer>>
    BY <1>4 DEF DirectReturns
  <2> QED
    BY <1>0, <2>1, IdleCallerType, DirectInv DEF Queued
<1> QED
  BY <1>1, <1>2, <1>3, <1>4

----------------------------------------------------------------------------
(* Queued writes. *)

\* Caller c moves on inside its call: its program counter and what it has left
\* to queue change, nothing else of any caller.
Moves(c, pc, left) ==
    /\ caller' \in [Callers -> Caller]
    /\ caller'[c].pc = pc /\ caller'[c].left = left
    /\ \A d \in Callers : d # c => caller'[d] = caller[d]
    /\ caller'[c].object = caller[c].object /\ caller'[c].stamp = caller[c].stamp
    /\ caller'[c].size = caller[c].size /\ caller'[c].written = caller[c].written

\* The form in which the actions state a move.
LEMMA MovesIntro ==
    ASSUME TypeOK, NEW c \in Callers, NEW left \in Nat,
           NEW pc \in {"slot", "push", "abort", "wait"},
           caller' = [caller EXCEPT ![c] = [caller[c] EXCEPT !.pc = pc, !.left = left]]
    PROVE  Moves(c, pc, left)
<1> DEFINE r == [caller[c] EXCEPT !.pc = pc, !.left = left]
<1>1. caller[c] \in Caller
  BY Fields
<1>2. /\ r \in Caller
      /\ r.pc = pc /\ r.left = left
      /\ r.object = caller[c].object /\ r.stamp = caller[c].stamp
      /\ r.size = caller[c].size /\ r.written = caller[c].written
  BY <1>1 DEF Caller
<1>3. caller' = [caller EXCEPT ![c] = r]
  OBVIOUS
<1> HIDE DEF r
<1>4. /\ caller' \in [Callers -> Caller]
      /\ caller'[c] = r
      /\ \A d \in Callers : d # c => caller'[d] = caller[d]
  BY <1>2, <1>3, CallerUpdate
<1> QED
  BY <1>2, <1>4 DEF Moves

\* What a move leaves alone.
LEMMA MovesKeeps ==
    ASSUME TypeOK, CallsOwnObjects, NEW c \in Callers, NEW left \in Nat, NEW pc \in Queued,
           caller[c].pc \in Queued, Moves(c, pc, left),
           pc \in {"slot", "push", "abort"} => left # 0, pc = "wait" => left = 0
    PROVE  /\ CallsOwnObjects'
           /\ \A p \in Packet : BelongsToCall(p) => BelongsToCall(p)'
           /\ \A d \in Callers : /\ caller'[d].object = caller[d].object
                                 /\ caller'[d].size = caller[d].size
                                 /\ caller'[d].written = caller[d].written
                                 /\ caller'[d].pc \in Queued <=> caller[d].pc \in Queued
           /\ WriteIsCurrent /\ UNCHANGED <<client, writer>> => WriteIsCurrent'
           /\ DoneReports /\ UNCHANGED completion => DoneReports'
           /\ WrittenOrPending /\ UNCHANGED <<completion, writer>> => WrittenOrPending'
           /\ Pushing' = IF pc = "push" THEN Pushing \cup {c} ELSE Pushing \ {c}
<1>1. \A d \in Callers : /\ caller'[d].object = caller[d].object
                         /\ caller'[d].stamp = caller[d].stamp
                         /\ caller'[d].size = caller[d].size
                         /\ caller'[d].written = caller[d].written
                         /\ caller'[d].pc \in Queued <=> caller[d].pc \in Queued
  BY DEF Moves
<1>2. \A d \in Callers : d # c => caller'[d].pc = caller[d].pc /\ caller'[d].left = caller[d].left
  BY DEF Moves
<1>3. caller'[c].pc = pc /\ caller'[c].left = left
  BY DEF Moves
<1>4. CallsOwnObjects'
  BY <1>1, <1>2, <1>3 DEF CallsOwnObjects
<1>5. \A p \in Packet : BelongsToCall(p) => BelongsToCall(p)'
  BY <1>1 DEF BelongsToCall, Packet
<1>6. WriteIsCurrent /\ UNCHANGED <<client, writer>> => WriteIsCurrent'
  <2>1. pc # "write"
    BY DEF Queued
  <2> QED
    BY <1>1, <1>2, <1>3, <2>1 DEF WriteIsCurrent, StampPublished
<1>7. DoneReports /\ UNCHANGED completion => DoneReports'
  BY <1>1 DEF DoneReports
<1>8. WrittenOrPending /\ UNCHANGED <<completion, writer>> => WrittenOrPending'
  <2> SUFFICES ASSUME WrittenOrPending, UNCHANGED <<completion, writer>>
               PROVE  WrittenOrPending'
    OBVIOUS
  <2>1. \A x : Settling(x)' = Settling(x) /\ Failing(x)' = Failing(x)
    BY DEF Settling, Failing
  <2> QED
    BY <1>1, <2>1 DEF WrittenOrPending
<1>9. Pushing' = IF pc = "push" THEN Pushing \cup {c} ELSE Pushing \ {c}
  BY <1>2, <1>3 DEF Pushing
<1> QED
  BY <1>1, <1>4, <1>5, <1>6, <1>7, <1>8, <1>9

\* Finitely many callers are about to push.
LEMMA PushingFinite ==
    IsFiniteSet(Pushing) /\ Cardinality(Pushing) \in Nat
<1>1. Pushing \in SUBSET Callers
  BY DEF Pushing
<1>2. IsFiniteSet(Pushing)
  BY <1>1, FS_Subset, OutboundAssumption DEF OutboundAssumption
<1> QED
  BY <1>2, FS_CardinalityType

\* SlotsCount as arithmetic.
LEMMA SlotsFacts ==
    ASSUME Inv
    PROVE  \E s, p, q, b, f \in Nat :
              /\ slots = s /\ s <= QueueLength /\ QueueLength \in Nat
              /\ Cardinality(Pushing) = p
              /\ Len(queue.items) = q
              /\ Len(writer.batch) = b
              /\ Freeing = f
              /\ s = p + q + b + f
<1>1. QueueLength \in Nat /\ slots \in 0 .. QueueLength
  BY OutboundAssumption DEF OutboundAssumption, Inv, TypeOK
<1>2. Freeing \in Nat
  BY DEF Freeing
<1> QED
  BY <1>1, <1>2, Fields, PushingFinite DEF Inv, SlotsCount

\* Taking a slot makes one more caller that is about to push.
LEMMA TakeSlotInv == ASSUME Inv, NEW c \in Callers, TakeSlot(c) PROVE Inv'
<1>1. /\ caller[c].pc = "slot" /\ caller[c].left \in Nat /\ caller[c].left # 0
      /\ caller[c] \in Caller
      /\ UNCHANGED <<client, session, revision, queue, gone, completion, writer, closer, calls>>
      /\ slots' = slots + 1 /\ slots < QueueLength
  BY Fields DEF TakeSlot, lifecycle, Inv, CallsOwnObjects
<1>2. Moves(c, "push", caller[c].left)
  <2>1. caller' = [caller EXCEPT ![c] = [caller[c] EXCEPT !.pc = "push", !.left = caller[c].left]]
    BY <1>1 DEF TakeSlot, Caller, Inv, TypeOK
  <2> QED
    BY <1>1, <2>1, MovesIntro DEF Inv
<1>3. /\ CallsOwnObjects'
      /\ \A p \in Packet : BelongsToCall(p) => BelongsToCall(p)'
      /\ WriteIsCurrent' /\ DoneReports' /\ WrittenOrPending'
      /\ Pushing' = Pushing \cup {c}
      /\ \A d \in Callers : caller'[d].object = caller[d].object
  BY <1>1, <1>2, MovesKeeps DEF Inv, Queued
<1>4. TypeOK'
  BY <1>1, <1>2, OutboundAssumption DEF Inv, TypeOK, Moves
<1>5. PacketsBelongToCalls' /\ WriterHolds'
  BY <1>1, <1>3, Fields DEF Inv, PacketsBelongToCalls, WriterHolds
<1>6. SlotsCount'
  <2>1. c \notin Pushing
    BY <1>1 DEF Pushing
  <2>2. Cardinality(Pushing') = Cardinality(Pushing) + 1
    BY <1>3, <2>1, PushingFinite, FS_AddElement
  <2>3. PICK s, p, q, b, f \in Nat :
           /\ slots = s /\ s <= QueueLength /\ QueueLength \in Nat
           /\ Cardinality(Pushing) = p
           /\ Len(queue.items) = q
           /\ Len(writer.batch) = b
           /\ Freeing = f
           /\ s = p + q + b + f
    BY SlotsFacts
  <2>4. s + 1 = p + 1 + q + b + f
    BY <2>3
  <2> QED
    BY <1>1, <2>2, <2>3, <2>4 DEF SlotsCount, Freeing
<1>7. PacketsCounted'
  <2>1. \A d \in Callers : caller'[d].left = caller[d].left
    BY <1>2 DEF Moves
  <2> QED
    BY <1>1, <1>3, <2>1 DEF Inv, PacketsCounted, Travelling
<1> QED
  BY <1>3, <1>4, <1>5, <1>6, <1>7 DEF Inv

\* A caller that finds the slots closed goes on to fail what is left.
LEMMA SlotsClosedInv == ASSUME Inv, NEW c \in Callers, SlotsClosed(c) PROVE Inv'
<1>1. /\ caller[c].pc = "slot" /\ caller[c].left \in Nat /\ caller[c].left # 0
      /\ caller[c] \in Caller
      /\ UNCHANGED <<client, session, revision, queue, slots, gone, completion, writer, closer, calls>>
  BY Fields DEF SlotsClosed, lifecycle, Inv, CallsOwnObjects
<1>2. Moves(c, "abort", caller[c].left)
  <2>1. caller' = [caller EXCEPT ![c] = [caller[c] EXCEPT !.pc = "abort", !.left = caller[c].left]]
    BY <1>1 DEF SlotsClosed, Caller, Inv, TypeOK
  <2> QED
    BY <1>1, <2>1, MovesIntro DEF Inv
<1>3. /\ CallsOwnObjects'
      /\ \A p \in Packet : BelongsToCall(p) => BelongsToCall(p)'
      /\ WriteIsCurrent' /\ DoneReports' /\ WrittenOrPending'
      /\ Pushing' = Pushing \ {c}
      /\ \A d \in Callers : caller'[d].object = caller[d].object
  BY <1>1, <1>2, MovesKeeps DEF Inv, Queued
<1>4. TypeOK'
  BY <1>1, <1>2 DEF Inv, TypeOK, Moves
<1>5. PacketsBelongToCalls' /\ WriterHolds'
  BY <1>1, <1>3, Fields DEF Inv, PacketsBelongToCalls, WriterHolds
<1>6. SlotsCount'
  <2>1. Pushing' = Pushing
    BY <1>1, <1>3 DEF Pushing
  <2> QED
    BY <1>1, <2>1 DEF Inv, SlotsCount, Freeing
<1>7. PacketsCounted'
  <2>1. \A d \in Callers : caller'[d].left = caller[d].left
    BY <1>2 DEF Moves
  <2> QED
    BY <1>1, <1>3, <2>1 DEF Inv, PacketsCounted, Travelling
<1> QED
  BY <1>3, <1>4, <1>5, <1>6, <1>7 DEF Inv

\* A caller that finds the queue closed gives its slot back.
LEMMA PushClosedInv == ASSUME Inv, NEW c \in Callers, PushClosed(c) PROVE Inv'
<1>1. /\ caller[c].pc = "push" /\ caller[c].left \in Nat /\ caller[c].left # 0
      /\ caller[c] \in Caller
      /\ UNCHANGED <<client, session, revision, queue, gone, completion, writer, closer, calls>>
      /\ slots' = slots - 1
  BY Fields DEF PushClosed, lifecycle, Inv, CallsOwnObjects
<1>2. Moves(c, "abort", caller[c].left)
  <2>1. caller' = [caller EXCEPT ![c] = [caller[c] EXCEPT !.pc = "abort", !.left = caller[c].left]]
    BY <1>1 DEF PushClosed, Caller, Inv, TypeOK
  <2> QED
    BY <1>1, <2>1, MovesIntro DEF Inv
<1>3. /\ CallsOwnObjects'
      /\ \A p \in Packet : BelongsToCall(p) => BelongsToCall(p)'
      /\ WriteIsCurrent' /\ DoneReports' /\ WrittenOrPending'
      /\ Pushing' = Pushing \ {c}
      /\ \A d \in Callers : caller'[d].object = caller[d].object
  BY <1>1, <1>2, MovesKeeps DEF Inv, Queued
<1>4. SlotsCount' /\ slots' \in 0 .. QueueLength
  <2>1. c \in Pushing
    BY <1>1 DEF Pushing
  <2>2. /\ Cardinality(Pushing') = Cardinality(Pushing) - 1
        /\ Cardinality(Pushing') \in Nat /\ Cardinality(Pushing) \in Nat
    <3>1. /\ Cardinality(Pushing \ {c}) = Cardinality(Pushing) - 1
          /\ IsFiniteSet(Pushing \ {c})
      BY <2>1, PushingFinite, FS_RemoveElement
    <3> QED
      BY <1>3, <3>1, PushingFinite, FS_CardinalityType
  <2>3. PICK s, p, q, b, f \in Nat :
           /\ slots = s /\ s <= QueueLength /\ QueueLength \in Nat
           /\ Cardinality(Pushing) = p
           /\ Len(queue.items) = q
           /\ Len(writer.batch) = b
           /\ Freeing = f
           /\ s = p + q + b + f
    BY SlotsFacts
  <2>4. p - 1 \in Nat /\ s - 1 = p - 1 + q + b + f /\ s - 1 \in 0 .. QueueLength
    BY <2>2, <2>3
  <2> QED
    BY <1>1, <2>2, <2>3, <2>4 DEF SlotsCount, Freeing
<1>5. TypeOK'
  BY <1>1, <1>2, <1>4 DEF Inv, TypeOK, Moves
<1>6. PacketsBelongToCalls' /\ WriterHolds'
  BY <1>1, <1>3, Fields DEF Inv, PacketsBelongToCalls, WriterHolds
<1>7. PacketsCounted'
  <2>1. \A d \in Callers : caller'[d].left = caller[d].left
    BY <1>2 DEF Moves
  <2> QED
    BY <1>1, <1>3, <2>1 DEF Inv, PacketsCounted, Travelling
<1> QED
  BY <1>3, <1>4, <1>5, <1>6, <1>7 DEF Inv

\* The object of a call in progress, and that it is its alone.
LEMMA OwnedObject ==
    ASSUME Inv, NEW c \in Callers, caller[c].pc \in Queued
    PROVE  /\ caller[c].object \in Completions
           /\ \A d \in Callers : d # c => caller[d].object # caller[c].object
<1>1. caller[c].object # None
  BY DEF Inv, CallsOwnObjects
<1>2. caller[c].object \in Completions
  BY <1>1, Fields DEF Inv
<1> QED
  BY <1>1, <1>2 DEF Inv, CallsOwnObjects

\* What PacketsCounted counts is a number, and it counts every packet on its way.
LEMMA TravellingFacts ==
    ASSUME TypeOK, NEW x
    PROVE  /\ Occurrences(queue.items, x) \in Nat /\ Occurrences(writer.batch, x) \in Nat
           /\ Travelling(x) \in Nat
           /\ Travelling(x) = 0 =>
                 /\ \A i \in 1 .. Len(queue.items) : queue.items[i].object # x
                 /\ \A i \in 1 .. Len(writer.batch) : writer.batch[i].object # x
<1>1. queue.items \in Seq(Packet) /\ writer.batch \in Seq(Packet)
  BY Fields
<1>2. /\ Occurrences(queue.items, x) \in Nat
      /\ Occurrences(queue.items, x) = 0 <=> Of(queue.items, x) = {}
  BY <1>1, OccurrencesCounts
<1>3. /\ Occurrences(writer.batch, x) \in Nat
      /\ Occurrences(writer.batch, x) = 0 <=> Of(writer.batch, x) = {}
  BY <1>1, OccurrencesCounts
<1>4. Travelling(x) \in Nat
  BY <1>2, <1>3 DEF Travelling
<1>5. Travelling(x) = 0 => Of(queue.items, x) = {} /\ Of(writer.batch, x) = {}
  BY <1>2, <1>3 DEF Travelling
<1> QED
  BY <1>2, <1>3, <1>4, <1>5 DEF Of

\* The run being settled is part of the batch.
LEMMA SettlingFacts ==
    ASSUME TypeOK, WriterHolds, NEW x
    PROVE  /\ IsFiniteSet(Settling(x)) /\ Cardinality(Settling(x)) \in Nat
           /\ Cardinality(Settling(x)) = 0 <=> Settling(x) = {}
           /\ Settling(x) \subseteq 1 .. Len(writer.batch)
           /\ Travelling(x) = 0 => Settling(x) = {}
<1>1. writer.count \in Nat /\ Len(writer.batch) \in Nat
  BY Fields
<1>2. IsFiniteSet(1 .. writer.count)
  BY <1>1, FS_Interval, SMTT(30)
<1>3. Settling(x) \in SUBSET (1 .. writer.count)
  BY DEF Settling
<1>4. IsFiniteSet(Settling(x))
  BY <1>2, <1>3, FS_Subset
<1>5. Cardinality(Settling(x)) \in Nat /\ (Cardinality(Settling(x)) = 0 <=> Settling(x) = {})
  BY <1>4, FS_CardinalityType, FS_EmptySet
<1>6. Settling(x) \subseteq 1 .. Len(writer.batch)
  BY <1>1 DEF Settling, WriterHolds
<1>7. Travelling(x) = 0 => Settling(x) = {}
  BY <1>6, TravellingFacts DEF Settling
<1> QED
  BY <1>4, <1>5, <1>6, <1>7

\* A packet goes from what is left of its call to what is queued: its completion
\* counts it, and its slot stands for it, as before.
LEMMA PushInv == ASSUME Inv, NEW c \in Callers, Push(c) PROVE Inv'
<1>1. /\ caller[c].pc = "push" /\ caller[c].left \in Nat /\ caller[c].left # 0
      /\ caller[c] \in Caller /\ queue.items \in Seq(Packet)
      /\ UNCHANGED <<client, session, revision, slots, gone, completion, writer, closer, calls>>
      /\ queue' = [queue EXCEPT !.items = Append(@, PacketOf(c))]
      /\ queue \in Queue
  BY Fields DEF Push, lifecycle, Inv, CallsOwnObjects, TypeOK
<1> DEFINE pc == IF caller[c].left = 1 THEN "wait" ELSE "slot"
           left == caller[c].left - 1
<1>2. left \in Nat /\ pc \in Queued /\ (pc = "slot" => left # 0) /\ (pc = "wait" => left = 0)
      /\ pc # "push" /\ pc # "abort"
  BY <1>1 DEF Queued
<1>3. Moves(c, pc, left)
  <2>1. caller' = [caller EXCEPT ![c] = [caller[c] EXCEPT !.pc = pc, !.left = left]]
    BY <1>1 DEF Push, Caller, Inv, TypeOK
  <2> QED
    BY <1>2, <2>1, MovesIntro DEF Inv, Queued
<1> HIDE DEF pc, left
<1>4. /\ CallsOwnObjects'
      /\ \A p \in Packet : BelongsToCall(p) => BelongsToCall(p)'
      /\ WriteIsCurrent' /\ DoneReports' /\ WrittenOrPending'
      /\ Pushing' = Pushing \ {c}
      /\ \A d \in Callers : caller'[d].object = caller[d].object
  BY <1>1, <1>2, <1>3, MovesKeeps DEF Inv, Queued
<1>5. /\ caller[c].object \in Completions
      /\ \A d \in Callers : d # c => caller[d].object # caller[c].object
  BY <1>1, OwnedObject DEF Queued
<1>6. PacketOf(c) \in Packet /\ PacketOf(c).object = caller[c].object /\ BelongsToCall(PacketOf(c))
  BY <1>1, <1>5, Fields DEF PacketOf, Packet, BelongsToCall, Inv
<1>7. /\ queue'.items = Append(queue.items, PacketOf(c)) /\ queue' \in Queue
      /\ Len(queue'.items) = Len(queue.items) + 1
      /\ \A i \in 1 .. Len(queue.items) : queue'.items[i] = queue.items[i]
      /\ queue'.items[Len(queue.items) + 1] = PacketOf(c)
  <2>1. queue'.items = Append(queue.items, PacketOf(c)) /\ queue'.closed = queue.closed
    BY <1>1 DEF Queue
  <2>2. Append(queue.items, PacketOf(c)) \in Seq(Packet)
    BY <1>1, <1>6, AppendProperties
  <2>3. queue' \in Queue
    BY <1>1, <2>2 DEF Queue
  <2> QED
    BY <1>1, <1>6, <2>1, <2>3, AppendProperties
<1>8. TypeOK'
  BY <1>1, <1>3, <1>7 DEF Inv, TypeOK, Moves
<1>9. PacketsBelongToCalls' /\ WriterHolds'
  <2>1. \A p \in Packet : BelongsToCall(p) =>
           caller'[p.caller].object = p.object /\ caller'[p.caller].stamp = p.stamp
    BY <1>4 DEF BelongsToCall
  <2>2. \A i \in 1 .. Len(queue'.items) :
           queue'.items[i] \in Packet /\ BelongsToCall(queue'.items[i])
    <3> TAKE i \in 1 .. Len(queue'.items)
    <3>1. CASE i \in 1 .. Len(queue.items)
      BY <1>7, <3>1, Fields DEF Inv, PacketsBelongToCalls
    <3>2. CASE i = Len(queue.items) + 1
      BY <1>6, <1>7, <3>2
    <3> QED
      BY <1>7, <3>1, <3>2, Fields DEF Inv
  <2>3. \A i \in 1 .. Len(writer.batch) : writer.batch[i] \in Packet /\ BelongsToCall(writer.batch[i])
    BY Fields DEF Inv, PacketsBelongToCalls
  <2>4. WriterHolds'
    BY <1>1 DEF Inv, WriterHolds
  <2> QED
    BY <1>1, <2>1, <2>2, <2>3, <2>4 DEF PacketsBelongToCalls, BelongsToCall
<1>10. SlotsCount'
  <2>1. c \in Pushing
    BY <1>1 DEF Pushing
  <2>2. Cardinality(Pushing') = Cardinality(Pushing) - 1
    BY <1>4, <2>1, PushingFinite, FS_RemoveElement
  <2>3. PICK s, p, q, b, f \in Nat :
           /\ slots = s /\ s <= QueueLength /\ QueueLength \in Nat
           /\ Cardinality(Pushing) = p
           /\ Len(queue.items) = q
           /\ Len(writer.batch) = b
           /\ Freeing = f
           /\ s = p + q + b + f
    BY SlotsFacts
  <2>4. s = (p - 1) + (q + 1) + b + f
    BY <2>3
  <2> QED
    BY <1>1, <1>7, <2>2, <2>3, <2>4 DEF SlotsCount, Freeing
<1>11. PacketsCounted'
  <2>1. \A x \in Completions :
           Travelling(x)' = IF x = caller[c].object THEN Travelling(x) + 1 ELSE Travelling(x)
    <3> TAKE x \in Completions
    <3>1. Occurrences(queue'.items, x)
             = Occurrences(queue.items, x) + (IF PacketOf(c).object = x THEN 1 ELSE 0)
      BY <1>1, <1>6, <1>7, OccurrencesAppend
    <3>2. Occurrences(queue.items, x) \in Nat /\ Occurrences(writer.batch, x) \in Nat
      BY TravellingFacts DEF Inv
    <3>3. CASE x = caller[c].object
      BY <1>1, <1>6, <3>1, <3>2, <3>3 DEF Travelling
    <3>4. CASE x # caller[c].object
      BY <1>1, <1>6, <3>1, <3>2, <3>4 DEF Travelling
    <3> QED
      BY <3>3, <3>4
  <2> SUFFICES ASSUME NEW x \in Completions
               PROVE  /\ (\A d \in Callers : caller'[d].object # x) =>
                            Travelling(x)' = 0 /\ completion'[x].done = "empty"
                      /\ \A d \in Callers : caller'[d].object = x =>
                            completion'[x].remaining = caller'[d].left + Travelling(x)'
    BY DEF PacketsCounted
  <2>2. Travelling(x) \in Nat /\ completion[x].remaining \in Nat
    BY TravellingFacts, Fields DEF Inv
  <2>3. CASE x = caller[c].object
    <3>1. caller'[c].left = caller[c].left - 1
      BY <1>3 DEF Moves, left
    <3>2. completion[x].remaining = caller[c].left + Travelling(x)
      BY <2>3 DEF Inv, PacketsCounted
    <3>3. Travelling(x)' = Travelling(x) + 1
      BY <2>1, <2>3
    <3>4. completion'[x].remaining = caller'[c].left + Travelling(x)'
      <4>1. PICK l, t \in Nat : caller[c].left = l /\ Travelling(x) = t
        BY <1>1, <2>2
      <4>2. l + t = (l - 1) + (t + 1)
        OBVIOUS
      <4> QED
        BY <1>1, <3>1, <3>2, <3>3, <4>1, <4>2
    <3> QED
      BY <1>4, <1>5, <2>3, <3>4
  <2>4. CASE x # caller[c].object
    <3>1. \A d \in Callers : d # c => caller'[d].left = caller[d].left
      BY <1>3 DEF Moves
    <3> QED
      BY <1>1, <1>4, <2>1, <2>4, <3>1 DEF Inv, PacketsCounted
  <2> QED
    BY <2>3, <2>4
<1> QED
  BY <1>4, <1>8, <1>9, <1>10, <1>11 DEF Inv

\* A packet that is never queued is completed with an error.
LEMMA FailUnqueuedInv == ASSUME Inv, NEW c \in Callers, FailUnqueued(c) PROVE Inv'
<1>1. /\ caller[c].pc = "abort" /\ caller[c].left \in Nat /\ caller[c].left # 0
      /\ caller[c] \in Caller
      /\ UNCHANGED <<client, session, revision, queue, slots, gone, writer, closer, calls>>
  BY Fields DEF FailUnqueued, lifecycle, Inv, CallsOwnObjects
<1> DEFINE pc == IF caller[c].left = 1 THEN "wait" ELSE "abort"
           left == caller[c].left - 1
<1>2. left \in Nat /\ pc \in Queued /\ (pc = "abort" => left # 0) /\ (pc = "wait" => left = 0)
      /\ pc # "push" /\ pc # "slot"
  BY <1>1 DEF Queued
<1>3. Moves(c, pc, left)
  <2>1. caller' = [caller EXCEPT ![c] = [caller[c] EXCEPT !.pc = pc, !.left = left]]
    BY <1>1 DEF FailUnqueued, Caller, Inv, TypeOK
  <2> QED
    BY <1>2, <2>1, MovesIntro DEF Inv, Queued
<1> HIDE DEF pc, left
<1>4. /\ CallsOwnObjects'
      /\ \A p \in Packet : BelongsToCall(p) => BelongsToCall(p)'
      /\ WriteIsCurrent'
      /\ Pushing' = Pushing \ {c}
      /\ \A d \in Callers : /\ caller'[d].object = caller[d].object
                            /\ caller'[d].size = caller[d].size
                            /\ caller'[d].written = caller[d].written
                            /\ caller'[d].pc \in Queued <=> caller[d].pc \in Queued
  BY <1>1, <1>2, <1>3, MovesKeeps DEF Inv, Queued
<1>5. PICK x : x = caller[c].object
  OBVIOUS
<1>6. x \in Completions /\ \A d \in Callers : d # c => caller[d].object # x
  BY <1>1, <1>5, OwnedObject DEF Queued
<1>7. /\ completion[x] \in Completion /\ completion[x].remaining \in Nat
      /\ Travelling(x) \in Nat
      /\ completion[x].remaining = caller[c].left + Travelling(x)
      /\ completion[x].remaining # 0
  <2>1. completion[x].remaining = caller[c].left + Travelling(x)
    BY <1>5, <1>6 DEF Inv, PacketsCounted
  <2> QED
    BY <1>1, <1>6, <2>1, TravellingFacts, Fields DEF Inv
<1>8. /\ completion' \in [Completions -> Completion]
      /\ completion'[x].remaining = completion[x].remaining - 1
      /\ completion'[x].err = TRUE
      /\ completion'[x].done = IF completion[x].remaining = 1 THEN "error" ELSE completion[x].done
      /\ \A y \in Completions : y # x => completion'[y] = completion[y]
  <2>1. /\ Complete(completion[x], TRUE) \in Completion
        /\ Complete(completion[x], TRUE).remaining = completion[x].remaining - 1
        /\ Complete(completion[x], TRUE).err = TRUE
        /\ Complete(completion[x], TRUE).done
              = IF completion[x].remaining = 1 THEN "error" ELSE completion[x].done
    BY <1>7, CompleteValue
  <2>2. completion' = [completion EXCEPT ![x] = Complete(completion[x], TRUE)]
    BY <1>5 DEF FailUnqueued
  <2> QED
    BY <1>6, <2>1, <2>2, CompletionUpdate DEF Inv
<1>9. TypeOK'
  BY <1>1, <1>3, <1>8 DEF Inv, TypeOK, Moves
<1>10. PacketsBelongToCalls' /\ WriterHolds'
  BY <1>1, <1>4, Fields DEF Inv, PacketsBelongToCalls, WriterHolds
<1>11. SlotsCount'
  <2>1. Pushing' = Pushing
    BY <1>1, <1>4 DEF Pushing
  <2> QED
    BY <1>1, <2>1 DEF Inv, SlotsCount, Freeing
<1>12. PacketsCounted'
  <2>1. \A y \in Completions : Travelling(y)' = Travelling(y)
    BY <1>1 DEF Travelling
  <2>2. caller'[c].left = caller[c].left - 1 /\ \A d \in Callers : d # c => caller'[d].left = caller[d].left
    BY <1>3 DEF Moves, left
  <2>3. completion'[x].remaining = caller'[c].left + Travelling(x)'
    BY <1>1, <1>6, <1>7, <1>8, <2>1, <2>2
  <2> QED
    BY <1>4, <1>5, <1>6, <1>8, <2>1, <2>2, <2>3 DEF Inv, PacketsCounted
<1>13. DoneReports'
  <2>1. completion[x].done = "empty"
    BY <1>1, <1>5, <1>7 DEF Inv, DoneReports, Queued
  <2>2. completion'[x].done = IF completion'[x].remaining # 0 THEN "empty" ELSE "error"
    BY <1>7, <1>8, <2>1
  <2>3. \A d \in Callers : d # c /\ caller[d].pc \in Queued =>
           caller[d].object \in Completions /\ caller[d].object # x
    BY <1>6, OwnedObject
  <2> SUFFICES ASSUME NEW d \in Callers, caller'[d].pc \in Queued
               PROVE  completion'[caller'[d].object].done =
                         IF completion'[caller'[d].object].remaining # 0 THEN "empty"
                         ELSE IF completion'[caller'[d].object].err THEN "error" ELSE "nil"
    BY DEF DoneReports
  <2>4. CASE d = c
    BY <1>4, <1>5, <1>8, <2>2, <2>4
  <2>5. CASE d # c
    <3>1. caller[d].pc \in Queued /\ caller'[d].object = caller[d].object
      BY <1>4
    <3>2. completion'[caller[d].object] = completion[caller[d].object]
      BY <1>8, <2>3, <2>5, <3>1
    <3> QED
      BY <3>1, <3>2 DEF Inv, DoneReports
  <2> QED
    BY <2>4, <2>5
<1>14. WrittenOrPending'
  <2>1. \A y : Settling(y)' = Settling(y) /\ Failing(y)' = Failing(y)
    BY <1>1 DEF Settling, Failing
  <2>2. /\ caller[c].written \in Nat /\ caller[c].size \in Nat
        /\ Cardinality(Settling(x)) \in Nat
    BY Fields, SettlingFacts DEF Inv
  <2>3. caller[c].written + completion[x].remaining - Cardinality(Settling(x)) <= caller[c].size
    BY <1>1, <1>5, <1>7, <2>2 DEF Inv, WrittenOrPending, Queued
  <2>4. caller[c].written + (completion[x].remaining - 1) - Cardinality(Settling(x)) < caller[c].size
    BY <1>7, <2>2, <2>3
  <2>5. caller'[c].written + completion'[x].remaining - Cardinality(Settling(x)') < caller'[c].size
    BY <1>4, <1>8, <2>1, <2>4
  <2>6. \A d \in Callers : d # c /\ caller[d].pc \in Queued =>
           caller[d].object \in Completions /\ caller[d].object # x
    BY <1>6, OwnedObject
  <2> QED
    BY <1>4, <1>5, <1>8, <2>1, <2>5, <2>6 DEF Inv, WrittenOrPending
<1> QED
  BY <1>4, <1>9, <1>10, <1>11, <1>12, <1>13, <1>14 DEF Inv

\* A call returns when its completion has reported; nothing refers to the object
\* that goes back to the pool.
LEMMA ReturnInv == ASSUME Inv, NEW c \in Callers, Return(c) PROVE Inv'
<1>1. /\ caller[c].pc = "wait" /\ caller[c].left = 0
      /\ UNCHANGED <<client, session, revision, queue, slots, gone, writer, closer, calls>>
      /\ caller' = [caller EXCEPT ![c] = IdleCaller]
  BY DEF Return, lifecycle, Inv, CallsOwnObjects
<1>2. PICK x : x = caller[c].object
  OBVIOUS
<1>3. x \in Completions /\ x # None /\ \A d \in Callers : d # c => caller[d].object # x
  BY <1>1, <1>2, OwnedObject, OutboundAssumption DEF Queued, OutboundAssumption
<1>4. Travelling(x) = 0
  <2>1. completion[x].remaining = 0
    BY <1>1, <1>2 DEF Return, Inv, DoneReports, Queued
  <2>2. completion[x].remaining = caller[c].left + Travelling(x)
    BY <1>2, <1>3 DEF Inv, PacketsCounted
  <2> QED
    BY <1>1, <2>1, <2>2, TravellingFacts DEF Inv
<1>5. /\ caller' \in [Callers -> Caller]
      /\ caller'[c] = IdleCaller
      /\ \A d \in Callers : d # c => caller'[d] = caller[d]
      /\ caller'[c].pc = "idle" /\ caller'[c].object = None
  BY <1>1, CallerUpdate, IdleCallerType DEF Inv
<1>6. /\ completion' \in [Completions -> Completion]
      /\ completion'[x].done = "empty"
      /\ \A y \in Completions : y # x => completion'[y] = completion[y]
  <2>1. FreshCompletion \in Completion /\ FreshCompletion.done = "empty"
    BY DEF FreshCompletion, Completion
  <2>2. completion' = [completion EXCEPT ![x] = FreshCompletion]
    BY <1>2 DEF Return
  <2> QED
    BY <1>3, <2>1, <2>2, CompletionUpdate DEF Inv
<1>7. TypeOK'
  BY <1>1, <1>5, <1>6 DEF Inv, TypeOK
<1>8. CallsOwnObjects'
  BY <1>5 DEF Inv, CallsOwnObjects, Queued
<1>9. PacketsBelongToCalls' /\ WriterHolds'
  <2>1. ASSUME NEW p \in Packet, BelongsToCall(p), p.object # x
        PROVE  BelongsToCall(p)'
    BY <1>2, <1>5, <2>1 DEF BelongsToCall, Packet
  <2>2. \A i \in 1 .. Len(queue.items) :
           queue.items[i] \in Packet /\ BelongsToCall(queue.items[i]) /\ queue.items[i].object # x
    BY <1>4, Fields, TravellingFacts DEF Inv, PacketsBelongToCalls
  <2>3. \A i \in 1 .. Len(writer.batch) :
           writer.batch[i] \in Packet /\ BelongsToCall(writer.batch[i]) /\ writer.batch[i].object # x
    BY <1>4, Fields, TravellingFacts DEF Inv, PacketsBelongToCalls
  <2>4. WriterHolds'
    BY <1>1 DEF Inv, WriterHolds
  <2> QED
    BY <1>1, <2>1, <2>2, <2>3, <2>4 DEF PacketsBelongToCalls
<1>10. WriteIsCurrent'
  BY <1>1, <1>5 DEF Inv, WriteIsCurrent, StampPublished
<1>11. SlotsCount'
  <2>1. Pushing' = Pushing
    BY <1>1, <1>5 DEF Pushing
  <2> QED
    BY <1>1, <2>1 DEF Inv, SlotsCount, Freeing
<1>12. PacketsCounted'
  <2>1. \A y \in Completions : Travelling(y)' = Travelling(y)
    BY <1>1 DEF Travelling
  <2>2. \A d \in Callers : caller'[d].object # x
    BY <1>3, <1>5
  <2>3. \A y \in Completions : y # x => y # None /\ completion'[y] = completion[y]
    BY <1>6, OutboundAssumption DEF OutboundAssumption
  <2>4. \A y \in Completions : y # x =>
           \A d \in Callers : /\ caller'[d].object = y <=> caller[d].object = y
                              /\ caller'[d].object = y => caller'[d].left = caller[d].left
    BY <1>2, <1>5, <2>3
  <2> QED
    BY <1>4, <1>6, <2>1, <2>2, <2>3, <2>4 DEF Inv, PacketsCounted
<1>13. \A d \in Callers : caller'[d].pc \in Queued =>
          /\ d # c /\ caller[d].pc \in Queued /\ caller'[d] = caller[d]
          /\ completion'[caller[d].object] = completion[caller[d].object]
  <2> SUFFICES ASSUME NEW d \in Callers, caller'[d].pc \in Queued
               PROVE  /\ d # c /\ caller[d].pc \in Queued /\ caller'[d] = caller[d]
                      /\ completion'[caller[d].object] = completion[caller[d].object]
    OBVIOUS
  <2>1. d # c /\ caller[d].pc \in Queued /\ caller'[d] = caller[d]
    BY <1>5 DEF Queued
  <2>2. caller[d].object \in Completions /\ caller[d].object # x
    BY <1>3, <2>1, OwnedObject
  <2> QED
    BY <1>6, <2>1, <2>2
<1>14. DoneReports'
  BY <1>13 DEF Inv, DoneReports
<1>15. WrittenOrPending'
  <2>1. \A y : Settling(y)' = Settling(y) /\ Failing(y)' = Failing(y)
    BY <1>1 DEF Settling, Failing
  <2> QED
    BY <1>13, <2>1 DEF Inv, WrittenOrPending
<1> QED
  BY <1>7, <1>8, <1>9, <1>10, <1>11, <1>12, <1>14, <1>15 DEF Inv

\* A call begins with an object from the pool, to which no packet refers.
LEMMA BeginQueuedInv == ASSUME Inv, NEW c \in Callers, BeginQueued(c) PROVE Inv'
<1>1. PICK n \in 1 .. MaxBatch, x \in Completions \ {caller[d].object : d \in Callers} :
         /\ caller' = [caller EXCEPT ![c] =
                         [pc |-> "slot", stamp |-> PresentStamp, size |-> n, left |-> n,
                          object |-> x, written |-> 0]]
         /\ completion' = [completion EXCEPT ![x] =
                             [remaining |-> n, err |-> FALSE, done |-> completion[x].done]]
  BY DEF BeginQueued
<1>2. /\ n \in Nat /\ n # 0
      /\ x \in Completions /\ x # None /\ \A d \in Callers : caller[d].object # x
      /\ caller[c].pc = "idle" /\ caller[c].object = None
      /\ calls' = calls + 1
      /\ UNCHANGED <<client, session, revision, queue, slots, gone, writer, closer>>
  BY OutboundAssumption DEF OutboundAssumption, BeginQueued, lifecycle, Inv, CallsOwnObjects, Queued
<1>3. Travelling(x) = 0 /\ completion[x].done = "empty"
  BY <1>2 DEF Inv, PacketsCounted
<1>4. /\ caller' \in [Callers -> Caller]
      /\ caller'[c].pc = "slot" /\ caller'[c].object = x /\ caller'[c].left = n
      /\ caller'[c].size = n /\ caller'[c].written = 0
      /\ \A d \in Callers : d # c => caller'[d] = caller[d]
  <2>1. PICK r : r = [pc |-> "slot", stamp |-> PresentStamp, size |-> n, left |-> n,
                      object |-> x, written |-> 0]
    OBVIOUS
  <2>2. /\ r \in Caller /\ r.pc = "slot" /\ r.object = x /\ r.left = n
        /\ r.size = n /\ r.written = 0
    BY <1>2, <2>1, PresentStampType DEF Caller, Inv
  <2> QED
    BY <1>1, <2>1, <2>2, CallerUpdate DEF Inv
<1>5. /\ completion' \in [Completions -> Completion]
      /\ completion'[x].remaining = n /\ completion'[x].err = FALSE /\ completion'[x].done = "empty"
      /\ \A y \in Completions : y # x => completion'[y] = completion[y]
  <2>1. PICK r : r = [remaining |-> n, err |-> FALSE, done |-> completion[x].done]
    OBVIOUS
  <2>2. r \in Completion /\ r.remaining = n /\ r.err = FALSE /\ r.done = "empty"
    BY <1>2, <1>3, <2>1 DEF Completion
  <2> QED
    BY <1>1, <1>2, <2>1, <2>2, CompletionUpdate DEF Inv
<1>6. TypeOK'
  <2>1. calls' \in Nat
    BY <1>2 DEF Inv, TypeOK
  <2> QED
    BY <1>2, <1>4, <1>5, <2>1 DEF Inv, TypeOK
<1>7. CallsOwnObjects'
  BY <1>2, <1>4 DEF Inv, CallsOwnObjects, Queued
<1>8. PacketsBelongToCalls' /\ WriterHolds'
  <2>1. ASSUME NEW p \in Packet, BelongsToCall(p)
        PROVE  BelongsToCall(p)'
    <3>1. p.object # None /\ p.caller \in Callers
      BY OutboundAssumption DEF Packet, OutboundAssumption
    <3>2. p.caller # c
      BY <1>2, <2>1, <3>1 DEF BelongsToCall
    <3> QED
      BY <1>4, <2>1, <3>1, <3>2 DEF BelongsToCall
  <2>2. /\ \A i \in 1 .. Len(queue.items) : queue.items[i] \in Packet /\ BelongsToCall(queue.items[i])
        /\ \A i \in 1 .. Len(writer.batch) : writer.batch[i] \in Packet /\ BelongsToCall(writer.batch[i])
    BY Fields DEF Inv, PacketsBelongToCalls
  <2>3. WriterHolds'
    BY <1>2 DEF Inv, WriterHolds
  <2> QED
    BY <1>2, <2>1, <2>2, <2>3 DEF PacketsBelongToCalls
<1>9. WriteIsCurrent'
  BY <1>2, <1>4 DEF Inv, WriteIsCurrent, StampPublished
<1>10. SlotsCount'
  <2>1. Pushing' = Pushing
    BY <1>2, <1>4 DEF Pushing
  <2> QED
    BY <1>2, <2>1 DEF Inv, SlotsCount, Freeing
<1>11. PacketsCounted'
  <2>1. \A y \in Completions : Travelling(y)' = Travelling(y)
    BY <1>2 DEF Travelling
  <2>2. \A y \in Completions : y # x => y # None /\ completion'[y] = completion[y]
    BY <1>5, OutboundAssumption DEF OutboundAssumption
  <2>3. \A y \in Completions : y # x =>
           \A d \in Callers : /\ caller'[d].object = y <=> caller[d].object = y
                              /\ caller'[d].object = y => caller'[d].left = caller[d].left
    BY <1>2, <1>4, <2>2
  <2>4. /\ \E d \in Callers : caller'[d].object = x
        /\ \A d \in Callers : caller'[d].object = x => d = c
    BY <1>2, <1>4
  <2>5. completion'[x].remaining = caller'[c].left + Travelling(x)'
    BY <1>2, <1>3, <1>4, <1>5, <2>1
  <2> QED
    BY <2>1, <2>2, <2>3, <2>4, <2>5 DEF Inv, PacketsCounted
<1>12. \A d \in Callers : d # c /\ caller'[d].pc \in Queued =>
          /\ caller[d].pc \in Queued /\ caller'[d] = caller[d]
          /\ completion'[caller[d].object] = completion[caller[d].object]
  <2> SUFFICES ASSUME NEW d \in Callers, d # c, caller'[d].pc \in Queued
               PROVE  /\ caller[d].pc \in Queued /\ caller'[d] = caller[d]
                      /\ completion'[caller[d].object] = completion[caller[d].object]
    OBVIOUS
  <2>1. caller[d].pc \in Queued /\ caller'[d] = caller[d]
    BY <1>4
  <2>2. caller[d].object \in Completions /\ caller[d].object # x
    BY <1>2, <2>1, OwnedObject
  <2> QED
    BY <1>5, <2>1, <2>2
<1>13. DoneReports'
  <2> SUFFICES ASSUME NEW d \in Callers, caller'[d].pc \in Queued
               PROVE  completion'[caller'[d].object].done =
                         IF completion'[caller'[d].object].remaining # 0 THEN "empty"
                         ELSE IF completion'[caller'[d].object].err THEN "error" ELSE "nil"
    BY DEF DoneReports
  <2>1. CASE d = c
    BY <1>2, <1>4, <1>5, <2>1
  <2>2. CASE d # c
    BY <1>12, <2>2 DEF Inv, DoneReports
  <2> QED
    BY <2>1, <2>2
<1>14. WrittenOrPending'
  <2>1. \A y : Settling(y)' = Settling(y) /\ Failing(y)' = Failing(y)
    BY <1>2 DEF Settling, Failing
  <2>2. Settling(x) = {} /\ Cardinality(Settling(x)) = 0
    BY <1>3, SettlingFacts DEF Inv
  <2>3. ~Failing(x)
    BY <2>2 DEF Failing
  <2>4. caller'[c].written + completion'[x].remaining - Cardinality(Settling(x)') = caller'[c].size
    <3>1. Cardinality(Settling(x)') = 0
      BY <2>1, <2>2
    <3>2. 0 + n - 0 = n
      BY <1>2
    <3> QED
      BY <1>4, <1>5, <3>1, <3>2
  <2> SUFFICES ASSUME NEW d \in Callers, caller'[d].pc \in Queued, NEW y, y = caller'[d].object
               PROVE  IF completion'[y].err \/ Failing(y)'
                      THEN caller'[d].written + completion'[y].remaining - Cardinality(Settling(y)')
                              < caller'[d].size
                      ELSE caller'[d].written + completion'[y].remaining - Cardinality(Settling(y)')
                              = caller'[d].size
    BY DEF WrittenOrPending
  <2>5. CASE d = c
    BY <1>4, <1>5, <2>1, <2>3, <2>4, <2>5
  <2>6. CASE d # c
    BY <1>12, <2>1, <2>6 DEF Inv, WrittenOrPending
  <2> QED
    BY <2>5, <2>6
<1> QED
  BY <1>6, <1>7, <1>8, <1>9, <1>10, <1>11, <1>13, <1>14 DEF Inv

----------------------------------------------------------------------------
(* The writer. *)

\* A step of the writer that leaves its batch, the queue, the slots, the
\* completions and the callers alone.
LEMMA WriterMovesInv ==
    ASSUME Inv, NEW w \in Writer, writer' = w, w.batch = writer.batch,
           writer.pc # "free", w.pc # "free",
           WriterHolds', WriteIsCurrent', WrittenOrPending',
           UNCHANGED <<lifecycle, queue, slots, gone, completion, caller, closer, calls>>
    PROVE  Inv'
<1> USE DEF lifecycle
<1>1. TypeOK'
  BY DEF Inv, TypeOK
<1>2. CallsOwnObjects' /\ PacketsBelongToCalls'
  BY DEF Inv, CallsOwnObjects, PacketsBelongToCalls, BelongsToCall
<1>3. SlotsCount'
  <2>1. Pushing' = Pushing /\ Freeing' = Freeing
    BY DEF Pushing, Freeing
  <2> QED
    BY <2>1 DEF Inv, SlotsCount
<1>4. PacketsCounted'
  BY DEF Inv, PacketsCounted, Travelling
<1>5. DoneReports'
  BY DEF Inv, DoneReports
<1> QED
  BY <1>1, <1>2, <1>3, <1>4, <1>5 DEF Inv

\* Outside of the settling of a run nothing is subtracted.
LEMMA NothingSettles ==
    ASSUME Inv, writer.pc \notin {"settle", "free"}, writer'.pc \notin {"settle", "free"},
           UNCHANGED <<completion, caller>>
    PROVE  WrittenOrPending'
<1>1. \A x : Settling(x) = {} /\ Settling(x)' = {} /\ ~Failing(x) /\ ~Failing(x)'
  BY DEF Settling, Failing
<1> QED
  BY <1>1 DEF Inv, WrittenOrPending

\* A run starts to be settled that was not written: it fails, or its call has
\* failed before.
LEMMA UnwrittenSettles ==
    ASSUME Inv, writer.pc \notin {"settle", "free"}, writer'.pc = "settle",
           UNCHANGED <<completion, caller>>,
           \A x \in Completions : IsFiniteSet(Settling(x)'),
           \A x \in Completions : Settling(x)' # {} => writer'.err \/ completion[x].err
    PROVE  WrittenOrPending'
<1> SUFFICES ASSUME NEW d \in Callers, caller[d].pc \in Queued, NEW x, x = caller[d].object
             PROVE  IF completion[x].err \/ Failing(x)'
                    THEN caller[d].written + completion[x].remaining - Cardinality(Settling(x)')
                            < caller[d].size
                    ELSE caller[d].written + completion[x].remaining - Cardinality(Settling(x)')
                            = caller[d].size
  BY DEF WrittenOrPending
<1>1. x \in Completions
  BY OwnedObject
<1>2. Settling(x) = {} /\ ~Failing(x) /\ Cardinality(Settling(x)) = 0
  BY FS_EmptySet DEF Settling, Failing
<1>3. /\ caller[d].written \in Nat /\ caller[d].size \in Nat
      /\ completion[x].remaining \in Nat
  BY <1>1, Fields DEF Inv
<1>4. IF completion[x].err
      THEN caller[d].written + completion[x].remaining < caller[d].size
      ELSE caller[d].written + completion[x].remaining = caller[d].size
  <2>1. IF completion[x].err \/ Failing(x)
        THEN caller[d].written + completion[x].remaining - Cardinality(Settling(x)) < caller[d].size
        ELSE caller[d].written + completion[x].remaining - Cardinality(Settling(x)) = caller[d].size
    BY DEF Inv, WrittenOrPending
  <2> QED
    BY <1>2, <1>3, <2>1
<1>5. CASE Settling(x)' = {}
  <2>1. ~Failing(x)' /\ Cardinality(Settling(x)') = 0
    BY <1>5, FS_EmptySet DEF Failing
  <2> QED
    BY <1>3, <1>4, <2>1
<1>6. CASE Settling(x)' # {}
  <2>1. PICK k \in Nat : k = Cardinality(Settling(x)') /\ k # 0
    BY <1>1, <1>6, FS_CardinalityType, FS_EmptySet
  <2>2. completion[x].err \/ Failing(x)'
    BY <1>1, <1>6 DEF Failing
  <2>3. caller[d].written + completion[x].remaining - k < caller[d].size
    BY <1>3, <1>4, <2>1
  <2> QED
    BY <2>1, <2>2, <2>3
<1> QED
  BY <1>5, <1>6

\* The packets of one run are of one call, with one stamp.
LEMMA RunIsOneCall ==
    ASSUME Inv, NEW n \in 1 .. Len(writer.batch),
           \A i \in 1 .. n : writer.batch[i].object = writer.batch[1].object
    PROVE  /\ writer.batch[1] \in Packet
           /\ writer.batch[1].caller \in Callers /\ writer.batch[1].object \in Completions
           /\ caller[writer.batch[1].caller].object = writer.batch[1].object
           /\ \A i \in 1 .. n : writer.batch[i].stamp = writer.batch[1].stamp
<1>1. 1 \in 1 .. Len(writer.batch) /\ 1 .. n \subseteq 1 .. Len(writer.batch)
  BY Fields DEF Inv
<1>2. \A i \in 1 .. Len(writer.batch) :
         /\ writer.batch[i] \in Packet
         /\ writer.batch[i].caller \in Callers /\ writer.batch[i].object \in Completions
         /\ BelongsToCall(writer.batch[i])
  BY Fields DEF Inv, PacketsBelongToCalls
<1>3. \A x \in Completions : x # None
  BY OutboundAssumption DEF OutboundAssumption
<1>4. \A i \in 1 .. n : writer.batch[i].caller = writer.batch[1].caller
  BY <1>1, <1>2, <1>3 DEF BelongsToCall, Inv, CallsOwnObjects
<1> QED
  BY <1>1, <1>2, <1>4 DEF BelongsToCall

\* The steps of the writer with nothing in hand.
LEMMA WriterIdlesInv ==
    ASSUME Inv, WriterFindsNothing \/ WriterWoken
    PROVE  Inv'
<1>1. PICK w : /\ w = writer'
               /\ w \in Writer /\ w.batch = writer.batch
               /\ w.pc \in {"done", "wait", "pop"}
               /\ writer.pc \in {"empty", "wait"}
  BY DEF WriterFindsNothing, WriterWoken, Inv, TypeOK, Writer
<1>2. UNCHANGED <<lifecycle, queue, slots, gone, completion, caller, closer, calls>>
  BY DEF WriterFindsNothing, WriterWoken
<1>3. WriterHolds'
  BY <1>1 DEF Inv, WriterHolds
<1>4. WriteIsCurrent'
  BY <1>1, <1>2 DEF Inv, WriteIsCurrent, StampPublished, lifecycle
<1>5. WrittenOrPending'
  BY <1>1, <1>2, NothingSettles
<1> QED
  BY <1>1, <1>2, <1>3, <1>4, <1>5, WriterMovesInv

\* WriterHolds for the steps that begin to settle.
LEMMA SettlingIsFinite ==
    ASSUME NEW w \in Writer, writer' = w
    PROVE  \A x \in Completions : IsFiniteSet(Settling(x)')
<1>1. IsFiniteSet(1 .. writer'.count)
  BY FS_Interval DEF Writer
<1>2. \A x \in Completions : Settling(x)' \in SUBSET (1 .. writer'.count)
  BY DEF Settling
<1> QED
  BY <1>1, <1>2, FS_Subset

\* What was popped from a closed queue is settled as failed, across calls.
LEMMA WriterChecksClosedInv == ASSUME Inv, WriterChecksClosed PROVE Inv'
<1>1. /\ writer.pc = "popped" /\ writer \in Writer /\ writer.batch # << >>
      /\ Len(writer.batch) \in Nat /\ Len(writer.batch) # 0
      /\ UNCHANGED <<lifecycle, queue, slots, gone, completion, caller, closer, calls>>
  BY Fields, EmptySeq DEF WriterChecksClosed, Inv, TypeOK, WriterHolds
<1>2. CASE queue.closed
  <2>1. PICK w : w = writer'
    OBVIOUS
  <2>2. /\ w \in Writer /\ w.batch = writer.batch
        /\ w.pc = "settle" /\ w.count = Len(writer.batch) /\ w.err = TRUE
    BY <1>1, <1>2, <2>1 DEF WriterChecksClosed, Writer
  <2>3. WriterHolds'
    BY <1>1, <2>1, <2>2 DEF WriterHolds
  <2>4. WriteIsCurrent'
    BY <1>1, <2>1, <2>2 DEF Inv, WriteIsCurrent, StampPublished, lifecycle
  <2>5. WrittenOrPending'
    BY <1>1, <2>1, <2>2, SettlingIsFinite, UnwrittenSettles
  <2> QED
    BY <1>1, <2>1, <2>2, <2>3, <2>4, <2>5, WriterMovesInv
<1>3. CASE ~queue.closed
  <2>1. PICK w : w = writer'
    OBVIOUS
  <2>2. w \in Writer /\ w.batch = writer.batch /\ w.pc = "group"
    BY <1>1, <1>3, <2>1 DEF WriterChecksClosed, Writer
  <2>3. WriterHolds'
    BY <1>1, <2>1, <2>2 DEF WriterHolds
  <2>4. WriteIsCurrent'
    BY <1>1, <2>1, <2>2 DEF Inv, WriteIsCurrent, StampPublished, lifecycle
  <2>5. WrittenOrPending'
    BY <1>1, <2>1, <2>2, NothingSettles
  <2> QED
    BY <1>1, <2>1, <2>2, <2>3, <2>4, <2>5, WriterMovesInv
<1> QED
  BY <1>2, <1>3

\* The next run: it is skipped when its call has failed already.
LEMMA WriterGroupsInv == ASSUME Inv, WriterGroups PROVE Inv'
<1>1. /\ writer.pc = "group" /\ writer \in Writer /\ writer.batch \in Seq(Packet)
      /\ UNCHANGED <<lifecycle, queue, slots, gone, completion, caller, closer, calls>>
  BY Fields DEF WriterGroups, Inv, TypeOK
<1>2. PICK w : w = writer'
  OBVIOUS
<1>3. CASE writer.batch = << >>
  <2>2. w \in Writer /\ w.batch = << >> /\ w.pc = "pop" /\ w.batch = writer.batch
    BY <1>1, <1>2, <1>3 DEF WriterGroups, Writer
  <2>3. WriterHolds'
    BY <1>2, <2>2 DEF WriterHolds
  <2>4. WriteIsCurrent'
    BY <1>1, <1>2, <2>2 DEF Inv, WriteIsCurrent, StampPublished, lifecycle
  <2>5. WrittenOrPending'
    BY <1>1, <1>2, <2>2, NothingSettles
  <2> QED
    BY <1>1, <1>2, <2>2, <2>3, <2>4, <2>5, WriterMovesInv
<1>4. CASE writer.batch # << >>
  <2>1. /\ RunLength(writer.batch) \in 1 .. Len(writer.batch)
        /\ \A i \in 1 .. RunLength(writer.batch) :
              writer.batch[i].object = writer.batch[1].object
        /\ Len(writer.batch) \in Nat
    BY <1>1, <1>4, RunLengthValue, Fields DEF Inv
  <2>2. /\ w \in Writer /\ w.batch = writer.batch
        /\ w.count = RunLength(writer.batch) /\ w.err = FALSE
        /\ w.pc = IF completion[writer.batch[1].object].err THEN "settle" ELSE "lock"
    <3>1. PICK n \in Nat : n = RunLength(writer.batch)
      BY <2>1
    <3>2. PICK pc \in {"settle", "lock"} :
             pc = IF completion[writer.batch[1].object].err THEN "settle" ELSE "lock"
      OBVIOUS
    <3>3. w = [writer EXCEPT !.count = n, !.err = FALSE, !.pc = pc]
      BY <1>2, <1>4, <3>1, <3>2 DEF WriterGroups
    <3> QED
      BY <1>1, <3>1, <3>2, <3>3 DEF Writer
  <2>3. WriterHolds'
    BY <1>2, <1>4, <2>1, <2>2 DEF WriterHolds
  <2>4. WriteIsCurrent'
    BY <1>1, <1>2, <2>2 DEF Inv, WriteIsCurrent, StampPublished, lifecycle
  <2>5. WrittenOrPending'
    <3>1. CASE completion[writer.batch[1].object].err
      <4>1. \A x \in Completions : Settling(x)' # {} => completion[x].err
        BY <1>2, <2>1, <2>2, <3>1 DEF Settling
      <4> QED
        BY <1>1, <1>2, <2>2, <3>1, <4>1, SettlingIsFinite, UnwrittenSettles
    <3>2. CASE ~completion[writer.batch[1].object].err
      BY <1>1, <1>2, <2>2, <3>2, NothingSettles
    <3> QED
      BY <3>1, <3>2
  <2> QED
    BY <1>1, <1>2, <2>2, <2>3, <2>4, <2>5, WriterMovesInv
<1> QED
  BY <1>3, <1>4

\* A run is written if it is current under both locks, and fails otherwise.
LEMMA WriterLocksInv == ASSUME Inv, WriterLocks PROVE Inv'
<1>1. /\ writer.pc = "lock" /\ writer \in Writer /\ writer.batch # << >>
      /\ writer.count \in 1 .. Len(writer.batch) /\ ~writer.err
      /\ \A i \in 1 .. writer.count : writer.batch[i].object = writer.batch[1].object
      /\ UNCHANGED <<lifecycle, queue, slots, gone, completion, caller, closer, calls>>
  BY DEF WriterLocks, Inv, TypeOK, WriterHolds
<1>2. PICK w : w = writer'
  OBVIOUS
<1>3. CASE StampCurrent(writer.batch[1].stamp)
  <2>1. /\ w \in Writer /\ w.batch = writer.batch /\ w.count = writer.count
        /\ w.pc = "write" /\ w.err = writer.err
    BY <1>1, <1>2, <1>3 DEF WriterLocks, Writer
  <2>2. WriterHolds'
    BY <1>1, <1>2, <2>1 DEF WriterHolds
  <2>3. WriteIsCurrent'
    <3>1. \A i \in 1 .. writer.count : writer.batch[i].stamp = writer.batch[1].stamp
      BY <1>1, RunIsOneCall
    <3>2. StampPublished(writer.batch[1].stamp)
      BY <1>3 DEF StampCurrent, StampPublished
    <3>3. \A i \in 1 .. writer.count : StampPublished(writer.batch[i].stamp)
      BY <3>1, <3>2
    <3> QED
      BY <1>1, <1>2, <2>1, <3>3 DEF Inv, WriteIsCurrent, StampPublished, lifecycle
  <2>4. WrittenOrPending'
    BY <1>1, <1>2, <2>1, NothingSettles
  <2> QED
    BY <1>1, <1>2, <2>1, <2>2, <2>3, <2>4, WriterMovesInv
<1>4. CASE ~StampCurrent(writer.batch[1].stamp)
  <2>1. /\ w \in Writer /\ w.batch = writer.batch /\ w.count = writer.count
        /\ w.pc = "settle" /\ w.err = TRUE
    BY <1>1, <1>2, <1>4 DEF WriterLocks, Writer
  <2>2. WriterHolds'
    BY <1>1, <1>2, <2>1 DEF WriterHolds
  <2>3. WriteIsCurrent'
    BY <1>1, <1>2, <2>1 DEF Inv, WriteIsCurrent, StampPublished, lifecycle
  <2>4. WrittenOrPending'
    BY <1>1, <1>2, <2>1, SettlingIsFinite, UnwrittenSettles
  <2> QED
    BY <1>1, <1>2, <2>1, <2>2, <2>3, <2>4, WriterMovesInv
<1> QED
  BY <1>3, <1>4

\* What is queued becomes the batch; the writer held nothing before.
LEMMA WriterPopsInv == ASSUME Inv, WriterPops PROVE Inv'
<1>1. /\ writer.pc = "pop" /\ writer \in Writer /\ writer.batch = << >> /\ queue \in Queue
      /\ queue.items \in Seq(Packet) /\ Len(writer.batch) = 0
      /\ UNCHANGED <<client, session, revision, slots, gone, completion, caller, closer, calls>>
  BY Fields, EmptySeq DEF WriterPops, Inv, TypeOK, WriterHolds, lifecycle
<1>2. PICK w, k : w = writer' /\ k = queue'
  OBVIOUS
<1>3. k \in Queue /\ k.items = << >>
  BY <1>1, <1>2, EmptySeq DEF WriterPops, Queue
<1>4. w \in Writer /\ w.batch = queue.items
      /\ w.pc = (IF queue.items = << >> THEN "empty" ELSE "popped")
  BY <1>1, <1>2 DEF WriterPops, Writer
<1>5. TypeOK'
  BY <1>1, <1>2, <1>3, <1>4 DEF Inv, TypeOK
<1>6. CallsOwnObjects' /\ DoneReports'
  BY <1>1 DEF Inv, CallsOwnObjects, DoneReports
<1>7. PacketsBelongToCalls'
  <2>1. Len(<< >>) = 0
    BY EmptySeq
  <2> QED
    BY <1>1, <1>2, <1>3, <1>4, <2>1 DEF Inv, PacketsBelongToCalls, BelongsToCall
<1>8. WriterHolds'
  BY <1>2, <1>4 DEF WriterHolds
<1>9. WriteIsCurrent'
  BY <1>1, <1>2, <1>4 DEF Inv, WriteIsCurrent, StampPublished
<1>10. SlotsCount'
  <2>1. PICK s, p, q, b, f \in Nat :
           /\ slots = s /\ s <= QueueLength /\ QueueLength \in Nat
           /\ Cardinality(Pushing) = p
           /\ Len(queue.items) = q
           /\ Len(writer.batch) = b
           /\ Freeing = f
           /\ s = p + q + b + f
    BY SlotsFacts
  <2>2. Pushing' = Pushing /\ Freeing' = 0 /\ f = 0
    BY <1>1, <1>2, <1>4, <2>1 DEF Pushing, Freeing
  <2>3. Len(queue'.items) = 0
    BY <1>2, <1>3, EmptySeq
  <2>4. s = p + 0 + q + 0
    BY <1>1, <2>1, <2>2
  <2> QED
    BY <1>1, <1>2, <1>4, <2>1, <2>2, <2>3, <2>4 DEF SlotsCount
<1>11. PacketsCounted'
  <2>1. \A x \in Completions : Travelling(x)' = Travelling(x)
    <3> TAKE x \in Completions
    <3>1. Occurrences(queue.items, x) \in Nat /\ Occurrences(<< >>, x) = 0
      BY TravellingFacts, OccurrencesEmpty DEF Inv
    <3>2. queue'.items = << >> /\ writer'.batch = queue.items
      BY <1>2, <1>3, <1>4
    <3> QED
      BY <1>1, <3>1, <3>2 DEF Travelling
  <2> QED
    BY <1>1, <2>1 DEF Inv, PacketsCounted
<1>12. WrittenOrPending'
  BY <1>1, <1>2, <1>4, NothingSettles
<1> QED
  BY <1>5, <1>6, <1>7, <1>8, <1>9, <1>10, <1>11, <1>12 DEF Inv

\* A protocol write that fails: its run is settled as failed.
LEMMA WriteFailsInv ==
    ASSUME Inv, WriterWrites, writer' = [writer EXCEPT !.pc = "settle", !.err = TRUE], UNCHANGED caller
    PROVE  Inv'
<1>1. /\ writer.pc = "write" /\ writer \in Writer /\ writer.batch # << >>
      /\ writer.count \in 1 .. Len(writer.batch)
      /\ UNCHANGED <<lifecycle, queue, slots, gone, completion, caller, closer, calls>>
  BY DEF WriterWrites, Inv, TypeOK, WriterHolds
<1>2. PICK w : w = writer'
  OBVIOUS
<1>3. /\ w \in Writer /\ w.batch = writer.batch /\ w.count = writer.count
      /\ w.pc = "settle" /\ w.err = TRUE
  BY <1>1, <1>2 DEF Writer
<1>4. WriterHolds'
  BY <1>1, <1>2, <1>3 DEF WriterHolds
<1>5. WriteIsCurrent'
  BY <1>1, <1>2, <1>3 DEF Inv, WriteIsCurrent, StampPublished, lifecycle
<1>6. WrittenOrPending'
  BY <1>1, <1>2, <1>3, SettlingIsFinite, UnwrittenSettles
<1> QED
  BY <1>1, <1>2, <1>3, <1>4, <1>5, <1>6, WriterMovesInv

\* A protocol write that succeeds: the packets of the run are written, and are
\* the ones that are settled next.
LEMMA WriteSucceedsInv ==
    ASSUME Inv, WriterWrites, writer' = [writer EXCEPT !.pc = "settle"],
           caller' = [caller EXCEPT ![writer.batch[1].caller].written = @ + writer.count]
    PROVE  Inv'
<1>1. /\ writer.pc = "write" /\ writer \in Writer /\ writer.batch # << >>
      /\ writer.count \in 1 .. Len(writer.batch) /\ writer.count \in Nat /\ ~writer.err
      /\ \A i \in 1 .. writer.count : writer.batch[i].object = writer.batch[1].object
      /\ UNCHANGED <<client, session, revision, queue, slots, gone, completion, closer, calls>>
  BY Fields DEF WriterWrites, Inv, TypeOK, WriterHolds, lifecycle
<1>2. PICK w, c, x : w = writer' /\ c = writer.batch[1].caller /\ x = writer.batch[1].object
  OBVIOUS
<1>3. /\ w \in Writer /\ w.batch = writer.batch /\ w.count = writer.count
      /\ w.pc = "settle" /\ w.err = writer.err
  BY <1>1, <1>2 DEF Writer
<1>4. c \in Callers /\ x \in Completions /\ caller[c].object = x /\ x # None
  BY <1>1, <1>2, RunIsOneCall, OutboundAssumption DEF OutboundAssumption
<1>5. caller[c].pc \in Queued /\ \A d \in Callers : d # c => caller[d].object # x
  BY <1>4, SMTT(30) DEF Inv, CallsOwnObjects
<1>6. /\ caller' \in [Callers -> Caller]
      /\ caller'[c].written = caller[c].written + writer.count
      /\ caller'[c].pc = caller[c].pc /\ caller'[c].left = caller[c].left
      /\ caller'[c].object = x /\ caller'[c].size = caller[c].size
      /\ caller'[c].stamp = caller[c].stamp
      /\ \A d \in Callers : d # c => caller'[d] = caller[d]
  <2>1. PICK n \in Nat : n = caller[c].written + writer.count
    BY <1>1, <1>4, Fields DEF Inv
  <2>2. PICK r : r = [caller[c] EXCEPT !.written = n]
    OBVIOUS
  <2>3. /\ r \in Caller /\ r.written = n /\ r.pc = caller[c].pc /\ r.left = caller[c].left
        /\ r.object = caller[c].object /\ r.size = caller[c].size /\ r.stamp = caller[c].stamp
    BY <1>4, <2>2, Fields DEF Caller, Inv
  <2>4. caller' = [caller EXCEPT ![c] = r]
    BY <1>2, <1>4, <2>1, <2>2, Fields DEF Inv, Caller, TypeOK
  <2> QED
    BY <1>4, <2>1, <2>3, <2>4, CallerUpdate DEF Inv
<1>7. \A d \in Callers : /\ caller'[d].pc = caller[d].pc /\ caller'[d].left = caller[d].left
                         /\ caller'[d].object = caller[d].object /\ caller'[d].size = caller[d].size
                         /\ caller'[d].stamp = caller[d].stamp
  BY <1>4, <1>6
<1>8. TypeOK'
  BY <1>1, <1>2, <1>3, <1>6 DEF Inv, TypeOK
<1>9. CallsOwnObjects' /\ DoneReports'
  <2>1. CallsOwnObjects'
    BY <1>7 DEF Inv, CallsOwnObjects
  <2>2. DoneReports'
    BY <1>1, <1>7, ZenonT(30) DEF Inv, DoneReports
  <2> QED
    BY <2>1, <2>2, SMTT(30)
<1>10. PacketsBelongToCalls'
  <2>1. \A p \in Packet : BelongsToCall(p) =>
           caller'[p.caller].object = p.object /\ caller'[p.caller].stamp = p.stamp
    BY <1>7, Fields DEF BelongsToCall, Inv
  <2>2. /\ \A i \in 1 .. Len(queue.items) : queue.items[i] \in Packet /\ BelongsToCall(queue.items[i])
        /\ \A i \in 1 .. Len(writer.batch) : writer.batch[i] \in Packet /\ BelongsToCall(writer.batch[i])
    BY Fields DEF Inv, PacketsBelongToCalls
  <2> QED
    BY <1>1, <1>2, <1>3, <2>1, <2>2 DEF PacketsBelongToCalls, BelongsToCall
<1>11. WriterHolds'
  BY <1>1, <1>2, <1>3 DEF WriterHolds
<1>12. WriteIsCurrent'
  BY <1>1, <1>2, <1>3, <1>7 DEF Inv, WriteIsCurrent, StampPublished
<1>13. SlotsCount'
  <2>1. Pushing' = Pushing /\ Freeing' = Freeing
    BY <1>1, <1>2, <1>3, <1>7 DEF Pushing, Freeing
  <2> QED
    BY <1>1, <1>2, <1>3, <2>1 DEF Inv, SlotsCount
<1>14. PacketsCounted'
  BY <1>1, <1>2, <1>3, <1>7, SMTT(30) DEF Inv, PacketsCounted, Travelling
<1>15. WrittenOrPending'
  <2>1. /\ Settling(x)' = 1 .. writer.count
        /\ \A y : y # x => Settling(y)' = {}
        /\ \A y : Settling(y) = {} /\ ~Failing(y) /\ ~Failing(y)'
    BY <1>1, <1>2, <1>3 DEF Settling, Failing
  <2>2. Cardinality(Settling(x)') = writer.count /\ Cardinality({}) = 0
    <3>1. PICK n \in Nat \ {0} : n = writer.count
      BY <1>1
    <3>2. Cardinality(1 .. n) = n
      BY FS_Interval
    <3> QED
      BY <2>1, <3>1, <3>2, FS_EmptySet
  <2>3. /\ caller[c].written \in Nat /\ caller[c].size \in Nat
        /\ completion[x].remaining \in Nat
    BY <1>4, Fields DEF Inv
  <2>4. IF completion[x].err
        THEN caller[c].written + completion[x].remaining - 0 < caller[c].size
        ELSE caller[c].written + completion[x].remaining - 0 = caller[c].size
    BY <1>4, <1>5, <2>1, <2>2 DEF Inv, WrittenOrPending
  <2>5. PICK a, r, n \in Nat : /\ a = caller[c].written /\ r = completion[x].remaining
                               /\ n = writer.count
    BY <1>1, <2>3
  <2>6. (a + n) + r - n = a + r - 0
    BY SMTT(30)
  <2>7. IF completion'[x].err
        THEN caller'[c].written + completion'[x].remaining - Cardinality(Settling(x)') < caller'[c].size
        ELSE caller'[c].written + completion'[x].remaining - Cardinality(Settling(x)') = caller'[c].size
    BY <1>1, <1>6, <2>2, <2>4, <2>5, <2>6, SMTT(30)
  <2>8. \A d \in Callers : d # c => /\ caller'[d] = caller[d] /\ caller[d].object # x
    BY <1>5, <1>6, SMTT(30)
  <2> SUFFICES ASSUME NEW d \in Callers, caller'[d].pc \in Queued, NEW y, y = caller'[d].object
               PROVE  IF completion'[y].err \/ Failing(y)'
                      THEN caller'[d].written + completion'[y].remaining - Cardinality(Settling(y)')
                              < caller'[d].size
                      ELSE caller'[d].written + completion'[y].remaining - Cardinality(Settling(y)')
                              = caller'[d].size
    BY ZenonT(30) DEF WrittenOrPending
  <2>9. CASE d = c
    BY <1>6, <2>1, <2>7, <2>9, ZenonT(30)
  <2>10. CASE d # c
    <3>1. Cardinality(Settling(y)') = Cardinality(Settling(y)) /\ caller[d].object = y
      BY <2>1, <2>8, <2>10
    <3> QED
      BY <1>1, <2>1, <2>8, <2>10, <3>1 DEF Inv, WrittenOrPending
  <2> QED
    BY <2>9, <2>10
<1> QED
  BY <1>8, <1>9, <1>10, <1>11, <1>12, <1>13, <1>14, <1>15 DEF Inv

\* One packet of the run is completed: it leaves the batch and the count of its
\* completion together, and takes the error of the run with it.
LEMMA WriterCompletesInv == ASSUME Inv, WriterCompletes PROVE Inv'
<1>1. /\ writer.pc = "settle" /\ writer \in Writer /\ writer.batch # << >>
      /\ writer.batch \in Seq(Packet) /\ Len(writer.batch) \in Nat /\ Len(writer.batch) # 0
      /\ writer.count \in 1 .. Len(writer.batch) /\ writer.count \in Nat /\ writer.err \in BOOLEAN
      /\ UNCHANGED <<client, session, revision, queue, slots, gone, caller, closer, calls>>
  BY Fields, EmptySeq DEF WriterCompletes, Inv, TypeOK, WriterHolds, lifecycle
<1>2. PICK w, c, x : w = writer' /\ c = writer.batch[1].caller /\ x = writer.batch[1].object
  OBVIOUS
<1>3. PICK b : b = writer.batch
  OBVIOUS
<1>4. /\ Tail(b) \in Seq(Packet) /\ Len(Tail(b)) = Len(b) - 1
      /\ \A i \in 1 .. Len(b) - 1 : Tail(b)[i] = b[i + 1]
      /\ \A y \in Completions :
            Occurrences(Tail(b), y) = Occurrences(b, y) - (IF b[1].object = y THEN 1 ELSE 0)
  BY <1>1, <1>3, OccurrencesTail
<1>5. /\ w \in Writer /\ w.batch = Tail(b) /\ w.count = writer.count - 1
      /\ w.pc = "free" /\ w.err = writer.err
  <2>0. writer.count - 1 \in Nat
    BY <1>1
  <2>1. PICK t \in Seq(Packet), n \in Nat : t = Tail(b) /\ n = writer.count - 1
    BY <1>4, <2>0
  <2>2. w = [writer EXCEPT !.pc = "free", !.batch = t, !.count = n]
    BY <1>2, <1>3, <2>1 DEF WriterCompletes
  <2> QED
    BY <1>1, <2>1, <2>2 DEF Writer
<1>6. c \in Callers /\ x \in Completions /\ caller[c].object = x /\ x # None
  <2>1. 1 \in 1 .. Len(writer.batch)
    BY <1>1
  <2>2. writer.batch[1] \in Packet /\ BelongsToCall(writer.batch[1])
    BY <2>1, Fields DEF Inv, PacketsBelongToCalls
  <2> QED
    BY <1>2, <2>2, Fields, OutboundAssumption DEF OutboundAssumption, BelongsToCall, Inv
<1>7. caller[c].pc \in Queued /\ \A d \in Callers : d # c => caller[d].object # x
  BY <1>6 DEF Inv, CallsOwnObjects
<1>8. \A y \in Completions :
         /\ Occurrences(b, y) \in Nat /\ Occurrences(queue.items, y) \in Nat
         /\ Travelling(y) = Occurrences(queue.items, y) + Occurrences(b, y)
         /\ Travelling(y)' = Occurrences(queue.items, y) + Occurrences(Tail(b), y)
  BY <1>1, <1>2, <1>3, <1>5, TravellingFacts DEF Inv, Travelling
<1>9. \A y \in Completions : y # x => Travelling(y)' = Travelling(y)
  BY <1>2, <1>3, <1>4, <1>8
<1>10. Travelling(x)' = Travelling(x) - 1 /\ Travelling(x) \in Nat /\ Travelling(x) # 0
  <2>1. PICK m, n \in Nat : m = Occurrences(queue.items, x) /\ n = Occurrences(b, x)
    BY <1>6, <1>8
  <2>2. n # 0
    <3>1. 1 \in Of(b, x)
      BY <1>1, <1>2, <1>3 DEF Of
    <3> QED
      BY <1>1, <1>3, <2>1, <3>1, OccurrencesCounts
  <2>3. Travelling(x) = m + n /\ Travelling(x)' = m + (n - 1)
    BY <1>2, <1>3, <1>4, <1>6, <1>8, <2>1
  <2> QED
    BY <2>2, <2>3
<1>11. /\ completion[x] \in Completion /\ completion[x].remaining \in Nat
       /\ caller[c].left \in Nat
       /\ completion[x].remaining = caller[c].left + Travelling(x)
       /\ completion[x].remaining # 0
  <2>1. completion[x].remaining = caller[c].left + Travelling(x)
    BY <1>6 DEF Inv, PacketsCounted
  <2> QED
    BY <1>6, <1>10, <2>1, Fields DEF Inv
<1>12. /\ completion' \in [Completions -> Completion]
       /\ completion'[x].remaining = completion[x].remaining - 1
       /\ completion'[x].err = (completion[x].err \/ writer.err)
       /\ completion'[x].done = IF completion[x].remaining = 1
                                THEN IF completion[x].err \/ writer.err THEN "error" ELSE "nil"
                                ELSE completion[x].done
       /\ \A y \in Completions : y # x => completion'[y] = completion[y]
  <2>1. PICK r : r = Complete(completion[x], writer.err)
    OBVIOUS
  <2>2. /\ r \in Completion
        /\ r.remaining = completion[x].remaining - 1
        /\ r.err = (completion[x].err \/ writer.err)
        /\ r.done = IF completion[x].remaining = 1
                    THEN IF completion[x].err \/ writer.err THEN "error" ELSE "nil"
                    ELSE completion[x].done
    BY <1>1, <1>11, <2>1, CompleteValue
  <2>3. completion' = [completion EXCEPT ![x] = r]
    BY <1>2, <2>1 DEF WriterCompletes
  <2> QED
    BY <1>6, <2>2, <2>3, CompletionUpdate DEF Inv
<1>13. \A d \in Callers : d # c /\ caller[d].pc \in Queued =>
          caller[d].object \in Completions /\ caller[d].object # x
  BY <1>7, OwnedObject
<1>14. TypeOK'
  BY <1>1, <1>2, <1>5, <1>12 DEF Inv, TypeOK
<1>15. CallsOwnObjects'
  BY <1>1 DEF Inv, CallsOwnObjects
<1>16. PacketsBelongToCalls'
  <2>1. \A i \in 1 .. Len(Tail(b)) : i + 1 \in 1 .. Len(b) /\ Tail(b)[i] = b[i + 1]
    BY <1>1, <1>3, <1>4
  <2> QED
    BY <1>1, <1>2, <1>3, <1>5, <2>1 DEF Inv, PacketsBelongToCalls, BelongsToCall
<1>17. WriterHolds'
  <2>1. writer.count - 1 \in 0 .. Len(b) - 1
    BY <1>1, <1>3
  <2> QED
    BY <1>2, <1>4, <1>5, <2>1 DEF WriterHolds
<1>18. WriteIsCurrent'
  BY <1>1, <1>2, <1>5 DEF Inv, WriteIsCurrent, StampPublished
<1>19. SlotsCount'
  <2>1. PICK s, p, q, l, f \in Nat :
           /\ slots = s /\ s <= QueueLength /\ QueueLength \in Nat
           /\ Cardinality(Pushing) = p
           /\ Len(queue.items) = q
           /\ Len(writer.batch) = l
           /\ Freeing = f
           /\ s = p + q + l + f
    BY SlotsFacts
  <2>2. Pushing' = Pushing /\ Freeing' = 1 /\ f = 0
    BY <1>1, <1>2, <1>5, <2>1 DEF Pushing, Freeing
  <2>3. s = p + q + (l - 1) + 1
    BY <2>1, <2>2
  <2> QED
    BY <1>1, <1>2, <1>3, <1>4, <1>5, <2>1, <2>2, <2>3 DEF SlotsCount
<1>20. PacketsCounted'
  <2>1. completion'[x].remaining = caller'[c].left + Travelling(x)'
    <3>1. PICK l, t \in Nat : l = caller[c].left /\ t = Travelling(x)
      BY <1>10, <1>11
    <3>2. (l + t) - 1 = l + (t - 1)
      OBVIOUS
    <3>3. caller'[c].left = l
      BY <1>1, <3>1
    <3> QED
      BY <1>10, <1>11, <1>12, <3>1, <3>2, <3>3
  <2>2. \A d \in Callers : caller'[d].object = caller[d].object /\ caller'[d].left = caller[d].left
    BY <1>1
  <2> QED
    BY <1>6, <1>7, <1>9, <1>12, <2>1, <2>2 DEF Inv, PacketsCounted
<1>21. DoneReports'
  <2>1. completion[x].done = "empty"
    BY <1>6, <1>7, <1>11 DEF Inv, DoneReports
  <2>2. completion'[x].done = IF completion'[x].remaining # 0 THEN "empty"
                              ELSE IF completion'[x].err THEN "error" ELSE "nil"
    <3>1. completion'[x].remaining = 0 <=> completion[x].remaining = 1
      BY <1>11, <1>12
    <3> QED
      BY <1>12, <2>1, <3>1, Zenon
  <2> SUFFICES ASSUME NEW d \in Callers, caller[d].pc \in Queued
               PROVE  completion'[caller[d].object].done =
                         IF completion'[caller[d].object].remaining # 0 THEN "empty"
                         ELSE IF completion'[caller[d].object].err THEN "error" ELSE "nil"
    BY <1>1 DEF DoneReports
  <2>3. CASE d = c
    BY <1>6, <2>2, <2>3
  <2>4. CASE d # c
    BY <1>12, <1>13, <2>4 DEF Inv, DoneReports
  <2> QED
    BY <2>3, <2>4
<1>22. WrittenOrPending'
  <2>1. \A y \in Completions :
           /\ Cardinality(Settling(y)) \in Nat /\ Cardinality(Settling(y)') \in Nat
           /\ Cardinality(Settling(y)') = Cardinality(Settling(y)) - (IF y = x THEN 1 ELSE 0)
           /\ Settling(y) = {} <=> Cardinality(Settling(y)) = 0
           /\ Settling(y)' = {} <=> Cardinality(Settling(y)') = 0
    <3> TAKE y \in Completions
    <3>1. /\ Settling(y) = FrontOf(b, writer.count, y)
          /\ Settling(y)' = FrontOf(Tail(b), writer.count - 1, y)
      BY <1>1, <1>2, <1>3, <1>5 DEF Settling, FrontOf
    <3>2. /\ IsFiniteSet(Settling(y)) /\ Cardinality(Settling(y)) \in Nat
          /\ IsFiniteSet(Settling(y)') /\ Cardinality(Settling(y)') \in Nat
          /\ Cardinality(Settling(y)') = Cardinality(Settling(y)) - (IF b[1].object = y THEN 1 ELSE 0)
      BY <1>1, <1>3, <3>1, PrefixOfTail
    <3>3. b[1].object = y <=> y = x
      BY <1>2, <1>3
    <3> QED
      BY <3>2, <3>3, FS_EmptySet
  <2> SUFFICES ASSUME NEW d \in Callers, caller[d].pc \in Queued, NEW y, y = caller[d].object
               PROVE  IF completion'[y].err \/ Failing(y)'
                      THEN caller[d].written + completion'[y].remaining - Cardinality(Settling(y)')
                              < caller[d].size
                      ELSE caller[d].written + completion'[y].remaining - Cardinality(Settling(y)')
                              = caller[d].size
    BY <1>1 DEF WrittenOrPending
  <2>2. IF completion[y].err \/ Failing(y)
        THEN caller[d].written + completion[y].remaining - Cardinality(Settling(y)) < caller[d].size
        ELSE caller[d].written + completion[y].remaining - Cardinality(Settling(y)) = caller[d].size
    BY DEF Inv, WrittenOrPending
  <2>3. CASE d = c
    <3>0. y = x
      BY <1>6, <2>3
    <3>1. Settling(x) # {} /\ Cardinality(Settling(x)') = Cardinality(Settling(x)) - 1
      <4>1. 1 \in Settling(x)
        BY <1>1, <1>2 DEF Settling
      <4> QED
        BY <1>6, <2>1, <4>1
    <3>2. (Failing(x) <=> writer.err) /\ (Failing(x)' => writer.err)
      BY <1>1, <1>2, <1>5, <3>1 DEF Failing
    <3>3. (completion'[x].err \/ Failing(x)') <=> (completion[x].err \/ Failing(x))
      BY <1>12, <3>2
    <3>4. PICK a, r, k \in Nat : /\ a = caller[d].written /\ r = completion[x].remaining
                                 /\ k = Cardinality(Settling(x))
      BY <1>6, <1>11, <2>1, Fields DEF Inv
    <3>5. a + (r - 1) - (k - 1) = a + r - k
      OBVIOUS
    <3>6. caller[d].written + completion'[x].remaining - Cardinality(Settling(x)')
             = caller[d].written + completion[x].remaining - Cardinality(Settling(x))
      BY <1>12, <3>1, <3>4, <3>5
    <3> QED
      BY <2>2, <3>0, <3>3, <3>6
  <2>4. CASE d # c
    <3>0. y \in Completions /\ y # x
      BY <1>13, <2>4
    <3>1. Cardinality(Settling(y)') = Cardinality(Settling(y)) /\ (Settling(y)' = {} <=> Settling(y) = {})
      BY <2>1, <3>0
    <3>2. Failing(y)' = Failing(y)
      BY <1>2, <1>5, <3>1 DEF Failing
    <3> QED
      BY <1>12, <2>2, <3>0, <3>1, <3>2
  <2> QED
    BY <2>3, <2>4
<1> QED
  BY <1>14, <1>15, <1>16, <1>17, <1>18, <1>19, <1>20, <1>21, <1>22 DEF Inv

\* The slot of the completed packet is given back.
LEMMA WriterFreesInv == ASSUME Inv, WriterFrees PROVE Inv'
<1>1. /\ writer.pc = "free" /\ writer \in Writer /\ writer.count \in 0 .. Len(writer.batch)
      /\ writer.count \in Nat /\ Len(writer.batch) \in Nat
      /\ UNCHANGED <<client, session, revision, queue, gone, completion, caller, closer, calls>>
      /\ slots' = slots - 1
  BY Fields DEF WriterFrees, Inv, TypeOK, WriterHolds, lifecycle
<1>2. PICK w : w = writer'
  OBVIOUS
<1>3. /\ w \in Writer /\ w.batch = writer.batch /\ w.count = writer.count /\ w.err = writer.err
      /\ w.pc = IF writer.count = 0 THEN "group" ELSE "settle"
  BY <1>1, <1>2 DEF WriterFrees, Writer
<1>4. SlotsCount' /\ slots' \in 0 .. QueueLength
  <2>1. PICK s, p, q, b, f \in Nat :
           /\ slots = s /\ s <= QueueLength /\ QueueLength \in Nat
           /\ Cardinality(Pushing) = p
           /\ Len(queue.items) = q
           /\ Len(writer.batch) = b
           /\ Freeing = f
           /\ s = p + q + b + f
    BY SlotsFacts
  <2>2. Pushing' = Pushing /\ Freeing' = 0 /\ f = 1
    BY <1>1, <1>2, <1>3, <2>1 DEF Pushing, Freeing
  <2>3. s - 1 = p + q + b + 0 /\ s - 1 \in 0 .. QueueLength
    BY <2>1, <2>2
  <2> QED
    BY <1>1, <1>2, <1>3, <2>1, <2>2, <2>3 DEF SlotsCount
<1>5. TypeOK'
  BY <1>1, <1>2, <1>3, <1>4 DEF Inv, TypeOK
<1>6. CallsOwnObjects' /\ DoneReports'
  BY <1>1 DEF Inv, CallsOwnObjects, DoneReports
<1>7. PacketsBelongToCalls' /\ PacketsCounted'
  BY <1>1, <1>2, <1>3 DEF Inv, PacketsBelongToCalls, BelongsToCall, PacketsCounted, Travelling
<1>8. WriterHolds'
  <2>1. writer.count # 0 => writer.batch # << >> /\ writer.count \in 1 .. Len(writer.batch)
    BY <1>1, EmptySeq
  <2> QED
    BY <1>2, <1>3, <2>1 DEF WriterHolds
<1>9. WriteIsCurrent'
  BY <1>1, <1>2, <1>3 DEF Inv, WriteIsCurrent, StampPublished
<1>10. WrittenOrPending'
  <2>1. \A y : Settling(y)' = Settling(y) /\ Failing(y)' = Failing(y)
    BY <1>1, <1>2, <1>3 DEF Settling, Failing
  <2> QED
    BY <1>1, <2>1 DEF Inv, WrittenOrPending
<1> QED
  BY <1>4, <1>5, <1>6, <1>7, <1>8, <1>9, <1>10 DEF Inv

----------------------------------------------------------------------------
(* The invariant holds. *)

\* Nothing is on its way at first.
LEMMA InitInv == Init => Inv
<1> SUFFICES ASSUME Init PROVE Inv
  OBVIOUS
<1>1. << >> \in Seq(Packet) /\ Len(<< >>) = 0
  BY EmptySeq
<1>2. TypeOK
  <2>1. caller \in [Callers -> Caller]
    BY IdleCallerType DEF Init
  <2>2. completion \in [Completions -> Completion]
    BY DEF Init, Completion, FreshCompletion
  <2>3. client \in Client
    BY NewClientType DEF Init
  <2>4. slots \in 0 .. QueueLength
    BY OutboundAssumption DEF Init, OutboundAssumption
  <2> QED
    BY <1>1, <2>1, <2>2, <2>3, <2>4 DEF Init, TypeOK, Session, Queue, Writer
<1>3. \A c \in Callers : caller[c].pc = "idle" /\ caller[c].object = None
  BY IdleCallerType DEF Init
<1>4. queue.items = << >> /\ writer.batch = << >> /\ writer.pc = "pop"
  BY DEF Init
<1>5. CallsOwnObjects /\ PacketsBelongToCalls /\ WriterHolds /\ WriteIsCurrent /\ DoneReports
  BY <1>1, <1>3, <1>4 DEF CallsOwnObjects, PacketsBelongToCalls, WriterHolds, WriteIsCurrent,
     DoneReports, Queued
<1>6. SlotsCount
  <2>1. Pushing = {} /\ Freeing = 0
    BY <1>3, <1>4 DEF Pushing, Freeing
  <2>2. Cardinality(Pushing) = 0
    BY <2>1, FS_EmptySet
  <2> QED
    BY <1>1, <1>4, <2>1, <2>2 DEF Init, SlotsCount
<1>7. PacketsCounted
  <2>1. \A x \in Completions : Travelling(x) = 0 /\ completion[x].done = "empty" /\ x # None
    BY <1>4, OccurrencesEmpty, OutboundAssumption
       DEF Travelling, Init, FreshCompletion, OutboundAssumption
  <2> QED
    BY <1>3, <2>1 DEF PacketsCounted
<1>8. WrittenOrPending
  BY <1>3 DEF WrittenOrPending, Queued
<1> QED
  BY <1>2, <1>5, <1>6, <1>7, <1>8 DEF Inv

\* Every step keeps it.
LEMMA NextInv == Inv /\ [Next]_vars => Inv'
<1> SUFFICES ASSUME Inv, [Next]_vars PROVE Inv'
  OBVIOUS
<1>1. CASE UNCHANGED vars
  <2>1. TypeOK' /\ WriteIsCurrent' /\ DataUnchanged
    BY <1>1 DEF vars, Inv, TypeOK, WriteIsCurrent, StampPublished, DataUnchanged
  <2> QED
    BY <2>1, DataUnchangedInv
<1>2. CASE Lifecycle \/ Close
  BY <1>2, LifecycleInv
<1>3. ASSUME NEW c \in Callers, BeginQueued(c) \/ BeginDirect(c) \/ CallerStep(c)
      PROVE  Inv'
  <2>1. CASE BeginDirect(c) \/ DirectLocks(c) \/ DirectChecks(c) \/ DirectReturns(c)
    BY <2>1, DirectStepInv
  <2> QED
    BY <1>3, <2>1, BeginQueuedInv, TakeSlotInv, SlotsClosedInv, PushInv, PushClosedInv,
       FailUnqueuedInv, ReturnInv DEF CallerStep
<1>4. CASE WriterStep
  <2>1. CASE WriterFindsNothing \/ WriterWoken
    BY <2>1, WriterIdlesInv
  <2>2. CASE WriterWrites
    BY <2>2, WriteFailsInv, WriteSucceedsInv DEF WriterWrites
  <2> QED
    BY <1>4, <2>1, <2>2, WriterPopsInv, WriterChecksClosedInv, WriterGroupsInv, WriterLocksInv,
       WriterCompletesInv, WriterFreesInv DEF WriterStep
<1>5. CASE Finished
  BY <1>1, <1>5 DEF Finished
<1> QED
  BY <1>1, <1>2, <1>3, <1>4, <1>5 DEF Next

\* The inductive invariant holds in every reachable state, whatever the number
\* of callers, completions, packets and sessions and the length of the queue.
THEOREM InvHolds == Spec => []Inv
<1>1. Init => Inv
  BY InitInv
<1>2. Inv /\ [Next]_vars => Inv'
  BY NextInv
<1> QED
  BY <1>1, <1>2, PTL DEF Spec

\* Every variable of the outbound data plane keeps its type; in particular the
\* slots taken are never fewer than none nor more than the channel holds.
THEOREM TypeCorrect == Spec => []TypeOK
<1>1. Inv => TypeOK
  BY DEF Inv
<1> QED
  BY <1>1, InvHolds, PTL

\* While a protocol write is in progress, queued or direct, its session stays
\* current and published at the revision of its packets.
THEOREM WritesAreCurrent == Spec => []WriteIsCurrent
<1>1. Inv => WriteIsCurrent
  BY DEF Inv
<1> QED
  BY <1>1, InvHolds, PTL

\* A completion counts exactly the packets of its call that are not settled, and
\* one in the pool is referred to by no packet.
THEOREM CompletionsCount == Spec => []CompletionCountsPackets
<1>1. Inv => CompletionCountsPackets
  <2> SUFFICES ASSUME PacketsCounted, NEW x \in Completions
               PROVE  IF {c \in Callers : caller[c].object = x} = {}
                      THEN Travelling(x) = 0 /\ completion[x].done = "empty"
                      ELSE \A c \in {c \in Callers : caller[c].object = x} :
                              completion[x].remaining = caller[c].left + Travelling(x)
    BY DEF CompletionCountsPackets, Travelling, Inv
  <2> QED
    BY DEF PacketsCounted
<1> QED
  BY <1>1, InvHolds, PTL

\* A call is told "nil" exactly when every packet of it was written.
THEOREM ResultsAreHonest == Spec => []ResultIsHonest
<1>1. Inv => ResultIsHonest
  <2> SUFFICES ASSUME Inv, NEW c \in Callers, caller[c].pc = "wait",
                      completion[caller[c].object].done # "empty"
               PROVE  completion[caller[c].object].done = "nil" <=> caller[c].written = caller[c].size
    BY DEF ResultIsHonest
  <2>1. PICK x : x = caller[c].object
    OBVIOUS
  <2>2. x \in Completions /\ caller[c].pc \in Queued
    BY <2>1, OwnedObject DEF Queued
  <2>3. /\ completion[x].remaining = 0
        /\ completion[x].done = IF completion[x].err THEN "error" ELSE "nil"
    BY <2>1, <2>2 DEF Inv, DoneReports
  <2>4. Travelling(x) = 0
    <3>1. completion[x].remaining = caller[c].left + Travelling(x)
      BY <2>1, <2>2 DEF Inv, PacketsCounted
    <3> QED
      BY <2>3, <3>1, TravellingFacts, Fields DEF Inv
  <2>5. Cardinality(Settling(x)) = 0 /\ ~Failing(x)
    BY <2>4, SettlingFacts DEF Inv, Failing
  <2>6. IF completion[x].err THEN caller[c].written + 0 - 0 < caller[c].size
        ELSE caller[c].written + 0 - 0 = caller[c].size
    BY <2>1, <2>2, <2>3, <2>5 DEF Inv, WrittenOrPending
  <2>7. caller[c].written \in Nat /\ caller[c].size \in Nat
    BY Fields DEF Inv
  <2> QED
    BY <2>1, <2>3, <2>6, <2>7
<1> QED
  BY <1>1, InvHolds, PTL

\* A caller that holds a slot always finds room in the queue: PushBatch, which
\* has no deadline, does not wait.
THEOREM PushNeverWaits == Spec => []SlotsBoundQueue
<1>1. Inv => SlotsBoundQueue
  <2> SUFFICES ASSUME Inv, NEW c \in Callers, caller[c].pc = "push"
               PROVE  Len(queue.items) < QueueLength
    BY DEF SlotsBoundQueue
  <2>1. PICK s, p, q, b, f \in Nat :
           /\ slots = s /\ s <= QueueLength /\ QueueLength \in Nat
           /\ Cardinality(Pushing) = p
           /\ Len(queue.items) = q
           /\ Len(writer.batch) = b
           /\ Freeing = f
           /\ s = p + q + b + f
    BY SlotsFacts
  <2>2. p # 0
    <3>1. c \in Pushing
      BY DEF Pushing
    <3> QED
      BY <2>1, <3>1, PushingFinite, FS_EmptySet
  <2> QED
    BY <2>1, <2>2
<1> QED
  BY <1>1, InvHolds, PTL
=============================================================================
