----------------------- MODULE DataPacketQueueProofs -----------------------
(********************************************************************************)
(* Proofs about DataPacketQueue, for a ring of any capacity and any number of   *)
(* producers and consumers.                                                     *)
(*                                                                              *)
(* TypeOK alone is not inductive: a push reads the first packet of its batch,   *)
(* so a call in progress must still have one (PushesHaveWork).  The three       *)
(* safety invariants are inductive next to it.  The refinement needs to know    *)
(* what Slot computes: the ring wraps at most once for the indices the code     *)
(* uses, so distinct offsets below the capacity are distinct slots.             *)
(********************************************************************************)
EXTENDS DataPacketQueue, SequenceTheorems, TLAPS

\* A call of PushBatch that has not returned has a packet left to store.
PushesHaveWork ==
    \A p \in Producers : producer[p].pc # "idle" => producer[p].batch # << >>

\* A slot of the ring holds a packet exactly when it is one of the length
\* slots from head on; every other slot is back to the zero value, so the
\* queue keeps no popped packet alive (PopInto stores the zero value).
SlotsInUse ==
    \A k \in 0 .. Capacity - 1 :
        items[k] \in Item <=> \E i \in 0 .. length - 1 : Slot(i) = k

QueueInv ==
    /\ TypeOK
    /\ PushesHaveWork
    /\ NoSendOnClosedChannel
    /\ NoLostWakeup
    /\ BlockedOnlyWhenFull
    /\ SlotsInUse

----------------------------------------------------------------------------
(* The ring's arithmetic. *)

\* An index below twice the capacity wraps at most once.
LEMMA WrapOnce ==
    ASSUME NEW C \in Nat \ {0}, NEW a \in 0 .. 2 * C - 1
    PROVE  a % C = IF a < C THEN a ELSE a - C
OBVIOUS

\* The slot at offset i from head, for every offset the code computes.
LEMMA SlotValue ==
    ASSUME Capacity \in Nat \ {0}, head \in 0 .. Capacity - 1, NEW i \in 0 .. Capacity
    PROVE  /\ Slot(i) = IF head + i < Capacity THEN head + i ELSE head + i - Capacity
           /\ Slot(i) \in 0 .. Capacity - 1
<1>1. head + i \in 0 .. 2 * Capacity - 1
  OBVIOUS
<1>2. \A a \in 0 .. 2 * Capacity - 1 : a % Capacity = IF a < Capacity THEN a ELSE a - Capacity
  BY WrapOnce
<1>3. (head + i) % Capacity = IF head + i < Capacity THEN head + i ELSE head + i - Capacity
  BY <1>1, <1>2
<1> QED
  BY <1>3 DEF Slot

\* Distinct offsets below the capacity are distinct slots.
LEMMA SlotInjective ==
    ASSUME Capacity \in Nat \ {0}, head \in 0 .. Capacity - 1,
           NEW i \in 0 .. Capacity - 1, NEW j \in 0 .. Capacity - 1, Slot(i) = Slot(j)
    PROVE  i = j
<1>1. \A o \in 0 .. Capacity - 1 :
         /\ Slot(o) = IF head + o < Capacity THEN head + o ELSE head + o - Capacity
         /\ Slot(o) \in 0 .. Capacity - 1
  BY SlotValue
<1> QED
  BY <1>1

\* Every slot is at some offset from head.
LEMMA SlotSurjective ==
    ASSUME Capacity \in Nat \ {0}, head \in 0 .. Capacity - 1, NEW k \in 0 .. Capacity - 1
    PROVE  \E i \in 0 .. Capacity - 1 : Slot(i) = k
<1> DEFINE o == IF head <= k THEN k - head ELSE k - head + Capacity
<1>1. o \in 0 .. Capacity - 1 /\ o \in 0 .. Capacity
  OBVIOUS
<1>2. Slot(o) = IF head + o < Capacity THEN head + o ELSE head + o - Capacity
  BY <1>1, SlotValue
<1>3. Slot(o) = k
  BY <1>1, <1>2
<1> QED
  BY <1>1, <1>3

\* Once head has moved by n, offset i is the former offset n + i.
LEMMA SlotAfterPop ==
    ASSUME Capacity \in Nat \ {0}, head \in 0 .. Capacity - 1,
           NEW n \in 0 .. Capacity, NEW i \in 0 .. Capacity, n + i <= Capacity
    PROVE  (Slot(n) + i) % Capacity = Slot(n + i)
<1>1. /\ Slot(n) = IF head + n < Capacity THEN head + n ELSE head + n - Capacity
      /\ Slot(n) \in 0 .. Capacity - 1
  BY SlotValue
<1>2. Slot(n + i) = IF head + (n + i) < Capacity THEN head + (n + i)
                    ELSE head + (n + i) - Capacity
  BY SlotValue
<1>3. Slot(n) + i \in 0 .. 2 * Capacity - 1
  BY <1>1
<1>4. \A a \in 0 .. 2 * Capacity - 1 : a % Capacity = IF a < Capacity THEN a ELSE a - Capacity
  BY WrapOnce
<1>5. (Slot(n) + i) % Capacity = IF Slot(n) + i < Capacity THEN Slot(n) + i
                                 ELSE Slot(n) + i - Capacity
  BY <1>1, <1>3, <1>4
<1> QED
  BY <1>1, <1>2, <1>5

\* The offsets below the capacity number the slots.
LEMMA SlotBijection ==
    ASSUME QueueAssumption, TypeOK
    PROVE  /\ \A k \in 0 .. Capacity - 1 : \E i \in 0 .. Capacity - 1 : Slot(i) = k
           /\ \A i \in 0 .. Capacity : Slot(i) \in 0 .. Capacity - 1
           /\ \A i, j \in 0 .. Capacity - 1 : Slot(i) = Slot(j) => i = j
<1>1. Capacity \in Nat \ {0} /\ head \in 0 .. Capacity - 1
  BY DEF QueueAssumption, TypeOK
<1>2. \A k \in 0 .. Capacity - 1 : \E i \in 0 .. Capacity - 1 : Slot(i) = k
  BY <1>1, SlotSurjective
<1>3. \A i \in 0 .. Capacity : Slot(i) \in 0 .. Capacity - 1
  BY <1>1, SlotValue
<1>4. \A i, j \in 0 .. Capacity - 1 : Slot(i) = Slot(j) => i = j
  BY <1>1, SlotInjective
<1> QED
  BY <1>2, <1>3, <1>4

\* A slot at offset o below n is one of the first n slots, and no other is.
LEMMA SlotRange ==
    ASSUME QueueAssumption, TypeOK, NEW n \in 0 .. Capacity, NEW o \in 0 .. Capacity - 1
    PROVE  (\E i \in 0 .. n - 1 : Slot(i) = Slot(o)) <=> o < n
<1>1. ASSUME NEW i \in 0 .. n - 1, Slot(i) = Slot(o)
      PROVE  o < n
  <2>1. i \in 0 .. Capacity - 1
    BY DEF QueueAssumption
  <2>2. i = o
    BY <1>1, <2>1, SlotBijection
  <2> QED
    BY <2>2
<1>2. ASSUME o < n
      PROVE  \E i \in 0 .. n - 1 : Slot(i) = Slot(o)
  <2>1. o \in 0 .. n - 1
    BY <1>2
  <2> QED
    BY <2>1
<1> QED
  BY <1>1, <1>2

\* What the queue contains is a sequence of length packets.
LEMMA ContentsType ==
    ASSUME QueueAssumption, TypeOK
    PROVE  Contents \in Seq(Item \cup {Zero}) /\ Len(Contents) = length
<1>1. ASSUME NEW i \in 1 .. length
      PROVE  items[Slot(i - 1)] \in Item \cup {Zero}
  <2>1. i - 1 \in 0 .. Capacity
    BY DEF QueueAssumption, TypeOK
  <2>2. Slot(i - 1) \in 0 .. Capacity - 1
    BY <2>1, SlotBijection
  <2> QED
    BY <2>2 DEF TypeOK
<1> QED
  BY <1>1 DEF Contents, TypeOK, QueueAssumption

\* Concatenation, element by element.
LEMMA ConcatValue ==
    ASSUME NEW S, NEW s \in Seq(S), NEW t \in Seq(S)
    PROVE  s \o t = [i \in 1 .. Len(s) + Len(t) |->
                        IF i <= Len(s) THEN s[i] ELSE t[i - Len(s)]]
<1>1. s \o t \in Seq(S) /\ Len(s \o t) = Len(s) + Len(t)
  OBVIOUS
<1>2. \A i \in 1 .. Len(s) + Len(t) :
         (s \o t)[i] = IF i <= Len(s) THEN s[i] ELSE t[i - Len(s)]
  OBVIOUS
<1>3. \A u \in Seq(S) : u = [i \in 1 .. Len(u) |-> u[i]]
  OBVIOUS
<1>4. s \o t = [i \in 1 .. Len(s \o t) |-> (s \o t)[i]]
  BY <1>1, <1>3
<1> QED
  BY <1>1, <1>2, <1>4

\* What Stored writes: packet j of the batch behind the tail, nothing else.
LEMMA StoredValue ==
    ASSUME QueueAssumption, TypeOK, NEW b \in Seq(Item),
           NEW n \in 0 .. Len(b), length + n <= Capacity
    PROVE  /\ Stored(b, n) \in [0 .. Capacity - 1 -> Item \cup {Zero}]
           /\ \A i \in 0 .. length - 1 : Stored(b, n)[Slot(i)] = items[Slot(i)]
           /\ \A j \in 1 .. n : Stored(b, n)[Slot(length + j - 1)] = b[j]
           /\ \A i \in length + n .. Capacity - 1 : Stored(b, n)[Slot(i)] = items[Slot(i)]
<1> DEFINE S == Stored(b, n)
<1> USE DEF QueueAssumption, TypeOK
<1>1. ASSUME NEW i \in 1 .. n, NEW j \in 1 .. n,
             Slot(length + i - 1) = Slot(length + j - 1)
      PROVE  i = j
  <2>1. length + i - 1 \in 0 .. Capacity - 1 /\ length + j - 1 \in 0 .. Capacity - 1
    OBVIOUS
  <2>2. length + i - 1 = length + j - 1
    BY ONLY <1>1, <2>1, SlotInjective, QueueAssumption, TypeOK
  <2> QED
    BY <2>2
<1>2. ASSUME NEW j \in 1 .. n
      PROVE  S[Slot(length + j - 1)] = b[j]
  <2> DEFINE k == Slot(length + j - 1)
  <2>1. k \in 0 .. Capacity - 1
    <3>1. length + j - 1 \in 0 .. Capacity
      OBVIOUS
    <3>2. Capacity \in Nat \ {0} /\ head \in 0 .. Capacity - 1
      OBVIOUS
    <3> QED
      BY ONLY <3>1, <3>2, SlotValue DEF k
  <2>2. (CHOOSE i \in 1 .. n : Slot(length + i - 1) = k) = j
    BY <1>1
  <2>3. \E i \in 1 .. n : Slot(length + i - 1) = k
    OBVIOUS
  <2> HIDE DEF k
  <2>4. S[k] = b[CHOOSE i \in 1 .. n : Slot(length + i - 1) = k]
    BY <2>1, <2>3 DEF Stored
  <2> QED
    BY <2>2, <2>4 DEF k
<1>3. ASSUME NEW i \in 0 .. Capacity - 1, i < length \/ i >= length + n
      PROVE  S[Slot(i)] = items[Slot(i)]
  <2>1. Slot(i) \in 0 .. Capacity - 1
    BY SlotValue
  <2>2. ASSUME NEW j \in 1 .. n
        PROVE  Slot(length + j - 1) # Slot(i)
    <3>1. length + j - 1 \in 0 .. Capacity - 1 /\ length + j - 1 # i
      BY <1>3
    <3> QED
      BY <3>1, SlotInjective
  <2> QED
    BY <2>1, <2>2 DEF Stored
<1>4. S \in [0 .. Capacity - 1 -> Item \cup {Zero}]
  <2>1. ASSUME NEW k \in 0 .. Capacity - 1
        PROVE  S[k] \in Item \cup {Zero}
    <3>1. CASE \E i \in 1 .. n : Slot(length + i - 1) = k
      <4>1. PICK i \in 1 .. n : Slot(length + i - 1) = k
        BY <3>1
      <4>2. S[k] = b[i]
        BY <4>1, <1>2
      <4> QED
        BY <4>2
    <3>2. CASE ~ \E i \in 1 .. n : Slot(length + i - 1) = k
      BY <3>2 DEF Stored
    <3> QED
      BY <3>1, <3>2
  <2>2. S = [k \in 0 .. Capacity - 1 |-> S[k]]
    BY DEF Stored
  <2> QED
    BY <2>1, <2>2
<1>5. \A i \in 0 .. length - 1 : S[Slot(i)] = items[Slot(i)]
  BY <1>3
<1>6. \A i \in length + n .. Capacity - 1 : S[Slot(i)] = items[Slot(i)]
  BY <1>3
<1> QED
  BY <1>2, <1>4, <1>5, <1>6

\* What Cleared writes: zeros at the oldest n slots, nothing else.
LEMMA ClearedValue ==
    ASSUME QueueAssumption, TypeOK, NEW n \in 0 .. length
    PROVE  /\ Cleared(n) \in [0 .. Capacity - 1 -> Item \cup {Zero}]
           /\ \A i \in 0 .. n - 1 : Cleared(n)[Slot(i)] = Zero
           /\ \A i \in n .. Capacity - 1 : Cleared(n)[Slot(i)] = items[Slot(i)]
<1> USE DEF QueueAssumption, TypeOK
<1>1. ASSUME NEW i \in 0 .. n - 1
      PROVE  Cleared(n)[Slot(i)] = Zero
  <2>1. Slot(i) \in 0 .. Capacity - 1
    BY SlotValue
  <2> QED
    BY <2>1 DEF Cleared
<1>2. ASSUME NEW i \in n .. Capacity - 1
      PROVE  Cleared(n)[Slot(i)] = items[Slot(i)]
  <2>1. Slot(i) \in 0 .. Capacity - 1
    BY SlotValue
  <2>2. ASSUME NEW j \in 0 .. n - 1
        PROVE  Slot(j) # Slot(i)
    BY SlotInjective
  <2> QED
    BY <2>1, <2>2 DEF Cleared
<1>3. Cleared(n) \in [0 .. Capacity - 1 -> Item \cup {Zero}]
  BY DEF Cleared
<1> QED
  BY <1>1, <1>2, <1>3
----------------------------------------------------------------------------
(* A push and a pop as steps of the ring. *)

\* Storing n packets keeps the ring well formed and appends them to what the
\* queue contains.
LEMMA PushRing ==
    ASSUME QueueAssumption, TypeOK, SlotsInUse, NEW b \in Seq(Item),
           NEW n \in 1 .. Len(b), length + n <= Capacity,
           items' = Stored(b, n), length' = length + n, head' = head
    PROVE  /\ items' \in [0 .. Capacity - 1 -> Item \cup {Zero}]
           /\ head' \in 0 .. Capacity - 1
           /\ length' \in 0 .. Capacity
           /\ SlotsInUse'
           /\ Contents' = Contents \o [j \in 1 .. n |-> b[j]]
<1> USE DEF QueueAssumption
<1>1. /\ items' \in [0 .. Capacity - 1 -> Item \cup {Zero}]
      /\ head' \in 0 .. Capacity - 1
      /\ length' \in 0 .. Capacity
  BY StoredValue DEF TypeOK
<1>2. \A i \in Int : Slot(i)' = Slot(i)
  BY DEF Slot
<1>3. /\ \A i \in 0 .. length - 1 : items'[Slot(i)] = items[Slot(i)]
      /\ \A j \in 1 .. n : items'[Slot(length + j - 1)] = b[j]
      /\ \A i \in length + n .. Capacity - 1 : items'[Slot(i)] = items[Slot(i)]
  BY StoredValue
<1>4. /\ \A k \in 0 .. Capacity - 1 : \E i \in 0 .. Capacity - 1 : Slot(i) = k
      /\ \A i \in 0 .. Capacity : Slot(i) \in 0 .. Capacity - 1
      /\ \A i, j \in 0 .. Capacity - 1 : Slot(i) = Slot(j) => i = j
  BY SlotBijection
<1>5. SlotsInUse'
  <2> SUFFICES ASSUME NEW k \in 0 .. Capacity - 1
               PROVE  items'[k] \in Item <=> \E i \in 0 .. length' - 1 : Slot(i)' = k
    BY DEF SlotsInUse
  <2>1. PICK o \in 0 .. Capacity - 1 : Slot(o) = k
    BY <1>4
  <2>2. (\E i \in 0 .. length' - 1 : Slot(i)' = k) <=> o < length + n
    <3>1. PICK m \in 0 .. Capacity : m = length + n
      BY DEF TypeOK
    <3>2. (\E i \in 0 .. m - 1 : Slot(i) = Slot(o)) <=> o < m
      BY SlotRange
    <3>3. \A i \in 0 .. m - 1 : Slot(i)' = Slot(i)
      BY <1>2
    <3> QED
      BY <2>1, <3>1, <3>2, <3>3
  <2>3. (\E i \in 0 .. length - 1 : Slot(i) = k) <=> o < length
    <3>1. length \in 0 .. Capacity
      BY DEF TypeOK
    <3> QED
      BY <2>1, <3>1, SlotRange
  <2>4. items[k] \in Item <=> o < length
    BY <2>3 DEF SlotsInUse
  <2>5. CASE o < length
    BY <1>3, <2>1, <2>2, <2>4, <2>5, SMTT(30) DEF TypeOK
  <2>6. CASE o >= length /\ o < length + n
    <3>1. o - length + 1 \in 1 .. n /\ length + (o - length + 1) - 1 = o
      BY <2>6 DEF TypeOK
    <3>2. items'[k] = b[o - length + 1]
      BY <1>3, <2>1, <3>1
    <3> QED
      BY <2>2, <2>6, <3>1, <3>2
  <2>7. CASE o >= length + n
    BY <1>3, <2>1, <2>2, <2>4, <2>7 DEF TypeOK
  <2> QED
    BY <2>5, <2>6, <2>7 DEF TypeOK
<1>6. Contents' = Contents \o [j \in 1 .. n |-> b[j]]
  <2> DEFINE block == [j \in 1 .. n |-> b[j]]
  <2>1. Contents \in Seq(Item \cup {Zero}) /\ Len(Contents) = length
    BY ContentsType
  <2>2. block \in Seq(Item \cup {Zero}) /\ Len(block) = n
    OBVIOUS
  <2>3. Contents \o block =
           [i \in 1 .. length + n |-> IF i <= length THEN Contents[i] ELSE block[i - length]]
    <3> HIDE DEF block
    <3>1. PICK c \in Seq(Item \cup {Zero}) : c = Contents
      BY <2>1
    <3>2. PICK d \in Seq(Item \cup {Zero}) : d = block
      BY <2>2
    <3>3. c \o d = [i \in 1 .. Len(c) + Len(d) |->
                       IF i <= Len(c) THEN c[i] ELSE d[i - Len(c)]]
      BY ConcatValue
    <3> QED
      BY <2>1, <2>2, <3>1, <3>2, <3>3
  <2>4. ASSUME NEW i \in 1 .. length + n
        PROVE  items'[Slot(i - 1)'] =
                  IF i <= length THEN Contents[i] ELSE block[i - length]
    <3>1. CASE i <= length
      <4>1. i - 1 \in 0 .. length - 1 /\ i \in 1 .. length
        BY <3>1 DEF TypeOK
      <4> QED
        BY <1>2, <1>3, <3>1, <4>1 DEF Contents
    <3>2. CASE i > length
      <4>1. i - length \in 1 .. n /\ length + (i - length) - 1 = i - 1
        BY <3>2 DEF TypeOK
      <4>2. items'[Slot(i - 1)] = b[i - length]
        BY <1>3, <4>1
      <4> QED
        BY <1>2, <3>2, <4>1, <4>2 DEF TypeOK
    <3> QED
      BY <3>1, <3>2 DEF TypeOK
  <2>5. Contents' = [i \in 1 .. length + n |-> items'[Slot(i - 1)']]
    BY DEF Contents
  <2> QED
    BY <2>3, <2>4, <2>5
<1> QED
  BY <1>1, <1>5, <1>6

\* Taking n packets keeps the ring well formed and removes the n oldest of
\* what the queue contains.
LEMMA PopRing ==
    ASSUME QueueAssumption, TypeOK, SlotsInUse, NEW n \in 1 .. length,
           items' = Cleared(n), head' = Slot(n), length' = length - n
    PROVE  /\ items' \in [0 .. Capacity - 1 -> Item \cup {Zero}]
           /\ head' \in 0 .. Capacity - 1
           /\ length' \in 0 .. Capacity
           /\ SlotsInUse'
           /\ Contents' = SubSeq(Contents, n + 1, length)
<1> USE DEF QueueAssumption
<1>1. /\ items' \in [0 .. Capacity - 1 -> Item \cup {Zero}]
      /\ head' \in 0 .. Capacity - 1
      /\ length' \in 0 .. Capacity
  <2>1. n \in 0 .. length /\ n \in 0 .. Capacity
    BY DEF TypeOK
  <2>2. Cleared(n) \in [0 .. Capacity - 1 -> Item \cup {Zero}]
    BY <2>1, ClearedValue
  <2>3. Slot(n) \in 0 .. Capacity - 1
    BY <2>1, SlotBijection
  <2> QED
    BY <2>1, <2>2, <2>3 DEF TypeOK
<1>2. \A i \in 0 .. length - n : Slot(i)' = Slot(n + i)
  <2> SUFFICES ASSUME NEW i \in 0 .. length - n
               PROVE  (Slot(n) + i) % Capacity = Slot(n + i)
    BY DEF Slot
  <2> QED
    BY SlotAfterPop DEF TypeOK
<1>3. /\ \A i \in 0 .. n - 1 : items'[Slot(i)] = Zero
      /\ \A i \in n .. Capacity - 1 : items'[Slot(i)] = items[Slot(i)]
  BY ClearedValue DEF TypeOK
<1>4. /\ \A k \in 0 .. Capacity - 1 : \E i \in 0 .. Capacity - 1 : Slot(i) = k
      /\ \A i \in 0 .. Capacity : Slot(i) \in 0 .. Capacity - 1
      /\ \A i, j \in 0 .. Capacity - 1 : Slot(i) = Slot(j) => i = j
  BY SlotBijection
<1>5. SlotsInUse'
  <2> SUFFICES ASSUME NEW k \in 0 .. Capacity - 1
               PROVE  items'[k] \in Item <=> \E i \in 0 .. length' - 1 : Slot(i)' = k
    BY DEF SlotsInUse
  <2>1. PICK o \in 0 .. Capacity - 1 : Slot(o) = k
    BY <1>4
  <2>2. (\E i \in 0 .. length' - 1 : Slot(i)' = k) <=> n <= o /\ o < length
    <3>1. ASSUME NEW i \in 0 .. length' - 1, Slot(i)' = k
          PROVE  n <= o /\ o < length
      <4>1. n + i \in 0 .. Capacity - 1 /\ i \in 0 .. length - n
        BY <3>1 DEF TypeOK
      <4>2. n + i = o
        BY <1>2, <1>4, <2>1, <3>1, <4>1
      <4> QED
        BY <3>1, <4>2 DEF TypeOK
    <3>2. ASSUME n <= o, o < length
          PROVE  \E i \in 0 .. length' - 1 : Slot(i)' = k
      <4>1. o - n \in 0 .. length' - 1 /\ o - n \in 0 .. length - n /\ n + (o - n) = o
        BY <3>2 DEF TypeOK
      <4> QED
        BY <1>2, <2>1, <4>1
    <3> QED
      BY <3>1, <3>2
  <2>3. (\E i \in 0 .. length - 1 : Slot(i) = k) <=> o < length
    <3>1. length \in 0 .. Capacity
      BY DEF TypeOK
    <3> QED
      BY <2>1, <3>1, SlotRange
  <2>4. items[k] \in Item <=> o < length
    BY <2>3 DEF SlotsInUse
  <2>5. CASE o < n
    BY <1>3, <2>1, <2>2, <2>5
  <2>6. CASE o >= n
    BY <1>3, <2>1, <2>2, <2>4, <2>6
  <2> QED
    BY <2>5, <2>6 DEF TypeOK
<1>6. Contents' = SubSeq(Contents, n + 1, length)
  <2>1. Contents \in Seq(Item \cup {Zero}) /\ Len(Contents) = length
    BY ContentsType
  <2>2. SubSeq(Contents, n + 1, length) = [i \in 1 .. length - n |-> Contents[n + i]]
    BY <2>1 DEF TypeOK
  <2>3. ASSUME NEW i \in 1 .. length - n
        PROVE  items'[Slot(i - 1)'] = Contents[n + i]
    <3>1. /\ i - 1 \in 0 .. length - n
          /\ n + (i - 1) = (n + i) - 1
          /\ n + i \in 1 .. length
          /\ (n + i) - 1 \in n .. Capacity - 1
      BY DEF TypeOK
    <3>2. Contents[n + i] = items[Slot((n + i) - 1)]
      BY <3>1 DEF Contents
    <3>3. Slot(i - 1)' = Slot((n + i) - 1)
      BY <1>2, <3>1
    <3> QED
      BY <1>3, <3>1, <3>2, <3>3
  <2>4. Contents' = [i \in 1 .. length - n |-> items'[Slot(i - 1)']]
    BY DEF Contents
  <2> QED
    BY <2>2, <2>3, <2>4
<1> QED
  BY <1>1, <1>5, <1>6
----------------------------------------------------------------------------
(* What a step does to the ring: a push, a pop, or nothing. *)

\* Packets are stored behind the tail of the open queue.
RingPush ==
    /\ ~closed /\ closed' = closed
    /\ \E b \in Seq(Item) : \E n \in 1 .. Len(b) :
          /\ length + n <= Capacity
          /\ items' = Stored(b, n)
          /\ length' = length + n
    /\ head' = head

\* The oldest packets are taken.
RingPop ==
    /\ closed' = closed
    /\ \E n \in 1 .. length :
          /\ items' = Cleared(n)
          /\ head' = Slot(n)
          /\ length' = length - n

\* A batch of a call is a non-empty sequence of packets.
LEMMA BatchType ==
    ASSUME QueueAssumption, NEW b \in Batches
    PROVE  b \in Seq(Item) /\ Len(b) \in Nat \ {0}
BY DEF QueueAssumption, Batches

\* One iteration of PushBatch pushes one packet.
LEMMA PushOneRing ==
    ASSUME QueueAssumption, TypeOK, PushesHaveWork, NEW p \in Producers, PushOne(p)
    PROVE  RingPush
<1>1. producer[p].batch \in Seq(Item) /\ producer[p].batch # << >>
  BY DEF PushOne, TypeOK, PushesHaveWork
<1>2. 1 \in 1 .. Len(producer[p].batch)
  BY <1>1
<1>3. length + 1 <= Capacity
  BY DEF PushOne, TypeOK, QueueAssumption
<1> QED
  BY <1>1, <1>2, <1>3 DEF PushOne, RingPush

\* TryPushBatch pushes the packets there is room for, at least one.
LEMMA TryPushBatchRing ==
    ASSUME QueueAssumption, TypeOK, NEW p \in Producers, TryPushBatch(p)
    PROVE  RingPush
<1>1. PICK b \in Batches :
         LET room == Capacity - length
             count == IF Len(b) < room THEN Len(b) ELSE room
         IN  items' = Stored(b, count) /\ length' = length + count
  BY DEF TryPushBatch
<1> DEFINE room == Capacity - length
           n == IF Len(b) < room THEN Len(b) ELSE room
<1>2. b \in Seq(Item) /\ Len(b) \in Nat \ {0}
  BY BatchType
<1>3. n \in 1 .. Len(b) /\ length + n <= Capacity
  BY <1>2 DEF TryPushBatch, TypeOK, QueueAssumption
<1>4. items' = Stored(b, n) /\ length' = length + n
  BY <1>1
<1> HIDE DEF n
<1> QED
  BY <1>2, <1>3, <1>4 DEF TryPushBatch, RingPush

\* PopInto takes at least one packet and no more than there are.
LEMMA PopIntoRing ==
    ASSUME QueueAssumption, TypeOK, NEW c \in Consumers, PopInto(c)
    PROVE  RingPop
<1>1. PICK l \in PopLimits : /\ items' = Cleared(PopCount(l))
                             /\ head' = Slot(PopCount(l))
                             /\ length' = length - PopCount(l)
  BY DEF PopInto
<1>2. PopCount(l) \in 1 .. length
  BY DEF PopCount, PopInto, TypeOK, QueueAssumption
<1> QED
  BY <1>1, <1>2 DEF PopInto, RingPop

\* Drain takes everything.
LEMMA DrainRing ==
    ASSUME QueueAssumption, TypeOK, Drain
    PROVE  RingPop
<1>1. length \in 1 .. length /\ length' = length - length
  BY DEF Drain, TypeOK, QueueAssumption
<1> QED
  BY <1>1 DEF Drain, RingPop

\* Every step pushes, pops, closes, or leaves the ring and the close alone.
LEMMA RingStep ==
    ASSUME QueueAssumption, TypeOK, PushesHaveWork, Next
    PROVE  \/ RingPush
           \/ RingPop
           \/ UNCHANGED ring /\ closed' \in {closed, TRUE}
<1>1. CASE \E p \in Producers : PushOne(p)
  BY <1>1, PushOneRing
<1>2. CASE \E p \in Producers : TryPushBatch(p)
  BY <1>2, TryPushBatchRing
<1>3. CASE \E c \in Consumers : PopInto(c)
  BY <1>3, PopIntoRing
<1>4. CASE Drain
  BY <1>4, DrainRing
<1>5. CASE \E p \in Producers : \/ PushBatch(p) \/ PushFull(p) \/ PushWoken(p)
                                \/ PushClosed(p) \/ PushCancelled(p)
  BY <1>5 DEF PushBatch, PushFull, PushWoken, PushClosed, PushCancelled
<1>6. CASE \E c \in Consumers : \/ BeginPop(c) \/ PopNothing(c) \/ Wake(c)
                                \/ Woken(c) \/ WakeAbandoned(c)
  BY <1>6 DEF BeginPop, PopNothing, Wake, Woken, WakeAbandoned
<1>7. CASE Close
  BY <1>7 DEF Close
<1> QED
  BY <1>1, <1>2, <1>3, <1>4, <1>5, <1>6, <1>7 DEF Next, ProducerStep, ConsumerStep

\* The ring stays well formed.
LEMMA RingInvariant ==
    ASSUME QueueAssumption, TypeOK, PushesHaveWork, SlotsInUse, [Next]_vars
    PROVE  /\ items' \in [0 .. Capacity - 1 -> Item \cup {Zero}]
           /\ head' \in 0 .. Capacity - 1
           /\ length' \in 0 .. Capacity
           /\ closed' \in BOOLEAN
           /\ SlotsInUse'
<1>1. CASE RingPush
  <2>1. PICK b \in Seq(Item) : \E n \in 1 .. Len(b) :
           length + n <= Capacity /\ items' = Stored(b, n) /\ length' = length + n
    BY <1>1 DEF RingPush
  <2>2. PICK n \in 1 .. Len(b) :
           length + n <= Capacity /\ items' = Stored(b, n) /\ length' = length + n
    BY <2>1
  <2> QED
    BY <1>1, <2>2, PushRing DEF RingPush, TypeOK
<1>2. CASE RingPop
  <2>1. PICK n \in 1 .. length :
           items' = Cleared(n) /\ head' = Slot(n) /\ length' = length - n
    BY <1>2 DEF RingPop
  <2> QED
    BY <1>2, <2>1, PopRing DEF RingPop, TypeOK
<1>3. CASE UNCHANGED ring /\ closed' \in {closed, TRUE}
  BY <1>3 DEF ring, TypeOK, SlotsInUse, Slot
<1>4. CASE UNCHANGED vars
  BY <1>4 DEF vars, TypeOK, SlotsInUse, Slot
<1> QED
  BY <1>1, <1>2, <1>3, <1>4, RingStep

----------------------------------------------------------------------------
(* The goroutines and the channels. *)

\* The states of a producer.
ProducerState == [pc : {"idle", "push", "wait"}, batch : Seq(Item)]

\* A step of one producer to a well-typed state that has work left if the
\* call goes on.
LEMMA ProducerUpdate ==
    ASSUME TypeOK, PushesHaveWork, NEW p \in Producers, NEW r \in ProducerState,
           r.pc # "idle" => r.batch # << >>,
           producer' = [producer EXCEPT ![p] = r]
    PROVE  producer' \in [Producers -> ProducerState] /\ PushesHaveWork'
<1>1. producer \in [Producers -> ProducerState]
  BY DEF TypeOK, ProducerState
<1>2. producer' \in [Producers -> ProducerState]
  BY <1>1
<1>3. \A q \in Producers : producer'[q] = IF q = p THEN r ELSE producer[q]
  BY <1>1
<1> QED
  BY <1>2, <1>3 DEF PushesHaveWork

\* The rest of a batch of more than one packet is not empty.
LEMMA TailHasWork ==
    ASSUME NEW s \in Seq(Item), s # << >>, Len(s) # 1
    PROVE  Tail(s) \in Seq(Item) /\ Tail(s) # << >>
<1>1. Len(s) \in Nat /\ Len(s) # 0
  BY EmptySeq
<1>2. Tail(s) \in Seq(Item) /\ Len(Tail(s)) = Len(s) - 1
  BY HeadTailProperties
<1>3. Len(Tail(s)) # 0
  BY <1>1, <1>2
<1> QED
  BY <1>2, <1>3, EmptySeq

\* After an iteration the call has returned or has packets left.
LEMMA PushOneProgress ==
    ASSUME TypeOK, PushesHaveWork, NEW p \in Producers, PushOne(p)
    PROVE  producer' \in [Producers -> ProducerState] /\ PushesHaveWork'
<1>1. /\ producer \in [Producers -> ProducerState]
      /\ producer[p] \in ProducerState
      /\ producer[p].batch \in Seq(Item)
      /\ producer[p].pc = "push"
      /\ producer[p].batch # << >>
  BY DEF TypeOK, PushesHaveWork, PushOne, ProducerState
<1>2. CASE Len(producer[p].batch) = 1
  <2> DEFINE r == [pc |-> "idle", batch |-> << >>]
  <2>1. producer' = [producer EXCEPT ![p] = r]
    BY <1>2 DEF PushOne, PushReturn
  <2>2. r \in ProducerState /\ r.pc = "idle"
    BY DEF ProducerState
  <2> HIDE DEF r
  <2> QED
    BY <2>1, <2>2, ProducerUpdate
<1>3. CASE Len(producer[p].batch) # 1
  <2> DEFINE r == [pc |-> "push", batch |-> Tail(producer[p].batch)]
  <2>1. Tail(producer[p].batch) \in Seq(Item) /\ Tail(producer[p].batch) # << >>
    BY <1>1, <1>3, TailHasWork
  <2>2. producer' = [producer EXCEPT ![p] = r]
    BY <1>1, <1>3 DEF PushOne, ProducerState
  <2>3. r \in ProducerState /\ r.batch # << >>
    BY <2>1 DEF ProducerState
  <2> HIDE DEF r
  <2> QED
    BY <2>2, <2>3, ProducerUpdate
<1> QED
  BY <1>2, <1>3

\* A call begins with something to push.
LEMMA PushBatchProgress ==
    ASSUME QueueAssumption, TypeOK, PushesHaveWork, NEW p \in Producers, PushBatch(p)
    PROVE  producer' \in [Producers -> ProducerState] /\ PushesHaveWork'
<1>1. PICK b \in Batches : producer' = [producer EXCEPT ![p] = [pc |-> "push", batch |-> b]]
  BY DEF PushBatch
<1> DEFINE r == [pc |-> "push", batch |-> b]
<1>2. b \in Seq(Item) /\ b # << >>
  BY BatchType
<1>3. r \in ProducerState /\ r.batch # << >>
  BY <1>2 DEF ProducerState
<1>4. producer' = [producer EXCEPT ![p] = r]
  BY <1>1
<1> HIDE DEF r
<1> QED
  BY <1>3, <1>4, ProducerUpdate

\* Waiting, waking and returning store nothing.
LEMMA PushWaitProgress ==
    ASSUME TypeOK, PushesHaveWork, NEW p \in Producers,
           PushFull(p) \/ PushWoken(p) \/ PushClosed(p) \/ PushCancelled(p)
    PROVE  producer' \in [Producers -> ProducerState] /\ PushesHaveWork'
<1>1. /\ producer \in [Producers -> ProducerState]
      /\ producer[p] \in ProducerState
      /\ producer[p].batch \in Seq(Item)
      /\ producer[p].pc # "idle" => producer[p].batch # << >>
  BY DEF TypeOK, PushesHaveWork, ProducerState
<1>2. CASE PushFull(p) \/ PushWoken(p)
  <2> DEFINE r == [pc |-> IF PushFull(p) THEN "wait" ELSE "push", batch |-> producer[p].batch]
  <2>1. producer' = [producer EXCEPT ![p] = r]
    BY <1>1, <1>2 DEF PushFull, PushWoken, ProducerState
  <2>2. r \in ProducerState /\ r.batch # << >>
    BY <1>1, <1>2 DEF PushFull, PushWoken, ProducerState
  <2> HIDE DEF r
  <2> QED
    BY <2>1, <2>2, ProducerUpdate
<1>3. CASE PushClosed(p) \/ PushCancelled(p)
  <2> DEFINE r == [pc |-> "idle", batch |-> << >>]
  <2>1. producer' = [producer EXCEPT ![p] = r]
    BY <1>3 DEF PushClosed, PushCancelled, PushReturn
  <2>2. r \in ProducerState /\ r.pc = "idle"
    BY DEF ProducerState
  <2> HIDE DEF r
  <2> QED
    BY <2>1, <2>2, ProducerUpdate
<1> QED
  BY <1>2, <1>3

\* The goroutines' progress stays well typed, and a call of PushBatch that
\* goes on has packets left.
LEMMA ProgressInvariant ==
    ASSUME QueueAssumption, TypeOK, PushesHaveWork, [Next]_vars
    PROVE  /\ producer' \in [Producers -> ProducerState]
           /\ consumer' \in [Consumers -> {"idle", "pop", "wake", "wait"}]
           /\ notEmpty' \in BOOLEAN
           /\ notFull' \subseteq Producers
           /\ PushesHaveWork'
<1>1. producer \in [Producers -> ProducerState]
  BY DEF TypeOK, ProducerState
<1> USE DEF TypeOK
<1>2. CASE UNCHANGED vars
  BY <1>1, <1>2 DEF vars, PushesHaveWork
<1>3. ASSUME NEW p \in Producers,
             \/ PushBatch(p) \/ PushOne(p) \/ PushFull(p) \/ PushWoken(p)
             \/ PushClosed(p) \/ PushCancelled(p)
      PROVE  producer' \in [Producers -> ProducerState] /\ PushesHaveWork'
  BY <1>3, PushBatchProgress, PushOneProgress, PushWaitProgress
<1>4. ASSUME NEW p \in Producers,
             \/ PushBatch(p) \/ PushOne(p) \/ PushFull(p) \/ PushWoken(p)
             \/ PushClosed(p) \/ PushCancelled(p)
      PROVE  UNCHANGED consumer /\ notEmpty' \in BOOLEAN /\ notFull' \subseteq Producers
  BY <1>4 DEF PushBatch, PushOne, PushFull, PushWoken, PushClosed, PushCancelled, SignalNotEmpty
<1>5. ASSUME NEW p \in Producers, TryPushBatch(p)
      PROVE  UNCHANGED <<producer, consumer, notFull>> /\ notEmpty' \in BOOLEAN
  BY <1>5 DEF TryPushBatch, SignalNotEmpty
<1>6. ASSUME NEW c \in Consumers,
             \/ BeginPop(c) \/ PopInto(c) \/ PopNothing(c)
             \/ Wake(c) \/ Woken(c) \/ WakeAbandoned(c)
      PROVE  /\ consumer' \in [Consumers -> {"idle", "pop", "wake", "wait"}]
             /\ UNCHANGED producer
             /\ notEmpty' \in BOOLEAN
             /\ notFull' \subseteq Producers
  BY <1>6 DEF BeginPop, PopInto, PopNothing, Wake, Woken, WakeAbandoned,
              PopReturn, SignalNotEmpty, SignalNotFull
<1>7. CASE Close \/ Drain
  BY <1>1, <1>7 DEF Close, Drain, SignalNotFull, PushesHaveWork
<1>8. ASSUME UNCHANGED producer
      PROVE  PushesHaveWork' /\ producer' \in [Producers -> ProducerState]
  BY <1>1, <1>8 DEF PushesHaveWork
<1> QED
  BY <1>1, <1>2, <1>3, <1>4, <1>5, <1>6, <1>7, <1>8 DEF Next, ProducerStep, ConsumerStep

\* The token is sent under the mutex while the channel is open, and every
\* send looks at closed first.
LEMMA NoSendOnClosedStep ==
    ASSUME TypeOK, NoSendOnClosedChannel, [Next]_vars
    PROVE  panicked' = FALSE
<1> USE DEF TypeOK, NoSendOnClosedChannel
<1>1. CASE UNCHANGED vars
  BY <1>1 DEF vars
<1>2. ASSUME NEW p \in Producers, PushOne(p) \/ TryPushBatch(p)
      PROVE  panicked' = FALSE
  BY <1>2 DEF PushOne, TryPushBatch, SignalNotEmpty
<1>3. ASSUME NEW p \in Producers, \/ PushBatch(p) \/ PushFull(p) \/ PushWoken(p)
                                  \/ PushClosed(p) \/ PushCancelled(p)
      PROVE  panicked' = FALSE
  BY <1>3 DEF PushBatch, PushFull, PushWoken, PushClosed, PushCancelled
<1>4. ASSUME NEW c \in Consumers, PopInto(c) \/ Wake(c)
      PROVE  panicked' = FALSE
  BY <1>4 DEF PopInto, Wake, SignalNotEmpty
<1>5. ASSUME NEW c \in Consumers, \/ BeginPop(c) \/ PopNothing(c)
                                  \/ Woken(c) \/ WakeAbandoned(c)
      PROVE  panicked' = FALSE
  BY <1>5 DEF BeginPop, PopNothing, Woken, WakeAbandoned
<1>6. CASE Close \/ Drain
  BY <1>6 DEF Close, Drain
<1> QED
  BY <1>1, <1>2, <1>3, <1>4, <1>5, <1>6 DEF Next, ProducerStep, ConsumerStep

\* A step that queues packets, or leaves some behind, leaves a token too; a
\* token is only taken by a consumer that pops next.
LEMMA NoLostWakeupStep ==
    ASSUME QueueAssumption, TypeOK, NoLostWakeup, [Next]_vars
    PROVE  NoLostWakeup'
<1> SUFFICES ASSUME length' > 0, ~closed', NEW w \in Consumers, consumer'[w] = "wait"
             PROVE  notEmpty' \/ \E c \in Consumers : consumer'[c] \in {"pop", "wake"}
  BY DEF NoLostWakeup
<1> USE DEF TypeOK, NoLostWakeup
<1>1. CASE UNCHANGED vars
  BY <1>1 DEF vars
<1>2. ASSUME NEW p \in Producers, PushOne(p) \/ TryPushBatch(p)
      PROVE  notEmpty' \/ \E c \in Consumers : consumer'[c] \in {"pop", "wake"}
  <2>1. CASE length = 0
    BY <1>2, <2>1 DEF PushOne, TryPushBatch, SignalNotEmpty
  <2>2. CASE length # 0
    BY <1>2, <2>2 DEF PushOne, TryPushBatch
  <2> QED
    BY <2>1, <2>2
<1>3. ASSUME NEW p \in Producers, \/ PushBatch(p) \/ PushFull(p) \/ PushWoken(p)
                                  \/ PushClosed(p) \/ PushCancelled(p)
      PROVE  notEmpty' \/ \E c \in Consumers : consumer'[c] \in {"pop", "wake"}
  BY <1>3 DEF PushBatch, PushFull, PushWoken, PushClosed, PushCancelled, ring
<1>4. ASSUME NEW c \in Consumers, PopInto(c)
      PROVE  notEmpty'
  <2>1. PICK l \in PopLimits :
           /\ length' = length - PopCount(l)
           /\ IF length = PopCount(l) THEN notEmpty' = FALSE /\ UNCHANGED panicked
              ELSE IF ~closed THEN SignalNotEmpty
              ELSE UNCHANGED <<notEmpty, panicked>>
    BY <1>4 DEF PopInto
  <2>2. length # PopCount(l)
    BY <2>1
  <2> QED
    BY <1>4, <2>1, <2>2 DEF PopInto, SignalNotEmpty
<1>5. ASSUME NEW c \in Consumers, PopNothing(c)
      PROVE  FALSE
  BY <1>5 DEF PopNothing, ring
<1>6. ASSUME NEW c \in Consumers, Wake(c)
      PROVE  notEmpty'
  BY <1>6 DEF Wake, SignalNotEmpty, ring
<1>7. ASSUME NEW c \in Consumers, BeginPop(c) \/ Woken(c)
      PROVE  \E d \in Consumers : consumer'[d] \in {"pop", "wake"}
  <2>1. consumer'[c] = "pop"
    BY <1>7 DEF BeginPop, Woken
  <2> QED
    BY <2>1
<1>8. ASSUME NEW c \in Consumers, WakeAbandoned(c)
      PROVE  notEmpty' \/ \E d \in Consumers : consumer'[d] \in {"pop", "wake"}
  <2>1. consumer[w] = "wait" /\ length > 0 /\ ~closed /\ notEmpty' = notEmpty
    BY <1>8 DEF WakeAbandoned, PopReturn, ring
  <2>2. CASE notEmpty
    BY <2>1, <2>2
  <2>3. CASE \E d \in Consumers : consumer[d] \in {"pop", "wake"}
    <3>1. PICK d \in Consumers : consumer[d] \in {"pop", "wake"}
      BY <2>3
    <3>2. consumer'[d] = consumer[d]
      BY <1>8, <3>1 DEF WakeAbandoned, PopReturn
    <3> QED
      BY <3>1, <3>2
  <2> QED
    BY <2>1, <2>2, <2>3
<1>9. CASE Close \/ Drain
  BY <1>9 DEF Close, Drain, ring
<1> QED
  BY <1>1, <1>2, <1>3, <1>4, <1>5, <1>6, <1>7, <1>8, <1>9
     DEF Next, ProducerStep, ConsumerStep

\* A producer captures the channel of a full queue; whatever makes room in a
\* full queue, or closes it, replaces the channel.
LEMMA BlockedOnlyWhenFullStep ==
    ASSUME QueueAssumption, TypeOK, BlockedOnlyWhenFull, [Next]_vars
    PROVE  BlockedOnlyWhenFull'
<1> USE DEF TypeOK, BlockedOnlyWhenFull, QueueAssumption
<1>1. CASE UNCHANGED vars
  BY <1>1 DEF vars
<1>2. ASSUME NEW p \in Producers, PushOne(p) \/ TryPushBatch(p)
      PROVE  notFull' = {}
  BY <1>2 DEF PushOne, TryPushBatch
<1>3. ASSUME NEW p \in Producers, \/ PushBatch(p) \/ PushWoken(p)
                                  \/ PushClosed(p) \/ PushCancelled(p)
      PROVE  notFull' \subseteq notFull /\ UNCHANGED <<length, closed>>
  BY <1>3 DEF PushBatch, PushWoken, PushClosed, PushCancelled, ring
<1>4. ASSUME NEW p \in Producers, PushFull(p)
      PROVE  length' = Capacity /\ ~closed'
  BY <1>4 DEF PushFull, ring
<1>5. ASSUME NEW c \in Consumers, PopInto(c)
      PROVE  notFull' = {}
  BY <1>5 DEF PopInto, SignalNotFull
<1>6. ASSUME NEW c \in Consumers, \/ BeginPop(c) \/ PopNothing(c) \/ Wake(c)
                                  \/ Woken(c) \/ WakeAbandoned(c)
      PROVE  UNCHANGED <<notFull, length, closed>>
  BY <1>6 DEF BeginPop, PopNothing, Wake, Woken, WakeAbandoned, ring
<1>7. CASE Close \/ Drain
  BY <1>7 DEF Close, Drain, SignalNotFull
<1> QED
  BY <1>1, <1>2, <1>3, <1>4, <1>5, <1>6, <1>7 DEF Next, ProducerStep, ConsumerStep

----------------------------------------------------------------------------
(* The theorems. *)

\* The inductive invariant holds of a new queue.
LEMMA InitInv == ASSUME QueueAssumption, Init PROVE QueueInv
<1> USE DEF Init, QueueAssumption
<1>1. TypeOK
  <2>1. /\ items \in [0 .. Capacity - 1 -> Item \cup {Zero}]
        /\ head \in 0 .. Capacity - 1
        /\ length \in 0 .. Capacity
        /\ notFull \subseteq Producers
    OBVIOUS
  <2>2. producer \in [Producers -> [pc : {"idle", "push", "wait"}, batch : Seq(Item)]]
    <3>1. [pc |-> "idle", batch |-> << >>] \in [pc : {"idle", "push", "wait"}, batch : Seq(Item)]
      OBVIOUS
    <3> QED
      BY <3>1
  <2>3. consumer \in [Consumers -> {"idle", "pop", "wake", "wait"}]
    OBVIOUS
  <2> QED
    BY <2>1, <2>2, <2>3 DEF TypeOK
<1>2. SlotsInUse
  BY DEF SlotsInUse
<1> QED
  BY <1>1, <1>2 DEF QueueInv, PushesHaveWork, NoSendOnClosedChannel, NoLostWakeup,
                    BlockedOnlyWhenFull

\* Every step preserves the inductive invariant.
LEMMA NextInv == ASSUME QueueAssumption, QueueInv, [Next]_vars PROVE QueueInv'
<1> USE DEF QueueInv
<1>1. panicked' = FALSE
  BY NoSendOnClosedStep
<1>2. TypeOK'
  BY <1>1, RingInvariant, ProgressInvariant DEF TypeOK, ProducerState
<1>3. PushesHaveWork' /\ SlotsInUse'
  BY RingInvariant, ProgressInvariant
<1>4. NoSendOnClosedChannel'
  BY <1>1 DEF NoSendOnClosedChannel
<1>5. NoLostWakeup' /\ BlockedOnlyWhenFull'
  BY NoLostWakeupStep, BlockedOnlyWhenFullStep
<1> QED
  BY <1>2, <1>3, <1>4, <1>5

\* The inductive invariant holds throughout.
LEMMA Invariant == Spec => []QueueInv
<1>1. Init => QueueInv
  BY InitInv, QueueAssumption
<1>2. QueueInv /\ [Next]_vars => QueueInv'
  BY NextInv, QueueAssumption
<1> QED
  BY <1>1, <1>2, PTL DEF Spec

\* The ring, its indices, the channels and the goroutines' progress keep their
\* types: no push or pop computes an index outside the ring
\* (data_packet_queue.go).
THEOREM TypeCorrect == Spec => []TypeOK
BY Invariant, PTL DEF QueueInv

\* No goroutine ever sends on the closed wake-up channel
\* (signalNotEmptyLocked), whatever the order of pushes, pops, wake requests
\* and the close.
THEOREM NeverSendsOnClosedChannel == Spec => []NoSendOnClosedChannel
BY Invariant, PTL DEF QueueInv

\* With any number of consumers the single-token channel loses no wake-up:
\* while packets are queued, a blocked consumer has a token to receive or
\* another consumer is about to pop (PopInto, Wake).
THEOREM NoWakeupIsLost == Spec => []NoLostWakeup
BY Invariant, PTL DEF QueueInv

\* A producer waits on the open notFull channel only while the queue is full
\* and open (PushBatch, signalNotFullLocked).
THEOREM BlockedProducersAreBlockedByAFullQueue == Spec => []BlockedOnlyWhenFull
BY Invariant, PTL DEF QueueInv

\* The slots the queue does not use hold the zero value, and no others do: a
\* popped packet is not kept alive by the ring (PopInto stores the zero value
\* in what it takes), and no zero value is ever handed out as a packet.
THEOREM UnusedSlotsAreReset == Spec => []SlotsInUse
BY Invariant, PTL DEF QueueInv

\* A push of the ring is a push of the abstract queue.
LEMMA RingPushAppends ==
    ASSUME QueueAssumption, TypeOK, SlotsInUse, RingPush
    PROVE  Abstract!Push
<1>1. PICK b \in Seq(Item) : \E n \in 1 .. Len(b) :
         length + n <= Capacity /\ items' = Stored(b, n) /\ length' = length + n
  BY DEF RingPush
<1>2. PICK n \in 1 .. Len(b) :
         length + n <= Capacity /\ items' = Stored(b, n) /\ length' = length + n
  BY <1>1
<1>3. Contents' = Contents \o [j \in 1 .. n |-> b[j]]
  BY <1>2, PushRing DEF RingPush
<1>4. Len(Contents) = length
  BY ContentsType
<1>5. n \in 1 .. Capacity - Len(Contents)
  BY <1>2, <1>4 DEF TypeOK, QueueAssumption
<1>6. [j \in 1 .. n |-> b[j]] \in [1 .. n -> Item]
  OBVIOUS
<1> QED
  BY <1>3, <1>5, <1>6 DEF RingPush, Abstract!Push

\* A pop of the ring is a pop of the abstract queue.
LEMMA RingPopTakesOldest ==
    ASSUME QueueAssumption, TypeOK, SlotsInUse, RingPop
    PROVE  Abstract!Pop
<1>1. PICK n \in 1 .. length :
         items' = Cleared(n) /\ head' = Slot(n) /\ length' = length - n
  BY DEF RingPop
<1>2. Contents' = SubSeq(Contents, n + 1, length)
  BY <1>1, PopRing
<1>3. Len(Contents) = length
  BY ContentsType
<1> QED
  BY <1>2, <1>3 DEF RingPop, Abstract!Pop

\* The ring implements the bounded first-in first-out queue: every push
\* appends its packets in order while there is room and the queue is open,
\* every pop takes the oldest packets, and nothing else changes what the
\* queue contains, wherever head is in the ring.
THEOREM RingImplementsFifo == Spec => ImplementsFifo
<1>1. Init => Abstract!Init
  <2> SUFFICES ASSUME Init PROVE Contents = << >> /\ closed = FALSE
    BY DEF Abstract!Init
  <2> QED
    BY DEF Init, Contents
<1>2. QueueInv /\ [Next]_vars => [Abstract!Next]_Abstract!fifoVars
  <2> SUFFICES ASSUME QueueInv, [Next]_vars
               PROVE  Abstract!Next \/ UNCHANGED <<Contents, closed>>
    BY DEF Abstract!fifoVars
  <2> USE QueueAssumption DEF QueueInv
  <2>1. CASE RingPush
    BY <2>1, RingPushAppends DEF Abstract!Next
  <2>2. CASE RingPop
    BY <2>2, RingPopTakesOldest DEF Abstract!Next
  <2>3. CASE UNCHANGED ring /\ closed' \in {closed, TRUE}
    <3>1. Contents' = Contents
      BY <2>3 DEF ring, Contents, Slot
    <3> QED
      BY <2>3, <3>1 DEF Abstract!Next, Abstract!Close
  <2>4. CASE UNCHANGED vars
    <3>1. Contents' = Contents
      BY <2>4 DEF vars, Contents, Slot
    <3> QED
      BY <2>4, <3>1 DEF vars
  <2> QED
    BY <2>1, <2>2, <2>3, <2>4, RingStep
<1> QED
  BY <1>1, <1>2, Invariant, PTL DEF Spec, ImplementsFifo, Abstract!Spec
=============================================================================
