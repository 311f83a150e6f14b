------------------------- MODULE StreamQueueProofs -------------------------
(***************************************************************************)
(* For every capacity and every set of streams, a ring with one producer   *)
(* keeps its slots apart: theorems about StreamQueue.                      *)
(***************************************************************************)
EXTENDS StreamQueue, TLAPS

SingleProducer == \E p : Producers = {p}

(* The variables of StreamQueue always have the types the C declarations and
   the arithmetic of NextIndex give them, however many producers there are. *)
THEOREM TypeCorrect == Spec => []TypeOK
<1>1. Init => TypeOK
  BY CapacityAssumption DEF Init, CreateStreamQueue, TypeOK, Index
<1>2. TypeOK /\ [Next]_vars => TypeOK'
  <2> SUFFICES ASSUME TypeOK, [Next]_vars PROVE TypeOK'
    OBVIOUS
  <2> USE CapacityAssumption DEF TypeOK, Index, NextIndex
  <2>1. ASSUME NEW p \in Producers, StreamEnqueue(p) PROVE TypeOK'
    <3>1. ASSUME NEW s \in Stream, EnqueueLoadHead(p, s) PROVE TypeOK'
      BY <3>1 DEF EnqueueLoadHead
    <3>2. CASE EnqueueFull(p)
      BY <3>2 DEF EnqueueFull
    <3>3. CASE EnqueueRoom(p)
      BY <3>3 DEF EnqueueRoom
    <3>4. CASE EnqueueStore(p)
      BY <3>4 DEF EnqueueStore
    <3>5. CASE EnqueuePublish(p)
      BY <3>5 DEF EnqueuePublish
    <3> QED
      BY <2>1, <3>1, <3>2, <3>3, <3>4, <3>5 DEF StreamEnqueue
  <2>2. CASE StreamDequeue
    BY <2>2 DEF StreamDequeue, DequeueLoadHead, DequeueEmpty, DequeueNonEmpty,
                DequeueLoadSlot, DequeuePublish
  <2>3. CASE UNCHANGED vars
    BY <2>3 DEF vars
  <2> QED
    BY <2>1, <2>2, <2>3 DEF Next
<1> QED
  BY <1>1, <1>2, PTL DEF Spec

\* NextIndex stays in the ring and maps no two slots to one.
LEMMA NextIndexInjective ==
  ASSUME NEW i \in Index, NEW j \in Index
  PROVE  /\ NextIndex(i) \in Index
         /\ NextIndex(i) = NextIndex(j) => i = j
BY CapacityAssumption DEF Index, NextIndex

(* The inductive step of RingInv: with one producer, each half of an enqueue
   or of a dequeue keeps the stale copies of _head and _tail harmless. *)
LEMMA RingStep ==
  ASSUME SingleProducer, TypeOK, TypeOK', RingInv, [Next]_vars
  PROVE  RingInv'
<1> USE CapacityAssumption, StreamAssumption
<1>1. PICK prod : Producers = {prod}
  BY DEF SingleProducer
<1>2. ASSUME NEW p \in Producers, NEW s \in Stream, EnqueueLoadHead(p, s)
      PROVE  RingInv'
  BY <1>1, <1>2 DEF EnqueueLoadHead, RingInv, ProducerInv, ConsumerInv,
                    UnreadInv, Unread, TypeOK
<1>3. ASSUME NEW p \in Producers, EnqueueFull(p) PROVE RingInv'
  BY <1>1, <1>3 DEF EnqueueFull, RingInv, ProducerInv, ConsumerInv,
                    UnreadInv, Unread, TypeOK
<1>4. ASSUME NEW p \in Producers, EnqueueRoom(p) PROVE RingInv'
  BY <1>1, <1>4 DEF EnqueueRoom, RingInv, ProducerInv, ConsumerInv,
                    UnreadInv, Unread, TypeOK
<1>5. ASSUME NEW p \in Producers, EnqueueStore(p) PROVE RingInv'
  <2>1. /\ enq[p].t = tail
        /\ enq[p].stream \in Stream
        /\ q' = [q EXCEPT ![tail] = enq[p].stream]
    BY <1>5 DEF EnqueueStore, RingInv, ProducerInv
  <2>2. ProducerInv'
    BY <1>1, <1>5, <2>1 DEF EnqueueStore, RingInv, ProducerInv, TypeOK
  <2>3. ConsumerInv'
    BY <1>5, <2>1 DEF EnqueueStore, RingInv, ConsumerInv, TypeOK
  <2>4. UnreadInv'
    BY <1>5, <2>1 DEF EnqueueStore, RingInv, UnreadInv, Unread, TypeOK
  <2> QED
    BY <2>2, <2>3, <2>4 DEF RingInv
<1>6. ASSUME NEW p \in Producers, EnqueuePublish(p) PROVE RingInv'
  <2>1. /\ enq[p].t = tail
        /\ q[tail] \in Stream
        /\ head # NextIndex(tail)
        /\ tail' = NextIndex(tail)
        /\ UNCHANGED <<head, q, enq, cpc, deq>>
        /\ pc' = [pc EXCEPT ![p] = "idle"]
    BY <1>6 DEF EnqueuePublish, RingInv, ProducerInv
  <2>2. ProducerInv'
    BY <1>1, <2>1 DEF ProducerInv, TypeOK
  <2>3. ConsumerInv'
    BY <2>1 DEF RingInv, ConsumerInv
  <2>4. UnreadInv'
    BY <2>1 DEF RingInv, UnreadInv, Unread, TypeOK, NextIndex, Index
  <2> QED
    BY <2>2, <2>3, <2>4 DEF RingInv
<1>7. CASE DequeueLoadHead \/ DequeueEmpty \/ DequeueNonEmpty \/ DequeueLoadSlot
  <2>1. UNCHANGED <<head, tail, q, pc, enq>>
    BY <1>7 DEF DequeueLoadHead, DequeueEmpty, DequeueNonEmpty, DequeueLoadSlot
  <2>2. ProducerInv' /\ UnreadInv'
    BY <2>1 DEF RingInv, ProducerInv, UnreadInv, Unread
  <2>3. ConsumerInv'
    BY <1>7 DEF DequeueLoadHead, DequeueEmpty, DequeueNonEmpty,
                DequeueLoadSlot, RingInv, ConsumerInv, TypeOK
  <2> QED
    BY <2>2, <2>3 DEF RingInv
<1>8. CASE DequeuePublish
  <2>1. /\ head # tail
        /\ head' = NextIndex(head)
        /\ cpc' = "idle"
        /\ UNCHANGED <<tail, q, pc, enq>>
    BY <1>8 DEF DequeuePublish, RingInv, ConsumerInv
  <2>2. NextIndex(head) # NextIndex(tail)
    BY <2>1, NextIndexInjective DEF TypeOK
  <2>3. ProducerInv'
    BY <2>1, <2>2 DEF RingInv, ProducerInv
  <2>4. ConsumerInv'
    BY <2>1 DEF ConsumerInv
  <2>5. UnreadInv'
    BY <2>1 DEF RingInv, UnreadInv, Unread, TypeOK, NextIndex, Index
  <2> QED
    BY <2>3, <2>4, <2>5 DEF RingInv
<1>9. CASE UNCHANGED vars
  BY <1>9 DEF vars, RingInv, ProducerInv, ConsumerInv, UnreadInv, Unread
<1> QED
  BY <1>2, <1>3, <1>4, <1>5, <1>6, <1>7, <1>8, <1>9
     DEF Next, StreamEnqueue, StreamDequeue

(* With one producer and one consumer the invariant holds for every capacity,
   0 (listen with a backlog of 0) included. *)
THEOREM RingInvariant ==
  ASSUME SingleProducer
  PROVE  Spec => []RingInv
<1>1. Init => RingInv
  BY CapacityAssumption
     DEF Init, CreateStreamQueue, RingInv, ProducerInv, ConsumerInv, UnreadInv,
         Unread, Index
<1>2. TypeOK /\ TypeOK' /\ RingInv /\ [Next]_vars => RingInv'
  BY RingStep
<1> QED
  BY <1>1, <1>2, TypeCorrect, PTL DEF Spec

(* The assert(stream) of StreamDequeue never fires while one thread enqueues. *)
THEOREM AssertNeverFires ==
  ASSUME SingleProducer
  PROVE  Spec => []AssertStream
<1>1. TypeOK /\ RingInv => AssertStream
  BY StreamAssumption DEF TypeOK, RingInv, ConsumerInv, UnreadInv, Unread,
                          AssertStream, Index
<1> QED
  BY <1>1, TypeCorrect, RingInvariant, PTL

(* A stale head never lets the producer store into an unread slot. *)
THEOREM UnreadSlotsKept ==
  ASSUME SingleProducer
  PROVE  Spec => []NoOverwrite
<1>1. TypeOK /\ RingInv => NoOverwrite
  BY CapacityAssumption DEF TypeOK, RingInv, ProducerInv, NoOverwrite, Count,
                            Slot, Index, NextIndex
<1> QED
  BY <1>1, TypeCorrect, RingInvariant, PTL
-----------------------------------------------------------------------------
(* The ring implements the queue of Fifo. *)

\* What the mapping of items is: a sequence of Count streams.
ContentsOK ==
    /\ Count \in 0..Capacity
    /\ Contents \in Seq(Stream)
    /\ Len(Contents) = Count

\* What the ring holds, between head and tail, is a sequence of streams.
LEMMA ContentsType == TypeOK /\ RingInv => ContentsOK
<1> SUFFICES ASSUME TypeOK, RingInv PROVE ContentsOK
  OBVIOUS
<1>1. Count \in 0..Capacity
  BY CapacityAssumption DEF TypeOK, Index, Count
<1>2. \A k \in 0..(Count - 1) : Slot(k) \in Index /\ Unread(Slot(k))
  BY CapacityAssumption DEF TypeOK, Index, Count, Slot, Unread
<1>3. \A k \in 1..Count : q[Slot(k - 1)] \in Stream
  BY <1>1, <1>2 DEF RingInv, UnreadInv
<1>4. Contents \in [1..Count -> Stream]
  BY <1>3 DEF Contents
<1> QED
  BY <1>1, <1>4 DEF ContentsOK

\* Two sequences of one length with the same elements are one sequence.
LEMMA SameSequence ==
  ASSUME NEW S, NEW s \in Seq(S), NEW t \in Seq(S), Len(s) = Len(t),
         \A k \in 1..Len(s) : s[k] = t[k]
  PROVE  s = t
OBVIOUS

\* A step that leaves the indices, the unread slots and result alone stutters.
LEMMA StutterStep ==
  ASSUME TypeOK, RingInv, UNCHANGED <<head, tail, result>>,
         \A i \in Index : Unread(i) => q'[i] = q[i]
  PROVE  UNCHANGED <<Contents, result>>
<1>1. Count' = Count /\ \A k : Slot(k)' = Slot(k)
  BY DEF Count, Slot
<1>2. \A k \in 1..Count : q'[Slot(k - 1)] = q[Slot(k - 1)]
  BY CapacityAssumption DEF TypeOK, Index, Count, Slot, Unread
<1> QED
  BY <1>1, <1>2 DEF Contents

\* Publishing _tail appends the stream that the producer stored.
LEMMA PublishIsPut ==
  ASSUME TypeOK, TypeOK', RingInv, RingInv', NEW p \in Producers,
         EnqueuePublish(p)
  PROVE  F!Put(enq[p].stream)
<1> USE CapacityAssumption
<1>1. /\ enq[p].t = tail
      /\ q[tail] = enq[p].stream
      /\ head # NextIndex(tail)
      /\ tail' = NextIndex(tail)
      /\ UNCHANGED <<head, q, result>>
      /\ enq[p].stream \in Stream
  BY DEF EnqueuePublish, RingInv, ProducerInv
<1>2. Count' = Count + 1 /\ Count < Capacity /\ Slot(Count) = tail
  BY <1>1 DEF Count, Slot, TypeOK, Index, NextIndex
<1>3. \A k : Slot(k)' = Slot(k)
  BY <1>1 DEF Slot
<1>4. Contents \in Seq(Stream) /\ Len(Contents) = Count /\ Count \in Nat
  BY ContentsType DEF ContentsOK
<1>5. Contents' \in Seq(Stream) /\ Len(Contents') = Count'
  <2>1. ContentsOK'
    BY ContentsType, PTL
  <2> QED
    BY <2>1 DEF ContentsOK
<1>6. Contents' = Append(Contents, enq[p].stream)
  <2> DEFINE A == Append(Contents, enq[p].stream)
  <2>1. A \in Seq(Stream) /\ Len(A) = Count + 1
    BY <1>1, <1>4
  <2>2. ASSUME NEW k \in 1..(Count + 1) PROVE Contents'[k] = A[k]
    <3>1. Contents'[k] = q[Slot(k - 1)]
      BY <1>1, <1>2, <1>3 DEF Contents
    <3>2. CASE k = Count + 1
      BY <1>1, <1>2, <1>4, <3>1, <3>2
    <3>3. CASE k # Count + 1
      <4>1. k \in 1..Count
        BY <1>4, <3>3
      <4>2. A[k] = Contents[k]
        BY <1>4, <4>1
      <4>3. Contents[k] = q[Slot(k - 1)]
        BY <4>1 DEF Contents
      <4> QED
        BY <3>1, <4>2, <4>3
    <3> QED
      BY <3>2, <3>3
  <2> HIDE DEF A
  <2>3. Contents' = A
    BY <1>2, <1>5, <2>1, <2>2, SameSequence
  <2> QED
    BY <2>3 DEF A
<1> QED
  BY <1>1, <1>2, <1>4, <1>6 DEF F!Put

\* Publishing _head takes the oldest stream and hands it over.
LEMMA PublishIsTake ==
  ASSUME TypeOK, TypeOK', RingInv, RingInv', DequeuePublish
  PROVE  F!Take
<1> USE CapacityAssumption
<1>1. /\ head # tail
      /\ head' = NextIndex(head)
      /\ result' = q[head]
      /\ UNCHANGED <<tail, q>>
  BY DEF DequeuePublish, RingInv, ConsumerInv
<1>2. Count' = Count - 1 /\ Count > 0 /\ Slot(0) = head
  <2>1. head \in Index /\ tail \in Index /\ tail' = tail
    BY <1>1 DEF TypeOK
  <2>2. Slot(0) = head
    BY <2>1 DEF Slot, Index
  <2>3. Count' = Count - 1 /\ Count > 0
    BY <1>1, <2>1 DEF Count, Index, NextIndex
  <2> QED
    BY <2>2, <2>3
<1>3. \A k \in 1..(Count - 1) : Slot(k - 1)' = Slot(k)
  BY <1>1 DEF Count, Slot, TypeOK, Index, NextIndex
<1>4. Contents \in Seq(Stream) /\ Len(Contents) = Count /\ Count \in Nat
  BY ContentsType DEF ContentsOK
<1>5. Contents' \in Seq(Stream) /\ Len(Contents') = Count'
  <2>1. ContentsOK'
    BY ContentsType, PTL
  <2> QED
    BY <2>1 DEF ContentsOK
<1>6. Head(Contents) = q[head]
  BY <1>2, <1>4 DEF Contents
<1>7. Contents' = Tail(Contents)
  <2> DEFINE T == Tail(Contents)
  <2>1. T \in Seq(Stream) /\ Len(T) = Count - 1
    BY <1>2, <1>4
  <2>2. ASSUME NEW k \in 1..(Count - 1) PROVE Contents'[k] = T[k]
    <3>1. Contents'[k] = q[Slot(k)]
      BY <1>1, <1>2, <1>3 DEF Contents
    <3>2. T[k] = Contents[k + 1]
      BY <1>2, <1>4
    <3>3. Contents[k + 1] = q[Slot(k)]
      BY <1>4 DEF Contents
    <3> QED
      BY <3>1, <3>2, <3>3
  <2> HIDE DEF T
  <2>3. Contents' = T
    BY <1>2, <1>5, <2>1, <2>2, SameSequence
  <2> QED
    BY <2>3 DEF T
<1>8. Contents # <<>>
  BY <1>2, <1>4
<1> QED
  BY <1>1, <1>6, <1>7, <1>8 DEF F!Take

(* For every capacity the ring with one producer is a bounded FIFO queue: the
   stack thread receives exactly the streams the application thread enqueued,
   in order, none twice. *)
THEOREM RingImplementsFifo ==
  ASSUME SingleProducer
  PROVE  Spec => ImplementsFifo
<1>1. Init => F!Init
  BY DEF Init, CreateStreamQueue, F!Init, Contents, Count
<1>2. TypeOK /\ TypeOK' /\ RingInv /\ RingInv' /\ [Next]_vars
        => [F!Next]_<<Contents, result>>
  <2> SUFFICES ASSUME TypeOK, TypeOK', RingInv, RingInv', [Next]_vars
               PROVE  [F!Next]_<<Contents, result>>
    OBVIOUS
  <2>1. ASSUME NEW p \in Producers, EnqueuePublish(p)
        PROVE  F!Next
    <3>1. enq[p].stream \in Stream
      BY <2>1 DEF EnqueuePublish, RingInv, ProducerInv
    <3> QED
      BY <2>1, <3>1, PublishIsPut DEF F!Next
  <2>2. CASE DequeuePublish
    BY <2>2, PublishIsTake DEF F!Next
  <2>3. ASSUME NEW p \in Producers, EnqueueStore(p)
        PROVE  UNCHANGED <<Contents, result>>
    <3>1. ~Unread(tail)
      BY DEF Unread, TypeOK, Index
    <3>2. UNCHANGED <<head, tail, result>> /\ enq[p].t = tail
      BY <2>3 DEF EnqueueStore, RingInv, ProducerInv
    <3>3. \A i \in Index : Unread(i) => q'[i] = q[i]
      BY <2>3, <3>1, <3>2 DEF EnqueueStore, TypeOK
    <3> QED
      BY <3>2, <3>3, StutterStep
  <2>4. ASSUME UNCHANGED <<head, tail, q, result>>
        PROVE  UNCHANGED <<Contents, result>>
    BY <2>4, StutterStep
  <2>5. CASE \E p \in Producers : \/ \E s \in Stream : EnqueueLoadHead(p, s)
                                  \/ EnqueueFull(p)
                                  \/ EnqueueRoom(p)
    BY <2>4, <2>5 DEF EnqueueLoadHead, EnqueueFull, EnqueueRoom
  <2>6. CASE DequeueLoadHead \/ DequeueEmpty \/ DequeueNonEmpty \/ DequeueLoadSlot
    BY <2>4, <2>6 DEF DequeueLoadHead, DequeueEmpty, DequeueNonEmpty, DequeueLoadSlot
  <2>7. CASE UNCHANGED vars
    BY <2>4, <2>7 DEF vars
  <2> QED
    BY <2>1, <2>2, <2>3, <2>5, <2>6, <2>7
       DEF Next, StreamEnqueue, StreamDequeue
<1> QED
  BY <1>1, <1>2, TypeCorrect, RingInvariant, PTL DEF Spec, ImplementsFifo, F!Spec
=============================================================================
