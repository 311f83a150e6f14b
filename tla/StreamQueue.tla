---------------------------- MODULE StreamQueue ----------------------------
(***************************************************************************)
(* The ring that carries streams between application threads and the      *)
(* stack thread (user_stream_queue of user_buffer.c: acceptq, sendq, ackq, *)
(* closeq, resetq, connectq, destroyq).  It has no lock: _head and _tail   *)
(* are volatile words, so every load and every store of them, and of the   *)
(* slot between them, is a step of its own.                                *)
(***************************************************************************)
EXTENDS Integers, Sequences

CONSTANTS Stream,     \* the streams that may be enqueued
          NULL,       \* what calloc leaves in a slot, and "no stream"
          Capacity,   \* CreateStreamQueue's argument; the ring has one slot more
          Producers   \* the threads that call StreamEnqueue

ASSUME StreamAssumption == NULL \notin Stream
ASSUME CapacityAssumption == Capacity \in Nat

VARIABLES head, tail,  \* sq->_head, sq->_tail
          q,           \* sq->_q
          pc, enq,     \* each producer's position in StreamEnqueue and its h, t, stream
          cpc, deq,    \* the consumer's position in StreamDequeue and its h, stream
          result       \* the last stream StreamDequeue returned

vars == <<head, tail, q, pc, enq, cpc, deq, result>>

Index == 0..Capacity

NextIndex(i) == IF i # Capacity THEN i + 1 ELSE 0

CreateStreamQueue ==
    /\ head = 0
    /\ tail = 0
    /\ q = [i \in Index |-> NULL]

Init ==
    /\ CreateStreamQueue
    /\ pc = [p \in Producers |-> "idle"]
    /\ enq = [p \in Producers |-> [h |-> 0, t |-> 0, stream |-> NULL]]
    /\ cpc = "idle"
    /\ deq = [h |-> 0, stream |-> NULL]
    /\ result = NULL
-----------------------------------------------------------------------------
(* StreamEnqueue, a producer's load of _head, load of _tail and comparison,
   store of the slot, and store of _tail. *)

EnqueueLoadHead(p, s) ==
    /\ pc[p] = "idle"
    /\ enq' = [enq EXCEPT ![p].h = head, ![p].stream = s]
    /\ pc' = [pc EXCEPT ![p] = "head"]
    /\ UNCHANGED <<head, tail, q, cpc, deq, result>>

\* nt != h fails: "Exceed capacity of stream queue!", -1
EnqueueFull(p) ==
    /\ pc[p] = "head"
    /\ NextIndex(tail) = enq[p].h
    /\ pc' = [pc EXCEPT ![p] = "idle"]
    /\ UNCHANGED <<head, tail, q, enq, cpc, deq, result>>

EnqueueRoom(p) ==
    /\ pc[p] = "head"
    /\ NextIndex(tail) # enq[p].h
    /\ enq' = [enq EXCEPT ![p].t = tail]
    /\ pc' = [pc EXCEPT ![p] = "store"]
    /\ UNCHANGED <<head, tail, q, cpc, deq, result>>

EnqueueStore(p) ==
    /\ pc[p] = "store"
    /\ q' = [q EXCEPT ![enq[p].t] = enq[p].stream]
    /\ pc' = [pc EXCEPT ![p] = "publish"]
    /\ UNCHANGED <<head, tail, enq, cpc, deq, result>>

EnqueuePublish(p) ==
    /\ pc[p] = "publish"
    /\ tail' = NextIndex(enq[p].t)
    /\ pc' = [pc EXCEPT ![p] = "idle"]
    /\ UNCHANGED <<head, q, enq, cpc, deq, result>>

StreamEnqueue(p) ==
    \/ \E s \in Stream : EnqueueLoadHead(p, s)
    \/ EnqueueFull(p)
    \/ EnqueueRoom(p)
    \/ EnqueueStore(p)
    \/ EnqueuePublish(p)
-----------------------------------------------------------------------------
(* StreamDequeue, the one consumer's load of _head, load of _tail and
   comparison, load of the slot, and store of _head. *)

DequeueLoadHead ==
    /\ cpc = "idle"
    /\ deq' = [deq EXCEPT !.h = head]
    /\ cpc' = "head"
    /\ UNCHANGED <<head, tail, q, pc, enq, result>>

\* h == t: StreamDequeue returns NULL and the caller's loop ends
DequeueEmpty ==
    /\ cpc = "head"
    /\ deq.h = tail
    /\ cpc' = "idle"
    /\ UNCHANGED <<head, tail, q, pc, enq, deq, result>>

\* Mut...: the definition below with a plausible bug, for the mutation runs.
MutDequeueNonEmpty ==  \* no test for the empty queue
    /\ cpc = "head"
    /\ cpc' = "load"
    /\ UNCHANGED <<head, tail, q, pc, enq, deq, result>>
DequeueNonEmpty ==
    /\ cpc = "head"
    /\ deq.h # tail
    /\ cpc' = "load"
    /\ UNCHANGED <<head, tail, q, pc, enq, deq, result>>

MutDequeueLoadSlot ==  \* _head published before the slot is read
    /\ cpc = "load"
    /\ head' = NextIndex(deq.h)
    /\ deq' = [deq EXCEPT !.stream = q[deq.h]]
    /\ cpc' = "publish"
    /\ UNCHANGED <<tail, q, pc, enq, result>>
DequeueLoadSlot ==
    /\ cpc = "load"
    /\ deq' = [deq EXCEPT !.stream = q[deq.h]]
    /\ cpc' = "publish"
    /\ UNCHANGED <<head, tail, q, pc, enq, result>>

MutDequeuePublish ==  \* _head not advanced
    /\ cpc = "publish"
    /\ result' = deq.stream
    /\ cpc' = "idle"
    /\ UNCHANGED <<head, tail, q, pc, enq, deq>>
DequeuePublish ==
    /\ cpc = "publish"
    /\ head' = NextIndex(deq.h)
    /\ result' = deq.stream
    /\ cpc' = "idle"
    /\ UNCHANGED <<tail, q, pc, enq, deq>>

StreamDequeue ==
    \/ DequeueLoadHead
    \/ DequeueEmpty
    \/ DequeueNonEmpty
    \/ DequeueLoadSlot
    \/ DequeuePublish
-----------------------------------------------------------------------------
Next == StreamDequeue \/ \E p \in Producers : StreamEnqueue(p)

Spec == Init /\ [][Next]_vars
-----------------------------------------------------------------------------
TypeOK ==
    /\ head \in Index
    /\ tail \in Index
    /\ q \in [Index -> Stream \cup {NULL}]
    /\ pc \in [Producers -> {"idle", "head", "store", "publish"}]
    /\ enq \in [Producers -> [h : Index, t : Index, stream : Stream \cup {NULL}]]
    /\ cpc \in {"idle", "head", "load", "publish"}
    /\ deq \in [h : Index, stream : Stream \cup {NULL}]
    /\ result \in Stream \cup {NULL}

\* The slots published and not yet taken, oldest first.
Count == IF head <= tail THEN tail - head ELSE tail + Capacity + 1 - head
Slot(k) == IF head + k <= Capacity THEN head + k ELSE head + k - Capacity - 1
Contents == [k \in 1..Count |-> q[Slot(k - 1)]]

(* The assert(stream) of StreamDequeue (user_buffer.c): a dequeue that saw
   _head # _tail never hands over an empty slot. *)
AssertStream == cpc = "publish" => deq.stream # NULL

(* A producer that passed the capacity check writes a slot outside the
   unread part of the ring, although the head it compared with is stale by
   the time it stores. *)
NoOverwrite ==
    \A p \in Producers : pc[p] = "store" =>
        \A k \in 0..(Count - 1) : Slot(k) # enq[p].t

(* With one producer and one consumer the ring is a bounded FIFO queue:
   nothing lost, duplicated or reordered, and never more than Capacity. *)
F == INSTANCE Fifo WITH Elem <- Stream, NoElem <- NULL, Bound <- Capacity,
                        items <- Contents, out <- result
ImplementsFifo == F!Spec
-----------------------------------------------------------------------------
\* The inductive invariant behind these properties, for a single producer.
ProducerInv ==
    \A p \in Producers :
        /\ pc[p] # "idle" => enq[p].stream \in Stream
        /\ pc[p] = "head" => enq[p].h = head \/ head # NextIndex(tail)
        /\ pc[p] \in {"store", "publish"} =>
                enq[p].t = tail /\ head # NextIndex(tail)
        /\ pc[p] = "publish" => q[tail] = enq[p].stream

ConsumerInv ==
    /\ cpc # "idle" => deq.h = head
    /\ cpc \in {"load", "publish"} => head # tail
    /\ cpc = "publish" => deq.stream = q[head]

Unread(i) == IF head <= tail THEN head <= i /\ i < tail
                             ELSE head <= i \/ i < tail

UnreadInv == \A i \in Index : Unread(i) => q[i] \in Stream

(* What makes the two stale indices harmless: the head a producer compared
   with may lag but never lets it reach an unread slot, the consumer's slot is
   still the oldest unread one when _head is published, and every unread slot
   holds a stream. *)
RingInv == ProducerInv /\ ConsumerInv /\ UnreadInv
=============================================================================
