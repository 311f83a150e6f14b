----------------------------- MODULE RecvBuffer -----------------------------
(***************************************************************************)
(* The receive buffer of one stream (user_ring_buffer of user_buffer.c):    *)
(* the stack thread puts segments into it in the order they come            *)
(* (user_tcp_process_payload), the application copies out what is           *)
(* contiguous (user_copy_to_user).  read_lock makes RBPut and RBRemove       *)
(* atomic; the window test before RBPut is made without it.                 *)
(*                                                                          *)
(* Sequence numbers are modulo Modulus and compared as the code compares     *)
(* them.  A byte is named by its sequence number.                           *)
(***************************************************************************)
EXTENDS Integers, Sequences, SequencesExt

CONSTANTS Size,     \* rbm->chunk_size
          InitWnd,  \* the first rcv_wnd, TCP_INITIAL_WINDOW
          Modulus,   \* 2^32
          NoByte    \* what a cell of data holds before it is written

ASSUME SizeAssumption == Size \in Nat \ {0} /\ InitWnd \in Nat
ASSUME SeqAssumption == Modulus \in Nat /\ InitWnd < Modulus \div 2 /\ Size < Modulus \div 2
ASSUME NoByteAssumption == NoByte \notin 0..(Modulus - 1)

VARIABLES ring,      \* the user_ring_buffer; head is data + head_offset
          data,      \* its data
          rcv_nxt,
          rcv_wnd,
          seg,       \* the segment that passed the window test, or {}
          dropping,  \* the stream is in FIN_WAIT_1 or FIN_WAIT_2
          err        \* an assert that failed

vars == <<ring, data, rcv_nxt, rcv_wnd, seg, dropping, err>>

SeqNo == 0..(Modulus - 1)
Plus(a, n) == (a + n) % Modulus
Minus(a, b) == (a - b) % Modulus
-----------------------------------------------------------------------------
(* The list of fragments. *)

MAXSEQ == Modulus - 1
Before(a, b) == Minus(b, a) <= MAXSEQ \div 2
GetMinSeq(a, b) == IF Before(a, b) THEN a ELSE b
GetMaxSeq(a, b) == IF Before(a, b) THEN b ELSE a

MutCanMerge(a, b) ==  \* without the + 1: neighbours stay apart
    ~ \/ Before(Plus(a.seq, a.len), b.seq)
      \/ Before(Plus(b.seq, b.len), a.seq)
CanMerge(a, b) ==
    ~ \/ Before(Plus(a.seq, a.len + 1), b.seq)
      \/ Before(Plus(b.seq, b.len + 1), a.seq)

MergeFragments(a, b) ==
    LET min == GetMinSeq(a.seq, b.seq)
        max == GetMaxSeq(Plus(a.seq, a.len), Plus(b.seq, b.len))
    IN  [seq |-> min, len |-> Minus(max, min)]

(* One pass of RBPut's loop over the list: t.list is the list up to iter, t.new
   is new_ctx, which is the last item of t.list once it was merged. *)
Visit(frag, t, iter) ==
    CASE t.stop ->
           [t EXCEPT !.list = Append(@, iter)]
      [] ~t.stop /\ CanMerge(t.new, iter) ->
           LET one == MergeFragments(t.new, iter)
           IN  [t EXCEPT !.list = Append(IF t.merged THEN Front(@) ELSE @, one),
                         !.new = one, !.merged = TRUE]
      [] OTHER ->
           LET stop == t.merged \/ Before(Plus(frag.seq, frag.len), iter.seq)
           IN  [t EXCEPT !.list = Append(@, iter), !.stop = stop,
                         !.passed = IF stop THEN @ ELSE @ + 1]

Traverse(fctx, frag) ==
    LET start == [list |-> <<>>, new |-> frag, merged |-> FALSE, stop |-> FALSE, passed |-> 0]
        pass[n \in 0..Len(fctx)] ==
            IF n = 0 THEN start ELSE Visit(frag, pass[n - 1], fctx[n])
    IN  pass[Len(fctx)]

AtFront(fctx, frag) == fctx = <<>> \/ Before(frag.seq, fctx[1].seq)

MutInsertFragment(fctx, frag) ==  \* before prev instead of behind it
    LET t == Traverse(fctx, frag)
    IN  CASE t.merged -> t.list
          [] ~t.merged /\ AtFront(fctx, frag) -> <<frag>> \o fctx
          [] OTHER -> InsertAt(fctx, t.passed, frag)
InsertFragment(fctx, frag) ==
    LET t == Traverse(fctx, frag)
    IN  CASE t.merged -> t.list
          [] ~t.merged /\ AtFront(fctx, frag) -> <<frag>> \o fctx
          [] OTHER -> InsertAt(fctx, t.passed + 1, frag)

\* assert(GetMinSeq(cur_seq, prev->seq + prev->len) == prev->seq + prev->len)
InsertAssert(fctx, frag) ==
    LET t == Traverse(fctx, frag)
    IN  t.merged \/ AtFront(fctx, frag)
        \/ Before(Plus(fctx[t.passed].seq, fctx[t.passed].len), frag.seq)
-----------------------------------------------------------------------------
(* RBPut and RBRemove. *)

\* if the segment would reach the end of data, what is held moves to its start
Moves(rb, end_off) == Size <= rb.head_offset + end_off

MoveToFront(rb, end_off) ==
    IF Moves(rb, end_off)
    THEN [rb EXCEPT !.tail_offset = @ - rb.head_offset, !.head_offset = 0]
    ELSE rb

EndOff(rb, s) == Minus(s.seq, rb.head_seq) + s.len

\* what RBPut stores: nothing that starts before head_seq (0), nothing beyond
\* the buffer (-2)
Accepted(rb, s) == Before(rb.head_seq, s.seq) /\ EndOff(rb, s) <= Size

Stored(rb, s) ==
    LET end_off == EndOff(rb, s)
        moved == MoveToFront(rb, end_off)
        end == moved.head_offset + end_off
        tail == IF moved.tail_offset < end THEN end ELSE moved.tail_offset
        fctx == InsertFragment(rb.fctx, s)
    IN  [moved EXCEPT
            !.tail_offset = tail,
            !.last_len = tail - moved.head_offset,
            !.fctx = fctx,
            !.merged_len = IF rb.head_seq = fctx[1].seq THEN fctx[1].len ELSE @]

\* the memmove and the memcpy of RBPut
Copied(rb, s) ==
    LET end_off == EndOff(rb, s)
        first == MoveToFront(rb, end_off).head_offset + end_off - s.len
        Moved(i) == IF Moves(rb, end_off) /\ i < rb.last_len
                    THEN data[i + rb.head_offset] ELSE data[i]
    IN  [i \in DOMAIN data |-> IF i \in first..(first + s.len - 1)
                               THEN Plus(s.seq, i - first) ELSE Moved(i)]

RBPut(rb, s) == IF Accepted(rb, s) THEN Stored(rb, s) ELSE rb

MutRBRemove(rb, len) ==  \* last_len not updated
    IF len = 0 THEN rb
    ELSE [rb EXCEPT
            !.head_offset = len,
            !.head_seq = Plus(@, len),
            !.merged_len = @ - len,
            !.fctx = IF len = @[1].len THEN Tail(@)
                     ELSE <<[seq |-> Plus(@[1].seq, len), len |-> @[1].len - len]>>
                          \o Tail(@)]
\* head_offset is set, not advanced
RBRemove(rb, len) ==
    IF len = 0 THEN rb
    ELSE [rb EXCEPT
            !.head_offset = len,
            !.head_seq = Plus(@, len),
            !.merged_len = @ - len,
            !.last_len = @ - len,
            !.fctx = IF len = @[1].len THEN Tail(@)
                     ELSE <<[seq |-> Plus(@[1].seq, len), len |-> @[1].len - len]>>
                          \o Tail(@)]

\* the last branch of RBRemove is assert(0)
RemoveAssert(rb, len) == len = 0 \/ len <= rb.fctx[1].len
-----------------------------------------------------------------------------
(* The two threads. *)

MutInWindow(s) ==  \* the end is not tested
    Before(rcv_nxt, Plus(s.seq, s.len))
\* the two tests of user_tcp_process_payload
InWindow(s) ==
    LET end == Plus(s.seq, s.len)
    IN  Before(rcv_nxt, end) /\ Before(end, Plus(rcv_nxt, rcv_wnd))

\* A segment arrives; a sender may send and send again what starts at most Size
\* bytes behind rcv_nxt and ends at most InitWnd bytes beyond it.
CheckPayload(s) ==
    /\ err = "none" /\ seg = {}
    /\ InWindow(s)
    /\ seg' = {s}
    /\ UNCHANGED <<ring, data, rcv_nxt, rcv_wnd, dropping, err>>

MutPutPayload ==  \* rcv_nxt follows the segment
    \E s \in seg :
        LET put == RBPut(ring, s)
            rest == IF dropping THEN RBRemove(put, put.merged_len) ELSE put
        IN  /\ err = "none"
            /\ err' = IF /\ Accepted(ring, s) => InsertAssert(ring.fctx, s)
                         /\ dropping => RemoveAssert(put, put.merged_len)
                      THEN "none" ELSE "assert"
            /\ ring' = rest
            /\ data' = IF Accepted(ring, s) THEN Copied(ring, s) ELSE data
            /\ rcv_nxt' = Plus(s.seq, s.len)
            /\ rcv_wnd' = Size - rest.merged_len
            /\ seg' = {}
            /\ UNCHANGED dropping
\* the part under read_lock
PutPayload ==
    \E s \in seg :
        LET put == RBPut(ring, s)
            rest == IF dropping THEN RBRemove(put, put.merged_len) ELSE put
        IN  /\ err = "none"
            /\ err' = IF /\ Accepted(ring, s) => InsertAssert(ring.fctx, s)
                         /\ dropping => RemoveAssert(put, put.merged_len)
                      THEN "none" ELSE "assert"
            /\ ring' = rest
            /\ data' = IF Accepted(ring, s) THEN Copied(ring, s) ELSE data
            /\ rcv_nxt' = Plus(rest.head_seq, rest.merged_len)
            /\ rcv_wnd' = Size - rest.merged_len
            /\ seg' = {}
            /\ UNCHANGED dropping

\* recv of len bytes or fewer; copylen is what there is of them
CopyToUser(copylen) ==
    /\ err = "none" /\ ~dropping
    /\ copylen \in 1..ring.merged_len
    /\ err' = IF RemoveAssert(ring, copylen) THEN "none" ELSE "assert"
    /\ ring' = RBRemove(ring, copylen)
    /\ rcv_wnd' = Size - ring'.merged_len
    /\ UNCHANGED <<data, rcv_nxt, seg, dropping>>

\* the stack thread handles close: the state becomes FIN_WAIT_1
Close ==
    /\ err = "none" /\ ~dropping /\ seg = {}
    /\ dropping' = TRUE
    /\ UNCHANGED <<ring, data, rcv_nxt, rcv_wnd, seg, err>>
-----------------------------------------------------------------------------
RBInit(init_seq) ==
    [head_offset |-> 0, tail_offset |-> 0, merged_len |-> 0, last_len |-> 0,
     head_seq |-> init_seq, fctx |-> <<>>]

Init ==
    /\ ring = RBInit(0)
    /\ data = [i \in 0..(Size - 1) |-> NoByte]
    /\ rcv_nxt = ring.head_seq
    /\ rcv_wnd = InitWnd
    /\ seg = {}
    /\ dropping = FALSE
    /\ err = "none"

\* Segments of at most Size bytes around rcv_nxt.
Segments ==
    {[seq |-> Plus(rcv_nxt, from), len |-> len] :
        from \in (-Size)..InitWnd, len \in 1..Size}

Next ==
    \/ \E s \in Segments : CheckPayload(s)
    \/ PutPayload
    \/ \E copylen \in 1..Size : CopyToUser(copylen)
    \/ Close

Spec == Init /\ [][Next]_vars
-----------------------------------------------------------------------------
Fragment == [seq : SeqNo, len : 1..Size]
Ring == [head_offset : 0..Size, tail_offset : 0..Size, merged_len : 0..Size,
         last_len : 0..Size, head_seq : SeqNo, fctx : Seq(Fragment)]

TypeOK ==
    /\ data \in [0..(Size - 1) -> SeqNo \cup {NoByte}]
    /\ ring \in Ring
    /\ rcv_nxt \in SeqNo
    /\ rcv_wnd \in 0..InitWnd \cup 0..Size
    /\ seg \subseteq Fragment
    /\ dropping \in BOOLEAN
    /\ err \in {"none", "assert"}

(* Neither the assert that a fragment goes behind its predecessor nor the one
   that RBRemove takes no more than the first fragment fails. *)
NoAssertFails == err = "none"

(* What memmove reads lies between the head and the tail of data, and the tail
   is never before what is still to be read, though head_offset is wrong after
   the second RBRemove. *)
MemoryInBounds ==
    /\ ring.head_offset + ring.last_len <= ring.tail_offset
    /\ ring.merged_len <= ring.last_len

(* A segment that passed the window test fits when read_lock is taken, whatever
   the application read in between; only the first window is larger than the
   buffer. *)
WindowFits ==
    rcv_wnd <= Size => \A s \in seg : Before(ring.head_seq, s.seq) => EndOff(ring, s) <= Size

(* Every byte that is acknowledged, the ones before rcv_nxt, was read or is in the
   buffer: nothing is acknowledged across a hole. *)
OffsetFrom(h, a) == IF Before(h, a) THEN Minus(a, h) ELSE Minus(a, h) - Modulus
Offset(a) == OffsetFrom(ring.head_seq, a)
HeldIn(rb) == UNION {{OffsetFrom(rb.head_seq, rb.fctx[i].seq) + k : k \in 0..(rb.fctx[i].len - 1)} :
                        i \in DOMAIN rb.fctx}
Held == HeldIn(ring)
AckedIsHeld == 0..(Offset(rcv_nxt) - 1) \subseteq Held

(* The list of fragments holds the bytes that came, merged_len the ones before
   the first hole, however segments overlap, repeat and overtake each other and
   wherever the sequence numbers wrap. *)
Coming == {[lo |-> Offset(s.seq), len |-> s.len] : s \in seg}
Reassemble == INSTANCE Reassembly
                WITH coming <- Coming, bytes <- Held, readable <- ring.merged_len
ImplementsReassembly == Reassemble!Spec

(* What recv copies is the stream. *)
BytesInPlace ==
    \A k \in 0..(ring.merged_len - 1) :
        data[ring.head_offset + k] = Plus(ring.head_seq, k)
-----------------------------------------------------------------------------
(* The inductive invariant. *)

\* where a fragment starts and ends, counted from h
From(h, f) == Minus(f.seq, h)
End(h, f) == From(h, f) + f.len

InBuffer(h, f) == f \in Fragment /\ End(h, f) <= Size

\* fragments in order, with a hole between any two
Gapped(h, l) ==
    /\ l \in Seq(Fragment)
    /\ \A i \in DOMAIN l : InBuffer(h, l[i])
    /\ \A i, j \in DOMAIN l : i < j => End(h, l[i]) < From(h, l[j])

\* the fragment that starts at h, if there is one
Merged(h, l) == IF l # <<>> /\ l[1].seq = h THEN l[1].len ELSE 0

RingInv(rb) ==
    /\ rb \in Ring
    /\ Gapped(rb.head_seq, rb.fctx)
    /\ rb.merged_len = Merged(rb.head_seq, rb.fctx)
    /\ \A i \in DOMAIN rb.fctx : End(rb.head_seq, rb.fctx[i]) <= rb.last_len
    /\ rb.head_offset + rb.last_len <= rb.tail_offset

\* the first window is given before the first byte came
WindowInv ==
    \/ rcv_wnd = Size - ring.merged_len
    \/ rcv_wnd = InitWnd /\ ring.merged_len = 0

\* a segment keeps its distance from rcv_nxt, which only PutPayload moves
SegInv ==
    /\ \A s, u \in seg : s = u
    /\ \A s \in seg : \E from \in (-Size)..InitWnd :
         /\ s \in [seq : {Plus(rcv_nxt, from)}, len : 1..Size]
         /\ 0 <= from + s.len /\ from + s.len <= rcv_wnd

IInv ==
    /\ TypeOK
    /\ RingInv(ring)
    /\ rcv_nxt = Plus(ring.head_seq, ring.merged_len)
    /\ WindowInv
    /\ SegInv
    /\ err = "none"
=============================================================================
