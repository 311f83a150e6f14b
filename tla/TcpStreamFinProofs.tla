------------------------ MODULE TcpStreamFinProofs ------------------------
(* What holds of a connection besides the invariant of TcpStreamProofs: that the
   peer's bytes and FIN are counted in order, that the window never shrinks and
   no ACK or wake-up is lost (ReadInv), and that no byte or FIN the application
   handed over is forgotten (WriteInv).

   Most operators leave the receiving half alone, which Aside says; what the
   others do to it is followed handler by handler. *)
EXTENDS TcpStreamProofs

USE SizesAssumption

\* r is t later in a handler that did not touch the receive half, owed no ACK
\* and sent nothing.
Aside(t, r) ==
    /\ r.rcvNxt = t.rcvNxt /\ r.rhead = t.rhead /\ r.merged = t.merged
    /\ r.rcvWnd = t.rcvWnd /\ r.sent = t.sent /\ r.sock = t.sock
    /\ r.ackCnt = t.ackCnt
    /\ r.alive => t.alive /\ ("ack" \in t.lists => "ack" \in r.lists)

\* Handlers compose.
LEMMA AsideTrans ==
    ASSUME NEW t, NEW u, NEW r, Aside(t, u), Aside(u, r) PROVE Aside(t, r)
BY DEF Aside

\* the list and timer operations
LEMMA SmallAside ==
    ASSUME NEW t \in StreamType
    PROVE  /\ Aside(t, t) /\ Aside(t, AddToControl(t)) /\ Aside(t, AddToSend(t))
           /\ \A why : Aside(t, Fail(t, why))
           /\ Aside(t, AddToRTO(t)) /\ Aside(t, RemoveFromRTO(t))
           /\ Aside(t, AddToTimewait(t)) /\ Aside(t, AddToTimeout(t))
           /\ Aside(t, UpdateRetransmissionTimer(t))
           /\ Aside(t, DestroyTcpStream(t))
<1>1. \A why : Aside(t, Fail(t, why))
  BY DEF Aside, StreamType, Fail
<1>2. Aside(t, AddToControl(t)) /\ Aside(t, AddToSend(t))
  BY <1>1 DEF Aside, StreamType, AddToControl, AddToSend
<1>3. /\ Aside(t, AddToRTO(t)) /\ Aside(t, RemoveFromRTO(t))
      /\ Aside(t, AddToTimewait(t)) /\ Aside(t, UpdateRetransmissionTimer(t))
  BY DEF Aside, StreamType, AddToRTO, RemoveFromRTO, AddToTimewait, UpdateRetransmissionTimer
<1>4. Aside(t, AddToTimeout(t))
  BY <1>1 DEF Aside, StreamType, AddToTimeout
<1>5. Aside(t, DestroyTcpStream(t)) /\ Aside(t, t)
  BY DEF Aside, StreamType, DestroyTcpStream
<1> QED
  BY <1>1, <1>2, <1>3, <1>4, <1>5

\* A stream destroyed in state CLOSED is dead, whatever it was before.
LEMMA CloseAside ==
    ASSUME NEW t \in StreamType
    PROVE  LET r == CloseAndDestroy(t) IN Aside(t, r) /\ ~r.alive /\ r.state = "CLOSED"
<1> DEFINE c == [t EXCEPT !.state = "CLOSED"]
<1>1. c \in StreamType /\ Aside(t, c) /\ c.state = "CLOSED"
  BY DEF StreamType, States, Aside
<1>2. CloseAndDestroy(t) = DestroyTcpStream(c)
  BY DEF CloseAndDestroy
<1> HIDE DEF c
<1>3. /\ Aside(c, DestroyTcpStream(c)) /\ ~DestroyTcpStream(c).alive
      /\ DestroyTcpStream(c).state = c.state
  BY <1>1, SmallAside DEF StreamType, DestroyTcpStream
<1> QED
  BY <1>1, <1>2, <1>3, AsideTrans

\* process_ack works on the send buffer.
LEMMA ProcessAckAside ==
    ASSUME NEW t, Ok(t), t.state \in Transmitting \cup {"FIN_WAIT_2"}, NEW g, OkSeg(g),
           NEW dup3 \in BOOLEAN, dup3 => DupAcks
    PROVE  Aside(t, ProcessAck(t, g, dup3))
<1> DEFINE a == AckOf(t, g)
           d == [t EXCEPT !.nxt = a]
           f == FastRetransmit(t, a, g, dup3)
           n == AdvanceNxt(f, a)
           e == [n EXCEPT !.head = a, !.len = n.len - (a - n.head), !.una = a]
           p == ProcessAck(t, g, dup3)
<1>1. t \in StreamType
  BY DEF Ok
<1>2. a \in SeqNo /\ a \in 0..NxtCap
  <2>1. a \in SeqNo
    BY <1>1, AckOfType
  <2>2. SeqNo \subseteq 0..NxtCap
    BY DEF SeqNo, NxtCap
  <2> QED
    BY <2>1, <2>2
<1>3. p = IF ~t.buf \/ a > t.head + t.len THEN t ELSE RemoveAcked(n, a)
  BY DEF ProcessAck
<1> HIDE DEF a, p
<1>4. CASE ~t.buf \/ a > t.head + t.len
  BY <1>1, <1>3, <1>4, SmallAside DEF p
<1>5. CASE t.buf /\ ~(a > t.head + t.len)
  <2>1. d \in StreamType /\ Aside(t, d)
    BY <1>1, <1>2 DEF StreamType, Aside
  <2>2. f \in {t, AddToSend(d)}
    BY DEF FastRetransmit
  <2>3. Ok(f) /\ f.buf /\ Same(t, f)
    <3>1. t.state # "LISTEN"
      BY DEF Transmitting
    <3> QED
      BY <1>2, <1>5, <3>1, FastRetransmitOk
  <2> HIDE DEF d, f
  <2>4. Aside(t, f) /\ f \in StreamType
    BY <1>1, <2>1, <2>2, <2>3, SmallAside, AsideTrans DEF Ok
  <2>5. n \in StreamType
    BY <1>2, <2>3, AdvanceNxtOk DEF Same, Untimed
  <2>6. Aside(f, n)
    BY <2>4, SmallAside DEF AdvanceNxt, Aside, StreamType
  <2> HIDE DEF n
  <2>7. p \in {n, Fail(e, "self_deadlock"), UpdateRetransmissionTimer(e)}
    BY <1>3, <1>5 DEF RemoveAcked
  <2>8. Aside(n, Fail(e, "self_deadlock")) /\ Aside(n, UpdateRetransmissionTimer(e))
    BY <2>5 DEF Aside, StreamType, Fail, UpdateRetransmissionTimer, AddToRTO, RemoveFromRTO
  <2>9. Aside(n, p)
    BY <2>5, <2>7, <2>8, SmallAside
  <2> QED
    BY <2>4, <2>6, <2>9, AsideTrans DEF p
<1> QED
  BY <1>4, <1>5

-----------------------------------------------------------------------------
(* The receive half. *)

\* The window's right edge does not retreat once it is within the buffer.
NoShrink(t, r) ==
    t.rcvWnd <= RcvSize => r.rcvWnd <= RcvSize /\ RightEdge(r) >= RightEdge(t)

\* At most n ACKs are owed besides one for an old timestamp, and if any, the ACK list
\* will see to them.
Owes(t, n) == t.alive => t.ackCnt <= n + 1 /\ (t.ackCnt > 0 => "ack" \in t.lists)

\* r is t after at most n more ACKs were asked for.
Followed(t, r) ==
    r.sent = t.sent /\ r.sock = t.sock /\ NoShrink(t, r) /\ (r.alive => t.alive)

\* a state that the peer's bytes need not be counted anew for
StaysInOrder(from, to) ==
    \/ to = from \/ to = "CLOSED"
    \/ from \in Synchronized /\ to \in Synchronized \ {"ESTABLISHED", "FIN_WAIT_1", "FIN_WAIT_2"}
    \/ /\ from \in {"ESTABLISHED", "FIN_WAIT_1", "FIN_WAIT_2"}
       /\ to \in {"FIN_WAIT_1", "FIN_WAIT_2"}

\* What leaves the receive half aside keeps the order and the window.
LEMMA AsideFollowed ==
    ASSUME NEW t \in StreamType, NEW r, Aside(t, r)
    PROVE  /\ Followed(t, r)
           /\ \A n : Owes(t, n) => Owes(r, n)
           /\ PeerInv(t) /\ StaysInOrder(t.state, r.state) => PeerInv(r)
<1>1. t.rcvNxt \in Nat /\ t.rcvWnd \in Nat
  BY DEF StreamType, PeerSeqNo
<1>2. Followed(t, r)
  BY <1>1 DEF Aside, Followed, NoShrink, RightEdge
<1>3. \A n : Owes(t, n) => Owes(r, n)
  BY DEF Aside, Owes
<1>4. PeerInv(t) /\ StaysInOrder(t.state, r.state) => PeerInv(r)
  BY DEF Aside, PeerInv, StaysInOrder, Synchronized
<1> QED
  BY <1>2, <1>3, <1>4

\* The window of a stream several handlers later.
LEMMA FollowedTrans ==
    ASSUME NEW t \in StreamType, NEW u \in StreamType, NEW r \in StreamType,
           Followed(t, u), Followed(u, r)
    PROVE  Followed(t, r)
<1>1. /\ t.rcvNxt \in Nat /\ t.rcvWnd \in Nat /\ u.rcvNxt \in Nat /\ u.rcvWnd \in Nat
      /\ r.rcvNxt \in Nat /\ r.rcvWnd \in Nat
  BY DEF StreamType, PeerSeqNo
<1> QED
  BY <1>1 DEF Followed, NoShrink, RightEdge

\* Whatever the modulus, a remainder is no larger than the number.
LEMMA ModBound == ASSUME NEW c \in Nat, NEW m \in Nat \ {0} PROVE c % m \in Nat /\ c % m <= c
OBVIOUS

\* One more ACK does not wrap ack_cnt to 0 past what it counts.
LEMMA EnqueueAckListRead ==
    ASSUME NEW t \in StreamType, NEW opt \in {"NOW", "AGGREGATE"}, NEW n \in Nat, Owes(t, n)
    PROVE  LET r == EnqueueAckList(t, opt) IN
           /\ r.rcvNxt = t.rcvNxt /\ r.rhead = t.rhead /\ r.merged = t.merged
           /\ r.rcvWnd = t.rcvWnd /\ r.state = t.state
           /\ Followed(t, r) /\ Owes(r, n + 1)
<1> DEFINE m == CASE opt = "NOW" -> (t.ackCnt + 1) % AckMod
                  [] opt = "AGGREGATE" -> IF t.ackCnt = 0 THEN 1 ELSE t.ackCnt
                  [] opt = "WACK" -> t.ackCnt
           w == t.wack \/ opt = "WACK"
           r == [t EXCEPT !.lists = @ \cup {"ack"}, !.wack = w, !.ackCnt = m]
<1>1. t.ackCnt \in 0..(AckMod - 1) /\ t.rcvNxt \in Nat /\ t.rcvWnd \in Nat
  BY DEF StreamType, PeerSeqNo
<1>2. (t.ackCnt + 1) % AckMod \in Nat /\ (t.ackCnt + 1) % AckMod <= t.ackCnt + 1
  BY <1>1, ModBound
<1>3. t.alive => m <= n + 2
  BY <1>1, <1>2 DEF Owes
<1>4. EnqueueAckList(t, opt) = r
  BY DEF EnqueueAckList
<1> HIDE DEF m, w
<1>5. /\ r.rcvNxt = t.rcvNxt /\ r.rhead = t.rhead /\ r.merged = t.merged
      /\ r.rcvWnd = t.rcvWnd /\ r.state = t.state /\ r.sent = t.sent /\ r.sock = t.sock
      /\ r.alive = t.alive /\ r.ackCnt = m /\ "ack" \in r.lists
  BY DEF StreamType
<1> HIDE DEF r
<1>6. Followed(t, r) /\ Owes(r, n + 1)
  BY <1>1, <1>3, <1>5 DEF Followed, NoShrink, RightEdge, Owes
<1> QED
  BY <1>4, <1>5, <1>6

\* RBPut keeps to the receive buffer.
LEMMA RBPutRead ==
    ASSUME NEW t \in StreamType, NEW g
    PROVE  LET r == RBPut(t, g) IN
           /\ r.rhead = t.rhead /\ r.sent = t.sent /\ r.sock = t.sock /\ r.alive = t.alive
           /\ r.ackCnt = t.ackCnt /\ r.lists = t.lists
BY DEF RBPut, StreamType

\* So does RBRemove, which drops what it gives back from its head.
LEMMA RBRemoveRead ==
    ASSUME NEW t \in StreamType, NEW n \in Nat
    PROVE  LET r == RBRemove(t, n) IN
           /\ r.rhead = t.rhead + n /\ r.merged = t.merged - n
           /\ r.sent = t.sent /\ r.sock = t.sock
           /\ r.alive = t.alive /\ r.ackCnt = t.ackCnt /\ r.lists = t.lists
           /\ r.rcvNxt = t.rcvNxt /\ r.onq = t.onq /\ r.state = t.state
BY DEF RBRemove, StreamType

\* After a segment rcv_nxt is the end of the contiguous bytes, and the window the
\* room behind it: its right edge is the end of the buffer.
LEMMA ReassembleRead ==
    ASSUME NEW t, Ok(t), t.state \in {"ESTABLISHED", "FIN_WAIT_1", "FIN_WAIT_2"},
           PeerInv(t), NEW g, OkSeg(g), g.len > 0
    PROVE  LET r == Reassemble(t, g) IN
           /\ PeerInv(r) /\ Followed(t, r) /\ r.state = t.state
           /\ t.state = "ESTABLISHED" => r.rhead = t.rhead
           /\ \A n : Owes(t, n) => Owes(r, n)
<1> DEFINE p == RBPut(t, g)
           q == RBRemove(p, p.merged)
           u == IF t.state \in {"FIN_WAIT_1", "FIN_WAIT_2"} THEN q ELSE p
           nxt == u.rhead + u.merged
           wnd == RcvSize - u.merged
           r == [u EXCEPT !.rcvNxt = nxt, !.rcvWnd = wnd]
<1>1. Reassemble(t, g) = r
  BY DEF Reassemble
<1>2. t \in StreamType
  BY DEF Ok
<1>3. p \in StreamType /\ RecvInv(p) /\ p.state = t.state
  BY RBPutOk DEF Ok, StreamInv, SameSend
<1>4. /\ p.rhead = t.rhead /\ p.sent = t.sent /\ p.sock = t.sock /\ p.alive = t.alive
      /\ p.ackCnt = t.ackCnt /\ p.lists = t.lists
  BY <1>2, RBPutRead
<1> HIDE DEF p
<1>5. p.merged \in Nat /\ p.rhead \in Nat /\ t.rhead \in Nat
  BY <1>2, <1>3 DEF StreamType, PeerSeqNo
<1>6. /\ q.rhead = p.rhead + p.merged /\ q.sent = p.sent /\ q.sock = p.sock
      /\ q.alive = p.alive /\ q.ackCnt = p.ackCnt /\ q.lists = p.lists /\ q.state = p.state
  BY <1>3, <1>5, RBRemoveRead
<1>7. q \in StreamType
  BY <1>3, <1>5, RBRemoveOk
<1> HIDE DEF q
<1>8. /\ u \in StreamType /\ u.state = t.state /\ u.sent = t.sent /\ u.sock = t.sock
      /\ u.alive = t.alive /\ u.ackCnt = t.ackCnt /\ u.lists = t.lists
  BY <1>3, <1>4, <1>6, <1>7
<1>9. u.rhead >= t.rhead /\ (t.state = "ESTABLISHED" => u.rhead = t.rhead)
  BY <1>4, <1>5, <1>6
<1> HIDE DEF u
<1>10. /\ r.rhead = u.rhead /\ r.merged = u.merged /\ r.rcvNxt = nxt /\ r.rcvWnd = wnd
       /\ r.state = t.state /\ r.sent = t.sent /\ r.sock = t.sock
       /\ r.alive = t.alive /\ r.ackCnt = t.ackCnt /\ r.lists = t.lists
  BY <1>8 DEF StreamType
<1> HIDE DEF r
<1>11. u.rhead \in Nat /\ u.merged \in 0..RcvSize
  BY <1>8 DEF StreamType, PeerSeqNo
<1>12. r.rcvNxt = r.rhead + r.merged /\ r.rcvWnd <= RcvSize /\ r.merged + r.rcvWnd <= RcvSize
       /\ RightEdge(r) = r.rhead + RcvSize
  BY <1>10, <1>11 DEF RightEdge
<1>13. PeerInv(r)
  BY <1>10, <1>12 DEF PeerInv
<1>14. t.rcvWnd <= RcvSize => RightEdge(t) <= t.rhead + RcvSize
  <2>1. t.rcvWnd \in Nat /\ t.merged \in Nat /\ t.rhead \in Nat
    BY <1>2, <1>5 DEF StreamType
  <2>2. t.rcvNxt = t.rhead + t.merged /\ (t.rcvWnd <= RcvSize => t.merged + t.rcvWnd <= RcvSize)
    BY DEF PeerInv
  <2> QED
    BY <2>1, <2>2 DEF RightEdge
<1>15. Followed(t, r)
  <2>1. t.rcvWnd <= RcvSize => RightEdge(r) >= RightEdge(t)
    <3>1. t.rcvNxt \in Nat /\ t.rcvWnd \in Nat
      BY <1>2 DEF StreamType, PeerSeqNo
    <3>2. RightEdge(t) \in Nat
      BY <3>1 DEF RightEdge
    <3> QED
      BY <1>5, <1>9, <1>10, <1>11, <1>12, <1>14, <3>2
  <2> QED
    BY <1>10, <1>12, <2>1 DEF Followed, NoShrink
<1>16. \A n : Owes(t, n) => Owes(r, n)
  BY <1>10 DEF Owes
<1> QED
  BY <1>1, <1>9, <1>10, <1>13, <1>15, <1>16

\* What asks for an ACK keeps the order.
LEMMA AckedRead ==
    ASSUME NEW t \in StreamType, PeerInv(t), NEW opt \in {"NOW", "AGGREGATE"},
           NEW n \in Nat, Owes(t, n)
    PROVE  LET r == EnqueueAckList(t, opt) IN
           /\ PeerInv(r) /\ Followed(t, r) /\ Owes(r, n + 1)
           /\ r.state = t.state /\ r.rhead = t.rhead /\ r.rcvNxt = t.rcvNxt
BY EnqueueAckListRead DEF PeerInv

\* process_payload asks for one ACK at most.
LEMMA ProcessPayloadRead ==
    ASSUME NEW t, Ok(t), t.state \in {"ESTABLISHED", "FIN_WAIT_1", "FIN_WAIT_2"},
           PeerInv(t), NEW g, OkSeg(g), NEW n \in Nat, Owes(t, n)
    PROVE  LET r == ProcessPayload(t, g) IN
           /\ PeerInv(r) /\ Followed(t, r) /\ r.state = t.state /\ Owes(r, n + 1)
           /\ t.state = "ESTABLISHED" => r.rhead = t.rhead
<1> DEFINE u == Reassemble(t, g)
           opt == IF u.rcvNxt > t.rcvNxt THEN "AGGREGATE" ELSE "NOW"
           r == ProcessPayload(t, g)
<1>1. t \in StreamType
  BY DEF Ok
<1>2. CASE g.len = 0
  <2>1. r = t
    BY <1>2 DEF ProcessPayload
  <2>2. Followed(t, t)
    BY <1>1, SmallAside, AsideFollowed
  <2>3. t.alive => t.ackCnt \in Nat
    BY <1>1 DEF StreamType
  <2>4. Owes(t, n + 1)
    BY <2>3 DEF Owes
  <2> QED
    BY <2>1, <2>2, <2>4
<1>3. CASE g.len # 0
  <2>1. r = EnqueueAckList(t, "NOW") \/ r = EnqueueAckList(u, opt)
    BY <1>3 DEF ProcessPayload
  <2>2. g.len > 0
    BY <1>3 DEF OkSeg
  <2>3. /\ PeerInv(u) /\ Followed(t, u) /\ u.state = t.state
        /\ t.state = "ESTABLISHED" => u.rhead = t.rhead
        /\ Owes(u, n)
    BY <2>2, ReassembleRead
  <2>4. u \in StreamType
    <3>1. t.state \notin {"LISTEN", "SYN_RCVD"}
      OBVIOUS
    <3> QED
      BY <2>2, <3>1, ReassembleOk DEF Ok
  <2>5. opt \in {"NOW", "AGGREGATE"}
    OBVIOUS
  <2> HIDE DEF u, opt, r
  <2>6. CASE r = EnqueueAckList(t, "NOW")
    BY <1>1, <2>6, AckedRead DEF r
  <2>7. CASE r = EnqueueAckList(u, opt)
    <3>1. /\ PeerInv(r) /\ Followed(u, r) /\ Owes(r, n + 1)
          /\ r.state = u.state /\ r.rhead = u.rhead
      BY <2>3, <2>4, <2>5, <2>7, AckedRead
    <3>2. r \in StreamType
      <4>1. t.state \notin {"LISTEN", "SYN_RCVD"}
        OBVIOUS
      <4> QED
        BY <4>1, ProcessPayloadOk DEF Ok, r
    <3>3. Followed(t, r)
      BY <1>1, <2>3, <2>4, <3>1, <3>2, FollowedTrans
    <3> QED
      BY <2>3, <3>1, <3>3 DEF r
  <2> QED
    BY <2>1, <2>6, <2>7
<1> QED
  BY <1>2, <1>3
-----------------------------------------------------------------------------
(* The handlers of user_tcp_process, for the receive half. *)

\* r is t after one packet, which asked for two more ACKs at most.
Took(t, r) == PeerInv(r) /\ Followed(t, r) /\ Owes(r, 2)

\* A reader of t reads on in r: nothing was taken from under it.
Reading(t, r) == /\ r.state \in {"ESTABLISHED", "CLOSE_WAIT"} /\ r.rhead = t.rhead
                 /\ t.state = "CLOSE_WAIT" => r.rcvNxt = t.rcvNxt

\* A FIN in order is counted after all of the peer's bytes.
LEMMA FinCounted ==
    ASSUME NEW t \in StreamType, PeerInv(t),
           t.state \in {"ESTABLISHED", "FIN_WAIT_1", "FIN_WAIT_2"},
           NEW g, OkSeg(g), InOrderFin(t, g),
           NEW r \in StreamType, r.rcvNxt = t.rcvNxt + 1,
           r.rhead = t.rhead, r.merged = t.merged, r.rcvWnd = t.rcvWnd,
           r.sent = t.sent, r.sock = t.sock, r.alive = t.alive,
           r.ackCnt = t.ackCnt, r.lists = t.lists,
           r.state \notin {"LISTEN", "SYN_RCVD", "ESTABLISHED", "FIN_WAIT_1", "FIN_WAIT_2"}
    PROVE  /\ PeerInv(r) /\ Followed(t, r)
           /\ \A n : Owes(t, n) => Owes(r, n)
<1>1. t.rcvNxt = PeerBytes + 1
  BY DEF InOrderFin, OkSeg
<1>2. t.rcvNxt = t.rhead + t.merged
  BY DEF PeerInv
<1>3. r.rcvNxt = r.rhead + r.merged + 1 /\ r.rcvNxt = PeerBytes + 2
  BY <1>1, <1>2 DEF StreamType
<1>4. PeerInv(r)
  BY <1>3 DEF PeerInv
<1>5. t.rcvNxt \in Nat /\ t.rcvWnd \in Nat
  BY DEF StreamType, PeerSeqNo
<1>6. Followed(t, r)
  BY <1>5 DEF Followed, NoShrink, RightEdge
<1> QED
  BY <1>4, <1>6 DEF Owes

\* What leaves the receive half and the state aside takes a packet well.
LEMMA AsideTook ==
    ASSUME NEW t \in StreamType, PeerInv(t), NEW n \in 0..2, Owes(t, n),
           NEW r, Aside(t, r), StaysInOrder(t.state, r.state)
    PROVE  PeerInv(r) /\ Followed(t, r) /\ Owes(r, n) /\ Took(t, r)
<1>1. PeerInv(r) /\ Followed(t, r) /\ Owes(r, n)
  BY AsideFollowed
<1>2. r.alive => t.alive /\ r.ackCnt = t.ackCnt
  BY DEF Aside
<1>3. t.ackCnt \in Nat
  BY DEF StreamType
<1>4. Owes(r, 2)
  BY <1>1, <1>2, <1>3 DEF Owes
<1> QED
  BY <1>1, <1>4 DEF Took

\* What follows keeps what a packet may do.
LEMMA TookTrans ==
    ASSUME NEW t \in StreamType, NEW u \in StreamType, NEW r \in StreamType,
           Followed(t, u), Took(u, r)
    PROVE  Took(t, r)
BY FollowedTrans DEF Took

\* handle_listen
LEMMA HandleListenRead ==
    ASSUME NEW t, Ok(t), PeerInv(t), t.state \in {"LISTEN", "SYN_RCVD"}, Owes(t, 0)
    PROVE  Took(t, HandleListen(t)) /\ HandleListen(t).state = "SYN_RCVD"
<1> DEFINE n == IF t.state = "LISTEN" THEN t.rcvNxt + 1 ELSE t.rcvNxt
           e == [t EXCEPT !.rcvNxt = n, !.state = "SYN_RCVD"]
           r == HandleListen(t)
<1>1. t \in StreamType /\ t.rcvNxt \in PeerSeqNo
  BY DEF Ok, StreamType
<1>2. n \in PeerSeqNo /\ n >= t.rcvNxt
  BY <1>1 DEF Ok, StreamInv, RecvInv, PeerSeqNo
<1>3. r = AddToControl(e)
  BY DEF HandleListen
<1> HIDE DEF n
<1>4. e \in StreamType
  BY <1>1, <1>2 DEF StreamType, States
<1>5. /\ e.state = "SYN_RCVD" /\ e.rcvNxt = n /\ e.rcvWnd = t.rcvWnd /\ e.rhead = t.rhead
      /\ e.merged = t.merged /\ e.sent = t.sent /\ e.sock = t.sock /\ e.alive = t.alive
      /\ e.ackCnt = t.ackCnt /\ e.lists = t.lists
  BY <1>1 DEF StreamType
<1> HIDE DEF e
<1>6. PeerInv(e)
  BY <1>5 DEF PeerInv, Synchronized
<1>7. Followed(t, e) /\ Owes(e, 0)
  <2>1. t.rcvNxt \in Nat /\ t.rcvWnd \in Nat /\ n \in Nat
    BY <1>1, <1>2 DEF StreamType, PeerSeqNo
  <2> QED
    BY <1>2, <1>5, <2>1 DEF Followed, NoShrink, RightEdge, Owes
<1>8. Aside(e, r) /\ r.state = e.state /\ r \in StreamType
  BY <1>3, <1>4, SmallAside DEF AddToControl, StreamType
<1>9. Took(e, r)
  BY <1>4, <1>6, <1>7, <1>8, AsideTook DEF StaysInOrder
<1>10. Took(t, r)
  BY <1>1, <1>4, <1>7, <1>8, <1>9, TookTrans
<1> QED
  BY <1>5, <1>8, <1>10

\* handle_syn_rcvd owes nothing yet.
LEMMA HandleSynRcvdRead ==
    ASSUME NEW t, Ok(t), PeerInv(t), t.state = "SYN_RCVD", Owes(t, 0),
           NEW g, OkSeg(g), NEW full \in BOOLEAN
    PROVE  LET r == HandleSynRcvd(t, g, full) IN
           PeerInv(r) /\ Followed(t, r) /\ Owes(r, 0)
<1> DEFINE r == HandleSynRcvd(t, g, full)
<1>1. t \in StreamType /\ t.una = 0 /\ t.rcvNxt \in Nat /\ t.rcvNxt <= 1 /\ t.rcvWnd \in Nat
  BY DEF Ok, StreamType, StreamInv, SendInv, RecvInv, PeerSeqNo
<1>2. r \in StreamType
  BY HandleSynRcvdOk DEF Ok
<1>3. CASE ~g.ack
  <2> DEFINE e == [t EXCEPT !.nxt = 0]
  <2>1. r = AddToControl(e)
    BY <1>3 DEF HandleSynRcvd
  <2>2. Aside(t, AddToControl(e)) /\ AddToControl(e).state = t.state
    BY <1>1 DEF Aside, StreamType, AddToControl
  <2> QED
    BY <1>1, <2>1, <2>2, AsideFollowed DEF StaysInOrder
<1>4. CASE g.ack /\ g.ackSeq # 1
  <2>1. r = Fail(t, "exit")
    BY <1>4 DEF HandleSynRcvd
  <2>2. Aside(t, r) /\ r.state = t.state
    BY <1>1, <2>1 DEF Aside, StreamType, Fail
  <2> QED
    BY <1>1, <2>2, AsideFollowed DEF StaysInOrder
<1>5. CASE g.ack /\ g.ackSeq = 1
  <2> DEFINE una == t.una + 1
             nxt == g.ackSeq
             one == 1
             d == [t EXCEPT !.una = una, !.nxt = nxt, !.rcvNxt = one,
                            !.state = "ESTABLISHED"]
             e == RemoveFromRTO(d)
             c == [e EXCEPT !.state = "CLOSED"]
             f == IF full THEN AddToControl(c) ELSE e
  <2>1. r = AddToTimeout(f)
    BY <1>5 DEF HandleSynRcvd
  <2>2. /\ una \in SeqNo /\ nxt \in 0..NxtCap /\ one \in PeerSeqNo /\ one = 1
        /\ "ESTABLISHED" \in States /\ "CLOSED" \in States
    BY <1>1, <1>5 DEF SeqNo, NxtCap, PeerSeqNo, States
  <2> HIDE DEF una, nxt, one
  <2>3. d \in StreamType
    <3>1. t \in StreamType
      BY <1>1
    <3> QED
      BY <2>2, <3>1 DEF StreamType
  <2>4. /\ d.rcvNxt = 1 /\ d.rcvWnd = t.rcvWnd /\ d.rhead = t.rhead /\ d.merged = t.merged
        /\ d.sent = t.sent /\ d.sock = t.sock /\ d.alive = t.alive /\ d.ackCnt = t.ackCnt
        /\ d.lists = t.lists /\ d.state = "ESTABLISHED"
    BY <1>1, <2>2 DEF StreamType
  <2> HIDE DEF d
  <2>5. PeerInv(d) /\ Followed(t, d) /\ Owes(d, 0)
    <3>1. t.rhead = 1 /\ t.merged = 0 /\ (t.rcvWnd <= RcvSize => t.merged + t.rcvWnd <= RcvSize)
      BY DEF PeerInv
    <3>2. PeerInv(d)
      BY <2>4, <3>1 DEF PeerInv
    <3>3. Followed(t, d)
      BY <1>1, <2>4 DEF Followed, NoShrink, RightEdge
    <3> QED
      BY <2>4, <3>2, <3>3 DEF Owes
  <2>6. e \in StreamType /\ Aside(d, e) /\ e.state = d.state
    BY <2>3, SmallAside DEF RemoveFromRTO, StreamType
  <2> HIDE DEF e
  <2>7. c \in StreamType /\ Aside(e, c) /\ c.state = "CLOSED"
    BY <2>2, <2>6 DEF Aside, StreamType
  <2> HIDE DEF c
  <2>8. Aside(c, AddToControl(c)) /\ AddToControl(c).state = c.state /\ AddToControl(c) \in StreamType
    BY <2>7, SmallAside DEF AddToControl, StreamType
  <2>9. f \in StreamType /\ Aside(d, f) /\ f.state \in {"ESTABLISHED", "CLOSED"}
    BY <2>4, <2>6, <2>7, <2>8, AsideTrans
  <2> HIDE DEF f
  <2>10. Aside(f, AddToTimeout(f)) /\ AddToTimeout(f).state = f.state
    BY <2>9, SmallAside DEF AddToTimeout, StreamType, Fail
  <2>11. Aside(d, r) /\ r.state \in {"ESTABLISHED", "CLOSED"}
    BY <2>1, <2>9, <2>10, AsideTrans
  <2>12. PeerInv(r) /\ Followed(d, r) /\ Owes(r, 0)
    BY <2>3, <2>4, <2>5, <2>11, AsideFollowed DEF StaysInOrder
  <2>13. Followed(t, r)
    BY <1>1, <1>2, <2>3, <2>5, <2>12, FollowedTrans
  <2> QED
    BY <2>12, <2>13
<1> QED
  BY <1>3, <1>4, <1>5

\* process_ack keeps what process_payload did.
LEMMA ProcessAckRead ==
    ASSUME NEW t, Ok(t), PeerInv(t), t.state \in Transmitting \cup {"FIN_WAIT_2"},
           NEW n \in 0..2, Owes(t, n), NEW g, OkSeg(g), NEW dup3 \in BOOLEAN, dup3 => DupAcks
    PROVE  LET r == ProcessAck(t, g, dup3) IN
           /\ Ok(r) /\ PeerInv(r) /\ Followed(t, r) /\ Owes(r, n) /\ Took(t, r)
           /\ Aside(t, r) /\ r.state = t.state
<1> DEFINE r == ProcessAck(t, g, dup3)
<1>1. Ok(r) /\ r.state = t.state
  BY ProcessAckOk DEF Same
<1>2. Aside(t, r)
  BY ProcessAckAside
<1>3. t \in StreamType
  BY DEF Ok
<1> HIDE DEF r
<1>4. PeerInv(r) /\ Followed(t, r) /\ Owes(r, n) /\ Took(t, r)
  BY <1>1, <1>2, <1>3, AsideTook DEF StaysInOrder
<1> QED
  BY <1>1, <1>2, <1>4 DEF r

\* handle_established: the payload, then the ACK, then the FIN, which is counted or
\* asks for another ACK
LEMMA HandleEstablishedRead ==
    ASSUME NEW t, Ok(t), PeerInv(t), t.state = "ESTABLISHED", Owes(t, 0), NEW g, OkSeg(g),
           NEW dup3 \in BOOLEAN, dup3 => DupAcks
    PROVE  Took(t, HandleEstablished(t, g, dup3)) /\ Reading(t, HandleEstablished(t, g, dup3))
<1> DEFINE p == ProcessPayload(t, g)
           r == ProcessAck(p, g, dup3)
           n == r.rcvNxt + 1
           e == [r EXCEPT !.state = "CLOSE_WAIT", !.rcvNxt = n]
           c == AddToControl(e)
           h == HandleEstablished(t, g, dup3)
<1>1. Ok(p) /\ p.state = "ESTABLISHED"
  BY ProcessPayloadOk DEF Same
<1>2. PeerInv(p) /\ Followed(t, p) /\ Owes(p, 1) /\ p.rhead = t.rhead
  <2>1. Owes(ProcessPayload(t, g), 0 + 1) /\ 0 + 1 = 1
    BY ProcessPayloadRead
  <2> QED
    BY <2>1, ProcessPayloadRead
<1>3. h \in StreamType
  BY HandleEstablishedOk DEF Ok
<1>4. \/ h = r
      \/ h = EnqueueAckList(r, "NOW")
      \/ InOrderFin(r, g) /\ h \in {c, Fail(c, "null_socket")}
  <2> HIDE DEF r, n
  <2>1. CASE ~g.fin
    BY <2>1 DEF HandleEstablished, r
  <2>2. CASE g.fin /\ ~InOrderFin(r, g)
    BY <2>2 DEF HandleEstablished, r
  <2>3. CASE g.fin /\ InOrderFin(r, g)
    BY <2>3 DEF HandleEstablished, r, n
  <2> QED
    BY <2>1, <2>2, <2>3
<1> HIDE DEF p, h
<1>5. Ok(r) /\ PeerInv(r) /\ Followed(p, r) /\ Owes(r, 1) /\ Took(p, r) /\ Aside(p, r)
      /\ r.state = "ESTABLISHED"
  <2>1. p.state \in Transmitting \cup {"FIN_WAIT_2"} /\ 1 \in 0..2
    BY <1>1 DEF Transmitting
  <2> QED
    BY <1>1, <1>2, <2>1, ProcessAckRead
<1> HIDE DEF r
<1>6. t \in StreamType /\ p \in StreamType /\ r \in StreamType
  BY <1>1, <1>5 DEF Ok
<1>7. Followed(t, r) /\ r.rhead = t.rhead
  BY <1>2, <1>5, <1>6, FollowedTrans DEF Aside
<1>8. CASE h = r
  BY <1>2, <1>5, <1>6, <1>7, <1>8, TookTrans DEF Reading, h
<1>9. CASE h = EnqueueAckList(r, "NOW")
  <2>1. /\ PeerInv(h) /\ Followed(r, h) /\ Owes(h, 1 + 1)
        /\ h.state = r.state /\ h.rhead = r.rhead
    BY <1>5, <1>6, <1>9, AckedRead
  <2>2. 1 + 1 = 2
    OBVIOUS
  <2>3. Took(r, h)
    BY <2>1, <2>2 DEF Took
  <2>4. Took(t, h) /\ Reading(t, h)
    BY <1>3, <1>5, <1>6, <1>7, <2>1, <2>3, TookTrans DEF Reading, h
  <2> QED
    BY <2>4 DEF h
<1>10. CASE InOrderFin(r, g) /\ h \in {c, Fail(c, "null_socket")}
  <2>1. n \in PeerSeqNo
    BY <1>10 DEF InOrderFin, OkSeg, PeerSeqNo
  <2> HIDE DEF n
  <2>2. "CLOSE_WAIT" \in States
    BY DEF States
  <2>3. e \in StreamType
    BY <1>6, <2>1, <2>2 DEF StreamType
  <2>4. /\ e.rcvNxt = n /\ e.rhead = r.rhead /\ e.merged = r.merged /\ e.rcvWnd = r.rcvWnd
        /\ e.sent = r.sent /\ e.sock = r.sock /\ e.alive = r.alive
        /\ e.ackCnt = r.ackCnt /\ e.lists = r.lists /\ e.state = "CLOSE_WAIT"
    BY <1>6 DEF StreamType
  <2> HIDE DEF e
  <2>5. PeerInv(e) /\ Followed(r, e) /\ Owes(e, 1)
    <3>1. e.rcvNxt = r.rcvNxt + 1
      BY <2>4 DEF n
    <3> QED
      BY <1>5, <1>6, <1>10, <2>3, <2>4, <3>1, FinCounted
  <2>6. Aside(e, c) /\ c \in StreamType /\ c.state = "CLOSE_WAIT"
    BY <2>3, <2>4, SmallAside DEF AddToControl, StreamType
  <2> HIDE DEF c
  <2>7. Aside(c, Fail(c, "null_socket")) /\ Fail(c, "null_socket").state = "CLOSE_WAIT"
    BY <2>6, SmallAside DEF Fail, StreamType
  <2>8. Aside(e, h) /\ h.state = "CLOSE_WAIT"
    BY <1>10, <2>6, <2>7, AsideTrans
  <2>9. Took(e, h)
    BY <2>3, <2>4, <2>5, <2>8, AsideTook DEF StaysInOrder
  <2>10. Followed(t, e) /\ e.rhead = t.rhead
    BY <1>6, <1>7, <2>3, <2>4, <2>5, FollowedTrans
  <2>11. Took(t, h) /\ Reading(t, h)
    BY <1>3, <1>6, <2>3, <2>8, <2>9, <2>10, TookTrans DEF Reading, Aside, h
  <2> QED
    BY <2>11 DEF h
<1> QED
  BY <1>4, <1>8, <1>9, <1>10 DEF h

\* handle_close_wait
LEMMA HandleCloseWaitRead ==
    ASSUME NEW t, Ok(t), PeerInv(t), t.state = "CLOSE_WAIT", Owes(t, 0), NEW g, OkSeg(g),
           NEW dup3 \in BOOLEAN, dup3 => DupAcks
    PROVE  Took(t, HandleCloseWait(t, g, dup3)) /\ Reading(t, HandleCloseWait(t, g, dup3))
<1>1. t \in StreamType /\ 0 \in 0..2
  BY DEF Ok
<1>2. Aside(t, AddToControl(t)) /\ AddToControl(t).state = t.state
  BY <1>1, SmallAside DEF AddToControl, StreamType
<1>3. Aside(t, ProcessAck(t, g, dup3)) /\ ProcessAck(t, g, dup3).state = t.state
  BY <1>1, ProcessAckRead DEF Transmitting
<1>4. HandleCloseWait(t, g, dup3) \in {AddToControl(t), ProcessAck(t, g, dup3)}
  BY DEF HandleCloseWait
<1>5. Aside(t, HandleCloseWait(t, g, dup3)) /\ HandleCloseWait(t, g, dup3).state = t.state
  BY <1>2, <1>3, <1>4
<1>6. Took(t, HandleCloseWait(t, g, dup3))
  BY <1>1, <1>5, AsideTook DEF StaysInOrder
<1> QED
  BY <1>5, <1>6 DEF Reading, Aside

\* handle_last_ack
LEMMA HandleLastAckRead ==
    ASSUME NEW t, Ok(t), PeerInv(t), t.state = "LAST_ACK", Owes(t, 0), NEW g, OkSeg(g),
           NEW dup3 \in BOOLEAN, dup3 => DupAcks
    PROVE  Took(t, HandleLastAck(t, g, dup3))
<1> DEFINE r == ProcessAck(t, g, dup3)
           h == HandleLastAck(t, g, dup3)
<1>1. t \in StreamType /\ 0 \in 0..2
  BY DEF Ok
<1>2. Ok(r) /\ Aside(t, r) /\ r.state = t.state
  BY <1>1, ProcessAckRead DEF Transmitting
<1>3. h \in {t, r, CloseAndDestroy(r), AddToControl(r)}
  BY DEF HandleLastAck
<1> HIDE DEF r, h
<1>4. r \in StreamType
  BY <1>2 DEF Ok
<1>5. Aside(r, CloseAndDestroy(r)) /\ CloseAndDestroy(r).state = "CLOSED"
  BY <1>4, CloseAside
<1>6. Aside(r, AddToControl(r)) /\ AddToControl(r).state = r.state
  BY <1>4, SmallAside DEF AddToControl, StreamType
<1>7. Aside(t, h) /\ StaysInOrder(t.state, h.state)
  BY <1>1, <1>2, <1>3, <1>5, <1>6, SmallAside, AsideTrans DEF StaysInOrder
<1>8. Took(t, h)
  BY <1>1, <1>7, AsideTook
<1> QED
  BY <1>8 DEF h

\* The timewait list and the control list, one after the other.
LEMMA TimewaitAside ==
    ASSUME NEW t \in StreamType
    PROVE  LET r == AddToControl(AddToTimewait(t)) IN Aside(t, r) /\ r.state = t.state
<1>1. AddToTimewait(t) \in StreamType /\ AddToTimewait(t).state = t.state
  BY DEF AddToTimewait, StreamType
<1>2. Aside(t, AddToTimewait(t))
  BY SmallAside
<1> HIDE DEF AddToTimewait
<1> DEFINE u == AddToTimewait(t)
<1>3. Aside(u, AddToControl(u)) /\ AddToControl(u).state = u.state
  BY <1>1, SmallAside DEF AddToControl, StreamType
<1> QED
  BY <1>1, <1>2, <1>3, AsideTrans

\* the peer's FIN while ours is out
LEMMA FinInFinWait1Read ==
    ASSUME NEW t, Ok(t), PeerInv(t), t.state \in {"FIN_WAIT_1", "FIN_WAIT_2"}, Owes(t, 1),
           NEW g, OkSeg(g), InOrderFin(t, g)
    PROVE  Took(t, FinInFinWait1(t))
<1> DEFINE n == t.rcvNxt + 1
           e == [t EXCEPT !.rcvNxt = n, !.state = "CLOSING"]
           c == [t EXCEPT !.rcvNxt = n, !.state = "CLOSED"]
           r == FinInFinWait1(t)
<1>1. n \in PeerSeqNo
  BY DEF InOrderFin, OkSeg, PeerSeqNo
<1>2. n = t.rcvNxt + 1
  OBVIOUS
<1>3. r = AddToControl(IF t.state = "FIN_WAIT_1" THEN e ELSE AddToTimewait(c))
  BY DEF FinInFinWait1
<1> HIDE DEF n, r
<1>4. t \in StreamType /\ "CLOSING" \in States /\ "CLOSED" \in States
  BY DEF Ok, States
<1>5. r \in StreamType
  BY FinInFinWait1Ok DEF Ok, r
<1>6. CASE t.state = "FIN_WAIT_1"
  <2>1. e \in StreamType
    BY <1>1, <1>4 DEF StreamType
  <2>2. /\ e.rcvNxt = t.rcvNxt + 1 /\ e.rhead = t.rhead /\ e.merged = t.merged
        /\ e.rcvWnd = t.rcvWnd /\ e.sent = t.sent /\ e.sock = t.sock /\ e.alive = t.alive
        /\ e.ackCnt = t.ackCnt /\ e.lists = t.lists /\ e.state = "CLOSING"
    BY <1>2, <1>4 DEF StreamType
  <2>3. r = AddToControl(e)
    BY <1>3, <1>6
  <2> HIDE DEF e
  <2>4. PeerInv(e) /\ Followed(t, e) /\ Owes(e, 1)
    BY <1>4, <2>1, <2>2, FinCounted
  <2>5. Aside(e, r) /\ r.state = e.state
    BY <2>1, <2>3, SmallAside DEF AddToControl, StreamType
  <2>6. Took(e, r)
    BY <2>1, <2>4, <2>5, AsideTook DEF StaysInOrder
  <2> QED
    BY <1>4, <1>5, <2>1, <2>4, <2>6, TookTrans DEF r
<1>7. CASE t.state # "FIN_WAIT_1"
  <2>1. c \in StreamType
    BY <1>1, <1>4 DEF StreamType
  <2>2. /\ c.rcvNxt = t.rcvNxt + 1 /\ c.rhead = t.rhead /\ c.merged = t.merged
        /\ c.rcvWnd = t.rcvWnd /\ c.sent = t.sent /\ c.sock = t.sock /\ c.alive = t.alive
        /\ c.ackCnt = t.ackCnt /\ c.lists = t.lists /\ c.state = "CLOSED"
    BY <1>2, <1>4 DEF StreamType
  <2>3. r = AddToControl(AddToTimewait(c))
    BY <1>3, <1>7
  <2> HIDE DEF c
  <2>4. PeerInv(c) /\ Followed(t, c) /\ Owes(c, 1)
    BY <1>4, <2>1, <2>2, FinCounted
  <2>5. Aside(c, r) /\ r.state = c.state
    BY <2>1, <2>3, TimewaitAside
  <2>6. Took(c, r)
    BY <2>1, <2>4, <2>5, AsideTook DEF StaysInOrder
  <2> QED
    BY <1>4, <1>5, <2>1, <2>4, <2>6, TookTrans DEF r
<1> QED
  BY <1>6, <1>7

\* process_payload and an ACK that may have moved FIN_WAIT_1 to FIN_WAIT_2
LEMMA PayloadThenFin ==
    ASSUME NEW t, Ok(t), PeerInv(t), t.state \in {"FIN_WAIT_1", "FIN_WAIT_2"}, Owes(t, 0),
           NEW g, OkSeg(g)
    PROVE  LET r == ProcessPayload(t, g) IN
           /\ Ok(r) /\ PeerInv(r) /\ Followed(t, r) /\ Owes(r, 1) /\ Took(t, r)
           /\ r.state = t.state
<1> DEFINE r == ProcessPayload(t, g)
<1>1. Ok(r) /\ r.state = t.state
  BY ProcessPayloadOk DEF Same
<1>2. PeerInv(r) /\ Followed(t, r) /\ Owes(r, 0 + 1) /\ 0 + 1 = 1
  BY ProcessPayloadRead
<1>3. r \in StreamType
  BY <1>1 DEF Ok
<1> HIDE DEF r
<1>4. Owes(r, 2)
  BY <1>2, <1>3 DEF Owes, StreamType
<1> QED
  BY <1>1, <1>2, <1>4 DEF Took, r

\* handle_fin_wait_1
LEMMA HandleFinWait1Read ==
    ASSUME NEW t, Ok(t), PeerInv(t), t.state = "FIN_WAIT_1", Owes(t, 0), NEW g, OkSeg(g),
           NEW dup3 \in BOOLEAN, dup3 => DupAcks
    PROVE  Took(t, HandleFinWait1(t, g, dup3))
<1> DEFINE a == ProcessAck(t, g, dup3)
           una == g.ackSeq
           nxt == IF una > a.nxt THEN una ELSE a.nxt
           e == [a EXCEPT !.una = una, !.state = "FIN_WAIT_2", !.nxt = nxt]
           f == IF a.finSent /\ g.ackSeq = a.fss + 1 THEN RemoveFromRTO(e) ELSE a
           r == ProcessPayload(f, g)
           h == HandleFinWait1(t, g, dup3)
<1>1. t \in StreamType /\ 0 \in 0..2
  BY DEF Ok
<1>2. Ok(a) /\ Aside(t, a) /\ a.state = t.state
  BY <1>1, ProcessAckRead DEF Transmitting
<1>3. \/ h = AddToControl(t)
      \/ h = r
      \/ InOrderFin(r, g) /\ h = FinInFinWait1(r)
  BY DEF HandleFinWait1
<1>4. h \in StreamType
  BY HandleFinWait1Ok DEF Ok
<1> HIDE DEF h
<1>5. Ok(f) /\ Aside(t, f) /\ f.state \in {"FIN_WAIT_1", "FIN_WAIT_2"}
  <2> HIDE DEF a
  <2>1. a \in StreamType
    BY <1>2 DEF Ok
  <2>2. una \in SeqNo /\ nxt \in 0..NxtCap
    <3>1. a.nxt \in 0..NxtCap
      BY <2>1 DEF StreamType
    <3> QED
      BY <3>1 DEF OkSeg, SeqNo, NxtCap
  <2> HIDE DEF una, nxt
  <2>3. a.finSent => Ok(RemoveFromRTO(e)) /\ RemoveFromRTO(e).state = "FIN_WAIT_2"
    BY <1>2, <2>2, FinWait2Ok
  <2>4. Aside(a, RemoveFromRTO(e))
    BY <2>1 DEF StreamType, Aside, RemoveFromRTO
  <2> HIDE DEF e
  <2>5. Aside(t, RemoveFromRTO(e))
    BY <1>2, <2>4, AsideTrans
  <2> QED
    BY <1>2, <2>3, <2>5
<1> HIDE DEF f
<1>6. PeerInv(f) /\ Followed(t, f) /\ Owes(f, 0) /\ f \in StreamType
  BY <1>1, <1>5, AsideTook DEF StaysInOrder, Ok
<1>7. Ok(r) /\ PeerInv(r) /\ Followed(f, r) /\ Owes(r, 1) /\ Took(f, r) /\ r.state = f.state
      /\ r \in StreamType
  BY <1>5, <1>6, PayloadThenFin DEF Ok
<1> HIDE DEF r
<1>8. CASE h = AddToControl(t)
  <2>1. Aside(t, h) /\ h.state = t.state
    BY <1>1, <1>8, SmallAside DEF AddToControl, StreamType
  <2> QED
    BY <1>1, <2>1, AsideTook DEF StaysInOrder, h
<1>9. CASE h = r
  BY <1>1, <1>6, <1>7, <1>9, TookTrans DEF h
<1>10. CASE InOrderFin(r, g) /\ h = FinInFinWait1(r)
  <2>1. Took(r, h)
    BY <1>5, <1>7, <1>10, FinInFinWait1Read
  <2>2. Followed(t, r)
    BY <1>1, <1>6, <1>7, FollowedTrans
  <2> QED
    BY <1>1, <1>4, <1>7, <2>1, <2>2, TookTrans DEF h
<1> QED
  BY <1>3, <1>8, <1>9, <1>10

\* handle_fin_wait_2
LEMMA HandleFinWait2Read ==
    ASSUME NEW t, Ok(t), PeerInv(t), t.state = "FIN_WAIT_2", Owes(t, 0), NEW g, OkSeg(g),
           NEW dup3 \in BOOLEAN, dup3 => DupAcks
    PROVE  Took(t, HandleFinWait2(t, g, dup3))
<1> DEFINE a == ProcessAck(t, g, dup3)
           r == ProcessPayload(a, g)
           n == r.rcvNxt + 1
           e == [r EXCEPT !.state = "TIME_WAIT", !.rcvNxt = n]
           h == HandleFinWait2(t, g, dup3)
<1>1. t \in StreamType /\ 0 \in 0..2
  BY DEF Ok
<1>2. Ok(a) /\ PeerInv(a) /\ Followed(t, a) /\ Owes(a, 0) /\ a.state = t.state
  BY <1>1, ProcessAckRead
<1>3. h = IF InOrderFin(r, g) THEN AddToControl(AddToTimewait(e)) ELSE r
  BY DEF HandleFinWait2
<1>4. h \in StreamType
  BY HandleFinWait2Ok DEF Ok
<1> HIDE DEF a, h
<1>5. Ok(r) /\ PeerInv(r) /\ Followed(a, r) /\ Owes(r, 1) /\ Took(a, r) /\ r.state = a.state
  BY <1>2, PayloadThenFin
<1> HIDE DEF r
<1>6. a \in StreamType /\ r \in StreamType
  BY <1>2, <1>5 DEF Ok
<1>7. CASE InOrderFin(r, g)
  <2>1. n \in PeerSeqNo
    BY <1>7 DEF InOrderFin, OkSeg, PeerSeqNo
  <2>2. n = r.rcvNxt + 1 /\ "TIME_WAIT" \in States
    BY DEF States
  <2> HIDE DEF n
  <2>3. e \in StreamType
    BY <1>6, <2>1, <2>2 DEF StreamType
  <2>4. /\ e.rcvNxt = n /\ e.rhead = r.rhead /\ e.merged = r.merged
        /\ e.rcvWnd = r.rcvWnd /\ e.sent = r.sent /\ e.sock = r.sock /\ e.alive = r.alive
        /\ e.ackCnt = r.ackCnt /\ e.lists = r.lists /\ e.state = "TIME_WAIT"
    BY <1>6 DEF StreamType
  <2>5. h = AddToControl(AddToTimewait(e))
    BY <1>3, <1>7
  <2> HIDE DEF e
  <2>6. PeerInv(e) /\ Followed(r, e) /\ Owes(e, 1)
    BY <1>2, <1>5, <1>6, <1>7, <2>2, <2>3, <2>4, FinCounted
  <2>7. Aside(e, h) /\ h.state = e.state
    BY <2>3, <2>5, TimewaitAside
  <2>8. Took(e, h)
    BY <2>3, <2>4, <2>6, <2>7, AsideTook DEF StaysInOrder
  <2>9. Followed(t, r)
    BY <1>1, <1>2, <1>5, <1>6, FollowedTrans
  <2>10. Followed(t, e)
    BY <1>1, <1>6, <2>3, <2>6, <2>9, FollowedTrans
  <2> QED
    BY <1>1, <1>4, <2>3, <2>8, <2>10, TookTrans DEF h
<1>8. CASE ~InOrderFin(r, g)
  BY <1>1, <1>2, <1>3, <1>5, <1>6, <1>8, TookTrans DEF h
<1> QED
  BY <1>7, <1>8

\* handle_closing
LEMMA HandleClosingRead ==
    ASSUME NEW t, Ok(t), PeerInv(t), t.state = "CLOSING", Owes(t, 0), NEW g, OkSeg(g),
           NEW dup3 \in BOOLEAN, dup3 => DupAcks
    PROVE  Took(t, HandleClosing(t, g, dup3))
<1> DEFINE r == ProcessAck(t, g, dup3)
           e == [r EXCEPT !.una = g.ackSeq, !.nxt = g.ackSeq, !.state = "TIME_WAIT"]
           h == HandleClosing(t, g, dup3)
<1>1. t \in StreamType /\ 0 \in 0..2
  BY DEF Ok
<1>2. Ok(r) /\ Aside(t, r) /\ r.state = t.state
  BY <1>1, ProcessAckRead DEF Transmitting
<1>3. h \in {r, AddToTimewait(UpdateRetransmissionTimer(e))}
  BY DEF HandleClosing
<1> HIDE DEF r, h
<1>4. r \in StreamType
  BY <1>2 DEF Ok
<1>5. LET u == AddToTimewait(UpdateRetransmissionTimer(e)) IN
      Aside(r, u) /\ u.state = "TIME_WAIT"
  <2>1. LET v == UpdateRetransmissionTimer(e) IN
        Aside(r, v) /\ v.state = "TIME_WAIT"
    BY <1>4 DEF StreamType, Aside, UpdateRetransmissionTimer, AddToRTO, RemoveFromRTO
  <2>2. UpdateRetransmissionTimer(e) \in StreamType
    <3>1. g.ackSeq \in SeqNo /\ g.ackSeq \in 0..NxtCap /\ "TIME_WAIT" \in States
      BY DEF OkSeg, SeqNo, NxtCap, States
    <3>2. e \in StreamType
      BY <1>4, <3>1 DEF StreamType
    <3> HIDE DEF e
    <3> QED
      BY <3>2 DEF StreamType, UpdateRetransmissionTimer, AddToRTO, RemoveFromRTO
  <2> DEFINE v == UpdateRetransmissionTimer(e)
  <2> HIDE DEF v
  <2>3. v \in StreamType /\ Aside(r, v) /\ v.state = "TIME_WAIT"
    BY <2>1, <2>2 DEF v
  <2>4. Aside(v, AddToTimewait(v)) /\ AddToTimewait(v).state = v.state
    BY <2>3, SmallAside DEF AddToTimewait, StreamType
  <2>5. Aside(r, AddToTimewait(v)) /\ AddToTimewait(v).state = "TIME_WAIT"
    BY <2>3, <2>4, AsideTrans
  <2> QED
    BY <2>5 DEF v
<1>6. Aside(t, h) /\ h.state \in {"CLOSING", "TIME_WAIT"}
  BY <1>2, <1>3, <1>5, AsideTrans
<1>7. StaysInOrder(t.state, h.state)
  BY <1>6 DEF StaysInOrder, Synchronized, States
<1> QED
  BY <1>1, <1>6, <1>7, AsideTook DEF h

\* process_rst
LEMMA ProcessRstRead ==
    ASSUME NEW t, Ok(t), PeerInv(t), t.state \notin {"CLOSED", "LISTEN"}, Owes(t, 0), NEW g
    PROVE  /\ Took(t, ProcessRst(t, g))
           /\ t.state \in {"ESTABLISHED", "CLOSE_WAIT"} => Reading(t, ProcessRst(t, g))
<1> DEFINE e == [t EXCEPT !.state = "CLOSE_WAIT"]
           r == ProcessRst(t, g)
<1>1. t \in StreamType /\ 0 \in 0..2 /\ t.state \in States
  BY DEF Ok, StreamType
<1>2. \/ r = t
      \/ t.state \notin {"ESTABLISHED", "CLOSE_WAIT"} /\ r = CloseAndDestroy(t)
      \/ t.state \in {"ESTABLISHED", "CLOSE_WAIT"} /\ r = e
  BY <1>1 DEF ProcessRst, States
<1> HIDE DEF r
<1>3. Aside(t, t) /\ Aside(t, CloseAndDestroy(t)) /\ CloseAndDestroy(t).state = "CLOSED"
  BY <1>1, SmallAside, CloseAside
<1>4. Aside(t, e) /\ e.state = "CLOSE_WAIT"
  BY <1>1 DEF Aside, StreamType
<1> HIDE DEF e
<1>5. Aside(t, r) /\ (t.state \in {"ESTABLISHED", "CLOSE_WAIT"} => r.state \in {t.state, "CLOSE_WAIT"})
  BY <1>2, <1>3, <1>4
<1>6. StaysInOrder(t.state, r.state)
  BY <1>2, <1>3, <1>4 DEF StaysInOrder, Synchronized, States
<1>7. Took(t, r)
  BY <1>1, <1>5, <1>6, AsideTook
<1> QED
  BY <1>5, <1>7 DEF Reading, Aside, r

\* A segment outside the window asks for one ACK at most.
LEMMA RefuseRead ==
    ASSUME NEW t, Ok(t), PeerInv(t), Owes(t, 0), NEW g
    PROVE  /\ Took(t, Refuse(t, g))
           /\ t.state \in {"ESTABLISHED", "CLOSE_WAIT"} => Reading(t, Refuse(t, g))
<1> DEFINE opt == IF g.seq <= t.rcvNxt THEN "AGGREGATE" ELSE "NOW"
           a == EnqueueAckList(t, opt)
           w == AddToControl(AddToTimewait(t))
           r == Refuse(t, g)
<1>1. t \in StreamType /\ 0 \in 0..2
  BY DEF Ok
<1>2. \/ r \in {t, a, AddToControl(t)}
      \/ t.state = "TIME_WAIT" /\ r = w
  BY DEF Refuse
<1>3. opt \in {"NOW", "AGGREGATE"}
  OBVIOUS
<1>4. a \in StreamType
  BY EnqueueAckListOk DEF Ok
<1> HIDE DEF opt, r
<1>5. /\ PeerInv(a) /\ Followed(t, a) /\ Owes(a, 0 + 1) /\ a.state = t.state
      /\ a.rhead = t.rhead /\ a.rcvNxt = t.rcvNxt
  BY <1>1, <1>3, AckedRead
<1> HIDE DEF a
<1>6. Took(t, a)
  <2>1. a.alive => a.ackCnt <= 2 + 1
    BY <1>4, <1>5 DEF Owes, StreamType
  <2> QED
    BY <1>5, <2>1 DEF Took, Owes
<1>7. Aside(t, t) /\ Aside(t, AddToControl(t)) /\ AddToControl(t).state = t.state
  BY <1>1, SmallAside DEF AddToControl, StreamType
<1>8. Aside(t, w) /\ w.state = t.state
  BY <1>1, TimewaitAside
<1> HIDE DEF w
<1>9. CASE r = a
  BY <1>5, <1>6, <1>9 DEF Reading, r
<1>10. CASE r # a
  <2>1. Aside(t, r) /\ r.state = t.state
    BY <1>2, <1>7, <1>8, <1>10
  <2>2. Took(t, r)
    BY <1>1, <2>1, AsideTook DEF StaysInOrder
  <2> QED
    BY <2>1, <2>2 DEF Reading, Aside, r
<1> QED
  BY <1>9, <1>10

\* One handler for every state.
LEMMA HandleByStateRead ==
    ASSUME NEW t, Ok(t), PeerInv(t), Owes(t, 0), NEW g, OkSeg(g),
           NEW dup3 \in BOOLEAN, dup3 => DupAcks, NEW full \in BOOLEAN
    PROVE  LET r == HandleByState(t, g, dup3, full) IN
           /\ Took(t, r)
           /\ t.state \in {"ESTABLISHED", "CLOSE_WAIT"} => Reading(t, r)
<1> DEFINE r == HandleByState(t, g, dup3, full)
<1>1. t \in StreamType /\ 0 \in 0..2 /\ t.state \in States
  BY DEF Ok, StreamType
<1>2. CASE t.state = "LISTEN" \/ (t.state = "SYN_RCVD" /\ g.syn)
  <2>1. r = HandleListen(t)
    BY <1>2 DEF HandleByState
  <2> QED
    BY <1>2, <2>1, HandleListenRead
<1>3. CASE t.state = "SYN_RCVD" /\ ~g.syn
  <2> DEFINE a == HandleSynRcvd(t, g, full)
             b == HandleEstablished(a, g, dup3)
  <2>1. r = a \/ (a.state = "ESTABLISHED" /\ r = b)
    BY <1>3 DEF HandleByState
  <2>2. Ok(a) /\ a \in StreamType
    BY <1>3, HandleSynRcvdOk DEF Ok
  <2>3. PeerInv(a) /\ Followed(t, a) /\ Owes(a, 0)
    BY <1>3, HandleSynRcvdRead
  <2> HIDE DEF a, r
  <2>4. CASE r = a
    <3>1. Owes(a, 2)
      BY <2>2, <2>3 DEF Owes, StreamType
    <3> QED
      BY <1>3, <2>3, <2>4, <3>1 DEF Took, r
  <2>5. CASE a.state = "ESTABLISHED" /\ r = b
    <3>1. Took(a, b) /\ b \in StreamType
      BY <2>2, <2>3, <2>5, HandleEstablishedRead, HandleEstablishedOk DEF Ok
    <3> QED
      BY <1>1, <1>3, <2>2, <2>3, <2>5, <3>1, TookTrans DEF r
  <2> QED
    BY <2>1, <2>4, <2>5
<1>4. CASE t.state = "ESTABLISHED"
  <2>1. r = HandleEstablished(t, g, dup3)
    BY <1>4 DEF HandleByState
  <2> QED
    BY <1>4, <2>1, HandleEstablishedRead
<1>5. CASE t.state = "CLOSE_WAIT"
  <2>1. r = HandleCloseWait(t, g, dup3)
    BY <1>5 DEF HandleByState
  <2> QED
    BY <1>5, <2>1, HandleCloseWaitRead
<1>6. CASE t.state = "LAST_ACK"
  <2>1. r = HandleLastAck(t, g, dup3)
    BY <1>6 DEF HandleByState
  <2> QED
    BY <1>6, <2>1, HandleLastAckRead
<1>7. CASE t.state = "FIN_WAIT_1"
  <2>1. r = HandleFinWait1(t, g, dup3)
    BY <1>7 DEF HandleByState
  <2> QED
    BY <1>7, <2>1, HandleFinWait1Read
<1>8. CASE t.state = "FIN_WAIT_2"
  <2>1. r = HandleFinWait2(t, g, dup3)
    BY <1>8 DEF HandleByState
  <2> QED
    BY <1>8, <2>1, HandleFinWait2Read
<1>9. CASE t.state = "CLOSING"
  <2>1. r = HandleClosing(t, g, dup3)
    BY <1>9 DEF HandleByState
  <2> QED
    BY <1>9, <2>1, HandleClosingRead
<1>10. CASE t.state = "TIME_WAIT"
  <2> DEFINE w == IF "timewait" \in t.timers THEN RemoveFromRTO(t) ELSE t
  <2>1. r = AddToControl(w)
    BY <1>10 DEF HandleByState
  <2>2. w \in StreamType /\ Aside(t, w) /\ w.state = t.state
    BY <1>1, SmallAside DEF RemoveFromRTO, StreamType
  <2> HIDE DEF w, r
  <2>3. Aside(w, r) /\ r.state = w.state
    BY <2>1, <2>2, SmallAside DEF AddToControl, StreamType
  <2>4. Aside(t, r) /\ r.state = t.state
    BY <2>2, <2>3, AsideTrans
  <2> QED
    BY <1>1, <1>10, <2>4, AsideTook DEF StaysInOrder, r
<1>11. CASE t.state = "CLOSED"
  <2>1. r = t
    BY <1>11 DEF HandleByState
  <2>2. Aside(t, t)
    BY <1>1, SmallAside
  <2> QED
    BY <1>1, <1>11, <2>1, <2>2, AsideTook DEF StaysInOrder
<1> HIDE DEF r
<1> QED
  BY <1>1, <1>2, <1>3, <1>4, <1>5, <1>6, <1>7, <1>8, <1>9, <1>10, <1>11 DEF States, r

\* A packet, whatever it is: the peer's bytes stay in order, the window's edge stays
\* where it is or moves on, and two more ACKs at most are owed.
LEMMA ProcessRead ==
    ASSUME NEW t, Ok(t), PeerInv(t), Owes(t, 0), NEW g, OkSeg(g),
           NEW dup3 \in BOOLEAN, dup3 => DupAcks, NEW full \in BOOLEAN
    PROVE  LET r == Process(t, g, dup3, full) IN
           /\ Took(t, r)
           /\ t.state \in {"ESTABLISHED", "CLOSE_WAIT"} => Reading(t, r)
<1> DEFINE wnd == g.wnd
           rst == t.reset \/ g.rst
           w == [t EXCEPT !.peerWnd = wnd, !.reset = rst]
           r == Process(t, g, dup3, full)
           h == HandleByState(w, g, dup3, full)
<1>1. \/ r = Refuse(t, g)
      \/ t.state \notin {"CLOSED", "LISTEN"} /\ r = ProcessRst(w, g)
      \/ r = h
  BY DEF Process
<1>2. t \in StreamType /\ wnd \in 0..MaxWnd /\ rst \in BOOLEAN /\ 0 \in 0..2
  BY DEF Ok, OkSeg, StreamType
<1>3. Ok(r)
  BY ProcessOk
<1> HIDE DEF wnd, rst, r
<1>4. w \in StreamType
  BY <1>2 DEF StreamType
<1>5. /\ Same(t, w) /\ w.una = t.una /\ w.nxt = t.nxt /\ w.buf = t.buf /\ w.head = t.head
      /\ w.len = t.len /\ w.rhead = t.rhead /\ w.merged = t.merged /\ w.frags = t.frags
      /\ w.rcvNxt = t.rcvNxt /\ w.timers = t.timers
  BY <1>2 DEF StreamType, Same
<1>6. Aside(t, w) /\ w.state = t.state
  BY <1>2 DEF StreamType, Aside
<1> HIDE DEF w
<1>7. Ok(w)
  BY <1>4, <1>5, UntouchedOk
<1>8. PeerInv(w) /\ Followed(t, w) /\ Owes(w, 0)
  BY <1>2, <1>6, AsideTook DEF StaysInOrder
<1>9. CASE r = Refuse(t, g)
  BY <1>9, RefuseRead DEF r
<1>10. CASE \/ t.state \notin {"CLOSED", "LISTEN"} /\ r = ProcessRst(w, g)
            \/ r = h
  <2>1. Took(w, r) /\ (w.state \in {"ESTABLISHED", "CLOSE_WAIT"} => Reading(w, r))
    BY <1>6, <1>7, <1>8, <1>10, ProcessRstRead, HandleByStateRead
  <2>2. r \in StreamType
    BY <1>3 DEF Ok
  <2>3. Took(t, r)
    BY <1>2, <1>4, <1>8, <2>1, <2>2, TookTrans
  <2> QED
    BY <1>6, <2>1, <2>3 DEF Reading, Aside, r
<1> QED
  BY <1>1, <1>9, <1>10

\* A SYN reaches no synchronized state, and asks for no ACK outside of one.
LEMMA SynRead ==
    ASSUME NEW t, Ok(t), t.state \notin Synchronized, NEW g \in Syn, NEW dup3, NEW full
    PROVE  LET r == Process(t, g, dup3, full) IN
           /\ r.state \notin Synchronized /\ r.ackCnt = t.ackCnt
           /\ t.state # "CLOSED" => r.state = "SYN_RCVD"
<1> DEFINE wnd == g.wnd
           rst == t.reset \/ g.rst
           w == [t EXCEPT !.peerWnd = wnd, !.reset = rst]
           r == Process(t, g, dup3, full)
<1>1. t \in StreamType /\ g.rst = FALSE /\ g.syn = TRUE
  BY DEF Ok, Syn
<1>2. t.state \in {"CLOSED", "LISTEN", "SYN_RCVD"}
  BY <1>1 DEF StreamType, Synchronized
<1>3. r = HandleByState(w, g, dup3, full)
  BY <1>1 DEF Process
<1> HIDE DEF wnd, rst, r
<1>4. w.state = t.state /\ w.ackCnt = t.ackCnt /\ w.lists = t.lists
  BY <1>1 DEF StreamType
<1>5. w.state = "CLOSED" => r = w
  BY <1>3 DEF HandleByState
<1>6. w.state \in {"LISTEN", "SYN_RCVD"} => r = HandleListen(w)
  BY <1>1, <1>3 DEF HandleByState
<1>7. HandleListen(w).state = "SYN_RCVD" /\ HandleListen(w).ackCnt = w.ackCnt
  BY <1>1 DEF HandleListen, AddToControl, StreamType
<1> HIDE DEF w
<1> QED
  BY <1>2, <1>4, <1>5, <1>6, <1>7 DEF Synchronized, r

\* recv() moves the head: the bytes stay in order, the window opens.
LEMMA CopyToUserRead ==
    ASSUME NEW t \in StreamType, PeerInv(t), NEW n \in 1..t.merged
    PROVE  LET r == CopyToUser(t, n) IN
           /\ PeerInv(r) /\ NoShrink(t, r) /\ r.sent = t.sent /\ r.sock = t.sock
           /\ r.alive = t.alive /\ r.state = t.state /\ r.ackCnt = t.ackCnt
           /\ r.lists = t.lists
<1> DEFINE u == RBRemove(t, n)
           wnd == RcvSize - u.merged
           adv == t.needAdv /\ wnd > 1 /\ "ackq" \notin t.onq
           need == u.needAdv /\ ~adv
           onq == IF adv THEN u.onq \cup {"ackq"} ELSE u.onq
           r == [u EXCEPT !.rcvWnd = wnd, !.needAdv = need, !.onq = onq]
<1>1. t.merged \in 0..RcvSize /\ t.rhead \in Nat /\ t.rcvNxt \in Nat /\ t.rcvWnd \in Nat
  BY DEF StreamType, PeerSeqNo
<1>2. n \in Nat /\ n >= 1 /\ n <= t.merged
  BY <1>1
<1>3. /\ u.rhead = t.rhead + n /\ u.merged = t.merged - n /\ u.sent = t.sent
      /\ u.sock = t.sock /\ u.alive = t.alive /\ u.ackCnt = t.ackCnt /\ u.lists = t.lists
      /\ u.rcvNxt = t.rcvNxt /\ u.state = t.state
  BY <1>2, RBRemoveRead
<1>4. CopyToUser(t, n) = r
  BY DEF CopyToUser
<1>5. /\ r.rhead = u.rhead /\ r.merged = u.merged /\ r.sent = u.sent
      /\ r.sock = u.sock /\ r.alive = u.alive /\ r.ackCnt = u.ackCnt /\ r.lists = u.lists
      /\ r.rcvNxt = u.rcvNxt /\ r.state = u.state /\ r.rcvWnd = wnd
  BY DEF RBRemove, StreamType
<1>6. wnd = RcvSize - t.merged + n
  BY <1>1, <1>2, <1>3
<1> HIDE DEF u, wnd, r
<1>7. r.rhead + r.merged = t.rhead + t.merged /\ r.merged + r.rcvWnd <= RcvSize /\ r.rcvWnd <= RcvSize
  BY <1>1, <1>2, <1>3, <1>5, <1>6
<1>8. t.state \notin {"LISTEN", "SYN_RCVD"}
  BY <1>1, <1>2 DEF PeerInv
<1>9. r.rhead + r.merged + 1 = t.rhead + t.merged + 1
  BY <1>7
<1>10. PeerInv(r)
  BY <1>3, <1>5, <1>7, <1>8, <1>9 DEF PeerInv
<1>11. NoShrink(t, r)
  BY <1>1, <1>2, <1>3, <1>5, <1>6, <1>7 DEF NoShrink, RightEdge, PeerInv
<1> QED
  BY <1>3, <1>4, <1>5, <1>10, <1>11
-----------------------------------------------------------------------------
(* A step of the connection, for the receive half. *)
WindowStep ==
    s.alive /\ s'.alive /\ s.rcvWnd <= RcvSize => RightEdge(s') >= RightEdge(s)

\* Aside, but for what was sent and is owed
Beside(t, r) ==
    /\ r.rcvNxt = t.rcvNxt /\ r.rhead = t.rhead /\ r.merged = t.merged
    /\ r.rcvWnd = t.rcvWnd /\ r.sock = t.sock
    /\ r.alive => t.alive

\* The steps of the stack thread that take no packet.
LEMMA BesideStep ==
    ASSUME ReadInv, s \in StreamType, Beside(s, s'), StaysInOrder(s.state, s'.state),
           app' = app, s'.alive /\ app = "recvwait" => s'.state = s.state,
           s.sent \subseteq s'.sent, s'.sent = s.sent \/ arp, s'.ackCnt > 0 => s.ackCnt > 0 \/ arp,
           queue'.acceptq > 0 => queue.acceptq > 0, queue'.ackq > 0 => queue.ackq > 0,
           arp => arp', AckInv'
    PROVE  ReadInv' /\ WindowStep
<1>1. PeerInv(s')
  BY DEF ReadInv, PeerInv, Beside, StaysInOrder, Synchronized
<1>2. s'.state \in Synchronized => s.state \in Synchronized
  BY DEF StaysInOrder, Synchronized, States
<1>3. AddressKnown'
  <2>1. s'.state \in Synchronized \/ queue'.acceptq > 0 \/ app' # "none" => 0 \in s'.sent
    BY <1>2 DEF ReadInv, AddressKnown
  <2>2. s'.sent # {} \/ s'.ackCnt > 0 \/ queue'.ackq > 0 => arp'
    BY DEF ReadInv, AddressKnown
  <2> QED
    BY <2>1, <2>2 DEF AddressKnown
<1>4. ReaderInv'
  BY DEF ReadInv, ReaderInv, Beside
<1>5. WindowStep
  <2>1. s.rcvNxt \in Nat /\ s.rcvWnd \in Nat
    BY DEF StreamType, PeerSeqNo
  <2> QED
    BY <2>1 DEF WindowStep, Beside, RightEdge
<1>6. PeerInv(s)'
  BY <1>1 DEF PeerInv
<1> QED
  BY <1>3, <1>4, <1>5, <1>6 DEF ReadInv

\* Those among them that owe no more ACKs either.
AfterAcks == {"data", "dataend", "packet"}
LEMMA AsideStep ==
    ASSUME ReadInv, s \in StreamType, Aside(s, s'), StaysInOrder(s.state, s'.state),
           app' = app, s'.alive /\ app = "recvwait" => s'.state = s.state,
           queue'.acceptq > 0 => queue.acceptq > 0, queue'.ackq > 0 => queue.ackq > 0,
           arp => arp', stack' \in AfterAcks => stack \in AfterAcks
    PROVE  ReadInv' /\ WindowStep
<1>1. Beside(s, s')
  BY DEF Beside, Aside
<1>2. AckInv'
  BY DEF ReadInv, AckInv, Aside, AfterAcks
<1> QED
  BY <1>1, <1>2, BesideStep DEF Aside

\* Taking entries off the queues puts none on acceptq and ackq.
LEMMA DrainQueue ==
    ASSUME RestOK, NEW q \in {"sendq", "ackq", "closeq", "destroyq"}, NEW next, NEW handled,
           Drain(q, next, handled)
    PROVE  /\ queue'.acceptq = queue.acceptq
           /\ queue'.ackq > 0 => queue.ackq > 0
           /\ queue'.sendq > 0 => queue.sendq > 0
           /\ app' = app /\ arp' = arp
           /\ stack' \in {q, next} /\ stack = q
           /\ \/ s' = s
              \/ queue[q] > 0 /\ s.alive /\ s' = handled
              \/ ~s.alive /\ s' = Fail(s, "use_after_free")
<1>1. queue' = queue \/ queue' = [queue EXCEPT ![q] = queue[q] - 1]
  BY DEF Drain
<1>2. queue[q] \in Nat
  BY DEF RestOK
<1>3. queue'.acceptq = queue.acceptq /\ (queue'.ackq > 0 => queue.ackq > 0)
      /\ (queue'.sendq > 0 => queue.sendq > 0)
  BY <1>1, <1>2 DEF RestOK
<1> QED
  BY <1>3 DEF Drain, At

\* The stack thread's steps that send nothing and take no packet: the timers, the
\* queues from the API, and the ends of the rounds.
LEMMA QuietRead ==
    ASSUME IInv, ReadInv,
           \/ Pause \/ CheckRtmTimeout \/ CheckTimewaitExpire \/ CheckConnectionTimeout
           \/ HandleSendq \/ HandleCloseq \/ HandleDestroyq
    PROVE  ReadInv' /\ WindowStep
<1>1. Ok(s) /\ RestOK /\ CloseInv /\ s \in StreamType
  BY IInvParts DEF Ok
<1>2. Aside(s, s) /\ Aside(s, Fail(s, "use_after_free")) /\ Fail(s, "use_after_free").state = s.state
  BY <1>1, SmallAside DEF Fail, StreamType
<1>3. Aside(s, CloseAndDestroy(s)) /\ ~CloseAndDestroy(s).alive /\ CloseAndDestroy(s).state = "CLOSED"
  BY <1>1, CloseAside
<1>4. CASE Pause
  <2>1. /\ s' = s /\ queue' = queue /\ app' = app /\ (arp => arp')
        /\ stack' \in {"start", "rtm", "control", "ack"} \/ stack = "data"
    BY <1>4 DEF Pause, NoPacket, LearnAddress, StartRound, ControlBlocked, DataBlocked,
                NoTimestamp, At
  <2> QED
    BY <1>1, <1>2, <2>1, AsideStep DEF StaysInOrder, AfterAcks
<1>5. CASE CheckTimewaitExpire \/ CheckConnectionTimeout
  <2>1. /\ s' \in {s, CloseAndDestroy(s)} /\ queue' = queue /\ app' = app /\ arp' = arp
        /\ stack' \in {"timeout", "sendq"}
    BY <1>5 DEF CheckTimewaitExpire, CheckConnectionTimeout
  <2> QED
    BY <1>1, <1>2, <1>3, <2>1, AsideStep DEF StaysInOrder, AfterAcks
<1>6. CASE CheckRtmTimeout
  <2> DEFINE u == RemoveFromRTO(s)
             b == [u EXCEPT !.nxt = u.una]
             c == [b EXCEPT !.lists = @ \ {"control"}, !.waiting = TRUE]
  <2>1. /\ queue' = queue /\ app' = app /\ arp' = arp /\ stack' = "timewait"
        /\ s' = s \/ \E giveUp \in BOOLEAN : s' = HandleRTO(u, giveUp)
    BY <1>6 DEF CheckRtmTimeout
  <2>2. s' \in {s, CloseAndDestroy(u), AddToControl(b), AddToSend(b), AddToSend(c), Fail(u, "assert")}
    BY <2>1 DEF HandleRTO
  <2>3. u \in StreamType /\ Aside(s, u) /\ u.state = s.state
    BY <1>1, SmallAside DEF RemoveFromRTO, StreamType
  <2> HIDE DEF u
  <2>4. Aside(u, CloseAndDestroy(u)) /\ ~CloseAndDestroy(u).alive /\ CloseAndDestroy(u).state = "CLOSED"
    BY <2>3, CloseAside
  <2>5. u.una \in 0..NxtCap
    BY <2>3 DEF StreamType, SeqNo, NxtCap
  <2>6. b \in StreamType /\ Aside(u, b) /\ b.state = u.state
    BY <2>3, <2>5 DEF StreamType, Aside
  <2> HIDE DEF b
  <2>7. c \in StreamType /\ Aside(b, c) /\ c.state = b.state
    BY <2>6 DEF StreamType, Aside
  <2> HIDE DEF c
  <2>8. ASSUME NEW t \in StreamType
        PROVE  /\ Aside(t, AddToControl(t)) /\ AddToControl(t).state = t.state
               /\ Aside(t, AddToSend(t)) /\ AddToSend(t).state = t.state
               /\ Aside(t, Fail(t, "assert")) /\ Fail(t, "assert").state = t.state
    BY SmallAside DEF AddToControl, AddToSend, Fail, StreamType
  <2>9. \/ Aside(s, s') /\ s'.state = s.state
        \/ Aside(s, s') /\ s'.state = "CLOSED" /\ ~s'.alive
    <3>1. CASE s' \in {s, CloseAndDestroy(u)}
      BY <1>2, <2>3, <2>4, <3>1, AsideTrans
    <3>2. CASE s' \in {AddToControl(b), AddToSend(b)}
      <4>1. Aside(b, s') /\ s'.state = b.state
        BY <2>6, <2>8, <3>2
      <4> QED
        BY <2>3, <2>6, <4>1, AsideTrans
    <3>3. CASE s' = AddToSend(c)
      <4>1. Aside(c, s') /\ s'.state = c.state
        BY <2>7, <2>8, <3>3
      <4> QED
        BY <2>3, <2>6, <2>7, <4>1, AsideTrans
    <3>4. CASE s' = Fail(u, "assert")
      <4>1. Aside(u, s') /\ s'.state = u.state
        BY <2>3, <2>8, <3>4
      <4> QED
        BY <2>3, <4>1, AsideTrans
    <3> QED
      BY <2>2, <3>1, <3>2, <3>3, <3>4
  <2> QED
    BY <1>1, <2>1, <2>9, AsideStep DEF StaysInOrder, AfterAcks
<1>7. CASE HandleSendq
  <2> DEFINE e == [s EXCEPT !.onq = @ \ {"sendq"}]
  <2>1. Drain("sendq", "ackq", AddToSend(e))
    BY <1>7 DEF HandleSendq
  <2>2. e \in StreamType /\ Aside(s, e) /\ e.state = s.state
    BY <1>1 DEF StreamType, Aside
  <2> HIDE DEF e
  <2>3. Aside(e, AddToSend(e)) /\ AddToSend(e).state = e.state
    BY <2>2, SmallAside DEF AddToSend, Fail, StreamType
  <2>4. Aside(s, AddToSend(e)) /\ AddToSend(e).state = s.state
    BY <2>2, <2>3, AsideTrans
  <2>5. /\ queue'.acceptq = queue.acceptq /\ (queue'.ackq > 0 => queue.ackq > 0)
        /\ app' = app /\ arp' = arp /\ stack' \in {"sendq", "ackq"}
        /\ s' \in {s, AddToSend(e), Fail(s, "use_after_free")}
    BY <1>1, <2>1, DrainQueue
  <2>6. Aside(s, s') /\ s'.state = s.state
    BY <1>2, <2>4, <2>5
  <2> QED
    BY <1>1, <2>5, <2>6, AsideStep DEF StaysInOrder, AfterAcks
<1>8. CASE HandleDestroyq
  <2>1. Drain("destroyq", "control", DestroyTcpStream(s))
    BY <1>8 DEF HandleDestroyq
  <2>2. /\ queue'.acceptq = queue.acceptq /\ (queue'.ackq > 0 => queue.ackq > 0)
        /\ app' = app /\ arp' = arp /\ stack' \in {"destroyq", "control"}
        /\ s' \in {s, DestroyTcpStream(s), Fail(s, "use_after_free")}
    BY <1>1, <2>1, DrainQueue
  <2>3. Aside(s, DestroyTcpStream(s)) /\ DestroyTcpStream(s).state = s.state
    BY <1>1, SmallAside DEF DestroyTcpStream, StreamType
  <2>4. Aside(s, s') /\ s'.state = s.state
    BY <1>2, <2>2, <2>3
  <2> QED
    BY <1>1, <2>2, <2>4, AsideStep DEF StaysInOrder, AfterAcks
<1>9. CASE HandleCloseq
  <2> DEFINE c == [s EXCEPT !.onq = @ \ {"closeq"}, !.fss = FinalSeq(s),
                            !.timers = @ \ {"timeout"}]
  <2>1. Drain("closeq", "destroyq", CloseRequested(s))
    BY <1>9 DEF HandleCloseq
  <2>2. /\ queue'.acceptq = queue.acceptq /\ (queue'.ackq > 0 => queue.ackq > 0)
        /\ app' = app /\ arp' = arp /\ stack' \in {"closeq", "destroyq"}
        /\ \/ s' = s
           \/ queue.closeq > 0 /\ s.alive /\ s' = CloseRequested(s)
           \/ ~s.alive /\ s' = Fail(s, "use_after_free")
    BY <1>1, <2>1, DrainQueue
  <2>3. CASE s' \in {s, Fail(s, "use_after_free")}
    <3>1. Aside(s, s') /\ s'.state = s.state
      BY <1>2, <2>3
    <3> QED
      BY <1>1, <2>2, <3>1, AsideStep DEF StaysInOrder, AfterAcks
  <2>4. CASE queue.closeq > 0 /\ s' = CloseRequested(s)
    <3>1. app = "done"
      BY <1>1, <2>4 DEF CloseInv, RestOK
    <3>2. Aside(s, s') /\ s'.state \in {s.state, CloseState(s.state), "CLOSED"}
      BY <1>1, <2>4
      DEF CloseRequested, Aside, StreamType, CloseAndDestroy, DestroyTcpStream, AddToControl
    <3>3. StaysInOrder(s.state, s'.state)
      BY <3>2 DEF CloseState, StaysInOrder, Synchronized, States
    <3> QED
      BY <1>1, <2>2, <3>1, <3>2, <3>3, AsideStep DEF AfterAcks
  <2> QED
    BY <2>2, <2>3, <2>4
<1> QED
  BY <1>4, <1>5, <1>6, <1>7, <1>8, <1>9

\* A read that opened the window owes an ACK, if none is owed yet.
LEMMA AckqRead == ASSUME IInv, ReadInv, HandleAckq PROVE ReadInv' /\ WindowStep
<1> DEFINE e == [s EXCEPT !.onq = @ \ {"ackq"}]
           r == EnqueueAckList(e, "AGGREGATE")
<1>1. Ok(s) /\ RestOK /\ CloseInv /\ s \in StreamType
  BY IInvParts DEF Ok
<1>2. Aside(s, s) /\ Aside(s, Fail(s, "use_after_free")) /\ Fail(s, "use_after_free").state = s.state
  BY <1>1, SmallAside DEF Fail, StreamType
<1>3. Drain("ackq", "closeq", r)
  BY DEF HandleAckq
<1>4. e \in StreamType /\ Aside(s, e) /\ e.state = s.state /\ e.alive = s.alive
  BY <1>1 DEF StreamType, Aside
<1> HIDE DEF e
<1>5. Beside(e, r) /\ r.state = e.state /\ r.sent = e.sent /\ r.alive = e.alive
      /\ "ack" \in r.lists /\ r.ackCnt = (IF e.ackCnt = 0 THEN 1 ELSE e.ackCnt)
  BY <1>4 DEF Beside, EnqueueAckList, StreamType
<1> HIDE DEF r
<1>6. /\ queue'.acceptq = queue.acceptq /\ (queue'.ackq > 0 => queue.ackq > 0)
      /\ app' = app /\ arp' = arp /\ stack' \in {"ackq", "closeq"}
      /\ \/ s' = s
         \/ queue.ackq > 0 /\ s.alive /\ s' = r
         \/ ~s.alive /\ s' = Fail(s, "use_after_free")
  BY <1>1, <1>3, DrainQueue
<1>7. CASE s' \in {s, Fail(s, "use_after_free")}
  <2>1. Aside(s, s') /\ s'.state = s.state
    BY <1>2, <1>7
  <2> QED
    BY <1>1, <1>6, <2>1, AsideStep DEF StaysInOrder, AfterAcks
<1>8. CASE queue.ackq > 0 /\ s' = r
  <2>1. arp
    BY <1>8 DEF ReadInv, AddressKnown
  <2>2. Beside(s, s') /\ s'.state = s.state /\ s'.sent = s.sent
    BY <1>4, <1>5, <1>8 DEF Beside, Aside
  <2>3. s.ackCnt \in Nat
    BY <1>1 DEF StreamType
  <2>4. s'.alive => s'.ackCnt <= 3 /\ "ack" \in s'.lists
    BY <1>4, <1>5, <1>8, <2>3 DEF Aside, ReadInv, AckInv
  <2>5. AckInv'
    BY <1>6, <2>4 DEF AckInv
  <2> QED
    BY <1>1, <1>6, <2>1, <2>2, <2>5, BesideStep DEF StaysInOrder
<1> QED
  BY <1>6, <1>7, <1>8

\* A control packet is no ACK that ack_cnt counts; it may carry the SYN or the FIN.
LEMMA ControlPktBeside ==
    ASSUME NEW t \in StreamType
    PROVE  LET r == SendControlPkt(t) IN
           /\ Beside(t, r) /\ r.state = t.state /\ t.sent \subseteq r.sent /\ r.ackCnt = t.ackCnt
           /\ r.alive => ("ack" \in t.lists => "ack" \in r.lists)
<1> DEFINE r == SendControlPkt(t)
           d == Emit(t)
           all(x) == d.sent \cup {x}
           one == 1
           nxt == MinOf(d.nxt + 1, NxtCap)
           syn == [d EXCEPT !.sent = all(0), !.nxt = one]
           fin == [d EXCEPT !.sent = all(t.fss), !.nxt = nxt, !.finSent = TRUE]
<1>1. r \in {AddToRTO(syn), AddToRTO(fin), DestroyTcpStream(t), Emit(t)}
  <2>1. CASE t.state \in {"SYN_RCVD", "LAST_ACK", "FIN_WAIT_1", "CLOSED"}
    BY <2>1 DEF SendControlPkt, SendSynAck, SendFin
  <2>2. CASE t.state = "CLOSING"
    BY <2>2 DEF SendControlPkt, SendFin
  <2>3. CASE t.state \notin {"SYN_RCVD", "LAST_ACK", "FIN_WAIT_1", "CLOSED", "CLOSING"}
    BY <2>3 DEF SendControlPkt
  <2> QED
    BY <2>1, <2>2, <2>3
<1>2. /\ d.rcvNxt = t.rcvNxt /\ d.rhead = t.rhead /\ d.merged = t.merged
      /\ d.rcvWnd = t.rcvWnd /\ d.sock = t.sock /\ d.alive = t.alive /\ d.state = t.state
      /\ d.sent = t.sent /\ d.ackCnt = t.ackCnt /\ d.lists = t.lists /\ d \in StreamType
  BY DEF Emit, StreamType
<1>9. \A x : d.sent \subseteq all(x)
  OBVIOUS
<1> HIDE DEF d, r, all, one, nxt
<1>3. ASSUME NEW e \in {syn, fin}, r = AddToRTO(e)
      PROVE  /\ r.rcvNxt = d.rcvNxt /\ r.rhead = d.rhead /\ r.merged = d.merged
             /\ r.rcvWnd = d.rcvWnd /\ r.sock = d.sock /\ r.alive = d.alive /\ r.state = d.state
             /\ d.sent \subseteq r.sent /\ r.ackCnt = d.ackCnt /\ r.lists = d.lists
  <2>1. /\ e.rcvNxt = d.rcvNxt /\ e.rhead = d.rhead /\ e.merged = d.merged
        /\ e.rcvWnd = d.rcvWnd /\ e.sock = d.sock /\ e.alive = d.alive /\ e.state = d.state
        /\ d.sent \subseteq e.sent /\ e.ackCnt = d.ackCnt /\ e.lists = d.lists
        /\ DOMAIN e = DOMAIN d
    <3>1. CASE e = syn
      BY <1>2, <1>9, <3>1 DEF StreamType
    <3>2. CASE e = fin
      BY <1>2, <1>9, <3>2 DEF StreamType
    <3> QED
      BY <1>3, <3>1, <3>2
  <2> HIDE DEF syn, fin
  <2> QED
    BY <1>2, <1>3, <2>1 DEF AddToRTO, StreamType
<1>4. r = DestroyTcpStream(t) => /\ Aside(t, r) /\ r.state = t.state
  BY SmallAside DEF DestroyTcpStream, StreamType
<1>5. r = Emit(t) => r = d
  BY DEF d
<1> HIDE DEF syn, fin
<1>6. CASE r \in {AddToRTO(syn), AddToRTO(fin)}
  BY <1>2, <1>3, <1>6 DEF Beside, r
<1>7. CASE r = DestroyTcpStream(t)
  BY <1>4, <1>7 DEF Beside, Aside, r
<1>8. CASE r = Emit(t)
  BY <1>2, <1>5, <1>8 DEF Beside, r
<1> QED
  BY <1>1, <1>6, <1>7, <1>8

\* write_controllist leaves the ACKs to write_acklist.
LEMMA ControlRead == ASSUME IInv, ReadInv, WriteControlList PROVE ReadInv' /\ WindowStep
<1> DEFINE e == [s EXCEPT !.lists = @ \ {"control"}]
           z == [s EXCEPT !.nxt = 0]
           r == SendControlPkt(e)
<1>1. Ok(s) /\ RestOK /\ CloseInv /\ s \in StreamType
  BY IInvParts DEF Ok
<1>2. s' \in {s, z} \/ (s' = r /\ arp)
  BY DEF WriteControlList, ControlDelayed
<1>3. queue' = queue /\ app' = app /\ arp' = arp /\ stack' = "ack"
  BY DEF WriteControlList
<1>4. Aside(s, s) /\ Aside(s, z) /\ z.state = s.state
  BY <1>1 DEF Aside, StreamType
<1>5. e \in StreamType /\ Aside(s, e) /\ e.state = s.state
  BY <1>1 DEF Aside, StreamType
<1> HIDE DEF e, z
<1>6. /\ Beside(e, r) /\ r.state = e.state /\ e.sent \subseteq r.sent /\ r.ackCnt = e.ackCnt
      /\ r.alive => ("ack" \in e.lists => "ack" \in r.lists)
  BY <1>5, ControlPktBeside
<1> HIDE DEF r
<1>7. CASE s' \in {s, z}
  <2>1. Aside(s, s') /\ s'.state = s.state
    BY <1>4, <1>7
  <2> QED
    BY <1>1, <1>3, <2>1, AsideStep DEF StaysInOrder, AfterAcks
<1>8. CASE s' = r /\ arp
  <2>1. Beside(s, s') /\ s'.state = s.state /\ s.sent \subseteq s'.sent /\ s'.ackCnt = s.ackCnt
    BY <1>5, <1>6, <1>8 DEF Beside, Aside
  <2>2. s'.alive => s.alive /\ ("ack" \in s.lists => "ack" \in s'.lists)
    BY <1>5, <1>6, <1>8 DEF Aside, Beside
  <2>3. AckInv'
    BY <1>3, <2>1, <2>2 DEF ReadInv, AckInv
  <2> QED
    BY <1>1, <1>3, <1>8, <2>1, <2>3, BesideStep DEF StaysInOrder
<1> QED
  BY <1>2, <1>7, <1>8

\* write_controllist's take-back of a waiting stream
LEMMA StopWaitingAside ==
    ASSUME NEW t \in StreamType, NEW other
    PROVE  LET r == StopWaiting(t, other) IN Aside(t, r) /\ r.state = t.state /\ r.sent = t.sent
<1> DEFINE w == [t EXCEPT !.waiting = FALSE]
<1>1. w \in StreamType /\ Aside(t, w) /\ w.state = t.state
  BY DEF StreamType, Aside
<1>2. StopWaiting(t, other) \in {t, AddToControl(w)}
  BY DEF StopWaiting
<1> HIDE DEF w
<1>3. Aside(w, AddToControl(w)) /\ AddToControl(w).state = w.state
  BY <1>1, SmallAside DEF AddToControl, StreamType
<1>4. Aside(t, AddToControl(w)) /\ Aside(t, t)
  BY <1>1, <1>3, AsideTrans, SmallAside
<1>5. Aside(t, StopWaiting(t, other)) /\ StopWaiting(t, other).state = t.state
  BY <1>1, <1>2, <1>3, <1>4
<1> QED
  BY <1>5 DEF Aside

\* write_acklist leaves no ACK due: without an address none was.
LEMMA AckListRead == ASSUME IInv, ReadInv, WriteAckList PROVE ReadInv' /\ WindowStep
<1> DEFINE zero == 0
           d == [s EXCEPT !.ackCnt = zero, !.wack = FALSE, !.lists = @ \ {"ack"}]
           m == Emit(d)
           toAck == /\ s.state \in {"ESTABLISHED", "CLOSE_WAIT", "FIN_WAIT_1",
                                    "FIN_WAIT_2", "TIME_WAIT"}
                    /\ s.rcvNxt <= s.rhead + s.merged
           x == CASE toAck /\ (s.ackCnt > 0 \/ s.wack) -> IF arp THEN m ELSE s
                  [] OTHER -> d
<1>1. Ok(s) /\ RestOK /\ CloseInv /\ s \in StreamType
  BY IInvParts DEF Ok
<1>2. AcksWritten(s) = d
  BY DEF AcksWritten
<1>3. s' = IF "ack" \notin s.lists THEN s ELSE StopWaiting(x, "send")
  BY <1>2 DEF WriteAckList
<1>4. queue' = queue /\ app' = app /\ arp' = arp /\ stack' = "data"
  BY DEF WriteAckList
<1>5. x \in {d, m} \/ (x = s /\ ~arp)
  BY <1>2
<1>6. zero = 0 /\ zero \in 0..(AckMod - 1)
  OBVIOUS
<1> HIDE DEF zero
<1>7. d \in StreamType /\ Beside(s, d) /\ d.sent = s.sent /\ d.state = s.state /\ d.ackCnt = zero
  BY <1>1, <1>6 DEF StreamType, Beside
<1> HIDE DEF d, x
<1>8. m \in StreamType /\ Beside(d, m) /\ m.sent = d.sent /\ m.state = d.state
      /\ m.ackCnt = d.ackCnt
  BY <1>7 DEF Emit, StreamType, Beside
<1> HIDE DEF m
<1>9. s.alive => s.ackCnt \in Nat
  BY <1>1 DEF StreamType
<1>10. /\ x \in StreamType /\ Beside(s, x) /\ x.sent = s.sent /\ x.state = s.state
       /\ x.alive => x.ackCnt = 0
  <2>1. CASE x \in {d, m}
    BY <1>6, <1>7, <1>8, <2>1 DEF Beside
  <2>2. CASE x = s /\ ~arp
    <3>1. s.alive => ~(s.ackCnt > 0)
      BY <2>2 DEF ReadInv, AddressKnown
    <3>2. Beside(s, s)
      BY DEF Beside
    <3> QED
      BY <1>1, <1>9, <2>2, <3>1, <3>2
  <2> QED
    BY <1>5, <2>1, <2>2
<1>11. /\ Beside(s, s') /\ s'.sent = s.sent /\ s'.state = s.state
       /\ s'.alive => s'.ackCnt = 0
  <2>1. CASE "ack" \notin s.lists
    <3>1. s.alive => ~(s.ackCnt > 0)
      BY <2>1 DEF ReadInv, AckInv
    <3> QED
      BY <1>3, <1>9, <2>1, <3>1 DEF Beside
  <2>2. CASE "ack" \in s.lists
    <3>1. Aside(x, s') /\ s'.state = x.state
      BY <1>3, <1>10, <2>2, StopWaitingAside
    <3> QED
      BY <1>10, <3>1 DEF Aside, Beside
  <2> QED
    BY <2>1, <2>2
<1>12. AckInv'
  BY <1>11 DEF AckInv
<1>13. s'.ackCnt > 0 => s.ackCnt > 0 \/ arp
  <2>1. CASE x = s /\ "ack" \in s.lists
    BY <1>1, <1>3, <2>1, StopWaitingAside DEF Aside
  <2>2. CASE "ack" \notin s.lists
    BY <1>3, <2>2
  <2>3. CASE x \in {d, m} /\ "ack" \in s.lists
    <3>1. s'.ackCnt = x.ackCnt
      BY <1>3, <1>10, <2>3, StopWaitingAside DEF Aside
    <3>2. x.ackCnt = 0
      BY <1>6, <1>7, <1>8, <2>3
    <3> QED
      BY <3>1, <3>2
  <2> QED
    BY <1>5, <2>1, <2>2, <2>3
<1> QED
  BY <1>1, <1>4, <1>11, <1>12, <1>13, BesideStep DEF StaysInOrder

\* flush_sendbuffer sends data to a known address, and may ask for a window update.
LEMMA FlushBeside ==
    ASSUME NEW t \in StreamType, NEW w, NEW wack
    PROVE  LET r == FlushSendBuffer(t, w, wack)[1] IN
           /\ Beside(t, r) /\ r.state = t.state /\ r.ackCnt = t.ackCnt
           /\ t.sent \subseteq r.sent
           /\ r.sent = t.sent \/ arp
<1> DEFINE k == Sendable(t, w)
           all == t.sent \cup t.nxt..(t.nxt + k - 1)
           nxt == t.nxt + k
           m == Emit(t)
           e == [m EXCEPT !.sent = all, !.nxt = nxt]
           d == IF k > 0 THEN SendData(t, k) ELSE t
           a == [d EXCEPT !.lists = @ \cup {"ack"}, !.wack = d.wack \/ TRUE]
           r == FlushSendBuffer(t, w, wack)[1]
<1>1. \/ r \in {Fail(t, "assert"), Fail(t, "overread"), t}
      \/ k > 0 /\ arp /\ r \in {SendData(t, k), EnqueueAckList(SendData(t, k), "WACK")}
      \/ r = EnqueueAckList(t, "WACK")
  BY DEF FlushSendBuffer
<1>2. ASSUME NEW u \in StreamType
      PROVE  /\ Beside(u, EnqueueAckList(u, "WACK")) /\ EnqueueAckList(u, "WACK").state = u.state
             /\ EnqueueAckList(u, "WACK").ackCnt = u.ackCnt
             /\ EnqueueAckList(u, "WACK").sent = u.sent
  BY DEF EnqueueAckList, Beside, StreamType
<1>3. ASSUME NEW why
      PROVE  /\ Beside(t, Fail(t, why)) /\ Fail(t, why).state = t.state
             /\ Fail(t, why).ackCnt = t.ackCnt /\ Fail(t, why).sent = t.sent
  BY DEF Fail, Beside, StreamType
<1>4. Beside(t, t)
  BY DEF Beside
<1>5. SendData(t, k) = AddToRTO(e)
  <2>1. m.sent = t.sent /\ m.nxt = t.nxt
    BY DEF Emit, StreamType
  <2> QED
    BY <2>1 DEF SendData
<1>6. t.sent \subseteq all
  OBVIOUS
<1>7. /\ m.rcvNxt = t.rcvNxt /\ m.rhead = t.rhead /\ m.merged = t.merged
      /\ m.rcvWnd = t.rcvWnd /\ m.sock = t.sock /\ m.alive = t.alive /\ m.state = t.state
      /\ m.ackCnt = t.ackCnt /\ DOMAIN m = DOMAIN t
  BY DEF Emit, StreamType
<1> DEFINE f == AddToRTO(e)
           g == EnqueueAckList(f, "WACK")
<1> HIDE DEF all, nxt, m, r, k
<1>8. /\ e.rcvNxt = m.rcvNxt /\ e.rhead = m.rhead /\ e.merged = m.merged
      /\ e.rcvWnd = m.rcvWnd /\ e.sock = m.sock /\ e.alive = m.alive /\ e.state = m.state
      /\ e.ackCnt = m.ackCnt /\ e.sent = all /\ DOMAIN e = DOMAIN t
  BY <1>7 DEF StreamType
<1> HIDE DEF e
<1>9. /\ f.rcvNxt = e.rcvNxt /\ f.rhead = e.rhead /\ f.merged = e.merged
      /\ f.rcvWnd = e.rcvWnd /\ f.sock = e.sock /\ f.alive = e.alive /\ f.state = e.state
      /\ f.ackCnt = e.ackCnt /\ f.sent = e.sent /\ DOMAIN f = DOMAIN t
  BY <1>8 DEF AddToRTO, StreamType
<1> HIDE DEF f
<1>10. /\ g.rcvNxt = f.rcvNxt /\ g.rhead = f.rhead /\ g.merged = f.merged
       /\ g.rcvWnd = f.rcvWnd /\ g.sock = f.sock /\ g.alive = f.alive /\ g.state = f.state
       /\ g.ackCnt = f.ackCnt /\ g.sent = f.sent
  BY <1>9 DEF EnqueueAckList, StreamType
<1> HIDE DEF g
<1>11. CASE r \in {Fail(t, "assert"), Fail(t, "overread"), t}
  BY <1>3, <1>4, <1>11 DEF r
<1>12. CASE r = EnqueueAckList(t, "WACK")
  BY <1>2, <1>12 DEF r
<1>13. CASE arp /\ r \in {f, g}
  BY <1>6, <1>7, <1>8, <1>9, <1>10, <1>13 DEF Beside, r
<1> QED
  BY <1>1, <1>5, <1>11, <1>12, <1>13 DEF f, g

\* write_datalist finds the ACKs gone.
LEMMA DataListRead == ASSUME IInv, ReadInv, WriteDataList PROVE ReadInv' /\ WindowStep
<1>1. Ok(s) /\ RestOK /\ CloseInv /\ s \in StreamType
  BY IInvParts DEF Ok
<1>2. queue' = queue /\ app' = app /\ arp' = arp /\ stack = "data"
      /\ stack' \in {"packet", "dataend"}
  BY DEF WriteDataList, At
<1>3. s' = s \/ \E w, wack : s' = FlushSendBuffer(s, w, wack)[1]
  <2>1. CASE "send" \notin s.lists
    BY <2>1 DEF WriteDataList
  <2>2. CASE "send" \in s.lists
    <3>1. PICK cwnd \in 1..(AppBytes + 1), wack \in BOOLEAN :
            LET r == CASE s.state = "ESTABLISHED" /\ "control" \in s.lists -> <<s, -1>>
                       [] \/ s.state = "ESTABLISHED" /\ "control" \notin s.lists
                          \/ s.state \in {"CLOSE_WAIT", "FIN_WAIT_1", "LAST_ACK"} ->
                            FlushSendBuffer(s, MinOf(cwnd, s.peerWnd), wack)
                       [] OTHER -> <<s, 0>>
            IN  s' = r[1]
      BY <2>2 DEF WriteDataList
    <3> DEFINE f == FlushSendBuffer(s, MinOf(cwnd, s.peerWnd), wack)
    <3>2. s' = s \/ s' = f[1]
      <4>1. CASE s.state = "ESTABLISHED" /\ "control" \in s.lists
        BY <3>1, <4>1
      <4>2. CASE \/ s.state = "ESTABLISHED" /\ "control" \notin s.lists
                 \/ s.state \in {"CLOSE_WAIT", "FIN_WAIT_1", "LAST_ACK"}
        BY <3>1, <4>2
      <4>3. CASE s.state \notin {"ESTABLISHED", "CLOSE_WAIT", "FIN_WAIT_1", "LAST_ACK"}
        BY <3>1, <4>3
      <4> QED
        BY <4>1, <4>2, <4>3
    <3> QED
      BY <3>2
  <2> QED
    BY <2>1, <2>2
<1>4. /\ Beside(s, s') /\ s'.state = s.state /\ s'.ackCnt = s.ackCnt
      /\ s.sent \subseteq s'.sent /\ (s'.sent = s.sent \/ arp)
  <2>1. CASE s' = s
    BY <2>1 DEF Beside
  <2>2. ASSUME NEW w, NEW wack, s' = FlushSendBuffer(s, w, wack)[1]
        PROVE  /\ Beside(s, s') /\ s'.state = s.state /\ s'.ackCnt = s.ackCnt
               /\ s.sent \subseteq s'.sent /\ (s'.sent = s.sent \/ arp)
    BY <1>1, <2>2, FlushBeside
  <2> QED
    BY <1>3, <2>1, <2>2
<1>5. AckInv'
  BY <1>2, <1>4 DEF ReadInv, AckInv, Beside
<1> QED
  BY <1>1, <1>2, <1>4, <1>5, BesideStep DEF StaysInOrder

\* What is taken off ack_cnt after the flush is taken off 0.
LEMMA DataEndRead == ASSUME IInv, ReadInv, DataListEnd PROVE ReadInv' /\ WindowStep
<1> DEFINE l == s.lists \ {"send"}
           n == IF s.ackCnt > flushed THEN s.ackCnt - flushed ELSE 0
           e == [s EXCEPT !.lists = l, !.ackCnt = n]
<1>1. Ok(s) /\ RestOK /\ CloseInv /\ s \in StreamType
  BY IInvParts DEF Ok
<1>2. s' = StopWaiting(e, "ack")
  BY DEF DataListEnd
<1>3. s.ackCnt \in 0..(AckMod - 1) /\ flushed \in Nat
  BY <1>1 DEF StreamType, RestOK
<1>4. n \in 0..(AckMod - 1) /\ (n > 0 => s.ackCnt > 0) /\ (s.ackCnt = 0 => n = 0)
  BY <1>3
<1>5. l \in SUBSET {"control", "send", "ack"} /\ ("ack" \in s.lists => "ack" \in l)
  BY <1>1 DEF StreamType
<1> HIDE DEF l, n
<1>6. e \in StreamType
  BY <1>1, <1>4, <1>5 DEF StreamType
<1>7. Beside(s, e) /\ e.sent = s.sent /\ e.state = s.state /\ e.ackCnt = n /\ e.alive = s.alive
  BY <1>1 DEF StreamType, Beside
<1> HIDE DEF e
<1>8. Aside(e, s') /\ s'.state = e.state
  BY <1>2, <1>6, StopWaitingAside
<1>9. queue' = queue /\ app' = app /\ arp' = arp /\ stack = "dataend" /\ stack' = "packet"
  BY DEF DataListEnd, At
<1>10. Beside(s, s') /\ s'.sent = s.sent /\ s'.state = s.state /\ s'.ackCnt = n
  BY <1>7, <1>8 DEF Beside, Aside
<1>11. s.alive => n = 0
  BY <1>4, <1>9 DEF ReadInv, AckInv
<1>12. AckInv'
  BY <1>10, <1>11 DEF AckInv, Beside
<1> QED
  BY <1>1, <1>4, <1>9, <1>10, <1>12, BesideStep DEF StaysInOrder

\* The connection starts with nothing read, sent or owed, and nobody in a call.
LEMMA PassiveOpenRead == ASSUME IInv, ReadInv, PassiveOpen PROVE ReadInv' /\ WindowStep
<1> DEFINE c == CreateTcpStream
<1>1. Ok(s) /\ RestOK /\ CloseInv /\ s \in StreamType
  BY IInvParts DEF Ok
<1>2. PICK g \in Syn : s' = Process(c, g, FALSE, FALSE)
  BY DEF PassiveOpen
<1>3. s = Blank /\ queue' = queue /\ app' = app /\ arp' = arp /\ stack' = "start"
  BY DEF PassiveOpen
<1>4. ~s.alive /\ s.sent = {}
  BY <1>3 DEF Blank
<1>5. ~(queue.acceptq > 0) /\ app = "none"
  BY <1>4 DEF ReadInv, AddressKnown
<1>6. Ok(c)
  BY BlankOk
<1>7. /\ c.state = "LISTEN" /\ c.rhead = 1 /\ c.merged = 0 /\ c.ackCnt = 0
      /\ c.rcvWnd = InitWnd /\ c.sent = {}
  BY DEF CreateTcpStream, Blank
<1> HIDE DEF c
<1>8. PeerInv(c) /\ Owes(c, 0)
  BY <1>7 DEF PeerInv, Owes, Synchronized
<1>9. Took(c, s')
  <2>1. FALSE \in BOOLEAN /\ (FALSE => DupAcks)
    OBVIOUS
  <2> QED
    BY <1>2, <1>6, <1>8, <2>1, SynOk, ProcessRead
<1>10. s'.state \notin Synchronized /\ s'.ackCnt = c.ackCnt
  <2>1. c.state \notin Synchronized
    BY <1>7 DEF Synchronized
  <2>2. \A d, f : /\ Process(c, g, d, f).state \notin Synchronized
                  /\ Process(c, g, d, f).ackCnt = c.ackCnt
    BY <1>6, <2>1, SynRead
  <2> QED
    BY <1>2, <2>2
<1>11. s'.sent = {} /\ s'.ackCnt = 0
  BY <1>7, <1>9, <1>10 DEF Took, Followed
<1>12. PeerInv(s)'
  BY <1>9 DEF Took, PeerInv
<1>13. AddressKnown'
  <2>1. s'.state \in Synchronized \/ queue'.acceptq > 0 \/ app' # "none" => 0 \in s'.sent
    BY <1>3, <1>5, <1>10
  <2>2. s'.sent # {} \/ s'.ackCnt > 0 \/ queue'.ackq > 0 => arp'
    BY <1>3, <1>11 DEF ReadInv, AddressKnown
  <2> QED
    BY <2>1, <2>2 DEF AddressKnown
<1>14. AckInv' /\ ReaderInv'
  BY <1>3, <1>5, <1>11 DEF AckInv, ReaderInv, InCall
<1>15. WindowStep
  BY <1>4 DEF WindowStep
<1> QED
  BY <1>12, <1>13, <1>14, <1>15 DEF ReadInv

\* The timestamp of a packet leaves the order, and may cost an ACK; a stream that is
\* not synchronized has none.
LEMMA TimestampRead ==
    ASSUME NEW t, Ok(t), PeerInv(t), t.ackCnt = 0, NEW g, NEW old
    PROVE  LET u == CheckTimestamp(t, g, old) IN
           /\ Ok(u) /\ PeerInv(u) /\ Owes(u, 0) /\ Followed(t, u) /\ u.alive = t.alive
           /\ u.state = t.state /\ u.rhead = t.rhead /\ u.rcvNxt = t.rcvNxt
           /\ t.state \notin Synchronized => u = t
<1> DEFINE n == (t.ackCnt + 1) % AckMod
           w == t.wack \/ "NOW" = "WACK"
           a == [t EXCEPT !.lists = @ \cup {"ack"}, !.wack = w, !.ackCnt = n]
           u == CheckTimestamp(t, g, old)
<1>1. t \in StreamType
  BY DEF Ok
<1>2. Ok(u)
  BY CheckTimestampOk
<1>3. EnqueueAckList(t, "NOW") = a
  BY DEF EnqueueAckList
<1>4. n <= 0 + 1
  BY ModBound
<1> HIDE DEF n, w, u
<1>5. /\ a.rcvNxt = t.rcvNxt /\ a.rhead = t.rhead /\ a.merged = t.merged
      /\ a.rcvWnd = t.rcvWnd /\ a.state = t.state /\ a.alive = t.alive
      /\ a.ackCnt = n /\ "ack" \in a.lists
  BY <1>1 DEF StreamType
<1> HIDE DEF a
<1>6. Followed(t, a) /\ PeerInv(a)
  <2>1. Owes(t, 0)
    BY DEF Owes
  <2>2. Followed(t, EnqueueAckList(t, "NOW"))
    BY <1>1, <2>1, EnqueueAckListRead
  <2> QED
    BY <1>3, <1>5, <2>2 DEF PeerInv
<1>7. a.ackCnt <= 0 + 1
  BY <1>4, <1>5
<1>8. Followed(t, t)
  BY <1>1 DEF Followed, NoShrink, RightEdge, StreamType, PeerSeqNo
<1>9. u = t \/ (u = a /\ t.state \in Synchronized)
  BY <1>3 DEF CheckTimestamp, Stamped, u
<1>10. Owes(a, 0) /\ Owes(t, 0)
  BY <1>7, <1>5 DEF Owes
<1> QED
  BY <1>2, <1>5, <1>6, <1>8, <1>9, <1>10 DEF u

\* One packet of the peer: its bytes stay in order, a reader that sleeps on was not
\* passed over, and whoever answers us knows where we are.
LEMMA ReceiveRead ==
    ASSUME IInv, ReadInv, NEW g \in Arriving, NEW old \in {FALSE, Timestamps},
           NEW dup3 \in {FALSE, DupAcks}, NEW full \in BOOLEAN, Receive(g, old, dup3, full)
    PROVE  ReadInv' /\ WindowStep
<1> DEFINE u == CheckTimestamp(s, g, old)
<1>1. Ok(s) /\ RestOK /\ CloseInv /\ s \in StreamType /\ PeerInv(s)
  BY IInvParts DEF Ok, ReadInv
<1>2. /\ s' = Process(u, g, dup3, full) /\ s.alive /\ stack = "packet" /\ stack' = "start"
      /\ arp' = arp
  BY DEF Receive, At
<1>3. OkSeg(g) /\ dup3 \in BOOLEAN /\ (dup3 => DupAcks)
  <2>1. OkSeg(g)
    BY ArrivingOk
  <2>2. CASE dup3 = FALSE
    BY <2>1, <2>2
  <2>3. CASE dup3 = DupAcks
    BY <2>1, <2>3
  <2> QED
    BY <2>2, <2>3
<1>4. s.ackCnt = 0
  BY <1>2 DEF ReadInv, AckInv
<1>u. /\ Ok(u) /\ PeerInv(u) /\ Owes(u, 0) /\ Followed(s, u)
      /\ u.state = s.state /\ u.rhead = s.rhead /\ u.rcvNxt = s.rcvNxt
      /\ s.state \notin Synchronized => u = s
  BY <1>1, <1>4, TimestampRead
<1> HIDE DEF u
<1>6. Ok(s')
  BY <1>2, <1>3, <1>u, ProcessOk
<1>5. Took(s, s') /\ (s.state \in {"ESTABLISHED", "CLOSE_WAIT"} => Reading(s, s'))
  <2>1. Took(u, s') /\ (u.state \in {"ESTABLISHED", "CLOSE_WAIT"} => Reading(u, s'))
    BY <1>2, <1>3, <1>u, ProcessRead
  <2>2. u \in StreamType /\ s' \in StreamType
    BY <1>6, <1>u DEF Ok
  <2> QED
    BY <1>1, <1>u, <2>1, <2>2, TookTrans DEF Reading
<1>7. s'.sent = s.sent /\ s'.sock = s.sock /\ NoShrink(s, s')
  BY <1>5 DEF Took, Followed
<1>8. \/ app' = app /\ ~(app = "recvwait" /\ ReadSignal)
      \/ app = "recvwait" /\ app' = "recv"
  BY DEF Receive
<1>9. /\ queue'.ackq = queue.ackq
      /\ queue'.acceptq > 0 =>
            queue.acceptq > 0 \/ (s.state = "SYN_RCVD" /\ s'.una = 1)
  BY <1>1 DEF Receive, RestOK
<1>10. 0 \in s.sent \/ /\ s.state \notin Synchronized /\ s'.state \notin Synchronized
                       /\ s'.ackCnt = s.ackCnt /\ ~(s.state = "SYN_RCVD" /\ s'.una = 1)
  <2>1. CASE g \in Syn
    <3>1. CASE s.state \in Synchronized
      BY <3>1 DEF ReadInv, AddressKnown
    <3>2. CASE s.state \notin Synchronized
      <4>1. s'.state \notin Synchronized /\ s'.ackCnt = s.ackCnt
            /\ (s.state # "CLOSED" => s'.state = "SYN_RCVD")
        BY <1>1, <1>2, <1>u, <2>1, <3>2, SynRead
      <4>2. s'.state = "SYN_RCVD" => s'.una = 0
        BY <1>6 DEF Ok, StreamInv, SendInv
      <4> QED
        BY <3>2, <4>1, <4>2
    <3> QED
      BY <3>1, <3>2
  <2>2. CASE g.ackSeq \in Acked(s)
    <3>1. g.ackSeq \in 1..(AppBytes + 2) /\ 0..(g.ackSeq - 1) \subseteq s.sent
      BY <2>2 DEF Acked
    <3>2. 0 \in 0..(g.ackSeq - 1)
      BY <3>1
    <3> QED
      BY <3>1, <3>2
  <2> QED
    BY <2>1, <2>2 DEF Arriving
<1>11. AddressKnown'
  <2>1. s'.state \in Synchronized \/ queue'.acceptq > 0 \/ app' # "none" => 0 \in s'.sent
    BY <1>7, <1>8, <1>9, <1>10 DEF ReadInv, AddressKnown
  <2>2. s'.sent # {} \/ s'.ackCnt > 0 \/ queue'.ackq > 0 => arp'
    BY <1>2, <1>4, <1>7, <1>9, <1>10 DEF ReadInv, AddressKnown
  <2> QED
    BY <2>1, <2>2 DEF AddressKnown
<1>12. PeerInv(s)'
  BY <1>5 DEF Took, PeerInv
<1>13. AckInv'
  BY <1>2, <1>5 DEF Took, Owes, AckInv
<1>14. ReaderInv'
  <2>1. app' \in InCall => s'.sock
    BY <1>2, <1>7, <1>8 DEF ReadInv, ReaderInv, InCall
  <2>2. ASSUME app' = "recvwait"
        PROVE  /\ s'.state \in {"ESTABLISHED", "CLOSE_WAIT"}
               /\ s'.merged = 0 /\ s'.rcvNxt = s'.rhead
    <3>1. app = "recvwait" /\ ~ReadSignal
      BY <1>8, <2>2
    <3>2. s.state \in {"ESTABLISHED", "CLOSE_WAIT"} /\ s.rcvNxt = s.rhead /\ s.sock
      BY <1>2, <3>1 DEF ReadInv, ReaderInv, InCall
    <3>3. Reading(s, s')
      BY <1>5, <3>2
    <3>4. ~(s'.rcvNxt > s.rcvNxt)
      <4>1. CASE s.state = "ESTABLISHED"
        BY <3>1, <3>2, <4>1 DEF ReadSignal
      <4>2. CASE s.state = "CLOSE_WAIT"
        <5>1. s'.rcvNxt = s.rcvNxt /\ s.rcvNxt \in Nat
          BY <1>1, <3>3, <4>2 DEF Reading, StreamType, PeerSeqNo
        <5> QED
          BY <5>1
      <4> QED
        BY <3>2, <4>1, <4>2
    <3>5. \/ s'.rcvNxt = s'.rhead + s'.merged
          \/ s'.rcvNxt = s'.rhead + s'.merged + 1
      <4>1. s'.state \in Synchronized
        BY <3>3 DEF Reading, Synchronized, States
      <4> QED
        BY <1>5, <4>1 DEF Took, PeerInv
    <3>6. s'.rhead \in Nat /\ s'.merged \in Nat /\ s'.rcvNxt \in Nat /\ s'.rhead = s.rhead
      BY <1>6, <3>3 DEF Ok, StreamType, PeerSeqNo, Reading
    <3>7. s'.merged = 0 /\ s'.rcvNxt = s'.rhead
      BY <3>2, <3>4, <3>5, <3>6
    <3> QED
      BY <3>3, <3>7 DEF Reading
  <2> QED
    BY <2>1, <2>2 DEF ReaderInv
<1>15. WindowStep
  BY <1>7 DEF WindowStep, NoShrink
<1> QED
  BY <1>11, <1>12, <1>13, <1>14, <1>15 DEF ReadInv
-----------------------------------------------------------------------------
(* The calls of the application. *)

\* r is t after a call that read nothing.
Unread(t, r) ==
    /\ r.rcvNxt = t.rcvNxt /\ r.rhead = t.rhead /\ r.merged = t.merged
    /\ r.rcvWnd = t.rcvWnd /\ r.sent = t.sent /\ r.ackCnt = t.ackCnt
    /\ r.lists = t.lists /\ r.state = t.state /\ r.alive = t.alive

\* A call that reads nothing leaves the order, the ACKs and the address alone.
LEMMA CallStep ==
    ASSUME ReadInv, s \in StreamType, Unread(s, s'), stack' = stack, arp' = arp,
           queue'.acceptq > 0 => queue.acceptq > 0, queue'.ackq > 0 => queue.ackq > 0,
           app' # "none" => app # "none" \/ queue.acceptq > 0, ReaderInv'
    PROVE  ReadInv' /\ WindowStep
<1>1. PeerInv(s)'
  BY DEF ReadInv, PeerInv, Unread
<1>2. AddressKnown' /\ AckInv'
  BY DEF ReadInv, AddressKnown, AckInv, Unread
<1>3. WindowStep
  <2>1. s.rcvNxt \in Nat /\ s.rcvWnd \in Nat
    BY DEF StreamType, PeerSeqNo
  <2> QED
    BY <2>1 DEF WindowStep, Unread, RightEdge
<1> QED
  BY <1>1, <1>2, <1>3 DEF ReadInv

\* recv() that copies leaves a stream in order, and may have the stack announce the
\* window; nobody reads from a peer whose address is not known.
LEMMA RecvCopyRead == ASSUME IInv, ReadInv, RecvCopy PROVE ReadInv' /\ WindowStep
<1>1. Ok(s) /\ RestOK /\ CloseInv /\ s \in StreamType /\ PeerInv(s)
  BY IInvParts DEF Ok, ReadInv
<1>2. app = "recv" /\ app' = "idle" /\ stack' = stack /\ arp' = arp
  BY DEF RecvCopy, InApi
<1>3. Unread(s, s) /\ Unread(s, Fail(s, "use_after_free"))
      /\ Fail(s, "use_after_free").sock = s.sock
  BY <1>1 DEF Unread, Fail, StreamType
<1>4. CASE s' = Touch(s) /\ queue' = queue
  <2>1. Unread(s, s') /\ s'.sock = s.sock
    BY <1>3, <1>4 DEF Touch
  <2>2. ReaderInv'
    BY <1>2, <2>1 DEF ReadInv, ReaderInv, InCall, Unread
  <2> QED
    BY <1>1, <1>2, <1>4, <2>1, <2>2, CallStep
<1>5. ASSUME NEW n \in 1..s.merged, s' = CopyToUser(s, n) PROVE ReadInv' /\ WindowStep
  <2>1. /\ PeerInv(s') /\ NoShrink(s, s') /\ s'.sent = s.sent /\ s'.sock = s.sock
        /\ s'.alive = s.alive /\ s'.state = s.state /\ s'.ackCnt = s.ackCnt
        /\ s'.lists = s.lists
    BY <1>1, <1>5, CopyToUserRead
  <2>2. PeerInv(s)'
    BY <2>1 DEF PeerInv
  <2>3. 0 \in s.sent /\ arp
    BY <1>2 DEF ReadInv, AddressKnown
  <2>4. AddressKnown' /\ AckInv'
    BY <1>2, <2>1, <2>3 DEF ReadInv, AddressKnown, AckInv
  <2>5. ReaderInv'
    BY <1>2, <2>1 DEF ReadInv, ReaderInv, InCall
  <2>6. WindowStep
    BY <2>1 DEF WindowStep, NoShrink
  <2> QED
    BY <2>2, <2>4, <2>5, <2>6 DEF ReadInv
<1>6. \/ s' = Touch(s) /\ queue' = queue
      \/ \E n \in 1..s.merged : s' = CopyToUser(s, n)
  BY DEF RecvCopy
<1> QED
  BY <1>4, <1>5, <1>6

\* The other calls.
LEMMA CallRead ==
    ASSUME IInv, ReadInv, App, ~RecvCopy
    PROVE  ReadInv' /\ WindowStep
<1>1. Ok(s) /\ RestOK /\ CloseInv /\ s \in StreamType /\ PeerInv(s)
  BY IInvParts DEF Ok, ReadInv
<1>2. Unread(s, s) /\ Unread(s, Fail(s, "use_after_free"))
  BY <1>1 DEF Unread, Fail, StreamType
<1>3. \A f \in {"acceptq", "ackq", "sendq", "closeq", "destroyq"} : queue[f] \in Nat
  BY <1>1 DEF RestOK
<1>4. CASE AcceptDequeue
  <2>1. s' = s /\ stack' = stack /\ arp' = arp /\ app' = "bind" /\ queue.acceptq > 0
        /\ queue' = [queue EXCEPT !.acceptq = @ - 1]
    BY <1>4 DEF AcceptDequeue
  <2>2. queue'.acceptq > 0 => queue.acceptq > 0 /\ queue'.ackq = queue.ackq
    BY <1>1, <2>1 DEF RestOK
  <2>3. queue'.ackq = queue.ackq
    BY <1>1, <2>1 DEF RestOK
  <2>4. ReaderInv'
    BY <2>1 DEF ReaderInv, InCall
  <2> QED
    BY <1>1, <1>2, <2>1, <2>2, <2>3, <2>4, CallStep
<1>5. CASE AcceptBind
  <2> DEFINE e == [s EXCEPT !.sock = TRUE]
  <2>1. s' = Touch(e) /\ stack' = stack /\ arp' = arp /\ app' = "idle" /\ queue' = queue
        /\ app = "bind"
    BY <1>5 DEF AcceptBind, InApi
  <2>2. Unread(s, e) /\ e.sock = TRUE
    BY <1>1 DEF Unread, StreamType
  <2> HIDE DEF e
  <2>3. Unread(s, s') /\ (s'.alive => s'.sock = TRUE)
    BY <1>2, <2>1, <2>2 DEF Touch, Unread
  <2>4. ReaderInv'
    BY <2>1, <2>3 DEF ReaderInv
  <2> QED
    BY <1>1, <2>1, <2>3, <2>4, CallStep
<1>6. CASE AcceptNoSocket
  <2>1. s' \in {s, Fail(s, "use_after_free")} /\ stack' = stack /\ arp' = arp
        /\ app' = "done" /\ queue' = queue /\ app = "bind"
    BY <1>6 DEF AcceptNoSocket, InApi, Touch
  <2>2. ReaderInv'
    BY <2>1 DEF ReaderInv, InCall
  <2> QED
    BY <1>1, <1>2, <2>1, <2>2, CallStep
<1>7. CASE RecvCheck \/ SendCheck \/ SendWait
  <2>1. s' \in {s, Fail(s, "use_after_free")} /\ stack' = stack /\ arp' = arp
        /\ queue' = queue /\ app \in InCall /\ app' \in {"recv", "send", "sendwait"}
    BY <1>7 DEF RecvCheck, SendCheck, SendWait, InApi, Touch, InCall
  <2>2. Unread(s, s') /\ s'.sock = s.sock
    <3>1. Fail(s, "use_after_free").sock = s.sock
      BY <1>1 DEF Fail, StreamType
    <3> QED
      BY <1>2, <2>1, <3>1
  <2>3. ReaderInv'
    BY <2>1, <2>2 DEF ReadInv, ReaderInv, Unread
  <2>4. app # "none"
    BY <2>1 DEF InCall
  <2> QED
    BY <1>1, <2>1, <2>2, <2>3, <2>4, CallStep
<1>8. CASE RecvWait
  <2>1. /\ s' = s /\ stack' = stack /\ arp' = arp /\ queue' = queue /\ app = "recv"
        /\ app' = "recvwait" /\ s.alive /\ s.merged = 0 /\ s.state = "ESTABLISHED"
    BY <1>8 DEF RecvWait, InApi
  <2>2. s.rcvNxt = s.rhead
    <3>1. s.rcvNxt = s.rhead + s.merged /\ s.rhead \in Nat
      BY <1>1, <2>1 DEF PeerInv, StreamType, PeerSeqNo
    <3> QED
      BY <2>1, <3>1
  <2>3. ReaderInv'
    BY <2>1, <2>2 DEF ReadInv, ReaderInv, InCall
  <2> QED
    BY <1>1, <1>2, <2>1, <2>3, CallStep
<1>9. CASE SendCopy
  <2>1. stack' = stack /\ arp' = arp /\ queue' = queue /\ app = "send"
        /\ app' \in {"notify", "idle"}
    BY <1>9 DEF SendCopy, InApi
  <2>2. \/ s' \in {s, Fail(s, "use_after_free")}
        \/ \E n \in Int : s' = [s EXCEPT !.buf = TRUE, !.len = @ + n]
    <3> DEFINE m == MinOf(SendSize - s.len, AppBytes + 1 - s.head - s.len)
    <3>1. \/ s' = Touch(s)
          \/ \E n \in 1..m : s' = [s EXCEPT !.buf = TRUE, !.len = @ + n]
      BY <1>9 DEF SendCopy
    <3> HIDE DEF m
    <3>2. 1..m \subseteq Int
      OBVIOUS
    <3> QED
      BY <3>1, <3>2 DEF Touch
  <2>3. ASSUME NEW n \in Int
        PROVE  LET e == [s EXCEPT !.buf = TRUE, !.len = @ + n] IN
               Unread(s, e) /\ e.sock = s.sock
    BY <1>1 DEF Unread, StreamType
  <2>4. Fail(s, "use_after_free").sock = s.sock
    BY <1>1 DEF Fail, StreamType
  <2>5. Unread(s, s') /\ s'.sock = s.sock
    BY <1>2, <2>2, <2>3, <2>4
  <2>6. ReaderInv'
    BY <2>1, <2>5 DEF ReadInv, ReaderInv, Unread, InCall
  <2> QED
    BY <1>1, <2>1, <2>5, <2>6, CallStep
<1>10. CASE SendNotify
  <2> DEFINE e == [s EXCEPT !.onq = @ \cup {"sendq"}]
  <2>1. stack' = stack /\ arp' = arp /\ app = "notify" /\ app' = "idle"
        /\ (queue' = queue \/ queue' = [queue EXCEPT !.sendq = @ + 1])
        /\ s' \in {s, e, Fail(s, "use_after_free")}
    BY <1>10 DEF SendNotify, InApi, Touch
  <2>2. Unread(s, e) /\ e.sock = s.sock
    BY <1>1 DEF Unread, StreamType
  <2> HIDE DEF e
  <2>3. Fail(s, "use_after_free").sock = s.sock
    BY <1>1 DEF Fail, StreamType
  <2>4. Unread(s, s') /\ s'.sock = s.sock
    BY <1>2, <2>1, <2>2, <2>3
  <2>5. queue'.acceptq = queue.acceptq /\ queue'.ackq = queue.ackq
    BY <1>1, <2>1 DEF RestOK
  <2>6. ReaderInv'
    BY <2>1, <2>4 DEF ReadInv, ReaderInv, Unread, InCall
  <2> QED
    BY <1>1, <2>1, <2>4, <2>5, <2>6, CallStep
<1>11. CASE CloseMark
  <2> DEFINE e == [s EXCEPT !.closed = TRUE, !.sock = FALSE]
  <2>1. stack' = stack /\ arp' = arp /\ app = "idle" /\ app' \in {"close", "done"}
        /\ (queue' = queue \/ queue' = [queue EXCEPT !.destroyq = @ + 1])
        /\ s' \in {s, e, Fail(s, "use_after_free")}
    BY <1>11 DEF CloseMark, InApi, Touch
  <2>2. Unread(s, e)
    BY <1>1 DEF Unread, StreamType
  <2> HIDE DEF e
  <2>3. Unread(s, s')
    BY <1>2, <2>1, <2>2
  <2>4. queue'.acceptq = queue.acceptq /\ queue'.ackq = queue.ackq
    BY <1>1, <2>1 DEF RestOK
  <2>5. ReaderInv'
    BY <2>1 DEF ReaderInv, InCall
  <2> QED
    BY <1>1, <2>1, <2>3, <2>4, <2>5, CallStep
<1>12. CASE CloseEnqueue
  <2> DEFINE e == [s EXCEPT !.onq = @ \cup {"closeq"}]
  <2>1. stack' = stack /\ arp' = arp /\ app = "close" /\ app' = "done"
        /\ queue' = [queue EXCEPT !.closeq = @ + 1]
        /\ s' \in {e, Fail(s, "use_after_free")}
    BY <1>12 DEF CloseEnqueue, InApi, Touch
  <2>2. Unread(s, e)
    BY <1>1 DEF Unread, StreamType
  <2> HIDE DEF e
  <2>3. Unread(s, s')
    BY <1>2, <2>1, <2>2
  <2>4. queue'.acceptq = queue.acceptq /\ queue'.ackq = queue.ackq
    BY <1>1, <2>1 DEF RestOK
  <2>5. ReaderInv'
    BY <2>1 DEF ReaderInv, InCall
  <2> QED
    BY <1>1, <2>1, <2>3, <2>4, <2>5, CallStep
<1> QED
  BY <1>4, <1>5, <1>6, <1>7, <1>8, <1>9, <1>10, <1>11, <1>12 DEF App
-----------------------------------------------------------------------------
(* The theorems about the receiving half. *)

\* Nothing was received, sent or owed before the SYN.
LEMMA ReadInit == Init => ReadInv
<1> SUFFICES ASSUME Init PROVE ReadInv
  OBVIOUS
<1>1. /\ s = Blank /\ app = "none" /\ stack = "start"
      /\ queue = [acceptq |-> 0, sendq |-> 0, ackq |-> 0, closeq |-> 0, destroyq |-> 0]
  BY DEF Init
<1>2. /\ s.state = "CLOSED" /\ ~s.alive /\ s.sent = {} /\ s.ackCnt = 0
      /\ s.merged = 0 /\ s.rcvWnd = InitWnd
  BY <1>1 DEF Blank
<1>3. ~(queue.acceptq > 0) /\ ~(queue.ackq > 0)
  BY <1>1
<1>4. PeerInv(s) /\ AddressKnown
  BY <1>1, <1>2, <1>3 DEF PeerInv, AddressKnown, Synchronized
<1>5. AckInv /\ ReaderInv
  BY <1>2 DEF AckInv, ReaderInv
<1> QED
  BY <1>4, <1>5 DEF ReadInv

\* Every step of a connection keeps the receiving half's invariant, and the window.
LEMMA ReadNext == ASSUME IInv, ReadInv, [Next]_vars PROVE ReadInv' /\ WindowStep
<1>1. CASE Stack
  BY <1>1, PassiveOpenRead, QuietRead, ReceiveRead, AckqRead, ControlRead, AckListRead,
     DataListRead, DataEndRead DEF Stack, Pause
<1>2. CASE App
  BY <1>2, RecvCopyRead, CallRead
<1>3. CASE UNCHANGED vars
  <2>1. s' = s /\ queue' = queue /\ stack' = stack /\ app' = app /\ arp' = arp
    BY <1>3 DEF vars
  <2>2. s \in StreamType
    BY IInvParts DEF Ok
  <2>3. Unread(s, s') /\ s'.sock = s.sock
    BY <2>1 DEF Unread
  <2>4. ReaderInv'
    BY <2>1 DEF ReadInv, ReaderInv
  <2> QED
    BY <2>1, <2>2, <2>3, <2>4, CallStep
<1> QED
  BY <1>1, <1>2, <1>3 DEF Next

\* Together with the stream's own invariant, what the peer sent is in order, what is
\* owed is on a list, and a sleeping reader has read it all, in every reachable state.
THEOREM ReceiveInvariant == Spec => [](IInv /\ ReadInv)
<1>1. Init => IInv /\ ReadInv
  BY InitOk, ReadInit
<1>2. IInv /\ ReadInv /\ [Next]_vars => (IInv /\ ReadInv)'
  BY NextOk, ReadNext
<1> QED
  BY <1>1, <1>2, PTL DEF Spec

\* rcv_nxt never passes a byte that is not there, and counts the FIN only after the
\* last: whatever the peer's segments lose, repeat or overtake.
THEOREM PeerBytesCounted == Spec => []PeerStreamInOrder
<1>1. ReadInv => PeerStreamInOrder
  BY DEF ReadInv, PeerInv, PeerStreamInOrder
<1> QED
  BY <1>1, ReceiveInvariant, PTL

\* At most three immediate ACKs are owed at a time, however segments and API calls
\* interleave: the acknowledgments of a round do not drive a field of 6 bits to 0.
THEOREM AckCountBounded == Spec => []AckCntNeverWraps
<1>1. ReadInv => AckCntNeverWraps
  BY DEF ReadInv, AckInv, AckCntNeverWraps
<1> QED
  BY <1>1, ReceiveInvariant, PTL

\* No data and no FIN lies there for a reader that sleeps in recv(): the check under
\* read_lock and the signal of flush_read_event leave no gap.
THEOREM ReaderNotForgotten == Spec => []NoSleepOnData
<1>1. ReadInv => NoSleepOnData
  BY DEF ReadInv, ReaderInv, NoSleepOnData
<1> QED
  BY <1>1, ReceiveInvariant, PTL

\* The right edge of the window announced to the peer never retreats, in no step of
\* the stack or the application.
THEOREM WindowKept == Spec => WindowNeverShrinks
<1>1. IInv /\ ReadInv /\ [Next]_vars => [WindowStep]_vars
  BY ReadNext
<1> QED
  BY <1>1, ReceiveInvariant, PTL DEF Spec, WindowNeverShrinks, WindowStep
-----------------------------------------------------------------------------
(* The sending half, without stale duplicate ACKs. *)

Whole(t) == BufferInv(t) /\ FinInv(t) /\ t.err \notin {"assert", "exit"}

\* r is t later in a handler that left the state and the FIN alone; only a stream
\* with a buffer sends, is acknowledged and is timed.
Kept(t, r) ==
    /\ r.state = t.state /\ r.fss = t.fss /\ r.buf = t.buf /\ r.finSent = t.finSent
    /\ r.alive = t.alive /\ r.waiting = t.waiting
    /\ t.lists \subseteq r.lists \/ t.state = "FIN_WAIT_2"
    /\ "send" \in r.lists => "send" \in t.lists \/ t.buf
    /\ r.head + r.len = t.head + t.len /\ t.sent \subseteq r.sent
    /\ \/ t.buf /\ t.state \in Transmitting
       \/ /\ r.head = t.head /\ r.len = t.len /\ r.sent = t.sent
          /\ "rto" \in r.timers => "rto" \in t.timers
    /\ "timeout" \in r.timers => "timeout" \in t.timers
    /\ r.err \in {"assert", "exit"} => r.err = t.err

\* A live stream keeps what is said of its sending half.
LEMMA KeptWhole ==
    ASSUME NEW t, Whole(t), t.alive, NEW r, Kept(t, r) PROVE Whole(r)
<1>1. r.err \notin {"assert", "exit"}
  BY DEF Kept, Whole
<1>2. BufferInv(r)
  <2>1. r.alive
    BY DEF Kept
  <2>2. ~r.buf => r.head = 1 /\ r.len = 0 /\ "send" \notin r.lists
    BY DEF Kept, Whole, BufferInv
  <2>3. r.state \in {"LISTEN", "SYN_RCVD"} =>
            r.sent \subseteq {0} /\ "timeout" \notin r.timers /\ ~r.finSent /\ ~r.buf
    BY DEF Kept, Whole, BufferInv
  <2>4. "rto" \in r.timers => r.state \in Retransmits
    BY DEF Kept, Whole, BufferInv, Transmitting, Retransmits
  <2>5. "rto" \in r.timers /\ r.state \in {"ESTABLISHED", "CLOSE_WAIT"} => r.buf
    BY DEF Kept, Whole, BufferInv
  <2> QED
    BY <2>1, <2>2, <2>3, <2>4, <2>5 DEF BufferInv
<1>3. FinInv(r)
  <2>1. r.state \in AfterClose => r.fss = r.head + r.len
    BY DEF Kept, Whole, FinInv
  <2>2. r.state = "FIN_WAIT_2" => r.len = 0 /\ 1..(r.fss - 1) \subseteq r.sent
    BY DEF Kept, Whole, FinInv, Transmitting
  <2>3. r.alive /\ r.state \in {"FIN_WAIT_1", "LAST_ACK"} /\ ~r.finSent
        => \/ "control" \in r.lists
           \/ r.waiting /\ r.lists \cap {"send", "ack"} # {}
    BY DEF Kept, Whole, FinInv
  <2> QED
    BY <2>1, <2>2, <2>3 DEF FinInv
<1> QED
  BY <1>1, <1>2, <1>3 DEF Whole

\* Handlers compose.
LEMMA KeptTrans ==
    ASSUME NEW t, NEW u, NEW r, Kept(t, u), Kept(u, r) PROVE Kept(t, r)
BY DEF Kept

\* the list and timer operations
LEMMA SmallKept ==
    ASSUME NEW t \in StreamType
    PROVE  /\ Kept(t, t) /\ Kept(t, AddToControl(t)) /\ Kept(t, Emit(t))
           /\ t.buf => Kept(t, AddToSend(t))
           /\ \A why : why \notin {"assert", "exit"} => Kept(t, Fail(t, why))
           /\ \A opt : Kept(t, EnqueueAckList(t, opt))
           /\ Kept(t, RemoveFromRTO(t)) /\ Kept(t, AddToTimewait(t))
<1>1. Kept(t, t) /\ Kept(t, AddToControl(t))
  BY DEF Kept, StreamType, AddToControl
<1>2. t.buf => Kept(t, AddToSend(t))
  BY DEF Kept, StreamType, AddToSend
<1>3. ASSUME NEW why, why \notin {"assert", "exit"} PROVE Kept(t, Fail(t, why))
  BY <1>3 DEF Kept, StreamType, Fail
<1>4. Kept(t, RemoveFromRTO(t)) /\ Kept(t, AddToTimewait(t))
  BY DEF Kept, StreamType, RemoveFromRTO, AddToTimewait
<1>5. ASSUME NEW opt PROVE Kept(t, EnqueueAckList(t, opt))
  BY DEF Kept, StreamType, EnqueueAckList
<1>6. Kept(t, Emit(t))
  BY DEF Kept, StreamType, Emit
<1> QED
  BY <1>1, <1>2, <1>3, <1>4, <1>5, <1>6

\* What is freed is on no list and no timer.
LEMMA EndedWhole ==
    ASSUME NEW t \in StreamType, Whole(t)
    PROVE  Whole(DestroyTcpStream(t)) /\ Whole(CloseAndDestroy(t))
<1> DEFINE c == [t EXCEPT !.state = "CLOSED"]
           d == DestroyTcpStream(t)
           e == DestroyTcpStream(c)
<1>1. /\ d.state = t.state /\ d.fss = t.fss /\ d.buf = t.buf /\ d.finSent = t.finSent
      /\ ~d.alive /\ d.lists = {} /\ d.timers = {} /\ d.head = t.head /\ d.len = t.len
      /\ d.sent = t.sent /\ d.err = t.err
  BY DEF DestroyTcpStream, StreamType
<1>2. /\ e.state = "CLOSED" /\ e.buf = t.buf
      /\ ~e.alive /\ e.lists = {} /\ e.timers = {} /\ e.head = t.head /\ e.len = t.len
      /\ e.err = t.err
  BY DEF DestroyTcpStream, StreamType
<1> HIDE DEF c, d, e
<1>3. Whole(d)
  BY <1>1 DEF Whole, BufferInv, FinInv
<1>4. Whole(e)
  BY <1>2 DEF Whole, BufferInv, FinInv, AfterClose
<1> QED
  BY <1>3, <1>4 DEF CloseAndDestroy, c, d, e

\* A change of state that neither starts nor finishes our FIN.
LEMMA MovesWhole ==
    ASSUME NEW t, Whole(t), t.alive, NEW r, r.alive,
           r.fss = t.fss, r.buf = t.buf, r.head = t.head, r.len = t.len,
           "send" \in r.lists => "send" \in t.lists, r.err = t.err,
           "rto" \in r.timers => r.state \in Retransmits,
           "rto" \in r.timers /\ r.state \in {"ESTABLISHED", "CLOSE_WAIT"} => r.buf,
           r.state \notin {"LISTEN", "SYN_RCVD", "FIN_WAIT_1", "FIN_WAIT_2", "LAST_ACK"},
           r.state \in AfterClose => t.state \in AfterClose
    PROVE  Whole(r)
BY DEF Whole, BufferInv, FinInv

\* process_payload works on the receive buffer.
LEMMA PayloadKept ==
    ASSUME NEW t, Ok(t), t.state \notin {"LISTEN", "SYN_RCVD"}, NEW g, OkSeg(g)
    PROVE  Kept(t, ProcessPayload(t, g))
<1> DEFINE p == RBPut(t, g)
           q == RBRemove(p, p.merged)
           u == Reassemble(t, g)
           r == ProcessPayload(t, g)
<1>1. t \in StreamType
  BY DEF Ok
<1>2. \/ r = t \/ r = EnqueueAckList(t, "NOW")
      \/ g.len > 0 /\ \E opt : r = EnqueueAckList(u, opt)
  <2>1. g.len = 0 \/ g.len > 0
    BY DEF OkSeg
  <2> QED
    BY <2>1 DEF ProcessPayload
<1>3. Kept(t, t) /\ Kept(t, EnqueueAckList(t, "NOW"))
  BY <1>1, SmallKept
<1>4. ASSUME g.len > 0 PROVE u \in StreamType /\ Kept(t, u)
  <2>1. u \in StreamType
    BY <1>4, ReassembleOk DEF Ok
  <2>2. p \in StreamType /\ Kept(t, p) /\ p.state = t.state
    <3>1. p \in StreamType
      BY <1>4, RBPutOk DEF Ok, StreamInv
    <3>2. Kept(t, p)
      BY <1>1 DEF RBPut, Kept, StreamType
    <3> QED
      BY <3>1, <3>2 DEF Kept
  <2> HIDE DEF p
  <2>3. q \in StreamType /\ Kept(p, q)
    <3>1. p.merged \in Nat
      BY <2>2 DEF StreamType
    <3>2. q \in StreamType
      BY <1>4, <2>2, <3>1, RBRemoveOk, RBPutOk DEF Ok, StreamInv, p
    <3>3. Kept(p, q)
      BY <2>2 DEF RBRemove, Kept, StreamType
    <3> QED
      BY <3>2, <3>3
  <2> HIDE DEF q
  <2> DEFINE v == IF t.state \in {"FIN_WAIT_1", "FIN_WAIT_2"} THEN q ELSE p
             nxt == v.rhead + v.merged
             wnd == RcvSize - v.merged
             w == [v EXCEPT !.rcvNxt = nxt, !.rcvWnd = wnd]
  <2>4. u = w
    BY DEF Reassemble, p, q
  <2>5. v \in StreamType /\ Kept(t, v)
    BY <2>2, <2>3, KeptTrans
  <2> HIDE DEF v, nxt, wnd
  <2>6. Kept(v, w)
    BY <2>5 DEF Kept, StreamType
  <2> QED
    BY <2>1, <2>4, <2>5, <2>6, KeptTrans
<1>5. ASSUME g.len > 0, NEW opt PROVE Kept(t, EnqueueAckList(u, opt))
  BY <1>4, <1>5, SmallKept, KeptTrans
<1> QED
  BY <1>2, <1>3, <1>5

\* process_ack moves the head of the buffer and not its end: the ACK of a FIN empties it.
LEMMA AckKept ==
    ASSUME ~DupAcks, NEW t, Ok(t), Whole(t), t.alive,
           t.state \in Transmitting \cup {"FIN_WAIT_2"},
           NEW g, OkSeg(g), NEW dup3 \in BOOLEAN, dup3 => DupAcks
    PROVE  LET r == ProcessAck(t, g, dup3) IN
           /\ Kept(t, r)
           /\ t.state = "FIN_WAIT_1" /\ t.finSent /\ g.ackSeq = t.fss + 1 => r.len = 0
<1> DEFINE a == AckOf(t, g)
           nn == AdvanceNxt(t, a)
           l == IF t.len = 0 THEN t.lists \ {"send"} ELSE t.lists
           n == [t EXCEPT !.nxt = a, !.lists = l]
           len == nn.len - (a - nn.head)
           e == [nn EXCEPT !.head = a, !.len = len, !.una = a]
           r == ProcessAck(t, g, dup3)
<1>1. t \in StreamType /\ dup3 = FALSE
  BY DEF Ok
<1>2. a \in SeqNo
  BY <1>1, AckOfType
<1>3. /\ t.head \in Nat /\ t.len \in Nat /\ t.nxt \in Nat /\ a \in Nat /\ t.fss \in Nat
      /\ g.ackSeq \in Nat
  BY <1>1, <1>2 DEF StreamType, SeqNo, NxtCap, OkSeg
<1>4. t.state \in Transmitting => t.head <= t.nxt
  BY DEF Ok, StreamInv, FlightInv
<1>5. r = IF ~t.buf \/ a > t.head + t.len THEN t ELSE RemoveAcked(nn, a)
  BY <1>1 DEF ProcessAck, FastRetransmit
<1>6. t.state = "FIN_WAIT_1" /\ t.finSent /\ g.ackSeq = t.fss + 1 => a = t.head + t.len
  <2>1. t.state = "FIN_WAIT_1" => t.fss = t.head + t.len
    BY DEF Whole, FinInv, AfterClose
  <2>2. t.state = "FIN_WAIT_1" /\ t.finSent /\ g.ackSeq = t.fss + 1 => a = g.ackSeq - 1
    BY DEF AckOf
  <2> QED
    BY <1>3, <2>1, <2>2
<1> HIDE DEF a
<1>7. CASE ~t.buf \/ a > t.head + t.len
  <2>1. Kept(t, t)
    BY <1>1, SmallKept
  <2>2. ~t.buf => t.len = 0
    BY DEF Whole, BufferInv
  <2>3. t.state = "FIN_WAIT_1" /\ t.finSent /\ g.ackSeq = t.fss + 1 => t.len = 0
    BY <1>3, <1>6, <1>7, <2>2
  <2> QED
    BY <1>5, <1>7, <2>1, <2>3
<1>8. CASE t.buf /\ ~(a > t.head + t.len)
  <2>1. /\ Kept(t, nn) /\ nn.head = t.head /\ nn.len = t.len
        /\ nn \in StreamType /\ nn.state = t.state /\ nn.buf
    <3>1. CASE ~(a > t.nxt)
      <4>1. nn = t
        BY <3>1 DEF AdvanceNxt
      <4>2. Kept(t, t)
        BY <1>1, SmallKept
      <4> QED
        BY <1>1, <1>8, <4>1, <4>2
    <3>2. CASE a > t.nxt
      <4>1. nn = n
        BY <3>2 DEF AdvanceNxt
      <4>2. t.state \in Transmitting => t.len # 0
        BY <1>3, <1>4, <1>8, <3>2
      <4>3. l \in SUBSET {"control", "send", "ack"} /\ (l = t.lists \/ t.state = "FIN_WAIT_2")
            /\ ("send" \in l => "send" \in t.lists)
        BY <1>1, <4>2 DEF StreamType
      <4>4. a \in 0..NxtCap
        BY <1>2 DEF SeqNo, NxtCap
      <4> HIDE DEF l
      <4>5. n \in StreamType
        BY <1>1, <4>3, <4>4 DEF StreamType
      <4>6. /\ n.state = t.state /\ n.fss = t.fss /\ n.buf = t.buf /\ n.finSent = t.finSent
            /\ n.alive = t.alive /\ n.waiting = t.waiting /\ n.lists = l /\ n.head = t.head
            /\ n.len = t.len /\ n.sent = t.sent /\ n.timers = t.timers /\ n.err = t.err
        BY <1>1 DEF StreamType
      <4> HIDE DEF n
      <4>7. Kept(t, n)
        BY <4>3, <4>6 DEF Kept
      <4> QED
        BY <1>8, <4>1, <4>5, <4>6, <4>7
    <3> QED
      BY <3>1, <3>2
  <2> HIDE DEF nn
  <2>2. CASE t.head >= a
    <3>1. r = nn
      BY <1>5, <1>8, <2>1, <2>2 DEF RemoveAcked
    <3>2. t.state = "FIN_WAIT_1" /\ t.finSent /\ g.ackSeq = t.fss + 1 => r.len = 0
      BY <1>3, <1>6, <2>1, <2>2, <3>1
    <3> QED
      BY <2>1, <3>1, <3>2
  <2>3. CASE ~(t.head >= a)
    <3>1. r \in {Fail(e, "self_deadlock"), UpdateRetransmissionTimer(e)}
      BY <1>5, <1>8, <2>1, <2>3 DEF RemoveAcked
    <3>2. t.state \in Transmitting
      <4>1. t.state = "FIN_WAIT_2" => t.len = 0
        BY DEF Whole, FinInv
      <4> QED
        BY <1>3, <1>8, <2>3, <4>1
    <3>3. len = t.head + t.len - a /\ a + len = t.head + t.len
      BY <1>3, <2>1
    <3> HIDE DEF len
    <3>4. /\ e.state = nn.state /\ e.fss = nn.fss /\ e.buf = nn.buf /\ e.finSent = nn.finSent
          /\ e.alive = nn.alive /\ e.waiting = nn.waiting /\ e.lists = nn.lists /\ e.head = a
          /\ e.len = len /\ e.sent = nn.sent /\ e.timers = nn.timers /\ e.err = nn.err
          /\ DOMAIN e = DOMAIN t
      BY <1>1, <2>1 DEF StreamType
    <3> HIDE DEF e
    <3>5. /\ r.state = e.state /\ r.fss = e.fss /\ r.buf = e.buf /\ r.finSent = e.finSent
          /\ r.alive = e.alive /\ r.waiting = e.waiting /\ r.lists = e.lists /\ r.head = e.head
          /\ r.len = e.len /\ r.sent = e.sent
          /\ ("timeout" \in r.timers => "timeout" \in e.timers)
          /\ (r.err \in {"assert", "exit"} => r.err = e.err)
      BY <1>1, <3>1, <3>4
      DEF Fail, UpdateRetransmissionTimer, AddToRTO, RemoveFromRTO, StreamType
    <3>6. Kept(nn, r)
      BY <2>1, <3>2, <3>3, <3>4, <3>5 DEF Kept
    <3>7. t.state = "FIN_WAIT_1" /\ t.finSent /\ g.ackSeq = t.fss + 1 => r.len = 0
      BY <1>3, <1>6, <3>3, <3>4, <3>5
    <3> QED
      BY <2>1, <3>6, <3>7, KeptTrans
  <2> QED
    BY <2>2, <2>3
<1> QED
  BY <1>7, <1>8

\* The SYN starts a stream that has nothing to send.
LEMMA ListenWhole ==
    ASSUME NEW t, Ok(t), Whole(t), t.alive, t.state \in {"LISTEN", "SYN_RCVD"}
    PROVE  Whole(HandleListen(t))
<1> DEFINE n == IF t.state = "LISTEN" THEN t.rcvNxt + 1 ELSE t.rcvNxt
           e == [t EXCEPT !.rcvNxt = n, !.state = "SYN_RCVD"]
           r == AddToControl(e)
<1>1. t \in StreamType
  BY DEF Ok
<1> HIDE DEF n
<1>2. /\ r.state = "SYN_RCVD" /\ r.buf = t.buf /\ r.finSent = t.finSent
      /\ r.alive /\ r.lists = t.lists \cup {"control"} /\ r.timers = t.timers
      /\ r.head = t.head /\ r.len = t.len /\ r.sent = t.sent /\ r.err = t.err
  BY <1>1 DEF StreamType, AddToControl
<1> HIDE DEF r
<1>3. Whole(r)
  BY <1>2 DEF Whole, BufferInv, FinInv, AfterClose, Retransmits
<1> QED
  BY <1>3 DEF HandleListen, r, n

\* The ACK of the handshake is the ACK of the SYN, the only number sent so far, and
\* the stream comes to the timeout list for the first time.
LEMMA SynRcvdWhole ==
    ASSUME NEW t, Ok(t), Whole(t), t.alive, t.state = "SYN_RCVD", NEW g, OkSeg(g),
           g.ack => g.ackSeq \in Acked(t), NEW full \in BOOLEAN
    PROVE  LET r == HandleSynRcvd(t, g, full) IN Whole(r) /\ r.alive
<1>1. t \in StreamType /\ t.una = 0
  BY DEF Ok, StreamInv, SendInv
<1>2. t.sent \subseteq {0} /\ "timeout" \notin t.timers /\ ~t.buf
  BY DEF Whole, BufferInv
<1>3. g.ack => g.ackSeq = 1
  <2> SUFFICES ASSUME g.ack, g.ackSeq # 1 PROVE FALSE
    OBVIOUS
  <2>1. g.ackSeq \in 1..(AppBytes + 2) /\ 0..(g.ackSeq - 1) \subseteq t.sent
    BY DEF Acked
  <2>2. 1 \in 0..(g.ackSeq - 1)
    BY <2>1
  <2>3. 1 \in t.sent
    BY <2>1, <2>2
  <2> QED
    BY <1>2, <2>3
<1>4. CASE ~g.ack
  <2> DEFINE zero == 0
             e == [t EXCEPT !.nxt = zero]
             r == AddToControl(e)
  <2>1. HandleSynRcvd(t, g, full) = r
    BY <1>4 DEF HandleSynRcvd
  <2> HIDE DEF zero
  <2>2. /\ r.state = t.state /\ r.fss = t.fss /\ r.buf = t.buf /\ r.finSent = t.finSent
        /\ r.alive = t.alive /\ r.waiting = t.waiting /\ r.lists = t.lists \cup {"control"}
        /\ r.head = t.head /\ r.len = t.len /\ r.sent = t.sent
        /\ r.timers = t.timers /\ r.err = t.err
    BY <1>1 DEF StreamType, AddToControl
  <2> HIDE DEF r
  <2>3. Kept(t, r)
    BY <2>2 DEF Kept
  <2> QED
    BY <2>1, <2>2, <2>3, KeptWhole
<1>5. CASE g.ack
  <2> DEFINE una == t.una + 1
             nxt == g.ackSeq
             one == 1
             d == [t EXCEPT !.una = una, !.nxt = nxt, !.rcvNxt = one,
                            !.state = "ESTABLISHED"]
             e == RemoveFromRTO(d)
             c == [e EXCEPT !.state = "CLOSED"]
             f == IF full THEN AddToControl(c) ELSE e
             h == AddToTimeout(f)
  <2>1. HandleSynRcvd(t, g, full) = h
    BY <1>3, <1>5 DEF HandleSynRcvd
  <2> HIDE DEF una, nxt, one
  <2>2. /\ d.state = "ESTABLISHED" /\ d.fss = t.fss /\ d.buf = t.buf /\ d.alive
        /\ d.lists = t.lists /\ d.timers = t.timers
        /\ d.head = t.head /\ d.len = t.len /\ d.err = t.err /\ DOMAIN d = DOMAIN t
    BY <1>1 DEF StreamType
  <2> HIDE DEF d
  <2>3. /\ e.state = "ESTABLISHED" /\ e.fss = t.fss /\ e.buf = t.buf /\ e.alive
        /\ e.lists = t.lists /\ e.timers = t.timers \ {"rto"}
        /\ e.head = t.head /\ e.len = t.len /\ e.err = t.err /\ DOMAIN e = DOMAIN t
    BY <1>1, <2>2 DEF RemoveFromRTO, StreamType
  <2> HIDE DEF e
  <2>4. /\ f.state \in {"ESTABLISHED", "CLOSED"} /\ f.fss = t.fss /\ f.buf = t.buf /\ f.alive
        /\ f.lists \subseteq t.lists \cup {"control"} /\ f.timers = t.timers \ {"rto"}
        /\ f.head = t.head /\ f.len = t.len /\ f.err = t.err /\ DOMAIN f = DOMAIN t
    BY <1>1, <2>3 DEF AddToControl, StreamType
  <2> HIDE DEF f
  <2>5. /\ h.state \in {"ESTABLISHED", "CLOSED"} /\ h.fss = t.fss /\ h.buf = t.buf /\ h.alive
        /\ h.lists \subseteq t.lists \cup {"control"} /\ "rto" \notin h.timers
        /\ h.head = t.head /\ h.len = t.len /\ h.err = t.err
    <3>1. h = [f EXCEPT !.timers = @ \cup {"timeout"}]
      BY <1>2, <2>4 DEF AddToTimeout
    <3> HIDE DEF h
    <3>2. h.timers = f.timers \cup {"timeout"}
      BY <1>1, <2>4, <3>1 DEF StreamType
    <3>3. "rto" \notin h.timers
      BY <2>4, <3>2
    <3> QED
      BY <1>1, <2>4, <3>1, <3>3 DEF StreamType
  <2> HIDE DEF h
  <2>6. Whole(h)
    BY <2>5, MovesWhole DEF AfterClose
  <2> QED
    BY <2>1, <2>5, <2>6
<1> QED
  BY <1>4, <1>5

\* handle_established, up to the peer's FIN
LEMMA EstablishedWhole ==
    ASSUME ~DupAcks, NEW t, Ok(t), Whole(t), t.alive, t.state = "ESTABLISHED",
           NEW g, OkSeg(g), NEW dup3 \in BOOLEAN, dup3 => DupAcks
    PROVE  Whole(HandleEstablished(t, g, dup3))
<1> DEFINE p == ProcessPayload(t, g)
           r == ProcessAck(p, g, dup3)
           n == r.rcvNxt + 1
           e == [r EXCEPT !.state = "CLOSE_WAIT", !.rcvNxt = n]
           c == AddToControl(e)
           h == HandleEstablished(t, g, dup3)
<1>1. Ok(p) /\ Kept(t, p)
  BY ProcessPayloadOk, PayloadKept
<1>2. \/ h = r
      \/ h = EnqueueAckList(r, "NOW")
      \/ h \in {c, Fail(c, "null_socket")}
  <2> HIDE DEF r, n
  <2>1. CASE ~g.fin
    BY <2>1 DEF HandleEstablished, r
  <2>2. CASE g.fin /\ ~InOrderFin(r, g)
    BY <2>2 DEF HandleEstablished, r
  <2>3. CASE g.fin /\ InOrderFin(r, g)
    BY <2>3 DEF HandleEstablished, r, n
  <2> QED
    BY <2>1, <2>2, <2>3
<1> HIDE DEF p, h
<1>3. Whole(p) /\ p.alive /\ p.state = "ESTABLISHED"
  BY <1>1, KeptWhole DEF Kept
<1>4. Ok(r) /\ Kept(p, r)
  BY <1>1, <1>3, ProcessAckOk, AckKept DEF Transmitting
<1> HIDE DEF r
<1>5. Whole(r) /\ r.alive /\ r.state = "ESTABLISHED" /\ r \in StreamType
  BY <1>3, <1>4, KeptWhole DEF Kept, Ok
<1>6. CASE h = r
  BY <1>5, <1>6 DEF h
<1>7. CASE h = EnqueueAckList(r, "NOW")
  BY <1>5, <1>7, SmallKept, KeptWhole DEF h
<1>8. CASE h \in {c, Fail(c, "null_socket")}
  <2> HIDE DEF n
  <2>1. /\ c.state = "CLOSE_WAIT" /\ c.fss = r.fss /\ c.buf = r.buf /\ c.alive
        /\ c.lists = r.lists \cup {"control"} /\ c.timers = r.timers
        /\ c.head = r.head /\ c.len = r.len /\ c.err = r.err /\ DOMAIN c = DOMAIN r
    BY <1>5 DEF AddToControl, StreamType
  <2> HIDE DEF c
  <2>2. "rto" \in r.timers => r.buf
    BY <1>5 DEF Whole, BufferInv
  <2>3. Whole(c)
    BY <1>5, <2>1, <2>2, MovesWhole DEF AfterClose, Retransmits
  <2>4. Kept(c, Fail(c, "null_socket"))
    BY <1>5, <2>1 DEF Kept, Fail, StreamType
  <2> QED
    BY <1>8, <2>1, <2>3, <2>4, KeptWhole DEF h
<1> QED
  BY <1>2, <1>6, <1>7, <1>8 DEF h

\* handle_close_wait and handle_last_ack
LEMMA CloseWaitWhole ==
    ASSUME ~DupAcks, NEW t, Ok(t), Whole(t), t.alive, t.state \in {"CLOSE_WAIT", "LAST_ACK"},
           NEW g, OkSeg(g), NEW dup3 \in BOOLEAN, dup3 => DupAcks
    PROVE  Whole(HandleCloseWait(t, g, dup3)) /\ Whole(HandleLastAck(t, g, dup3))
<1> DEFINE r == ProcessAck(t, g, dup3)
<1>1. Ok(r) /\ Kept(t, r)
  BY ProcessAckOk, AckKept DEF Transmitting
<1>2. /\ HandleCloseWait(t, g, dup3) \in {AddToControl(t), r}
      /\ HandleLastAck(t, g, dup3) \in {t, r, CloseAndDestroy(r), AddToControl(r)}
  BY DEF HandleCloseWait, HandleLastAck
<1> HIDE DEF r
<1>3. Whole(r) /\ r.alive /\ r \in StreamType /\ t \in StreamType
  BY <1>1, KeptWhole DEF Kept, Ok
<1>4. Whole(AddToControl(t)) /\ Whole(AddToControl(r))
  BY <1>3, SmallKept, KeptWhole
<1>5. Whole(CloseAndDestroy(r))
  BY <1>3, EndedWhole
<1> QED
  BY <1>2, <1>3, <1>4, <1>5

\* The timewait list holds no stream that still has a retransmission timer.
LEMMA TimewaitWhole ==
    ASSUME NEW t \in StreamType, Whole(t), t.alive, t.state \in AfterClose,
           NEW r \in StreamType, r.alive, r.state \in {"TIME_WAIT", "CLOSED"},
           r.fss = t.fss, r.buf = t.buf, r.head = t.head, r.len = t.len,
           r.lists = t.lists, r.err = t.err, "rto" \notin r.timers
    PROVE  /\ Whole(AddToTimewait(r))
           /\ Whole(AddToControl(AddToTimewait(r)))
<1>1. Whole(r)
  BY MovesWhole
<1>2. Kept(r, AddToTimewait(r)) /\ AddToTimewait(r).alive /\ AddToTimewait(r) \in StreamType
  BY SmallKept DEF AddToTimewait, StreamType
<1>3. Kept(AddToTimewait(r), AddToControl(AddToTimewait(r)))
  BY <1>2, SmallKept
<1> QED
  BY <1>1, <1>2, <1>3, KeptWhole

\* the peer's FIN in FIN_WAIT_1 and FIN_WAIT_2
LEMMA FinInFinWait1Whole ==
    ASSUME NEW t \in StreamType, Whole(t), t.alive, t.state \in {"FIN_WAIT_1", "FIN_WAIT_2"},
           NEW g, OkSeg(g), InOrderFin(t, g)
    PROVE  Whole(FinInFinWait1(t))
<1> DEFINE n == t.rcvNxt + 1
           e == [t EXCEPT !.rcvNxt = n, !.state = "CLOSING"]
           c == [t EXCEPT !.rcvNxt = n, !.state = "CLOSED"]
           r == IF t.state = "FIN_WAIT_1" THEN e ELSE AddToTimewait(c)
<1>1. n \in PeerSeqNo
  BY DEF InOrderFin, OkSeg, PeerSeqNo
<1>2. FinInFinWait1(t) = AddToControl(r)
  BY DEF FinInFinWait1
<1> HIDE DEF n
<1>3. CASE t.state = "FIN_WAIT_1"
  <2>1. /\ e.state = "CLOSING" /\ e.fss = t.fss /\ e.buf = t.buf /\ e.alive
        /\ e.lists = t.lists /\ e.timers = t.timers
        /\ e.head = t.head /\ e.len = t.len /\ e.err = t.err
    OBVIOUS
  <2>2. e \in StreamType
    BY <1>1 DEF StreamType, States
  <2> HIDE DEF e
  <2>3. Whole(e)
    BY <1>3, <2>1, MovesWhole DEF AfterClose, Retransmits
  <2> QED
    BY <1>2, <1>3, <2>1, <2>2, <2>3, SmallKept, KeptWhole
<1>4. CASE t.state = "FIN_WAIT_2"
  <2>1. /\ c.state = "CLOSED" /\ c.fss = t.fss /\ c.buf = t.buf /\ c.alive
        /\ c.lists = t.lists /\ c.timers = t.timers
        /\ c.head = t.head /\ c.len = t.len /\ c.err = t.err
    BY DEF StreamType
  <2>2. c \in StreamType
    BY <1>1 DEF StreamType, States
  <2> HIDE DEF c
  <2>3. "rto" \notin t.timers
    BY <1>4 DEF Whole, BufferInv, Retransmits
  <2>4. Whole(AddToControl(AddToTimewait(c)))
    BY <1>4, <2>1, <2>2, <2>3, TimewaitWhole DEF AfterClose
  <2> QED
    BY <1>2, <1>4, <2>4
<1> QED
  BY <1>3, <1>4

\* The ACK of our FIN is the ACK of every byte: the buffer is empty, and what it held
\* is with the peer.
LEMMA FinAckedWhole ==
    ASSUME NEW t, Whole(t), t.state = "FIN_WAIT_1",
           NEW a \in StreamType, Whole(a), a.alive, a.state = "FIN_WAIT_1", Kept(t, a),
           a.fss + 1 \in Acked(t), a.len = 0, NEW una, NEW nxt
    PROVE  LET r == RemoveFromRTO([a EXCEPT !.una = una, !.state = "FIN_WAIT_2", !.nxt = nxt])
           IN  Whole(r) /\ r.alive /\ r.state = "FIN_WAIT_2"
<1> DEFINE r == RemoveFromRTO([a EXCEPT !.una = una, !.state = "FIN_WAIT_2", !.nxt = nxt])
<1>1. /\ r.state = "FIN_WAIT_2" /\ r.fss = a.fss /\ r.buf = a.buf /\ r.alive /\ r.lists = a.lists
      /\ r.timers = a.timers \ {"rto"} /\ r.head = a.head /\ r.len = a.len
      /\ r.sent = a.sent /\ r.err = a.err
  BY DEF RemoveFromRTO, StreamType
<1> HIDE DEF r
<1>2. 1..(r.fss - 1) \subseteq r.sent
  <2>1. a.fss \in Nat
    BY DEF StreamType, SeqNo
  <2>2. \A k \in Acked(t) : 0..(k - 1) \subseteq t.sent
    BY DEF Acked
  <2>3. 0..((a.fss + 1) - 1) \subseteq a.sent
    BY <2>2 DEF Kept
  <2>4. 1..(a.fss - 1) \subseteq 0..((a.fss + 1) - 1)
    BY <2>1
  <2> QED
    BY <1>1, <2>3, <2>4
<1>3. r.fss = r.head + r.len
  BY <1>1 DEF Whole, FinInv, AfterClose
<1>4. Whole(r)
  BY <1>1, <1>2, <1>3 DEF Whole, BufferInv, FinInv
<1> QED
  BY <1>1, <1>4 DEF r

\* handle_fin_wait_1
LEMMA FinWait1Whole ==
    ASSUME ~DupAcks, NEW t, Ok(t), Whole(t), t.alive, t.state = "FIN_WAIT_1",
           NEW g, OkSeg(g), g.ackSeq > 0 => g.ackSeq \in Acked(t),
           NEW dup3 \in BOOLEAN, dup3 => DupAcks
    PROVE  Whole(HandleFinWait1(t, g, dup3))
<1> DEFINE a == ProcessAck(t, g, dup3)
           una == g.ackSeq
           nxt == IF una > a.nxt THEN una ELSE a.nxt
           e == RemoveFromRTO([a EXCEPT !.una = una, !.state = "FIN_WAIT_2", !.nxt = nxt])
           f == IF a.finSent /\ g.ackSeq = a.fss + 1 THEN e ELSE a
           r == ProcessPayload(f, g)
           h == HandleFinWait1(t, g, dup3)
<1>1. /\ Ok(a) /\ Same(t, a) /\ Kept(t, a)
      /\ t.finSent /\ g.ackSeq = t.fss + 1 => a.len = 0
  BY ProcessAckOk, AckKept DEF Transmitting
<1>2. \/ h = AddToControl(t)
      \/ h = r
      \/ InOrderFin(r, g) /\ h = FinInFinWait1(r)
  BY DEF HandleFinWait1
<1> HIDE DEF a, h
<1>3. t \in StreamType /\ a \in StreamType /\ Whole(a) /\ a.alive /\ a.state = "FIN_WAIT_1"
  BY <1>1, KeptWhole DEF Ok, Kept
<1>4. una \in SeqNo /\ nxt \in 0..NxtCap
  <2>1. a.nxt \in 0..NxtCap
    BY <1>3 DEF StreamType
  <2> QED
    BY <2>1 DEF OkSeg, SeqNo, NxtCap
<1> HIDE DEF nxt
<1>5. ASSUME a.finSent, g.ackSeq = a.fss + 1
      PROVE  Ok(e) /\ Whole(e) /\ e.alive /\ e.state = "FIN_WAIT_2"
  <2>1. a.len = 0
    BY <1>1, <1>5 DEF Kept
  <2>2. Whole(e) /\ e.alive /\ e.state = "FIN_WAIT_2"
    <3>1. a.fss + 1 \in Acked(t)
      BY <1>3, <1>5 DEF StreamType, SeqNo
    <3> HIDE DEF una
    <3>2. Kept(t, a)
      BY <1>1
    <3> QED
      BY <1>3, <2>1, <3>1, <3>2, FinAckedWhole
  <2>3. Ok(e)
    BY <1>1, <1>3, <1>4, <1>5, FinWait2Ok
  <2> QED
    BY <2>2, <2>3
<1> HIDE DEF e, una
<1>6. Ok(f) /\ Whole(f) /\ f.alive /\ f.state \in {"FIN_WAIT_1", "FIN_WAIT_2"}
  BY <1>1, <1>3, <1>5
<1> HIDE DEF f
<1>7. Ok(r) /\ Kept(f, r)
  BY <1>6, ProcessPayloadOk, PayloadKept
<1> HIDE DEF r
<1>8. Whole(r) /\ r.alive /\ r.state \in {"FIN_WAIT_1", "FIN_WAIT_2"} /\ r \in StreamType
  BY <1>6, <1>7, KeptWhole DEF Kept, Ok
<1>9. Whole(AddToControl(t))
  BY <1>3, SmallKept, KeptWhole
<1>10. InOrderFin(r, g) => Whole(FinInFinWait1(r))
  BY <1>8, FinInFinWait1Whole
<1> QED
  BY <1>2, <1>8, <1>9, <1>10 DEF h

\* handle_fin_wait_2
LEMMA FinWait2Whole ==
    ASSUME ~DupAcks, NEW t, Ok(t), Whole(t), t.alive, t.state = "FIN_WAIT_2",
           NEW g, OkSeg(g), NEW dup3 \in BOOLEAN, dup3 => DupAcks
    PROVE  Whole(HandleFinWait2(t, g, dup3))
<1> DEFINE a == ProcessAck(t, g, dup3)
           r == ProcessPayload(a, g)
           n == r.rcvNxt + 1
           e == [r EXCEPT !.state = "TIME_WAIT", !.rcvNxt = n]
           h == HandleFinWait2(t, g, dup3)
<1>1. Ok(a) /\ Kept(t, a)
  BY ProcessAckOk, AckKept
<1>2. h = IF InOrderFin(r, g) THEN AddToControl(AddToTimewait(e)) ELSE r
  BY DEF HandleFinWait2
<1> HIDE DEF a, h
<1>3. Whole(a) /\ a.alive /\ a.state = "FIN_WAIT_2"
  BY <1>1, KeptWhole DEF Kept
<1>4. Ok(r) /\ Kept(a, r)
  BY <1>1, <1>3, ProcessPayloadOk, PayloadKept
<1> HIDE DEF r
<1>5. Whole(r) /\ r.alive /\ r.state = "FIN_WAIT_2" /\ r \in StreamType
  BY <1>3, <1>4, KeptWhole DEF Kept, Ok
<1>6. CASE InOrderFin(r, g)
  <2>1. n \in PeerSeqNo
    BY <1>6 DEF InOrderFin, OkSeg, PeerSeqNo
  <2> HIDE DEF n
  <2>2. e \in StreamType
    BY <1>5, <2>1 DEF StreamType, States
  <2>3. /\ e.state = "TIME_WAIT" /\ e.fss = r.fss /\ e.buf = r.buf /\ e.alive
        /\ e.lists = r.lists /\ e.timers = r.timers
        /\ e.head = r.head /\ e.len = r.len /\ e.err = r.err
    BY <1>5 DEF StreamType
  <2> HIDE DEF e
  <2>4. "rto" \notin r.timers
    BY <1>5 DEF Whole, BufferInv, Retransmits
  <2>5. Whole(AddToControl(AddToTimewait(e)))
    BY <1>5, <2>2, <2>3, <2>4, TimewaitWhole DEF AfterClose
  <2> QED
    BY <1>2, <1>6, <2>5 DEF h
<1>7. CASE ~InOrderFin(r, g)
  BY <1>2, <1>5, <1>7 DEF h
<1> QED
  BY <1>6, <1>7

\* handle_closing: snd_una and snd_nxt meet, so the timer is off
LEMMA ClosingWhole ==
    ASSUME ~DupAcks, NEW t, Ok(t), Whole(t), t.alive, t.state = "CLOSING",
           NEW g, OkSeg(g), NEW dup3 \in BOOLEAN, dup3 => DupAcks
    PROVE  Whole(HandleClosing(t, g, dup3))
<1> DEFINE r == ProcessAck(t, g, dup3)
           una == g.ackSeq
           e == [r EXCEPT !.una = una, !.nxt = una, !.state = "TIME_WAIT"]
           u == UpdateRetransmissionTimer(e)
           h == HandleClosing(t, g, dup3)
<1>1. Ok(r) /\ Kept(t, r)
  BY ProcessAckOk, AckKept DEF Transmitting
<1>2. h = r \/ h = AddToTimewait(u)
  BY DEF HandleClosing
<1> HIDE DEF r, h
<1>3. Whole(r) /\ r.alive /\ r.state = "CLOSING" /\ r \in StreamType
  BY <1>1, KeptWhole DEF Kept, Ok
<1>4. una \in SeqNo /\ una \in 0..NxtCap
  BY DEF OkSeg, SeqNo, NxtCap
<1>5. ~(una > una)
  BY <1>4 DEF SeqNo
<1> HIDE DEF una
<1>6. e \in StreamType
  BY <1>3, <1>4 DEF StreamType, States
<1>7. /\ e.state = "TIME_WAIT" /\ e.fss = r.fss /\ e.buf = r.buf /\ e.alive
      /\ e.lists = r.lists /\ e.timers = r.timers /\ e.una = una /\ e.nxt = una
      /\ e.head = r.head /\ e.len = r.len /\ e.err = r.err
  BY <1>3 DEF StreamType
<1> HIDE DEF e
<1>8. u = RemoveFromRTO(e)
  BY <1>5, <1>7 DEF UpdateRetransmissionTimer
<1> HIDE DEF u
<1>9. /\ u \in StreamType /\ u.state = "TIME_WAIT" /\ u.fss = r.fss /\ u.buf = r.buf /\ u.alive
      /\ u.lists = r.lists /\ "rto" \notin u.timers
      /\ u.head = r.head /\ u.len = r.len /\ u.err = r.err
  BY <1>6, <1>7, <1>8 DEF RemoveFromRTO, StreamType
<1>10. Whole(AddToTimewait(u))
  BY <1>3, <1>9, TimewaitWhole DEF AfterClose
<1> QED
  BY <1>2, <1>3, <1>10 DEF h, u

\* process_rst
LEMMA RstWhole ==
    ASSUME NEW t, Ok(t), Whole(t), t.alive, t.state \notin {"CLOSED", "LISTEN"}, NEW g
    PROVE  Whole(ProcessRst(t, g))
<1> DEFINE e == [t EXCEPT !.state = "CLOSE_WAIT"]
           r == ProcessRst(t, g)
<1>1. t \in StreamType /\ t.state \in States
  BY DEF Ok, StreamType
<1>2. \/ r = t \/ r = CloseAndDestroy(t)
      \/ t.state \in {"ESTABLISHED", "CLOSE_WAIT"} /\ r = e
  BY <1>1 DEF ProcessRst, States
<1> HIDE DEF r
<1>3. Whole(CloseAndDestroy(t))
  BY <1>1, EndedWhole
<1>4. ASSUME t.state \in {"ESTABLISHED", "CLOSE_WAIT"} PROVE Whole(e)
  <2>1. /\ e.state = "CLOSE_WAIT" /\ e.fss = t.fss /\ e.buf = t.buf /\ e.alive
        /\ e.lists = t.lists /\ e.timers = t.timers
        /\ e.head = t.head /\ e.len = t.len /\ e.err = t.err
    BY <1>1 DEF StreamType
  <2> HIDE DEF e
  <2>2. "rto" \in t.timers => t.buf
    BY <1>4 DEF Whole, BufferInv
  <2> QED
    BY <2>1, <2>2, MovesWhole DEF AfterClose, Retransmits
<1> QED
  BY <1>2, <1>3, <1>4 DEF r

\* a segment outside the window
LEMMA RefuseWhole ==
    ASSUME NEW t, Ok(t), Whole(t), t.alive, NEW g PROVE Whole(Refuse(t, g))
<1>1. t \in StreamType
  BY DEF Ok
<1>2. \/ Refuse(t, g) \in {t, AddToControl(t), AddToControl(AddToTimewait(t))}
      \/ \E opt : Refuse(t, g) = EnqueueAckList(t, opt)
  BY DEF Refuse
<1>3. Whole(AddToControl(t)) /\ \A opt : Whole(EnqueueAckList(t, opt))
  BY <1>1, SmallKept, KeptWhole
<1>4. Kept(t, AddToTimewait(t)) /\ AddToTimewait(t) \in StreamType
  BY <1>1, SmallKept DEF AddToTimewait, StreamType
<1>5. Kept(AddToTimewait(t), AddToControl(AddToTimewait(t)))
  BY <1>4, SmallKept
<1>6. Kept(t, AddToControl(AddToTimewait(t)))
  BY <1>4, <1>5, KeptTrans
<1>7. Whole(AddToControl(AddToTimewait(t)))
  BY <1>6, KeptWhole
<1> QED
  BY <1>2, <1>3, <1>7

\* One handler for every state.
LEMMA HandleByStateWhole ==
    ASSUME ~DupAcks, NEW t, Ok(t), Whole(t), t.alive,
           NEW g, OkSeg(g), g.ackSeq > 0 => g.ackSeq \in Acked(t),
           NEW dup3 \in BOOLEAN, dup3 => DupAcks, NEW full \in BOOLEAN
    PROVE  Whole(HandleByState(t, g, dup3, full))
<1> DEFINE r == HandleByState(t, g, dup3, full)
<1>1. t \in StreamType /\ t.state \in States
  BY DEF Ok, StreamType
<1>2. CASE t.state = "LISTEN" \/ (t.state = "SYN_RCVD" /\ g.syn)
  <2>1. r = HandleListen(t)
    BY <1>2 DEF HandleByState
  <2> QED
    BY <1>2, <2>1, ListenWhole
<1>3. CASE t.state = "SYN_RCVD" /\ ~g.syn
  <2> DEFINE a == HandleSynRcvd(t, g, full)
             b == HandleEstablished(a, g, dup3)
  <2>1. r = a \/ (a.state = "ESTABLISHED" /\ r = b)
    BY <1>3 DEF HandleByState
  <2>2. Ok(a)
    BY <1>3, HandleSynRcvdOk
  <2>3. g.ack => g.ackSeq \in Acked(t)
    BY <1>3 DEF OkSeg
  <2>4. Whole(a) /\ a.alive
    BY <1>3, <2>3, SynRcvdWhole
  <2> HIDE DEF a, r
  <2>5. a.state = "ESTABLISHED" => Whole(b)
    BY <2>2, <2>4, EstablishedWhole
  <2> QED
    BY <2>1, <2>4, <2>5 DEF r
<1>4. CASE t.state = "ESTABLISHED"
  <2>1. r = HandleEstablished(t, g, dup3)
    BY <1>4 DEF HandleByState
  <2> QED
    BY <1>4, <2>1, EstablishedWhole
<1>5. CASE t.state = "CLOSE_WAIT"
  <2>1. r = HandleCloseWait(t, g, dup3)
    BY <1>5 DEF HandleByState
  <2> QED
    BY <1>5, <2>1, CloseWaitWhole
<1>6. CASE t.state = "LAST_ACK"
  <2>1. r = HandleLastAck(t, g, dup3)
    BY <1>6 DEF HandleByState
  <2> QED
    BY <1>6, <2>1, CloseWaitWhole
<1>7. CASE t.state = "FIN_WAIT_1"
  <2>1. r = HandleFinWait1(t, g, dup3)
    BY <1>7 DEF HandleByState
  <2> QED
    BY <1>7, <2>1, FinWait1Whole
<1>8. CASE t.state = "FIN_WAIT_2"
  <2>1. r = HandleFinWait2(t, g, dup3)
    BY <1>8 DEF HandleByState
  <2> QED
    BY <1>8, <2>1, FinWait2Whole
<1>9. CASE t.state = "CLOSING"
  <2>1. r = HandleClosing(t, g, dup3)
    BY <1>9 DEF HandleByState
  <2> QED
    BY <1>9, <2>1, ClosingWhole
<1>10. CASE t.state = "TIME_WAIT"
  <2> DEFINE w == IF "timewait" \in t.timers THEN RemoveFromRTO(t) ELSE t
  <2>1. r = AddToControl(w)
    BY <1>10 DEF HandleByState
  <2>2. w \in StreamType /\ Kept(t, w)
    <3>1. Kept(t, t) /\ Kept(t, RemoveFromRTO(t))
      BY <1>1, SmallKept
    <3>2. RemoveFromRTO(t) \in StreamType
      BY <1>1 DEF RemoveFromRTO, StreamType
    <3> QED
      BY <1>1, <3>1, <3>2
  <2> HIDE DEF w, r
  <2>3. Kept(w, r)
    BY <2>1, <2>2, SmallKept
  <2> QED
    BY <2>2, <2>3, KeptTrans, KeptWhole DEF r
<1>11. CASE t.state = "CLOSED"
  BY <1>11 DEF HandleByState
<1> HIDE DEF r
<1> QED
  BY <1>1, <1>2, <1>3, <1>4, <1>5, <1>6, <1>7, <1>8, <1>9, <1>10, <1>11 DEF States, r

\* A packet, whatever it is, leaves the sending half whole.
LEMMA ProcessWhole ==
    ASSUME ~DupAcks, NEW t, Ok(t), Whole(t), t.alive,
           NEW g, OkSeg(g), g.ackSeq > 0 => g.ackSeq \in Acked(t),
           NEW dup3 \in BOOLEAN, dup3 => DupAcks, NEW full \in BOOLEAN
    PROVE  Whole(Process(t, g, dup3, full))
<1> DEFINE wnd == g.wnd
           rst == t.reset \/ g.rst
           w == [t EXCEPT !.peerWnd = wnd, !.reset = rst]
           r == Process(t, g, dup3, full)
           h == HandleByState(w, g, dup3, full)
<1>1. \/ r = Refuse(t, g)
      \/ t.state \notin {"CLOSED", "LISTEN"} /\ r = ProcessRst(w, g)
      \/ r = h
  BY DEF Process
<1>2. t \in StreamType /\ wnd \in 0..MaxWnd /\ rst \in BOOLEAN
  BY DEF Ok, OkSeg, StreamType
<1> HIDE DEF wnd, rst, r
<1>3. w \in StreamType
  BY <1>2 DEF StreamType
<1>4. /\ Same(t, w) /\ w.una = t.una /\ w.nxt = t.nxt /\ w.buf = t.buf /\ w.head = t.head
      /\ w.len = t.len /\ w.rhead = t.rhead /\ w.merged = t.merged /\ w.frags = t.frags
      /\ w.rcvNxt = t.rcvNxt /\ w.timers = t.timers
  BY <1>2 DEF StreamType, Same
<1>5. Kept(t, w) /\ w.sent = t.sent
  BY <1>2 DEF StreamType, Kept
<1> HIDE DEF w
<1>6. Ok(w)
  BY <1>3, <1>4, UntouchedOk
<1>7. Whole(w) /\ w.alive /\ w.state = t.state
  BY <1>5, KeptWhole DEF Kept
<1>8. g.ackSeq > 0 => g.ackSeq \in Acked(w)
  <2>1. Acked(w) = Acked(t)
    BY <1>5 DEF Acked
  <2> QED
    BY <2>1
<1>9. Whole(h)
  BY <1>6, <1>7, <1>8, HandleByStateWhole
<1>10. t.state \notin {"CLOSED", "LISTEN"} => Whole(ProcessRst(w, g))
  BY <1>6, <1>7, RstWhole
<1>11. Whole(Refuse(t, g))
  BY RefuseWhole
<1> QED
  BY <1>1, <1>9, <1>10, <1>11 DEF r

\* No handler takes the send buffer away, or leads back before the handshake.
Settled(t, buf) ==
    /\ "buf" \in DOMAIN t /\ "state" \in DOMAIN t
    /\ t.buf = buf /\ t.state \notin {"LISTEN", "SYN_RCVD"}

\* the list and timer operations
LEMMA SmallSettled ==
    ASSUME NEW t, NEW b, Settled(t, b)
    PROVE  /\ Settled(AddToControl(t), b) /\ Settled(AddToSend(t), b)
           /\ \A why : Settled(Fail(t, why), b)
           /\ \A opt : Settled(EnqueueAckList(t, opt), b)
           /\ Settled(AddToRTO(t), b) /\ Settled(RemoveFromRTO(t), b)
           /\ Settled(UpdateRetransmissionTimer(t), b)
           /\ Settled(AddToTimewait(t), b)
           /\ Settled(CloseAndDestroy(t), b)
<1>1. Settled(AddToControl(t), b) /\ Settled(AddToSend(t), b)
  BY DEF Settled, AddToControl, AddToSend, Fail
<1>2. /\ \A why : Settled(Fail(t, why), b)
      /\ \A opt : Settled(EnqueueAckList(t, opt), b)
  BY DEF Settled, Fail, EnqueueAckList
<1>3. /\ Settled(AddToRTO(t), b) /\ Settled(RemoveFromRTO(t), b)
      /\ Settled(UpdateRetransmissionTimer(t), b)
      /\ Settled(AddToTimewait(t), b)
  BY DEF Settled, AddToRTO, RemoveFromRTO, UpdateRetransmissionTimer, AddToTimewait
<1>4. Settled(CloseAndDestroy(t), b)
  BY DEF Settled, CloseAndDestroy, DestroyTcpStream
<1> QED
  BY <1>1, <1>2, <1>3, <1>4

\* process_payload and process_ack
LEMMA DataSettled ==
    ASSUME NEW t, NEW b, Settled(t, b), NEW g, NEW dup3
    PROVE  /\ Settled(ProcessPayload(t, g), b)
           /\ Settled(ProcessAck(t, g, dup3), b)
<1>1. Settled(Reassemble(t, g), b)
  <2>1. Settled(RBPut(t, g), b)
    BY DEF Settled, RBPut
  <2>2. \A u, n : Settled(u, b) => Settled(RBRemove(u, n), b)
    BY DEF Settled, RBRemove
  <2>3. \A u, n, w : Settled(u, b) => Settled([u EXCEPT !.rcvNxt = n, !.rcvWnd = w], b)
    BY DEF Settled
  <2> QED
    BY <2>1, <2>2, <2>3 DEF Reassemble
<1>2. Settled(ProcessPayload(t, g), b)
  BY <1>1, SmallSettled DEF ProcessPayload
<1>3. \A a : Settled(FastRetransmit(t, a, g, dup3), b)
  <2>1. \A a : Settled([t EXCEPT !.nxt = a], b)
    BY DEF Settled
  <2> QED
    BY <2>1, SmallSettled DEF FastRetransmit
<1>4. \A u, a : Settled(u, b) => Settled(AdvanceNxt(u, a), b)
  BY DEF Settled, AdvanceNxt
<1>5. \A u, a : Settled(u, b) => Settled(RemoveAcked(u, a), b)
  <2> TAKE u, a
  <2> HAVE Settled(u, b)
  <2> DEFINE e == [u EXCEPT !.head = a, !.len = u.len - (a - u.head), !.una = a]
  <2>1. Settled(e, b)
    BY DEF Settled
  <2>2. RemoveAcked(u, a) \in {u, Fail(e, "self_deadlock"), UpdateRetransmissionTimer(e)}
    BY DEF RemoveAcked
  <2> HIDE DEF e
  <2> QED
    BY <2>1, <2>2, SmallSettled
<1>6. Settled(ProcessAck(t, g, dup3), b)
  BY <1>3, <1>4, <1>5 DEF ProcessAck
<1> QED
  BY <1>2, <1>6

\* The handlers of every state behind the handshake.
LEMMA HandlersSettled ==
    ASSUME NEW t, NEW b, Settled(t, b), NEW g, NEW dup3, NEW full, t.state \in States
    PROVE  Settled(HandleByState(t, g, dup3, full), b)
<1> DEFINE A(u) == ProcessAck(u, g, dup3)
           P(u) == ProcessPayload(u, g)
<1>1. \A u : Settled(u, b) => Settled(A(u), b) /\ Settled(P(u), b)
  BY DataSettled
<1> HIDE DEF A, P
<1>2. Settled(HandleEstablished(t, g, dup3), b)
  <2>1. \A u, n : Settled(u, b) => Settled([u EXCEPT !.state = "CLOSE_WAIT", !.rcvNxt = n], b)
    BY DEF Settled
  <2>2. Settled(A(P(t)), b)
    BY <1>1
  <2> DEFINE r == A(P(t))
             n == r.rcvNxt + 1
             c == AddToControl([r EXCEPT !.state = "CLOSE_WAIT", !.rcvNxt = n])
  <2>3. HandleEstablished(t, g, dup3) \in {r, EnqueueAckList(r, "NOW"), c, Fail(c, "null_socket")}
    BY DEF HandleEstablished, A, P
  <2> HIDE DEF r, n
  <2>4. Settled(r, b) /\ Settled(c, b)
    BY <2>1, <2>2, SmallSettled DEF r
  <2> HIDE DEF c
  <2> QED
    BY <2>3, <2>4, SmallSettled
<1>3. Settled(HandleCloseWait(t, g, dup3), b) /\ Settled(HandleLastAck(t, g, dup3), b)
  <2>1. Settled(A(t), b)
    BY <1>1
  <2> DEFINE r == A(t)
  <2>2. /\ HandleCloseWait(t, g, dup3) \in {AddToControl(t), r}
        /\ HandleLastAck(t, g, dup3) \in {t, r, CloseAndDestroy(r), AddToControl(r)}
    BY DEF HandleCloseWait, HandleLastAck, A
  <2> QED
    BY <2>1, <2>2, SmallSettled
<1>4. \A u : Settled(u, b) => Settled(FinInFinWait1(u), b)
  <2>1. \A u, n : Settled(u, b) => /\ Settled([u EXCEPT !.rcvNxt = n, !.state = "CLOSING"], b)
                                   /\ Settled([u EXCEPT !.rcvNxt = n, !.state = "CLOSED"], b)
    BY DEF Settled
  <2> QED
    BY <2>1, SmallSettled DEF FinInFinWait1
<1>5. Settled(HandleFinWait1(t, g, dup3), b)
  <2> DEFINE a == A(t)
             una == g.ackSeq
             nxt == IF una > a.nxt THEN una ELSE a.nxt
             d == [a EXCEPT !.una = una, !.state = "FIN_WAIT_2", !.nxt = nxt]
             e == RemoveFromRTO(d)
             f == IF a.finSent /\ g.ackSeq = a.fss + 1 THEN e ELSE a
             r == P(f)
  <2>1. HandleFinWait1(t, g, dup3) \in {AddToControl(t), FinInFinWait1(r), r}
    BY DEF HandleFinWait1, A, P
  <2>2. Settled(a, b)
    BY <1>1
  <2> HIDE DEF a, nxt, una
  <2>3. Settled(d, b)
    BY <2>2 DEF Settled
  <2> HIDE DEF d
  <2>4. Settled(f, b)
    BY <2>2, <2>3, SmallSettled
  <2> HIDE DEF f
  <2>5. Settled(r, b)
    BY <1>1, <2>4
  <2> QED
    BY <1>4, <2>1, <2>5, SmallSettled
<1>6. Settled(HandleFinWait2(t, g, dup3), b)
  <2> DEFINE r == P(A(t))
             n == r.rcvNxt + 1
             d == [r EXCEPT !.state = "TIME_WAIT", !.rcvNxt = n]
  <2>1. HandleFinWait2(t, g, dup3) \in {AddToControl(AddToTimewait(d)), r}
    BY DEF HandleFinWait2, A, P
  <2>2. Settled(r, b)
    BY <1>1
  <2> HIDE DEF r, n
  <2>3. Settled(d, b)
    BY <2>2 DEF Settled
  <2> QED
    BY <2>1, <2>2, <2>3, SmallSettled
<1>7. Settled(HandleClosing(t, g, dup3), b)
  <2> DEFINE r == A(t)
             una == g.ackSeq
             d == [r EXCEPT !.una = una, !.nxt = una, !.state = "TIME_WAIT"]
  <2>1. HandleClosing(t, g, dup3) \in {AddToTimewait(UpdateRetransmissionTimer(d)), r}
    BY DEF HandleClosing, A
  <2>2. Settled(r, b)
    BY <1>1
  <2> HIDE DEF r, una
  <2>3. Settled(d, b)
    BY <2>2 DEF Settled
  <2> HIDE DEF d
  <2>4. Settled(UpdateRetransmissionTimer(d), b)
    BY <2>3, SmallSettled
  <2>5. Settled(AddToTimewait(UpdateRetransmissionTimer(d)), b)
    BY <2>4, SmallSettled
  <2> QED
    BY <2>1, <2>2, <2>5
<1>8. CASE t.state = "TIME_WAIT"
  BY <1>8, SmallSettled DEF HandleByState
<1>9. t.state \notin {"LISTEN", "SYN_RCVD"}
  BY DEF Settled
<1>10. CASE t.state \in {"ESTABLISHED", "CLOSE_WAIT", "LAST_ACK"}
  BY <1>2, <1>3, <1>10 DEF HandleByState
<1>11. CASE t.state \in {"FIN_WAIT_1", "FIN_WAIT_2", "CLOSING", "CLOSED"}
  BY <1>5, <1>6, <1>7, <1>11 DEF HandleByState
<1> QED
  BY <1>8, <1>9, <1>10, <1>11 DEF States

\* a packet for a connected stream
LEMMA ProcessSettled ==
    ASSUME NEW t \in StreamType, t.state \notin {"LISTEN", "SYN_RCVD"},
           NEW g, NEW dup3, NEW full
    PROVE  Settled(Process(t, g, dup3, full), t.buf)
<1> DEFINE wnd == g.wnd
           rst == t.reset \/ g.rst
           w == [t EXCEPT !.peerWnd = wnd, !.reset = rst]
           r == Process(t, g, dup3, full)
           h == HandleByState(w, g, dup3, full)
           e == [w EXCEPT !.state = "CLOSE_WAIT"]
<1>1. r = Refuse(t, g) \/ r = ProcessRst(w, g) \/ r = h
  BY DEF Process
<1> HIDE DEF wnd, rst, r
<1>2. Settled(t, t.buf) /\ Settled(w, t.buf) /\ w.state = t.state /\ t.state \in States
  BY DEF StreamType, Settled
<1> HIDE DEF w
<1>3. Settled(h, t.buf)
  BY <1>2, HandlersSettled
<1>4. Settled(e, t.buf)
  BY <1>2 DEF Settled
<1>5. Settled(ProcessRst(w, g), t.buf)
  <2>1. ProcessRst(w, g) \in {w, CloseAndDestroy(w), e}
    BY <1>2 DEF ProcessRst, Settled, States
  <2> QED
    BY <1>2, <1>4, <2>1, SmallSettled
<1>6. Settled(Refuse(t, g), t.buf)
  <2>1. Settled(AddToControl(AddToTimewait(t)), t.buf)
    BY <1>2, SmallSettled
  <2>2. \/ Refuse(t, g) \in {t, AddToControl(t), AddToControl(AddToTimewait(t))}
        \/ \E opt : Refuse(t, g) = EnqueueAckList(t, opt)
    BY DEF Refuse
  <2> QED
    BY <1>2, <2>1, <2>2, SmallSettled
<1> QED
  BY <1>1, <1>3, <1>5, <1>6 DEF r
-----------------------------------------------------------------------------
(* The stack thread's steps, for the sending half. *)

\* Marks on the stream that no part of the sending half reads.
LEMMA MarkKept ==
    ASSUME NEW t \in StreamType, NEW x
    PROVE  /\ Kept(t, [t EXCEPT !.onq = x]) /\ Kept(t, [t EXCEPT !.sock = x])
           /\ Kept(t, [t EXCEPT !.nxt = x])
           /\ \A y : Kept(t, [t EXCEPT !.closed = x, !.sock = y])
BY DEF Kept, StreamType

\* A call on a freed stream changes nothing but what is known of it.
LEMMA FailWhole ==
    ASSUME NEW t \in StreamType, Whole(t), NEW why, why \notin {"assert", "exit"}
    PROVE  /\ Whole(Fail(t, why)) /\ Fail(t, why).buf = t.buf
           /\ Fail(t, why).state = t.state /\ Fail(t, why).alive = t.alive
<1> DEFINE r == Fail(t, why)
<1>1. /\ r.state = t.state /\ r.fss = t.fss /\ r.buf = t.buf /\ r.finSent = t.finSent
      /\ r.alive = t.alive /\ r.waiting = t.waiting /\ r.lists = t.lists /\ r.timers = t.timers
      /\ r.head = t.head /\ r.len = t.len /\ r.sent = t.sent
      /\ r.err \in {t.err, why}
  BY DEF Fail, StreamType
<1> HIDE DEF r
<1>2. Whole(r)
  BY <1>1 DEF Whole, BufferInv, FinInv
<1> QED
  BY <1>1, <1>2 DEF r

\* HandleRTO goes back to snd_una, which is the head of the buffer: what it sends
\* again is there, and a FIN among it waits for the data or goes to the control list.
LEMMA HandleRTOWhole ==
    ASSUME ~DupAcks, NEW t, Ok(t), Whole(t), t.alive, "rto" \in t.timers, NEW giveUp \in BOOLEAN
    PROVE  LET r == HandleRTO(RemoveFromRTO(t), giveUp) IN
           Whole(r) /\ r.buf = t.buf /\ r.state \in {t.state, "CLOSED"}
<1> DEFINE m == RemoveFromRTO(t)
           una == m.una
           b == [m EXCEPT !.nxt = una]
           w == [b EXCEPT !.lists = @ \ {"control"}, !.waiting = TRUE]
           q == AddToSend(w)
           r == HandleRTO(m, giveUp)
<1>1. t \in StreamType
  BY DEF Ok
<1>2. t.state \in Retransmits
  BY DEF Whole, BufferInv
<1>3. /\ m.una = t.una /\ m.state = t.state /\ m.fss = t.fss /\ m.buf = t.buf /\ m \in StreamType
      /\ Kept(t, m)
  BY <1>1, SmallKept DEF RemoveFromRTO, StreamType
<1>4. \/ giveUp /\ r = CloseAndDestroy(m)
      \/ t.state \in {"ESTABLISHED", "CLOSE_WAIT"} /\ r = AddToSend(b)
      \/ t.state \in {"FIN_WAIT_1", "CLOSING", "LAST_ACK"} /\ b.nxt < b.fss /\ r = q
      \/ t.state \in {"SYN_RCVD", "FIN_WAIT_1", "CLOSING", "LAST_ACK"} /\ r = AddToControl(b)
  <2>1. CASE giveUp
    BY <2>1 DEF HandleRTO
  <2>2. CASE ~giveUp /\ t.state = "SYN_RCVD"
    BY <1>3, <2>2 DEF HandleRTO
  <2>3. CASE ~giveUp /\ t.state \in {"ESTABLISHED", "CLOSE_WAIT"}
    BY <1>3, <2>3 DEF HandleRTO
  <2>4. CASE ~giveUp /\ t.state \in {"FIN_WAIT_1", "CLOSING", "LAST_ACK"}
    BY <1>3, <2>4 DEF HandleRTO
  <2> QED
    BY <1>2, <2>1, <2>2, <2>3, <2>4 DEF Retransmits
<1> HIDE DEF m, r
<1>5. b \in StreamType /\ Kept(m, b) /\ b.nxt = t.una /\ b.fss = t.fss /\ b.buf = t.buf
      /\ b.state = t.state
  <2>1. una \in 0..NxtCap
    BY <1>1, <1>3 DEF StreamType, SeqNo, NxtCap
  <2> HIDE DEF una
  <2>2. b \in StreamType /\ b.nxt = una /\ b.fss = m.fss /\ b.buf = m.buf /\ b.state = m.state
    BY <1>3, <2>1 DEF StreamType
  <2>3. Kept(m, b)
    BY <1>3, MarkKept
  <2> QED
    BY <1>3, <2>2, <2>3 DEF una
<1> HIDE DEF una, b
<1>6. Whole(m) /\ m.alive /\ Whole(b) /\ b.alive
  BY <1>3, <1>5, KeptWhole DEF Kept
<1>7. ASSUME r = CloseAndDestroy(m) PROVE Whole(r) /\ r.buf = t.buf /\ r.state = "CLOSED"
  <2>1. Whole(CloseAndDestroy(m))
    BY <1>3, <1>6, EndedWhole
  <2>2. CloseAndDestroy(m).buf = t.buf /\ CloseAndDestroy(m).state = "CLOSED"
    BY <1>3 DEF CloseAndDestroy, DestroyTcpStream, StreamType
  <2> QED
    BY <1>7, <2>1, <2>2
<1>8. ASSUME t.state \in {"ESTABLISHED", "CLOSE_WAIT"}, r = AddToSend(b)
      PROVE  Whole(r) /\ r.buf = t.buf /\ r.state = t.state
  <2>1. t.buf
    BY <1>8 DEF Whole, BufferInv
  <2>2. Kept(b, AddToSend(b))
    BY <1>5, <2>1, SmallKept
  <2> QED
    BY <1>5, <1>6, <1>8, <2>2, KeptWhole DEF Kept
<1>9. ASSUME r = AddToControl(b) PROVE Whole(r) /\ r.buf = t.buf /\ r.state = t.state
  <2>1. Kept(b, AddToControl(b))
    BY <1>5, SmallKept
  <2> QED
    BY <1>5, <1>6, <1>9, <2>1, KeptWhole DEF Kept
<1>10. ASSUME t.state \in {"FIN_WAIT_1", "CLOSING", "LAST_ACK"}, b.nxt < b.fss, r = q
       PROVE  Whole(r) /\ r.buf = t.buf /\ r.state = t.state
  <2>1. t.una = t.head
    BY <1>10 DEF Ok, StreamInv, FlightInv, Transmitting
  <2>2. t.fss = t.head + t.len
    BY <1>10 DEF Whole, FinInv, AfterClose
  <2>3. t.head \in Nat /\ t.len \in Nat
    BY <1>1 DEF StreamType, SeqNo
  <2>4. t.len # 0
    BY <1>5, <1>10, <2>1, <2>2, <2>3
  <2>5. b.buf
    BY <1>5, <2>4 DEF Whole, BufferInv
  <2>6. /\ w.state = b.state /\ w.fss = b.fss /\ w.buf = b.buf /\ w.finSent = b.finSent
        /\ w.alive /\ w.waiting /\ w.lists = b.lists \ {"control"} /\ w.timers = b.timers
        /\ w.head = b.head /\ w.len = b.len /\ w.sent = b.sent /\ w.err = b.err
        /\ DOMAIN w = DOMAIN b
    BY <1>5, <1>6 DEF StreamType
  <2> HIDE DEF w
  <2>7. /\ q.state = b.state /\ q.fss = b.fss /\ q.buf = b.buf /\ q.finSent = b.finSent
        /\ q.alive /\ q.waiting /\ "send" \in q.lists /\ q.timers = b.timers
        /\ q.head = b.head /\ q.len = b.len /\ q.sent = b.sent /\ q.err = b.err
    BY <1>5, <2>5, <2>6 DEF AddToSend, StreamType
  <2> HIDE DEF q
  <2>8. Whole(q)
    <3>1. BufferInv(q)
      BY <1>5, <1>6, <1>10, <2>5, <2>7 DEF Whole, BufferInv
    <3>2. FinInv(q)
      BY <1>5, <1>6, <2>7 DEF Whole, FinInv
    <3> QED
      BY <1>6, <2>7, <3>1, <3>2 DEF Whole
  <2> QED
    BY <1>5, <1>10, <2>7, <2>8
<1>11. Whole(r) /\ r.buf = t.buf /\ r.state \in {t.state, "CLOSED"}
  BY <1>4, <1>7, <1>8, <1>9, <1>10
<1> QED
  BY <1>11 DEF r, m

\* handle_close takes the last sequence number of the application, which without a
\* buffer is snd_nxt; the FIN then waits on a list or goes to the control list.
LEMMA CloseRequestedWhole ==
    ASSUME ~DupAcks, NEW t, Ok(t), Whole(t), t.alive, ~t.finSent,
           t.state \in {"ESTABLISHED", "CLOSE_WAIT", "CLOSED"}
    PROVE  LET r == CloseRequested(t) IN
           Whole(r) /\ r.buf = t.buf /\ r.state \notin {"LISTEN", "SYN_RCVD"}
<1> DEFINE onq == t.onq \ {"closeq"}
           fss == FinalSeq(t)
           timers == t.timers \ {"timeout"}
           c == [t EXCEPT !.onq = onq, !.fss = fss, !.timers = timers]
           state == CloseState(c.state)
           p == [c EXCEPT !.onq = @ \cup {"closeq_int"}]
           w == [c EXCEPT !.state = state, !.waiting = TRUE]
           d == [c EXCEPT !.state = state]
           r == CloseRequested(t)
<1>1. t \in StreamType /\ t.buf \in BOOLEAN /\ t.lists \subseteq {"control", "send", "ack"}
  BY DEF Ok, StreamType
<1>2. \/ r \in {CloseAndDestroy(c), c, p}
      \/ c.lists \cap {"send", "ack"} # {} /\ r = w
      \/ r = AddToControl(d)
  <2>1. c.lists = t.lists /\ c.reset \in BOOLEAN
    BY <1>1 DEF StreamType
  <2>2. c.lists = {} \/ "control" \in c.lists \/ c.lists \cap {"send", "ack"} # {}
    BY <1>1, <2>1
  <2> QED
    BY <2>1, <2>2 DEF CloseRequested
<1>3. fss \in SeqNo /\ (t.state # "CLOSED" => fss = t.head + t.len)
  <2>1. /\ t.head \in Nat /\ t.len \in Nat /\ t.nxt \in Nat /\ t.head + t.len <= AppBytes + 1
        /\ t.head >= 1 /\ (~t.buf /\ ~t.finSent => t.nxt <= 1)
    BY <1>1 DEF Ok, StreamType, StreamInv, SendInv, SeqNo, NxtCap
  <2>2. CASE t.buf
    BY <2>1, <2>2 DEF FinalSeq, SeqNo
  <2>3. CASE ~t.buf
    <3>1. t.head = 1 /\ t.len = 0
      BY <2>3 DEF Whole, BufferInv
    <3>2. t.state # "CLOSED" => t.head <= t.nxt
      BY DEF Ok, StreamInv, FlightInv, Transmitting
    <3> QED
      BY <2>1, <2>3, <3>1, <3>2 DEF FinalSeq, SeqNo
  <2> QED
    BY <2>2, <2>3
<1> HIDE DEF fss
<1>4. /\ c.state = t.state /\ c.fss = fss /\ c.buf = t.buf /\ ~c.finSent /\ c.alive
      /\ c.waiting = t.waiting /\ c.lists = t.lists /\ c.timers = t.timers \ {"timeout"}
      /\ c.head = t.head /\ c.len = t.len /\ c.sent = t.sent /\ c.err = t.err
      /\ c \in StreamType
  BY <1>1, <1>3 DEF StreamType
<1> HIDE DEF c, r
<1>5. Whole(c)
  BY <1>4 DEF Whole, BufferInv, FinInv, AfterClose
<1>6. CASE r \in {CloseAndDestroy(c), c, p}
  <2>1. Whole(CloseAndDestroy(c)) /\ CloseAndDestroy(c).buf = c.buf
        /\ CloseAndDestroy(c).state = "CLOSED"
    BY <1>4, <1>5, EndedWhole DEF CloseAndDestroy, DestroyTcpStream, StreamType
  <2>2. Kept(c, p)
    BY <1>4, MarkKept
  <2>3. Whole(p) /\ p.buf = c.buf /\ p.state = c.state
    BY <1>4, <1>5, <2>2, KeptWhole DEF Kept
  <2> QED
    BY <1>4, <1>5, <1>6, <2>1, <2>3 DEF r
<1>7. /\ state \in {"FIN_WAIT_1", "LAST_ACK", "CLOSED"}
      /\ state # "CLOSED" => t.state # "CLOSED"
      /\ c.timers \cap {"rto"} # {} => state # "CLOSED"
  <2>1. "rto" \in t.timers => t.state # "CLOSED"
    BY DEF Whole, BufferInv, Retransmits
  <2> QED
    BY <1>4, <2>1 DEF CloseState
<1> HIDE DEF state
<1> DEFINE FinWaits(e) ==
             /\ e.state = state /\ e.fss = c.fss /\ e.buf = c.buf /\ e.alive
             /\ e.timers = c.timers /\ e.head = c.head /\ e.len = c.len /\ e.err = c.err
             /\ c.lists \subseteq e.lists /\ ("send" \in e.lists => "send" \in c.lists)
             /\ \/ "control" \in e.lists
                \/ e.waiting /\ e.lists \cap {"send", "ack"} # {}
<1>8. ASSUME NEW e, FinWaits(e)
      PROVE  Whole(e) /\ e.buf = t.buf /\ e.state \notin {"LISTEN", "SYN_RCVD"}
  <2>1. BufferInv(e)
    BY <1>4, <1>5, <1>7, <1>8 DEF Whole, BufferInv, Retransmits
  <2>2. FinInv(e)
    BY <1>3, <1>4, <1>7, <1>8 DEF FinInv, AfterClose
  <2> QED
    BY <1>4, <1>5, <1>7, <1>8, <2>1, <2>2 DEF Whole
<1>9. CASE c.lists \cap {"send", "ack"} # {} /\ r = w
  <2>1. FinWaits(w)
    BY <1>4, <1>9 DEF StreamType
  <2> HIDE DEF FinWaits
  <2> QED
    BY <1>8, <1>9, <2>1 DEF r
<1>10. CASE r = AddToControl(d)
  <2>1. FinWaits(AddToControl(d))
    BY <1>4 DEF StreamType, AddToControl
  <2> HIDE DEF FinWaits
  <2> QED
    BY <1>8, <1>10, <2>1 DEF r
<1> QED
  BY <1>2, <1>6, <1>9, <1>10

\* A control packet settles what the control list was for: the FIN is out, the SYN is
\* on its way again, or the stream is gone.
LEMMA ControlPktWhole ==
    ASSUME NEW t \in StreamType, Whole(t), t.alive
    PROVE  LET r == SendControlPkt([t EXCEPT !.lists = @ \ {"control"}]) IN
           Whole(r) /\ r.buf = t.buf /\ r.state = t.state
<1> DEFINE u == [t EXCEPT !.lists = @ \ {"control"}]
           d == Emit(u)
           all(x) == d.sent \cup {x}
           one == 1
           nxt == MinOf(d.nxt + 1, NxtCap)
           syn == [d EXCEPT !.sent = all(0), !.nxt = one]
           fin == [d EXCEPT !.sent = all(u.fss), !.nxt = nxt, !.finSent = TRUE]
           r == SendControlPkt(u)
<1>1. /\ u.state = t.state /\ u.fss = t.fss /\ u.buf = t.buf /\ u.finSent = t.finSent
      /\ u.alive /\ u.lists = t.lists \ {"control"} /\ u.timers = t.timers
      /\ u.head = t.head /\ u.len = t.len /\ u.sent = t.sent /\ u.err = t.err
      /\ u \in StreamType
  BY DEF StreamType
<1>2. \/ t.state = "SYN_RCVD" /\ r = AddToRTO(syn)
      \/ t.state \in {"LAST_ACK", "FIN_WAIT_1", "CLOSING"} /\ r = AddToRTO(fin)
      \/ t.state = "CLOSED" /\ r = DestroyTcpStream(u)
      \/ t.state \notin {"SYN_RCVD", "LAST_ACK", "FIN_WAIT_1", "CLOSED"} /\ r = d
  <2> HIDE DEF u
  <2>1. CASE t.state \in {"SYN_RCVD", "LAST_ACK", "FIN_WAIT_1", "CLOSED"}
    BY <1>1, <2>1 DEF SendControlPkt, SendSynAck, SendFin
  <2>2. CASE t.state = "CLOSING"
    BY <1>1, <2>2 DEF SendControlPkt, SendFin
  <2>3. CASE t.state \notin {"SYN_RCVD", "LAST_ACK", "FIN_WAIT_1", "CLOSED", "CLOSING"}
    BY <1>1, <2>3 DEF SendControlPkt
  <2> QED
    BY <2>1, <2>2, <2>3
<1> HIDE DEF u, r
<1>3. /\ d.state = t.state /\ d.fss = t.fss /\ d.buf = t.buf /\ d.finSent = t.finSent
      /\ d.alive /\ d.lists = t.lists \ {"control"} /\ d.timers = t.timers
      /\ d.head = t.head /\ d.len = t.len /\ d.sent = t.sent /\ d.err = t.err
      /\ d \in StreamType
  BY <1>1 DEF Emit, StreamType
<1>4. all(0) = t.sent \cup {0}
  BY <1>3
<1> HIDE DEF d, all, one, nxt
<1>5. CASE t.state = "SYN_RCVD" /\ r = AddToRTO(syn)
  <2>1. /\ syn.state = t.state /\ syn.fss = t.fss /\ syn.buf = t.buf /\ syn.finSent = t.finSent
        /\ syn.alive /\ syn.lists = t.lists \ {"control"} /\ syn.timers = t.timers
        /\ syn.head = t.head /\ syn.len = t.len /\ syn.sent = t.sent \cup {0}
        /\ syn.err = t.err /\ DOMAIN syn = DOMAIN t
    BY <1>3, <1>4 DEF StreamType
  <2> HIDE DEF syn
  <2>2. /\ r.state = t.state /\ r.fss = t.fss /\ r.buf = t.buf /\ r.finSent = t.finSent
        /\ r.alive /\ r.lists = t.lists \ {"control"} /\ r.timers = t.timers \cup {"rto"}
        /\ r.head = t.head /\ r.len = t.len /\ r.sent = t.sent \cup {0} /\ r.err = t.err
    BY <1>5, <2>1 DEF AddToRTO, StreamType
  <2>3. Whole(r)
    BY <1>5, <2>2 DEF Whole, BufferInv, FinInv, Retransmits, AfterClose
  <2> QED
    BY <2>2, <2>3 DEF r, u
<1>6. CASE t.state \in {"LAST_ACK", "FIN_WAIT_1", "CLOSING"} /\ r = AddToRTO(fin)
  <2>1. /\ fin.state = t.state /\ fin.fss = t.fss /\ fin.buf = t.buf /\ fin.finSent
        /\ fin.alive /\ fin.lists = t.lists \ {"control"} /\ fin.timers = t.timers
        /\ fin.head = t.head /\ fin.len = t.len
        /\ fin.err = t.err /\ DOMAIN fin = DOMAIN t
    BY <1>3 DEF StreamType
  <2> HIDE DEF fin
  <2>2. /\ r.state = t.state /\ r.fss = t.fss /\ r.buf = t.buf /\ r.finSent
        /\ r.alive /\ r.lists = t.lists \ {"control"} /\ r.timers = t.timers \cup {"rto"}
        /\ r.head = t.head /\ r.len = t.len /\ r.err = t.err
    BY <1>6, <2>1 DEF AddToRTO, StreamType
  <2>3. Whole(r)
    BY <1>6, <2>2 DEF Whole, BufferInv, FinInv, Retransmits
  <2> QED
    BY <2>2, <2>3 DEF r, u
<1>7. CASE t.state = "CLOSED" /\ r = DestroyTcpStream(u)
  <2>1. Whole(u)
    BY <1>1, <1>7 DEF Whole, BufferInv, FinInv, AfterClose
  <2>2. Whole(DestroyTcpStream(u))
    BY <1>1, <2>1, EndedWhole
  <2>3. DestroyTcpStream(u).buf = u.buf /\ DestroyTcpStream(u).state = u.state
    BY <1>1 DEF DestroyTcpStream, StreamType
  <2> QED
    BY <1>1, <1>7, <2>2, <2>3 DEF r, u
<1>8. CASE t.state \notin {"SYN_RCVD", "LAST_ACK", "FIN_WAIT_1", "CLOSED"} /\ r = d
  <2>1. Whole(d)
    BY <1>3, <1>8 DEF Whole, BufferInv, FinInv
  <2> QED
    BY <1>3, <1>8, <2>1 DEF r, u
<1> QED
  BY <1>2, <1>5, <1>6, <1>7, <1>8

\* Off one of the two lists, a FIN that waited waits for the other or is due.
LEMMA StopWaitingWhole ==
    ASSUME NEW t \in StreamType, Whole(t), t.alive, NEW own, NEW other,
           <<own, other>> \in {<<"send", "ack">>, <<"ack", "send">>},
           NEW e \in StreamType, e.state = t.state, e.fss = t.fss, e.buf = t.buf,
           e.finSent = t.finSent, e.alive, e.waiting = t.waiting, e.timers = t.timers,
           e.head = t.head, e.len = t.len, e.sent = t.sent, e.err = t.err,
           e.lists \in {t.lists, t.lists \ {own}}
    PROVE  LET r == StopWaiting(e, other) IN
           Whole(r) /\ r.buf = t.buf /\ r.state = t.state /\ r.alive
<1> DEFINE r == StopWaiting(e, other)
<1>1. e.waiting \in BOOLEAN /\ e.lists \subseteq {"control", "send", "ack"}
  BY DEF StreamType
<1>2. /\ r.state = t.state /\ r.fss = t.fss /\ r.buf = t.buf /\ r.finSent = t.finSent
      /\ r.alive /\ r.timers = t.timers
      /\ r.head = t.head /\ r.len = t.len /\ r.sent = t.sent /\ r.err = t.err
      /\ \/ e.waiting /\ other \notin e.lists /\ r.lists = e.lists \cup {"control"}
         \/ ~(e.waiting /\ other \notin e.lists) /\ r.lists = e.lists /\ r.waiting = e.waiting
  <2>1. CASE e.waiting /\ other \notin e.lists
    BY <2>1 DEF StopWaiting, AddToControl, StreamType
  <2>2. CASE ~(e.waiting /\ other \notin e.lists)
    BY <2>2 DEF StopWaiting
  <2> QED
    BY <2>1, <2>2
<1> HIDE DEF r
<1>3. "send" \in r.lists => "send" \in t.lists
  BY <1>2
<1>4. BufferInv(r)
  BY <1>2, <1>3 DEF Whole, BufferInv
<1>5. \/ r.finSent \/ r.state \notin {"FIN_WAIT_1", "LAST_ACK"}
      \/ "control" \in r.lists
      \/ r.waiting /\ r.lists \cap {"send", "ack"} # {}
  <2>1. CASE e.waiting /\ other \notin e.lists
    BY <1>2, <2>1
  <2>2. CASE e.waiting /\ other \in e.lists
    BY <1>2, <2>2
  <2>3. CASE ~e.waiting
    <3>1. \/ t.finSent \/ t.state \notin {"FIN_WAIT_1", "LAST_ACK"} \/ "control" \in t.lists
      BY <2>3 DEF Whole, FinInv
    <3>2. "control" \in t.lists => "control" \in r.lists
      BY <1>2, <2>3
    <3> QED
      BY <1>2, <3>1, <3>2
  <2> QED
    BY <2>1, <2>2, <2>3
<1>6. FinInv(r)
  BY <1>2, <1>5 DEF Whole, FinInv
<1> QED
  BY <1>2, <1>4, <1>6 DEF Whole, r

\* What flush_sendbuffer sends is in the buffer: snd_nxt is not before its head.
LEMMA FlushWhole ==
    ASSUME ~DupAcks, NEW t, Ok(t), Whole(t), t.alive, t.buf,
           t.state \in {"ESTABLISHED", "CLOSE_WAIT", "FIN_WAIT_1", "LAST_ACK"},
           NEW w, NEW wack
    PROVE  Kept(t, FlushSendBuffer(t, w, wack)[1])
<1> DEFINE k == Sendable(t, w)
           all == t.sent \cup t.nxt..(t.nxt + k - 1)
           nxt == t.nxt + k
           m == Emit(t)
           e == [m EXCEPT !.sent = all, !.nxt = nxt]
           f == AddToRTO(e)
           r == FlushSendBuffer(t, w, wack)[1]
<1>1. t \in StreamType /\ t.head \in Nat /\ t.nxt \in Nat /\ t.len \in Nat
  BY DEF Ok, StreamType, SeqNo, NxtCap
<1>2. ~(t.nxt < t.head)
  BY <1>1 DEF Ok, StreamInv, FlightInv, Transmitting
<1>3. \/ r \in {Fail(t, "overread"), t, EnqueueAckList(t, "WACK")}
      \/ r \in {SendData(t, k), EnqueueAckList(SendData(t, k), "WACK")}
  BY <1>2 DEF FlushSendBuffer
<1>4. SendData(t, k) = f
  <2>1. m.sent = t.sent /\ m.nxt = t.nxt
    BY <1>1 DEF Emit, StreamType
  <2> QED
    BY <2>1 DEF SendData
<1>5. t.sent \subseteq all
  OBVIOUS
<1>6. m \in StreamType /\ m.state = t.state /\ m.fss = t.fss /\ m.buf = t.buf
      /\ m.finSent = t.finSent /\ m.alive = t.alive /\ m.waiting = t.waiting
      /\ m.lists = t.lists /\ m.head = t.head /\ m.len = t.len /\ m.timers = t.timers
      /\ m.err = t.err
  BY <1>1 DEF Emit, StreamType
<1> HIDE DEF all, nxt, m, r, k
<1>7. /\ e.state = t.state /\ e.fss = t.fss /\ e.buf = t.buf
      /\ e.finSent = t.finSent /\ e.alive = t.alive /\ e.waiting = t.waiting
      /\ e.lists = t.lists /\ e.head = t.head /\ e.len = t.len /\ e.sent = all
      /\ e.timers = t.timers /\ e.err = t.err /\ DOMAIN e = DOMAIN t
  BY <1>1, <1>6 DEF StreamType
<1> HIDE DEF e
<1>8. /\ f.state = t.state /\ f.fss = t.fss /\ f.buf = t.buf
      /\ f.finSent = t.finSent /\ f.alive = t.alive /\ f.waiting = t.waiting
      /\ f.lists = t.lists /\ f.head = t.head /\ f.len = t.len /\ f.sent = all
      /\ f.timers = t.timers \cup {"rto"} /\ f.err = t.err /\ DOMAIN f = DOMAIN t
  BY <1>1, <1>7 DEF AddToRTO, StreamType
<1> HIDE DEF f
<1>9. Kept(t, f)
  BY <1>5, <1>8 DEF Kept, Transmitting
<1>10. Kept(t, EnqueueAckList(f, "WACK"))
  <2> DEFINE g == EnqueueAckList(f, "WACK")
  <2>1. /\ g.state = t.state /\ g.fss = t.fss /\ g.buf = t.buf
        /\ g.finSent = t.finSent /\ g.alive = t.alive /\ g.waiting = t.waiting
        /\ g.lists = t.lists \cup {"ack"} /\ g.head = t.head /\ g.len = t.len /\ g.sent = all
        /\ g.timers = t.timers \cup {"rto"} /\ g.err = t.err
    BY <1>1, <1>8 DEF EnqueueAckList, StreamType
  <2> HIDE DEF g
  <2>2. Kept(t, g)
    BY <1>5, <2>1 DEF Kept, Transmitting
  <2> QED
    BY <2>2 DEF g
<1>11. Kept(t, Fail(t, "overread")) /\ Kept(t, t) /\ Kept(t, EnqueueAckList(t, "WACK"))
  BY <1>1, SmallKept
<1> QED
  BY <1>3, <1>4, <1>9, <1>10, <1>11 DEF r
-----------------------------------------------------------------------------
(* The steps of the stack thread and of the application. *)

\* r is t after a step that may free it or move it on behind the handshake.
Onward(t, r) ==
    /\ Whole(r) /\ (t.buf => r.buf)
    /\ r.state \in {"LISTEN", "SYN_RCVD"} => t.state \in {"LISTEN", "SYN_RCVD"}

\* What every step but accept, send and the handshake has in common.
LEMMA WriteStep ==
    ASSUME CallInv, Onward(s, s'),
           app' = "notify" => s'.buf \/ app = "notify",
           queue'.sendq > 0 => s'.buf \/ queue.sendq > 0 \/ app = "notify",
           app' # "none" => app # "none" \/ queue.acceptq > 0,
           queue'.acceptq > 0 => queue.acceptq > 0 \/ s'.state \notin {"LISTEN", "SYN_RCVD"},
           stack' = "dataend" => s'.alive
    PROVE  WriteInv'
<1>1. (app' = "notify" \/ queue'.sendq > 0) => s'.buf
  BY DEF CallInv, Onward
<1>2. (app' # "none" \/ queue'.acceptq > 0) => s'.state \notin {"LISTEN", "SYN_RCVD"}
  BY DEF CallInv, Onward
<1>3. CallInv'
  BY <1>1, <1>2 DEF CallInv
<1>4. BufferInv(s)' /\ FinInv(s)' /\ NoAssertFails'
  <2>1. BufferInv(s') /\ FinInv(s') /\ s'.err \notin {"assert", "exit"}
    BY DEF Onward, Whole
  <2>2. BufferInv(s)'
    BY <2>1 DEF BufferInv
  <2>3. FinInv(s)'
    BY <2>1 DEF FinInv
  <2> QED
    BY <2>1, <2>2, <2>3 DEF NoAssertFails
<1> QED
  BY <1>3, <1>4 DEF WriteInv

\* What the steps below start from.
LEMMA WriteParts ==
    ASSUME IInv, WriteInv
    PROVE  /\ Ok(s) /\ RestOK /\ CloseInv /\ s \in StreamType /\ Whole(s) /\ CallInv
           /\ s.lists # {} \/ s.timers # {} => s.alive
           /\ Onward(s, s) /\ \A r : s.alive /\ Kept(s, r) => Onward(s, r)
<1>1. Ok(s) /\ RestOK /\ CloseInv /\ s \in StreamType
  BY IInvParts DEF Ok
<1>2. Whole(s) /\ CallInv
  BY DEF WriteInv, Whole, NoAssertFails
<1>3. s.lists # {} \/ s.timers # {} => s.alive
  BY <1>1, <1>2 DEF Whole, BufferInv, StreamType
<1>4. ASSUME NEW r, s.alive, Kept(s, r) PROVE Onward(s, r)
  <2>1. Whole(r)
    BY <1>2, <1>4, KeptWhole
  <2> QED
    BY <1>4, <2>1 DEF Onward, Kept
<1> QED
  BY <1>1, <1>2, <1>3, <1>4 DEF Onward

\* The steps that take no packet, send nothing and empty no queue: the timers.
LEMMA TimersWrite ==
    ASSUME ~DupAcks, IInv, WriteInv,
           \/ Pause \/ CheckRtmTimeout \/ CheckTimewaitExpire \/ CheckConnectionTimeout
    PROVE  WriteInv'
<1>1. /\ Ok(s) /\ RestOK /\ s \in StreamType /\ Whole(s) /\ CallInv
      /\ (s.lists # {} \/ s.timers # {} => s.alive) /\ Onward(s, s)
  BY WriteParts
<1>2. queue' = queue /\ app' = app /\ stack' # "dataend"
  BY DEF Pause, NoPacket, LearnAddress, StartRound, ControlBlocked, DataBlocked, NoTimestamp,
         CheckRtmTimeout, CheckTimewaitExpire, CheckConnectionTimeout
<1>3. Onward(s, CloseAndDestroy(s))
  <2>1. Whole(CloseAndDestroy(s))
    BY <1>1, EndedWhole
  <2>2. CloseAndDestroy(s).buf = s.buf /\ CloseAndDestroy(s).state = "CLOSED"
    BY <1>1 DEF CloseAndDestroy, DestroyTcpStream, StreamType
  <2> QED
    BY <2>1, <2>2 DEF Onward
<1>4. CASE CheckRtmTimeout
  <2>1. CASE s' = s
    BY <1>1, <1>2, <2>1, WriteStep
  <2>2. CASE s' # s
    <3>1. "rto" \in s.timers /\ s.alive
      BY <1>1, <1>4, <2>2 DEF CheckRtmTimeout
    <3>2. PICK giveUp \in BOOLEAN : s' = HandleRTO(RemoveFromRTO(s), giveUp)
      BY <1>4, <2>2 DEF CheckRtmTimeout
    <3>3. Whole(s') /\ s'.buf = s.buf /\ s'.state \in {s.state, "CLOSED"}
      BY <1>1, <3>1, <3>2, HandleRTOWhole
    <3>4. Onward(s, s')
      BY <3>3 DEF Onward
    <3> QED
      BY <1>1, <1>2, <3>4, WriteStep
  <2> QED
    BY <2>1, <2>2
<1>5. CASE CheckTimewaitExpire \/ CheckConnectionTimeout
  <2>1. s' \in {s, CloseAndDestroy(s)}
    BY <1>5 DEF CheckTimewaitExpire, CheckConnectionTimeout
  <2>2. Onward(s, s')
    BY <1>1, <1>3, <2>1
  <2> QED
    BY <1>1, <1>2, <2>2, WriteStep
<1>6. CASE Pause
  <2>1. s' = s
    BY <1>6 DEF Pause, NoPacket, LearnAddress, StartRound, ControlBlocked, DataBlocked, NoTimestamp
  <2> QED
    BY <1>1, <1>2, <2>1, WriteStep
<1> QED
  BY <1>4, <1>5, <1>6

\* One entry of a queue: send() filled the buffer before it queued the stream, and
\* close() was called once, on a connected stream.
LEMMA QueuesWrite ==
    ASSUME ~DupAcks, IInv, WriteInv, HandleSendq \/ HandleAckq \/ HandleCloseq \/ HandleDestroyq
    PROVE  WriteInv'
<1>1. /\ Ok(s) /\ RestOK /\ CloseInv /\ s \in StreamType /\ Whole(s) /\ CallInv
      /\ Onward(s, s) /\ \A r : s.alive /\ Kept(s, r) => Onward(s, r)
  BY WriteParts
<1>2. Onward(s, Fail(s, "use_after_free"))
  BY <1>1, FailWhole DEF Onward
<1>3. ASSUME NEW q \in {"sendq", "ackq", "closeq", "destroyq"},
             NEW next \in {"ackq", "closeq", "destroyq", "control"}, NEW handled,
             Drain(q, next, handled), queue[q] > 0 /\ s.alive => Onward(s, handled)
      PROVE  WriteInv'
  <2>1. /\ queue'.acceptq = queue.acceptq
        /\ queue'.sendq > 0 => queue.sendq > 0
        /\ app' = app
        /\ stack' \in {q, next}
        /\ \/ s' = s
           \/ queue[q] > 0 /\ s.alive /\ s' = handled
           \/ ~s.alive /\ s' = Fail(s, "use_after_free")
    BY <1>1, <1>3, DrainQueue
  <2>2. Onward(s, s')
    BY <1>1, <1>2, <1>3, <2>1
  <2>3. stack' # "dataend"
    BY <2>1
  <2> QED
    BY <1>1, <2>1, <2>2, <2>3, WriteStep
<1>4. CASE HandleSendq
  <2> DEFINE e == [s EXCEPT !.onq = @ \ {"sendq"}]
             handled == AddToSend(e)
  <2>1. Drain("sendq", "ackq", handled)
    BY <1>4 DEF HandleSendq
  <2>2. e \in StreamType /\ Kept(s, e)
    BY <1>1, MarkKept DEF StreamType
  <2>3. e.buf = s.buf
    BY <2>2 DEF Kept
  <2> HIDE DEF e
  <2>4. queue["sendq"] > 0 => e.buf
    BY <1>1, <2>3 DEF CallInv
  <2>5. queue["sendq"] > 0 => Kept(e, handled)
    BY <2>2, <2>4, SmallKept
  <2>6. queue["sendq"] > 0 => Kept(s, handled)
    BY <2>2, <2>5, KeptTrans
  <2>7. queue["sendq"] > 0 /\ s.alive => Onward(s, handled)
    BY <1>1, <2>6
  <2> HIDE DEF handled
  <2> QED
    BY <1>3, <2>1, <2>7
<1>5. CASE HandleAckq
  <2> DEFINE e == [s EXCEPT !.onq = @ \ {"ackq"}]
             handled == EnqueueAckList(e, "AGGREGATE")
  <2>1. Drain("ackq", "closeq", handled)
    BY <1>5 DEF HandleAckq
  <2>2. e \in StreamType /\ Kept(s, e)
    BY <1>1, MarkKept DEF StreamType
  <2> HIDE DEF e
  <2>3. Kept(e, handled)
    BY <2>2, SmallKept
  <2>4. s.alive => Onward(s, handled)
    BY <1>1, <2>2, <2>3, KeptTrans
  <2> HIDE DEF handled
  <2> QED
    BY <1>3, <2>1, <2>4
<1>6. CASE HandleCloseq
  <2>1. Drain("closeq", "destroyq", CloseRequested(s))
    BY <1>6 DEF HandleCloseq
  <2>2. ASSUME queue["closeq"] > 0, s.alive PROVE Onward(s, CloseRequested(s))
    <3>1. queue.closeq = 1
      BY <1>1, <2>2 DEF RestOK, CloseInv
    <3>2. ~s.finSent /\ s.state \notin AfterClose /\ app = "done"
      BY <1>1, <3>1 DEF CloseInv
    <3>3. s.state \notin {"LISTEN", "SYN_RCVD"}
      BY <1>1, <3>2 DEF CallInv
    <3>4. s.state \in {"ESTABLISHED", "CLOSE_WAIT", "CLOSED"}
      BY <1>1, <3>2, <3>3 DEF StreamType, States, AfterClose
    <3> QED
      BY <1>1, <2>2, <3>2, <3>4, CloseRequestedWhole DEF Onward
  <2> QED
    BY <1>3, <2>1, <2>2
<1>7. CASE HandleDestroyq
  <2>1. Drain("destroyq", "control", DestroyTcpStream(s))
    BY <1>7 DEF HandleDestroyq
  <2>2. Whole(DestroyTcpStream(s))
    BY <1>1, EndedWhole
  <2>3. DestroyTcpStream(s).buf = s.buf /\ DestroyTcpStream(s).state = s.state
    BY <1>1 DEF DestroyTcpStream, StreamType
  <2>4. Onward(s, DestroyTcpStream(s))
    BY <2>2, <2>3 DEF Onward
  <2> QED
    BY <1>3, <2>1, <2>4
<1> QED
  BY <1>4, <1>5, <1>6, <1>7

\* The three lists, written in turn.
LEMMA ListsWrite ==
    ASSUME ~DupAcks, IInv, WriteInv,
           WriteControlList \/ WriteAckList \/ WriteDataList \/ DataListEnd
    PROVE  WriteInv'
<1>1. /\ Ok(s) /\ RestOK /\ CloseInv /\ s \in StreamType /\ Whole(s) /\ CallInv
      /\ s.lists # {} \/ s.timers # {} => s.alive
      /\ Onward(s, s) /\ \A r : s.alive /\ Kept(s, r) => Onward(s, r)
  BY WriteParts
<1>2. queue' = queue /\ app' = app
  BY DEF WriteControlList, WriteAckList, WriteDataList, DataListEnd
<1>3. CASE WriteControlList
  <2> DEFINE r == SendControlPkt([s EXCEPT !.lists = @ \ {"control"}])
             z == [s EXCEPT !.nxt = 0]
  <2>1. s' = s \/ ("control" \in s.lists /\ s' \in {z, r})
    BY <1>3 DEF WriteControlList
  <2>2. s.alive => Onward(s, r)
    BY <1>1, ControlPktWhole DEF Onward
  <2>3. s.alive => Onward(s, z)
    BY <1>1, MarkKept
  <2> HIDE DEF r, z
  <2>4. Onward(s, s')
    BY <1>1, <2>1, <2>2, <2>3
  <2>5. stack' # "dataend"
    BY <1>3 DEF WriteControlList
  <2> QED
    BY <1>1, <1>2, <2>4, <2>5, WriteStep
<1>4. CASE WriteAckList
  <2> DEFINE zero == 0
             d == [s EXCEPT !.ackCnt = zero, !.wack = FALSE, !.lists = @ \ {"ack"}]
             m == Emit(d)
  <2>1. AcksWritten(s) = d
    BY DEF AcksWritten
  <2>2. \/ s' = s
        \/ "ack" \in s.lists /\ \E x \in {s, d, m} : s' = StopWaiting(x, "send")
    BY <1>4, <2>1 DEF WriteAckList
  <2>3. zero \in 0..(AckMod - 1)
    OBVIOUS
  <2> HIDE DEF zero
  <2>4. /\ d.state = s.state /\ d.fss = s.fss /\ d.buf = s.buf
        /\ d.finSent = s.finSent /\ d.alive = s.alive /\ d.waiting = s.waiting
        /\ d.timers = s.timers /\ d.head = s.head /\ d.len = s.len /\ d.sent = s.sent
        /\ d.err = s.err /\ d.lists = s.lists \ {"ack"} /\ d \in StreamType
    BY <1>1, <2>3 DEF StreamType
  <2> HIDE DEF d
  <2>5. /\ m.state = s.state /\ m.fss = s.fss /\ m.buf = s.buf
        /\ m.finSent = s.finSent /\ m.alive = s.alive /\ m.waiting = s.waiting
        /\ m.timers = s.timers /\ m.head = s.head /\ m.len = s.len /\ m.sent = s.sent
        /\ m.err = s.err /\ m.lists = s.lists \ {"ack"} /\ m \in StreamType
    BY <2>4 DEF Emit, StreamType
  <2> HIDE DEF m
  <2>6. ASSUME NEW x \in {s, d, m}, "ack" \in s.lists
        PROVE  Onward(s, StopWaiting(x, "send"))
    <3>1. /\ x.state = s.state /\ x.fss = s.fss /\ x.buf = s.buf
          /\ x.finSent = s.finSent /\ x.alive = s.alive /\ x.waiting = s.waiting
          /\ x.timers = s.timers /\ x.head = s.head /\ x.len = s.len /\ x.sent = s.sent
          /\ x.err = s.err /\ x.lists \in {s.lists, s.lists \ {"ack"}} /\ x \in StreamType
      BY <1>1, <2>4, <2>5
    <3>2. s.alive /\ x.alive
      BY <1>1, <2>6, <3>1
    <3>3. /\ Whole(StopWaiting(x, "send")) /\ StopWaiting(x, "send").buf = s.buf
          /\ StopWaiting(x, "send").state = s.state
      BY <1>1, <3>1, <3>2, StopWaitingWhole
    <3> QED
      BY <3>3 DEF Onward
  <2>7. Onward(s, s')
    BY <1>1, <2>2, <2>6
  <2>8. stack' # "dataend"
    BY <1>4 DEF WriteAckList
  <2> QED
    BY <1>1, <1>2, <2>7, <2>8, WriteStep
<1>5. CASE WriteDataList
  <2>1. \/ s' = s /\ (stack' = "packet" \/ "send" \in s.lists)
        \/ /\ "send" \in s.lists
           /\ s.state \in {"ESTABLISHED", "CLOSE_WAIT", "FIN_WAIT_1", "LAST_ACK"}
           /\ \E w, wack : s' = FlushSendBuffer(s, w, wack)[1]
    <3>1. CASE "send" \notin s.lists
      BY <1>5, <3>1 DEF WriteDataList
    <3>2. CASE "send" \in s.lists
      <4>1. PICK cwnd \in 1..(AppBytes + 1), wack \in BOOLEAN :
            LET r == CASE s.state = "ESTABLISHED" /\ "control" \in s.lists -> <<s, -1>>
                       [] \/ s.state = "ESTABLISHED" /\ "control" \notin s.lists
                          \/ s.state \in {"CLOSE_WAIT", "FIN_WAIT_1", "LAST_ACK"} ->
                            FlushSendBuffer(s, MinOf(cwnd, s.peerWnd), wack)
                       [] OTHER -> <<s, 0>>
            IN  s' = r[1]
        BY <1>5, <3>2 DEF WriteDataList
      <4> DEFINE f == FlushSendBuffer(s, MinOf(cwnd, s.peerWnd), wack)
      <4>2. CASE s.state = "ESTABLISHED" /\ "control" \in s.lists
        BY <3>2, <4>1, <4>2
      <4>3. CASE \/ s.state = "ESTABLISHED" /\ "control" \notin s.lists
                 \/ s.state \in {"CLOSE_WAIT", "FIN_WAIT_1", "LAST_ACK"}
        <5>1. s' = f[1]
          BY <4>1, <4>3
        <5> QED
          BY <3>2, <4>3, <5>1
      <4>4. CASE s.state \notin {"ESTABLISHED", "CLOSE_WAIT", "FIN_WAIT_1", "LAST_ACK"}
        BY <3>2, <4>1, <4>4
      <4> QED
        BY <4>2, <4>3, <4>4
    <3> QED
      BY <3>1, <3>2
  <2>2. CASE s' = s /\ (stack' = "packet" \/ "send" \in s.lists)
    <3>1. stack' = "dataend" => s'.alive
      BY <1>1, <2>2
    <3> QED
      BY <1>1, <1>2, <2>2, <3>1, WriteStep
  <2>3. ASSUME "send" \in s.lists,
               s.state \in {"ESTABLISHED", "CLOSE_WAIT", "FIN_WAIT_1", "LAST_ACK"},
               NEW w, NEW wack, s' = FlushSendBuffer(s, w, wack)[1]
        PROVE  WriteInv'
    <3>1. s.alive /\ s.buf
      BY <1>1, <2>3 DEF Whole, BufferInv
    <3>2. Kept(s, s')
      BY <1>1, <2>3, <3>1, FlushWhole
    <3>3. Onward(s, s') /\ s'.alive
      BY <1>1, <3>1, <3>2 DEF Kept
    <3> QED
      BY <1>1, <1>2, <3>3, WriteStep
  <2> QED
    BY <2>1, <2>2, <2>3
<1>6. CASE DataListEnd
  <2> DEFINE n == IF s.ackCnt > flushed THEN s.ackCnt - flushed ELSE 0
             e == [s EXCEPT !.lists = @ \ {"send"}, !.ackCnt = n]
  <2>1. s' = StopWaiting(e, "ack")
    BY <1>6 DEF DataListEnd
  <2>2. n \in 0..(AckMod - 1)
    BY <1>1 DEF StreamType, RestOK
  <2> HIDE DEF n
  <2>3. s.alive
    BY <1>1, <1>6 DEF CallInv, DataListEnd, At
  <2>4. /\ e.state = s.state /\ e.fss = s.fss /\ e.buf = s.buf
        /\ e.finSent = s.finSent /\ e.alive /\ e.waiting = s.waiting
        /\ e.timers = s.timers /\ e.head = s.head /\ e.len = s.len /\ e.sent = s.sent
        /\ e.err = s.err /\ e.lists = s.lists \ {"send"} /\ e \in StreamType
    BY <1>1, <2>2, <2>3 DEF StreamType
  <2> HIDE DEF e
  <2>5. Whole(s') /\ s'.buf = s.buf /\ s'.state = s.state
    BY <1>1, <2>1, <2>3, <2>4, StopWaitingWhole
  <2>6. Onward(s, s') /\ stack' # "dataend"
    BY <1>6, <2>5 DEF Onward, DataListEnd
  <2> QED
    BY <1>1, <1>2, <2>6, WriteStep
<1> QED
  BY <1>3, <1>4, <1>5, <1>6

\* The first SYN: nobody is in a call yet, and nothing was sent.
LEMMA PassiveOpenWrite ==
    ASSUME ~DupAcks, IInv, ReadInv, WriteInv, PassiveOpen PROVE WriteInv'
<1> DEFINE c == CreateTcpStream
<1>1. PICK g \in Syn : s' = Process(c, g, FALSE, FALSE)
  BY DEF PassiveOpen
<1>2. s = Blank /\ queue' = queue /\ app' = app /\ stack' = "start"
  BY DEF PassiveOpen
<1>3. ~s.alive /\ s.sent = {} /\ ~s.buf
  BY <1>2 DEF Blank
<1>4. ~(queue.acceptq > 0) /\ app = "none" /\ ~(queue.sendq > 0)
  BY <1>3 DEF ReadInv, AddressKnown, WriteInv, CallInv
<1>5. /\ c.alive /\ c.state = "LISTEN" /\ ~c.buf /\ c.head = 1 /\ c.len = 0 /\ c.sent = {}
      /\ c.lists = {} /\ c.timers = {} /\ ~c.finSent /\ c.err = "none"
  BY DEF CreateTcpStream, Blank
<1>6. Ok(c)
  BY BlankOk
<1> HIDE DEF c
<1>7. Whole(c)
  BY <1>5 DEF Whole, BufferInv, FinInv, AfterClose
<1>8. OkSeg(g) /\ ~(g.ackSeq > 0)
  <2>1. g.ackSeq = 0
    BY DEF Syn
  <2> QED
    BY <2>1, SynOk
<1>9. \A d \in BOOLEAN, f \in BOOLEAN : (d => DupAcks) => Whole(Process(c, g, d, f))
  BY <1>5, <1>6, <1>7, <1>8, ProcessWhole
<1>10. Whole(s')
  BY <1>1, <1>9
<1>11. BufferInv(s)' /\ FinInv(s)' /\ NoAssertFails'
  BY <1>10 DEF Whole, BufferInv, FinInv, NoAssertFails
<1>12. CallInv'
  BY <1>2, <1>4 DEF CallInv
<1> QED
  BY <1>11, <1>12 DEF WriteInv

\* A packet: the stream enters the backlog when the handshake is over.
LEMMA ReceiveWrite ==
    ASSUME ~DupAcks, IInv, WriteInv, NEW g \in Arriving, NEW old \in {FALSE, Timestamps},
           NEW dup3 \in {FALSE, DupAcks}, NEW full \in BOOLEAN, Receive(g, old, dup3, full)
    PROVE  WriteInv'
<1> DEFINE u == CheckTimestamp(s, g, old)
<1>1. Ok(s) /\ RestOK /\ CloseInv /\ s \in StreamType /\ Whole(s) /\ CallInv
  BY WriteParts
<1>2. s' = Process(u, g, dup3, full) /\ s.alive /\ stack' = "start"
  BY DEF Receive
<1>u. /\ Ok(u) /\ Whole(u) /\ u.alive /\ u.state = s.state /\ u.buf = s.buf
      /\ Acked(u) = Acked(s)
  <2>1. u \in {s, EnqueueAckList(s, "NOW")}
    BY DEF CheckTimestamp
  <2>2. Ok(u)
    BY <1>1, CheckTimestampOk
  <2> HIDE DEF u
  <2>3. Whole(EnqueueAckList(s, "NOW"))
    BY <1>1, <1>2, SmallKept, KeptWhole
  <2>4. LET e == EnqueueAckList(s, "NOW") IN
        e.alive = s.alive /\ e.state = s.state /\ e.buf = s.buf /\ e.sent = s.sent
    BY <1>1 DEF EnqueueAckList, StreamType
  <2> QED
    BY <1>1, <1>2, <2>1, <2>2, <2>3, <2>4 DEF Acked
<1> HIDE DEF u
<1>3. OkSeg(g) /\ dup3 \in BOOLEAN /\ (dup3 => DupAcks)
  <2>1. OkSeg(g)
    BY ArrivingOk
  <2>2. CASE dup3 = FALSE
    BY <2>1, <2>2
  <2>3. CASE dup3 = DupAcks
    BY <2>1, <2>3
  <2> QED
    BY <2>2, <2>3
<1>4. g.ackSeq > 0 => g.ackSeq \in Acked(s)
  <2>1. g \in Syn => g.ackSeq = 0
    BY DEF Syn
  <2> QED
    BY <2>1 DEF Arriving
<1>5. Whole(s')
  BY <1>2, <1>3, <1>4, <1>u, ProcessWhole
<1>6. Ok(s')
  BY <1>2, <1>3, <1>u, ProcessOk
<1>7. Onward(s, s')
  <2>1. CASE s.state \in {"LISTEN", "SYN_RCVD"}
    <3>1. ~s.buf
      BY <1>1, <2>1 DEF Whole, BufferInv
    <3> QED
      BY <1>5, <2>1, <3>1 DEF Onward
  <2>2. CASE s.state \notin {"LISTEN", "SYN_RCVD"}
    <3>1. Settled(s', u.buf)
      <4>1. u \in StreamType
        BY <1>u DEF Ok
      <4> QED
        BY <1>2, <1>u, <2>2, <4>1, ProcessSettled
    <3> QED
      BY <1>5, <1>u, <3>1 DEF Onward, Settled
  <2> QED
    BY <2>1, <2>2
<1>8. /\ queue'.sendq = queue.sendq
      /\ queue'.acceptq > 0 => queue.acceptq > 0 \/ s'.una = 1
  BY <1>1 DEF Receive, RestOK
<1>9. s'.una = 1 => s'.state \notin {"LISTEN", "SYN_RCVD"}
  BY <1>6 DEF Ok, StreamInv, SendInv
<1>10. /\ app' = "notify" => app = "notify"
       /\ app' # "none" => app # "none"
  BY DEF Receive
<1> QED
  BY <1>1, <1>2, <1>7, <1>8, <1>9, <1>10, WriteStep

\* The calls: send() is the only one that gives the stack something to send, and it
\* is over before close() is called.
LEMMA CallWrite ==
    ASSUME IInv, WriteInv, App PROVE WriteInv'
<1>1. /\ Ok(s) /\ RestOK /\ CloseInv /\ s \in StreamType /\ Whole(s) /\ CallInv
      /\ s.lists # {} \/ s.timers # {} => s.alive
      /\ Onward(s, s) /\ \A r : s.alive /\ Kept(s, r) => Onward(s, r)
  BY WriteParts
<1>2. stack' = stack
  BY DEF App, AcceptDequeue, AcceptBind, AcceptNoSocket, RecvCheck, RecvCopy, RecvWait,
         SendCheck, SendCopy, SendWait, SendNotify, CloseMark, CloseEnqueue
<1>3. ASSUME NEW r, Kept(s, r), s' = Touch(r) PROVE Onward(s, s') /\ s'.alive = s.alive
  <2>1. CASE s.alive
    BY <1>1, <1>3, <2>1 DEF Touch, Kept
  <2>2. CASE ~s.alive
    <3>1. /\ Whole(Fail(s, "use_after_free")) /\ Fail(s, "use_after_free").buf = s.buf
          /\ Fail(s, "use_after_free").state = s.state
          /\ Fail(s, "use_after_free").alive = s.alive
      BY <1>1, FailWhole
    <3>2. s' = Fail(s, "use_after_free")
      BY <1>3, <2>2 DEF Touch
    <3> QED
      BY <3>1, <3>2 DEF Onward
  <2> QED
    BY <2>1, <2>2
<1>4. ASSUME Onward(s, s'), s'.alive = s.alive,
             app' = "notify" => s'.buf,
             queue'.sendq > 0 => queue.sendq > 0 \/ app = "notify",
             app' # "none" => app # "none" \/ queue.acceptq > 0,
             queue'.acceptq > 0 => queue.acceptq > 0
      PROVE  WriteInv'
  <2>1. stack' = "dataend" => s'.alive
    BY <1>1, <1>2, <1>4 DEF CallInv
  <2> QED
    BY <1>1, <1>4, <2>1, WriteStep
<1>5. Kept(s, s)
  BY <1>1, SmallKept
<1>6. \A f \in {"acceptq", "sendq", "ackq", "closeq", "destroyq"} : queue[f] \in Nat
  BY <1>1 DEF RestOK
<1>7. CASE AcceptDequeue
  <2>1. s' = s /\ app' = "bind" /\ queue.acceptq > 0
        /\ queue' = [queue EXCEPT !.acceptq = @ - 1]
    BY <1>7 DEF AcceptDequeue
  <2>2. queue'.sendq = queue.sendq
    BY <1>1, <2>1 DEF RestOK
  <2> QED
    BY <1>1, <1>4, <2>1, <2>2
<1>8. CASE AcceptBind \/ AcceptNoSocket \/ RecvCheck \/ SendCheck
  <2> DEFINE b == [s EXCEPT !.sock = TRUE]
  <2>1. /\ s' = Touch(b) \/ s' = Touch(s)
        /\ queue' = queue /\ app # "none" /\ app' # "notify"
    BY <1>8 DEF AcceptBind, AcceptNoSocket, RecvCheck, SendCheck, InApi
  <2>2. Kept(s, b)
    BY <1>1, MarkKept
  <2> HIDE DEF b
  <2>3. Onward(s, s') /\ s'.alive = s.alive
    BY <1>3, <1>5, <2>1, <2>2
  <2> QED
    BY <1>4, <2>1, <2>3
<1>9. CASE RecvWait \/ SendWait
  <2>1. s' = s /\ queue' = queue /\ app # "none" /\ app' # "notify"
    BY <1>9 DEF RecvWait, SendWait, InApi
  <2> QED
    BY <1>1, <1>4, <2>1
<1>10. CASE RecvCopy
  <2>1. /\ app # "none" /\ app' # "notify"
        /\ \/ s' = Touch(s)
           \/ s.alive /\ \E n \in 1..s.merged : s' = CopyToUser(s, n)
        /\ queue' = queue \/ queue' = [queue EXCEPT !.ackq = @ + 1]
    BY <1>10 DEF RecvCopy, InApi
  <2>2. queue'.sendq = queue.sendq /\ queue'.acceptq = queue.acceptq
    BY <1>1, <2>1 DEF RestOK
  <2>3. ASSUME s.alive, NEW n \in 1..s.merged, s' = CopyToUser(s, n)
        PROVE  Onward(s, s') /\ s'.alive = s.alive
    <3> DEFINE r == RBRemove(s, n)
               wnd == RcvSize - r.merged
               adv == r.needAdv /\ wnd > 1 /\ "ackq" \notin r.onq
    <3>1. /\ r.state = s.state /\ r.fss = s.fss /\ r.buf = s.buf /\ r.finSent = s.finSent
          /\ r.alive = s.alive /\ r.waiting = s.waiting /\ r.lists = s.lists
          /\ r.head = s.head /\ r.len = s.len /\ r.sent = s.sent /\ r.timers = s.timers
          /\ r.err = s.err /\ DOMAIN r = DOMAIN s
      BY <1>1 DEF RBRemove, StreamType
    <3>2. \E w, x, y : s' = [r EXCEPT !.rcvWnd = w, !.needAdv = x, !.onq = y]
      BY <2>3 DEF CopyToUser
    <3> HIDE DEF r
    <3>3. /\ s'.state = s.state /\ s'.fss = s.fss /\ s'.buf = s.buf /\ s'.finSent = s.finSent
          /\ s'.alive = s.alive /\ s'.waiting = s.waiting /\ s'.lists = s.lists
          /\ s'.head = s.head /\ s'.len = s.len /\ s'.sent = s.sent /\ s'.timers = s.timers
          /\ s'.err = s.err
      BY <1>1, <3>1, <3>2 DEF StreamType
    <3>4. Kept(s, s')
      BY <3>3 DEF Kept
    <3> QED
      BY <1>1, <2>3, <3>3, <3>4
  <2>4. Onward(s, s') /\ s'.alive = s.alive
    BY <1>3, <1>5, <2>1, <2>3
  <2> QED
    BY <1>4, <2>1, <2>2, <2>4
<1>11. CASE SendCopy
  <2>1. /\ app = "send" /\ queue' = queue
        /\ \/ /\ s.alive
              /\ \E n \in 1..MinOf(SendSize - s.len, AppBytes + 1 - s.head - s.len) :
                    s' = [s EXCEPT !.buf = TRUE, !.len = @ + n]
           \/ s' = Touch(s) /\ app' = "idle"
    BY <1>11 DEF SendCopy, InApi
  <2>2. CASE s' = Touch(s) /\ app' = "idle"
    <3>1. Onward(s, s') /\ s'.alive = s.alive
      BY <1>3, <1>5, <2>2
    <3> QED
      BY <1>4, <2>1, <2>2, <3>1
  <2>3. ASSUME s.alive, NEW n, s' = [s EXCEPT !.buf = TRUE, !.len = @ + n]
        PROVE  WriteInv'
    <3>1. s.state \notin AfterClose \cup {"LISTEN", "SYN_RCVD"}
      BY <1>1, <2>1 DEF CloseInv, CallInv
    <3> DEFINE len == s.len + n
    <3>2. s' = [s EXCEPT !.buf = TRUE, !.len = len]
      BY <2>3
    <3> HIDE DEF len
    <3>3. /\ s'.state = s.state /\ s'.buf /\ s'.alive /\ s'.lists = s.lists
          /\ s'.timers = s.timers /\ s'.err = s.err
      BY <1>1, <2>3, <3>2 DEF StreamType
    <3>4. Whole(s')
      BY <1>1, <3>1, <3>3 DEF Whole, BufferInv, FinInv, AfterClose
    <3>5. Onward(s, s')
      BY <3>3, <3>4 DEF Onward
    <3> QED
      BY <1>4, <2>1, <2>3, <3>3, <3>5
  <2> QED
    BY <2>1, <2>2, <2>3
<1>12. CASE SendNotify
  <2> DEFINE b == [s EXCEPT !.onq = @ \cup {"sendq"}]
  <2>1. /\ app = "notify" /\ app' = "idle"
        /\ \/ s' = s /\ queue' = queue
           \/ s' = Touch(b) /\ queue' = [queue EXCEPT !.sendq = @ + 1]
    BY <1>12 DEF SendNotify, InApi
  <2>2. queue'.acceptq = queue.acceptq
    BY <1>1, <2>1 DEF RestOK
  <2>3. Kept(s, b)
    BY <1>1, MarkKept
  <2> HIDE DEF b
  <2>4. Onward(s, s') /\ s'.alive = s.alive
    BY <1>1, <1>3, <2>1, <2>3
  <2> QED
    BY <1>4, <2>1, <2>2, <2>4
<1>13. CASE CloseMark \/ CloseEnqueue
  <2> DEFINE m == [s EXCEPT !.closed = TRUE, !.sock = FALSE]
             e == [s EXCEPT !.onq = @ \cup {"closeq"}]
  <2>1. /\ app # "none" /\ app' # "notify"
        /\ s' = Touch(m) \/ s' = Touch(e)
        /\ \/ queue' = queue \/ queue' = [queue EXCEPT !.destroyq = @ + 1]
           \/ queue' = [queue EXCEPT !.closeq = @ + 1]
    BY <1>13 DEF CloseMark, CloseEnqueue, InApi
  <2>2. queue'.acceptq = queue.acceptq /\ queue'.sendq = queue.sendq
    BY <1>1, <2>1 DEF RestOK
  <2>3. Kept(s, m) /\ Kept(s, e)
    BY <1>1, MarkKept
  <2> HIDE DEF m, e
  <2>4. Onward(s, s') /\ s'.alive = s.alive
    BY <1>3, <2>1, <2>3
  <2> QED
    BY <1>4, <2>1, <2>2, <2>4
<1> QED
  BY <1>7, <1>8, <1>9, <1>10, <1>11, <1>12, <1>13 DEF App

\* Nothing is sent, closed or called at the start.
LEMMA WriteInit == Init => WriteInv
<1> SUFFICES ASSUME Init PROVE WriteInv
  OBVIOUS
<1>1. s = Blank /\ queue.sendq = 0 /\ queue.acceptq = 0 /\ app = "none" /\ stack = "start"
  BY DEF Init
<1>2. BufferInv(s) /\ FinInv(s) /\ NoAssertFails
  BY <1>1 DEF Blank, BufferInv, FinInv, AfterClose, NoAssertFails
<1>3. CallInv
  BY <1>1 DEF CallInv
<1> QED
  BY <1>2, <1>3 DEF WriteInv

\* Every step keeps the sending half whole.
LEMMA WriteNext ==
    ASSUME ~DupAcks, IInv, ReadInv, WriteInv, [Next]_vars PROVE WriteInv'
<1>1. CASE App
  BY <1>1, CallWrite
<1>2. CASE Stack
  <2>1. CASE \E g \in Arriving, old \in {FALSE, Timestamps}, dup3 \in {FALSE, DupAcks},
                full \in BOOLEAN : Receive(g, old, dup3, full)
    BY <2>1, ReceiveWrite
  <2> QED
    BY <1>2, <2>1, PassiveOpenWrite, TimersWrite, QueuesWrite, ListsWrite DEF Stack, Pause
<1>3. CASE UNCHANGED vars
  BY <1>3 DEF vars, WriteInv, BufferInv, FinInv, CallInv, NoAssertFails
<1> QED
  BY <1>1, <1>2, <1>3 DEF Next

\* The sending half of every reachable state, when no stale duplicate ACK is counted:
\* the buffer, the lists and the timer agree with the state of the stream.
THEOREM WriteInvariant ==
    ASSUME DupAcks = FALSE PROVE Spec => []WriteInv
<1>1. Init => WriteInv
  BY WriteInit
<1>2. IInv /\ ReadInv /\ WriteInv /\ [Next]_vars => WriteInv'
  BY WriteNext
<1> QED
  BY <1>1, <1>2, ReceiveInvariant, PTL DEF Spec

\* No assert(0) of the stack fails and it never exits, when no stale duplicate ACK is
\* counted: what HandleRTO, addto_sendlist, AddtoTimeoutList, flush_sendbuffer and
\* handle_syn_rcvd take for granted is so.
THEOREM AssertsHold ==
    ASSUME DupAcks = FALSE PROVE Spec => []NoAssertFails
<1>1. WriteInv => NoAssertFails
  BY DEF WriteInv
<1> QED
  BY <1>1, WriteInvariant, PTL

\* The FIN of a stream whose close was handled is sent or still to come: the control
\* list has the stream, or one of the lists control_list_waiting waits for.
THEOREM FinStaysDue ==
    ASSUME DupAcks = FALSE PROVE Spec => []FinNotForgotten
<1>1. WriteInv => FinNotForgotten
  BY DEF WriteInv, FinInv, FinNotForgotten
<1> QED
  BY <1>1, WriteInvariant, PTL

\* In FIN_WAIT_2 the peer has every byte that send() accepted.
THEOREM FinAckCoversData ==
    ASSUME DupAcks = FALSE PROVE Spec => []FinAckedMeansAllAcked
<1>1. TypeOK /\ WriteInv => FinAckedMeansAllAcked
  <2> SUFFICES ASSUME TypeOK, WriteInv, s.state = "FIN_WAIT_2"
               PROVE  1..(s.head + s.len - 1) \subseteq s.sent /\ s.fss = s.head + s.len
    BY DEF FinAckedMeansAllAcked
  <2>1. s.fss = s.head + s.len /\ 1..(s.fss - 1) \subseteq s.sent
    BY DEF WriteInv, FinInv, AfterClose
  <2>2. s.head \in Nat /\ s.len \in Nat /\ s.fss \in Nat
    BY DEF TypeOK, StreamType, SeqNo
  <2>3. \A k \in 1..(s.head + s.len - 1) : k \in 1..(s.fss - 1)
    BY <2>1, <2>2
  <2> QED
    BY <2>1, <2>3
<1> QED
  BY <1>1, TypeCorrect, WriteInvariant, PTL
=============================================================================
