-------------------------- MODULE TcpStreamProofs --------------------------
(* What holds of a connection for any number of bytes in either direction, any
   buffer and window sizes and every order of segments, timers and API calls.

   The invariant is a predicate Ok on streams, and CloseInv.  For every operator
   of TcpStream a lemma says that it takes good streams to good streams; the
   step of an action then composes these lemmas. *)
EXTENDS TcpStream, FiniteSetTheorems, TLAPS

USE SizesAssumption

Ok(t) == t \in StreamType /\ StreamInv(t)

\* r is t later in the same handler.
Same(t, r) == r.state = t.state /\ r.finSent = t.finSent /\ r.alive = t.alive
Closing(t) == t.finSent \/ t.state \in AfterClose
Later(t, r) == Closing(r) => Closing(t)

\* Ok, but for the timer, in the middle of a handler that will see to it.
Untimed(t) ==
    /\ t \in StreamType /\ SendInv(t) /\ RecvInv(t) /\ TimerInv(t)
    /\ ~DupAcks /\ t.alive /\ t.state \in Transmitting => t.una = t.head /\ t.head <= t.nxt

\* the states in which a stream may be on the timewait list
Ended == {"TIME_WAIT", "CLOSED"}

\* A failed assert or a bad access changes nothing but err.
LEMMA FailOk ==
    ASSUME NEW t, Ok(t), NEW why \in {"assert", "exit", "use_after_free", "self_deadlock",
             "null_socket", "overread"}
    PROVE  Ok(Fail(t, why)) /\ Same(t, Fail(t, why))
BY DEF Ok, StreamType, StreamInv, SendInv, RecvInv, TimerInv, FlightInv, Fail, Same

\* The control list is not something the invariant speaks of.
LEMMA AddToControlOk ==
    ASSUME NEW t, Ok(t)
    PROVE  Ok(AddToControl(t)) /\ Same(t, AddToControl(t))
BY DEF Ok, StreamType, StreamInv, SendInv, RecvInv, TimerInv, FlightInv, AddToControl, Same

\* Nor is the send list; without a buffer the assert fails.
LEMMA AddToSendOk ==
    ASSUME NEW t, Ok(t)
    PROVE  Ok(AddToSend(t)) /\ Same(t, AddToSend(t))
BY FailOk
DEF Ok, StreamType, StreamInv, SendInv, RecvInv, TimerInv, FlightInv, AddToSend, Same

\* With the timer on, whatever is in flight is timed.
LEMMA AddToRTOOk ==
    ASSUME NEW t, Untimed(t), t.state \notin Ended
    PROVE  Ok(AddToRTO(t)) /\ Same(t, AddToRTO(t))
<1> DEFINE r == AddToRTO(t)
<1>1. r \in StreamType
  BY DEF AddToRTO, StreamType, Untimed
<1>2. /\ r.alive = t.alive /\ r.state = t.state /\ r.una = t.una /\ r.nxt = t.nxt
      /\ r.finSent = t.finSent /\ r.buf = t.buf /\ r.head = t.head /\ r.len = t.len
      /\ r.rhead = t.rhead /\ r.merged = t.merged /\ r.frags = t.frags /\ r.rcvNxt = t.rcvNxt
      /\ r.timers = t.timers \cup {"rto"}
  BY DEF AddToRTO, StreamType, Untimed
<1> HIDE DEF r
<1>3. SendInv(r) /\ RecvInv(r) /\ Same(t, r)
  BY <1>2 DEF SendInv, RecvInv, Same, Untimed
<1>4. TimerInv(r) /\ (~DupAcks => FlightInv(r))
  BY <1>2 DEF TimerInv, FlightInv, Ended, Untimed
<1> QED
  BY <1>1, <1>3, <1>4 DEF Ok, StreamInv, r

\* The timer may go when nothing is in flight, or the state does not retransmit.
LEMMA RemoveFromRTOOk ==
    ASSUME NEW t, Untimed(t), t.nxt <= t.una \/ t.state \notin Retransmits
    PROVE  Ok(RemoveFromRTO(t)) /\ Same(t, RemoveFromRTO(t))
<1> DEFINE r == RemoveFromRTO(t)
<1>1. r \in StreamType
  BY DEF RemoveFromRTO, StreamType, Untimed
<1>2. /\ r.alive = t.alive /\ r.state = t.state /\ r.una = t.una /\ r.nxt = t.nxt
      /\ r.finSent = t.finSent /\ r.buf = t.buf /\ r.head = t.head /\ r.len = t.len
      /\ r.rhead = t.rhead /\ r.merged = t.merged /\ r.frags = t.frags /\ r.rcvNxt = t.rcvNxt
      /\ r.timers = t.timers \ {"rto"}
  BY DEF RemoveFromRTO, StreamType, Untimed
<1>3. t.nxt \in Nat /\ t.una \in Nat
  BY DEF Untimed, StreamType, SeqNo, NxtCap
<1> HIDE DEF r
<1>4. SendInv(r) /\ RecvInv(r) /\ Same(t, r)
  BY <1>2 DEF SendInv, RecvInv, Same, Untimed
<1>5. TimerInv(r) /\ (~DupAcks => FlightInv(r))
  BY <1>2, <1>3 DEF TimerInv, FlightInv, Untimed
<1> QED
  BY <1>1, <1>4, <1>5 DEF Ok, StreamInv, r

\* A stream between two handlers is good in the middle of one.
LEMMA OkUntimed == ASSUME NEW t, Ok(t) PROVE Untimed(t)
BY DEF Ok, StreamInv, FlightInv, Untimed

\* UpdateRetransmissionTimer times what is in flight and nothing else.
LEMMA UpdateTimerOk ==
    ASSUME NEW t, Untimed(t), t.state \notin Ended
    PROVE  /\ Ok(UpdateRetransmissionTimer(t))
           /\ Same(t, UpdateRetransmissionTimer(t))
<1>1. t.nxt \in Nat /\ t.una \in Nat
  BY DEF Untimed, StreamType, SeqNo, NxtCap
<1>2. CASE t.nxt > t.una
  BY <1>2, AddToRTOOk DEF UpdateRetransmissionTimer
<1>3. CASE ~(t.nxt > t.una)
  <2>1. t.nxt <= t.una
    BY <1>1, <1>3
  <2> QED
    BY <1>3, <2>1, RemoveFromRTOOk DEF UpdateRetransmissionTimer
<1> QED
  BY <1>2, <1>3

\* The timewait list takes the stream off the RTO store, whose link it uses.
LEMMA AddToTimewaitOk ==
    ASSUME NEW t, Ok(t), t.state \in Ended
    PROVE  Ok(AddToTimewait(t)) /\ Same(t, AddToTimewait(t))
BY DEF Ok, StreamType, StreamInv, SendInv, RecvInv, TimerInv, FlightInv, AddToTimewait, Same,
       Ended, Retransmits

\* The timeout list has a link of its own.
LEMMA AddToTimeoutOk ==
    ASSUME NEW t, Ok(t)
    PROVE  Ok(AddToTimeout(t)) /\ Same(t, AddToTimeout(t))
BY FailOk
DEF Ok, StreamType, StreamInv, SendInv, RecvInv, TimerInv, FlightInv, AddToTimeout, Same

(* A handler that leaves alone the fields StreamInv speaks of. *)
LEMMA UntouchedOk ==
    ASSUME NEW t, Ok(t), NEW r \in StreamType,
           Same(t, r), r.una = t.una, r.nxt = t.nxt, r.buf = t.buf, r.head = t.head,
           r.len = t.len, r.rhead = t.rhead, r.merged = t.merged, r.frags = t.frags,
           r.rcvNxt = t.rcvNxt, r.timers = t.timers
    PROVE  Ok(r)
BY DEF Ok, StreamInv, SendInv, RecvInv, TimerInv, FlightInv, Same

\* ack_cnt stays within its field, whichever way an ACK is asked for.
LEMMA EnqueueAckListOk ==
    ASSUME NEW t, Ok(t), NEW opt \in {"NOW", "AGGREGATE", "WACK"}
    PROVE  Ok(EnqueueAckList(t, opt)) /\ Same(t, EnqueueAckList(t, opt))
<1> DEFINE n == CASE opt = "NOW" -> (t.ackCnt + 1) % AckMod
                  [] opt = "AGGREGATE" -> IF t.ackCnt = 0 THEN 1 ELSE t.ackCnt
                  [] opt = "WACK" -> t.ackCnt
           w == t.wack \/ opt = "WACK"
           l == t.lists \cup {"ack"}
<1>1. t \in StreamType
  BY DEF Ok
<1>2. n \in 0..(AckMod - 1)
  <2>1. t.ackCnt \in 0..(AckMod - 1)
    BY <1>1 DEF StreamType
  <2>2. (t.ackCnt + 1) % AckMod \in 0..(AckMod - 1)
    BY <2>1
  <2> QED
    BY <2>1, <2>2
<1>3. w \in BOOLEAN /\ l \in SUBSET {"control", "send", "ack"}
  BY <1>1 DEF StreamType
<1>4. EnqueueAckList(t, opt) = [t EXCEPT !.lists = l, !.wack = w, !.ackCnt = n]
  BY DEF EnqueueAckList
<1> HIDE DEF n, w, l
<1> DEFINE r == [t EXCEPT !.lists = l, !.wack = w, !.ackCnt = n]
<1>5. r \in StreamType
  BY <1>1, <1>2, <1>3 DEF StreamType
<1>6. /\ Same(t, r) /\ r.una = t.una /\ r.nxt = t.nxt /\ r.buf = t.buf /\ r.head = t.head
      /\ r.len = t.len /\ r.rhead = t.rhead /\ r.merged = t.merged /\ r.frags = t.frags
      /\ r.rcvNxt = t.rcvNxt /\ r.timers = t.timers
  BY <1>1 DEF StreamType, Same
<1> QED
  BY <1>4, <1>5, <1>6, UntouchedOk

\* Destroying a stream, closed first or not, stops its timers.
LEMMA DestroyOk ==
    ASSUME NEW t, Untimed(t)
    PROVE  /\ Ok(DestroyTcpStream(t)) /\ Later(t, DestroyTcpStream(t))
           /\ Ok(CloseAndDestroy(t)) /\ Later(t, CloseAndDestroy(t))
<1>1. ASSUME NEW u, Untimed(u) PROVE Ok(DestroyTcpStream(u)) /\ Later(u, DestroyTcpStream(u))
  <2> DEFINE r == DestroyTcpStream(u)
  <2>1. u \in StreamType
    BY <1>1 DEF Untimed
  <2>2. r \in StreamType
    BY <2>1 DEF StreamType, DestroyTcpStream
  <2>3. /\ ~r.alive /\ r.state = u.state /\ r.una = u.una /\ r.nxt = u.nxt
        /\ r.finSent = u.finSent /\ r.buf = u.buf /\ r.head = u.head /\ r.len = u.len
        /\ r.timers = {} /\ r.rhead = u.rhead /\ r.merged = u.merged /\ r.frags = u.frags
        /\ r.rcvNxt = u.rcvNxt
    BY <2>1 DEF StreamType, DestroyTcpStream
  <2> HIDE DEF r
  <2>4. SendInv(r) /\ RecvInv(r)
    BY <1>1, <2>3 DEF Untimed, SendInv, RecvInv
  <2>5. TimerInv(r) /\ FlightInv(r) /\ Later(u, r)
    BY <2>3 DEF TimerInv, FlightInv, Later, Closing
  <2>6. Ok(r) /\ Later(u, r)
    BY <2>2, <2>4, <2>5 DEF Ok, StreamInv
  <2> QED
    BY <2>6 DEF r
<1> DEFINE c == [t EXCEPT !.state = "CLOSED"]
<1>2. Untimed(c) /\ Later(t, c)
  <2>1. t \in StreamType /\ "CLOSED" \in States
    BY DEF Untimed, States
  <2>2. c \in StreamType
    BY <2>1 DEF StreamType
  <2>3. /\ c.alive = t.alive /\ c.state = "CLOSED" /\ c.una = t.una /\ c.nxt = t.nxt
        /\ c.finSent = t.finSent /\ c.buf = t.buf /\ c.head = t.head /\ c.len = t.len
        /\ c.timers = t.timers /\ c.rhead = t.rhead /\ c.merged = t.merged
        /\ c.frags = t.frags /\ c.rcvNxt = t.rcvNxt
    BY <2>1 DEF StreamType
  <2> HIDE DEF c
  <2>4. SendInv(c) /\ RecvInv(c) /\ TimerInv(c) /\ c.state \notin Transmitting
    BY <2>3 DEF Untimed, SendInv, RecvInv, TimerInv, Transmitting
  <2> QED
    BY <2>2, <2>3, <2>4 DEF Untimed, Later, Closing, AfterClose
<1>3. CloseAndDestroy(t) = DestroyTcpStream(c)
  BY DEF CloseAndDestroy
<1> HIDE DEF c
<1>4. Ok(DestroyTcpStream(c)) /\ Later(c, DestroyTcpStream(c))
  BY <1>1, <1>2
<1>5. Ok(DestroyTcpStream(t)) /\ Later(t, DestroyTcpStream(t))
  BY <1>1
<1> QED
  BY <1>2, <1>3, <1>4, <1>5 DEF Later

(* Sending: Emit, then snd_nxt moves on and the timer is on.  Sent says what a
   packet of data, a SYN or a FIN leaves alone. *)
Sent(t, e) ==
    /\ e.alive = t.alive /\ e.state = t.state /\ e.una = t.una /\ e.buf = t.buf
    /\ e.head = t.head /\ e.len = t.len /\ e.timers = t.timers
    /\ e.rhead = t.rhead /\ e.merged = t.merged /\ e.frags = t.frags
    /\ e.rcvNxt = t.rcvNxt
    /\ t.finSent => e.finSent

\* A packet on its way changes at most need_wnd_adv.
LEMMA EmitFields ==
    ASSUME NEW t \in StreamType
    PROVE  /\ Emit(t) \in StreamType /\ Sent(t, Emit(t))
           /\ Emit(t).nxt = t.nxt /\ Emit(t).sent = t.sent /\ Emit(t).finSent = t.finSent
BY DEF Emit, StreamType, Sent

\* Emit preserves the invariant.
LEMMA EmitOk ==
    ASSUME NEW t, Ok(t)
    PROVE  Ok(Emit(t)) /\ Same(t, Emit(t))
<1>1. t \in StreamType
  BY DEF Ok
<1>2. Emit(t) \in StreamType /\ Sent(t, Emit(t)) /\ Emit(t).nxt = t.nxt
      /\ Emit(t).finSent = t.finSent
  BY <1>1, EmitFields
<1> QED
  BY <1>2, UntouchedOk DEF Sent, Same

\* A stream that has sent and put itself on the RTO store is good again.
LEMMA SentOk ==
    ASSUME NEW t, Ok(t), t.state \notin Ended \cup {"LISTEN"},
           NEW e \in StreamType, Sent(t, e),
           ~t.buf /\ ~e.finSent => e.nxt <= 1,
           ~DupAcks /\ t.alive /\ t.state \in Transmitting => e.nxt >= t.head
    PROVE  /\ Ok(AddToRTO(e)) /\ AddToRTO(e).state = t.state
           /\ AddToRTO(e).alive = t.alive /\ AddToRTO(e).finSent = e.finSent
<1>1. SendInv(e)
  BY DEF Ok, StreamInv, SendInv, Sent
<1>2. RecvInv(e) /\ TimerInv(e) /\ e.state \notin Ended
  BY DEF Ok, StreamInv, RecvInv, TimerInv, Sent
<1>3. ~DupAcks => (e.alive /\ e.state \in Transmitting => e.una = e.head /\ e.head <= e.nxt)
  BY DEF Ok, StreamInv, FlightInv, Sent
<1>4. Ok(AddToRTO(e)) /\ Same(e, AddToRTO(e))
  <2>1. Untimed(e)
    BY <1>1, <1>2, <1>3 DEF Untimed
  <2> QED
    BY <1>2, <2>1, AddToRTOOk
<1> QED
  BY <1>4 DEF Same, Sent

\* The SYN/ACK leaves snd_nxt at 1.
LEMMA SendSynAckOk ==
    ASSUME NEW t, Ok(t), t.state = "SYN_RCVD"
    PROVE  Ok(SendSynAck(t)) /\ Same(t, SendSynAck(t))
<1> DEFINE d == Emit(t)
           e == [d EXCEPT !.sent = @ \cup {0}, !.nxt = 1]
<1>1. t \in StreamType
  BY DEF Ok
<1>2. d \in StreamType /\ Sent(t, d) /\ d.finSent = t.finSent
  BY <1>1, EmitFields
<1>3. 0 \in SeqNo /\ 1 \in 0..NxtCap
  BY DEF SeqNo, NxtCap
<1>4. SendSynAck(t) = AddToRTO(e)
  BY DEF SendSynAck
<1> HIDE DEF d
<1>5. e \in StreamType
  BY <1>2, <1>3 DEF StreamType
<1>6. Sent(d, e) /\ e.nxt = 1 /\ e.finSent = d.finSent
  BY <1>2 DEF StreamType, Sent
<1> HIDE DEF e
<1>7. Sent(t, e)
  BY <1>2, <1>6 DEF Sent
<1>8. t.state \notin Ended \cup {"LISTEN"} /\ t.state \notin Transmitting
  BY DEF Ended, Transmitting
<1>9. /\ Ok(AddToRTO(e)) /\ AddToRTO(e).state = t.state
      /\ AddToRTO(e).alive = t.alive /\ AddToRTO(e).finSent = e.finSent
  BY <1>5, <1>6, <1>7, <1>8, SentOk
<1> QED
  BY <1>2, <1>4, <1>6, <1>9 DEF Same

\* The FIN moves snd_nxt on, up to the cap, and is timed.
LEMMA SendFinOk ==
    ASSUME NEW t, Ok(t), t.state \in {"FIN_WAIT_1", "CLOSING", "LAST_ACK"}
    PROVE  Ok(SendFin(t)) /\ SendFin(t).state = t.state
<1> DEFINE d == Emit(t)
           all == d.sent \cup {t.fss}
           nxt == MinOf(d.nxt + 1, NxtCap)
           e == [d EXCEPT !.sent = all, !.nxt = nxt, !.finSent = TRUE]
<1>1. t \in StreamType /\ t.fss \in SeqNo /\ t.nxt \in 0..NxtCap /\ t.head \in SeqNo
  BY DEF Ok, StreamType
<1>2. d \in StreamType /\ Sent(t, d) /\ d.nxt = t.nxt
  BY <1>1, EmitFields
<1>3. SendFin(t) = AddToRTO(e)
  BY DEF SendFin
<1> HIDE DEF d
<1>4. nxt \in 0..NxtCap /\ (d.nxt >= t.head => nxt >= t.head)
  <2>1. ASSUME NEW n \in 0..NxtCap, NEW h \in SeqNo
        PROVE  MinOf(n + 1, NxtCap) \in 0..NxtCap /\ (n >= h => MinOf(n + 1, NxtCap) >= h)
    BY DEF MinOf, NxtCap, SeqNo
  <2>2. d.nxt \in 0..NxtCap /\ t.head \in SeqNo
    BY <1>1, <1>2
  <2> QED
    BY <2>1, <2>2
<1>5. all \in SUBSET SeqNo
  BY <1>1, <1>2 DEF StreamType
<1> HIDE DEF all, nxt
<1>6. e \in StreamType
  BY <1>2, <1>4, <1>5 DEF StreamType
<1>7. Sent(d, e) /\ e.nxt = nxt /\ e.finSent
  BY <1>2 DEF StreamType, Sent
<1> HIDE DEF e
<1>8. Sent(t, e)
  BY <1>2, <1>7 DEF Sent
<1>9. t.state \notin Ended \cup {"LISTEN"} /\ t.state \in Transmitting
  BY DEF Ended, Transmitting
<1>10. ~DupAcks /\ t.alive => e.nxt >= t.head
  <2>1. ~DupAcks /\ t.alive => t.head <= t.nxt
    BY <1>9 DEF Ok, StreamInv, FlightInv
  <2> QED
    BY <1>1, <1>2, <1>4, <1>7, <2>1 DEF SeqNo, NxtCap
<1>11. Ok(AddToRTO(e)) /\ AddToRTO(e).state = t.state
  BY <1>6, <1>7, <1>8, <1>9, <1>10, SentOk
<1> QED
  BY <1>3, <1>11

\* Data sent from within the buffer leaves snd_nxt within it.
LEMMA SendDataOk ==
    ASSUME NEW t, Ok(t), t.state \in Transmitting, NEW n \in Nat, t.buf,
           t.nxt + n <= t.head + t.len
    PROVE  Ok(SendData(t, n)) /\ Same(t, SendData(t, n))
<1> DEFINE d == Emit(t)
           e == [d EXCEPT !.sent = @ \cup t.nxt..(t.nxt + n - 1), !.nxt = @ + n]
<1>1. /\ t \in StreamType /\ t.nxt \in 0..NxtCap /\ t.head \in SeqNo
      /\ t.len \in 0..SendSize
  BY DEF Ok, StreamType
<1>2. d \in StreamType /\ Sent(t, d) /\ d.nxt = t.nxt /\ d.finSent = t.finSent
  BY <1>1, EmitFields
<1>3. SendData(t, n) = AddToRTO(e)
  BY DEF SendData
<1> HIDE DEF d
<1>4. SendInv(t)
  BY DEF Ok, StreamInv
<1>5. t.nxt + n \in 0..NxtCap /\ t.nxt..(t.nxt + n - 1) \subseteq SeqNo
  BY <1>1, <1>4 DEF SeqNo, NxtCap, SendInv
<1>6. e \in StreamType
  BY <1>2, <1>5 DEF StreamType
<1>7. Sent(d, e) /\ e.nxt = t.nxt + n /\ e.finSent = d.finSent
  BY <1>2 DEF StreamType, Sent
<1> HIDE DEF e
<1>8. Sent(t, e)
  BY <1>2, <1>7 DEF Sent
<1>9. t.state \notin Ended \cup {"LISTEN"}
  BY DEF Ended, Transmitting
<1>10. ~DupAcks /\ t.alive => e.nxt >= t.head
  BY <1>1, <1>7 DEF SeqNo, NxtCap, Ok, StreamInv, FlightInv
<1>11. /\ Ok(AddToRTO(e)) /\ AddToRTO(e).state = t.state
       /\ AddToRTO(e).alive = t.alive /\ AddToRTO(e).finSent = e.finSent
  BY <1>6, <1>8, <1>9, <1>10, SentOk
<1> QED
  BY <1>2, <1>3, <1>7, <1>11 DEF Same

-----------------------------------------------------------------------------
(* Flushing the send buffer. *)

\* A set of integers between two bounds has at most as many members.
LEMMA CardinalityBound ==
    ASSUME NEW lo \in Int, NEW hi \in Int, NEW S, S \subseteq lo..hi
    PROVE  /\ Cardinality(S) \in Nat
           /\ lo > hi => Cardinality(S) = 0
           /\ lo <= hi => Cardinality(S) <= hi - lo + 1
<1>1. /\ IsFiniteSet(lo..hi)
      /\ Cardinality(lo..hi) = IF lo > hi THEN 0 ELSE hi - lo + 1
  BY FS_Interval
<1>2. IsFiniteSet(S) /\ Cardinality(S) <= Cardinality(lo..hi)
  BY <1>1, FS_Subset
<1>3. Cardinality(S) \in Nat
  BY <1>2, FS_CardinalityType
<1> QED
  BY <1>1, <1>2, <1>3

\* What the loop sends is in the buffer.
LEMMA SendableBound ==
    ASSUME NEW t \in StreamType, NEW w \in Nat
    PROVE  /\ Sendable(t, w) \in Nat
           /\ Sendable(t, w) > 0 => t.nxt + Sendable(t, w) <= t.head + t.len
<1> DEFINE room == t.head + t.len - t.nxt
           most == MinOf(room, w)
           S == {k \in 1..most : \A i \in 1..k : t.nxt - t.una + i <= w - (i - 1)}
<1>1. Sendable(t, w) = Cardinality(S)
  BY DEF Sendable
<1>2. t.nxt \in Nat /\ t.head \in Nat /\ t.len \in Nat
  BY DEF StreamType, SeqNo, NxtCap
<1>3. most \in Int /\ most <= room
  <2>1. \A m \in Int : MinOf(m, w) \in Int /\ MinOf(m, w) <= m
    BY DEF MinOf
  <2>2. room \in Int
    BY <1>2
  <2> QED
    BY <2>1, <2>2
<1> HIDE DEF most
<1>4. S \subseteq 1..most
  OBVIOUS
<1> HIDE DEF S
<1>5. /\ Cardinality(S) \in Nat
      /\ 1 > most => Cardinality(S) = 0
      /\ 1 <= most => Cardinality(S) <= most - 1 + 1
  <2>1. 1 \in Int
    OBVIOUS
  <2> QED
    BY <1>3, <1>4, <2>1, CardinalityBound, Zenon
<1> QED
  BY <1>1, <1>2, <1>3, <1>5

\* Every outcome of flush_sendbuffer preserves the invariant.
LEMMA FlushSendBufferOk ==
    ASSUME NEW t, Ok(t), t.state \in Transmitting, NEW w \in Nat, NEW wack \in BOOLEAN
    PROVE  LET r == FlushSendBuffer(t, w, wack) IN
           Ok(r[1]) /\ Same(t, r[1]) /\ r[2] \in Int
<1> DEFINE k == Sendable(t, w)
           d == IF k > 0 THEN SendData(t, k) ELSE t
           e == IF wack /\ d.nxt - d.una + 1 > d.peerWnd THEN EnqueueAckList(d, "WACK") ELSE d
           r == FlushSendBuffer(t, w, wack)
<1>1. t \in StreamType /\ Same(t, t)
  BY DEF Ok, Same
<1>2. k \in Nat /\ (k > 0 => t.nxt + k <= t.head + t.len)
  BY <1>1, SendableBound
<1>3. \/ r[1] = Fail(t, "assert") /\ r[2] = 0
      \/ r[1] = Fail(t, "overread") /\ r[2] = 0
      \/ r[1] = t /\ r[2] \in {0, -2}
      \/ t.buf /\ r[1] = e /\ r[2] = -3
      \/ t.buf /\ r[1] = d /\ r[2] = k
  BY DEF FlushSendBuffer
<1> HIDE DEF k, r
<1>4. ASSUME t.buf PROVE Ok(d) /\ Same(t, d)
  <2>1. CASE k > 0
    BY <1>2, <1>4, <2>1, SendDataOk
  <2>2. CASE ~(k > 0)
    BY <1>1, <2>2
  <2> QED
    BY <2>1, <2>2
<1> HIDE DEF d
<1>5. ASSUME t.buf PROVE Ok(e) /\ Same(t, e)
  <2>1. Ok(EnqueueAckList(d, "WACK")) /\ Same(d, EnqueueAckList(d, "WACK"))
    BY <1>4, <1>5, EnqueueAckListOk
  <2> QED
    BY <1>4, <1>5, <2>1 DEF Same
<1> HIDE DEF e
<1>6. Ok(Fail(t, "assert")) /\ Same(t, Fail(t, "assert"))
  BY FailOk
<1>7. Ok(Fail(t, "overread")) /\ Same(t, Fail(t, "overread"))
  BY FailOk
<1>8. Ok(r[1]) /\ Same(t, r[1]) /\ r[2] \in Int
  BY <1>1, <1>2, <1>3, <1>4, <1>5, <1>6, <1>7
<1> QED
  BY <1>8 DEF r

-----------------------------------------------------------------------------
(* Acknowledgments. *)

\* What Arriving says of every segment.
OkSeg(g) ==
    /\ g.syn \in BOOLEAN /\ g.rst \in BOOLEAN /\ g.ack \in BOOLEAN /\ g.fin \in BOOLEAN
    /\ g.seq \in Nat /\ g.len \in Nat /\ g.ackSeq \in 0..(AppBytes + 2) /\ g.wnd \in 0..MaxWnd
    /\ g.len > 0 => g.seq >= 1 /\ g.seq + g.len <= PeerBytes + 1
    /\ g.fin => g.seq + g.len = PeerBytes + 1
    /\ ~g.syn => g.ack /\ g.ackSeq >= 1

\* The acknowledgment, less the FIN if it covers one, is a number of ours.
LEMMA AckOfType ==
    ASSUME NEW t \in StreamType, NEW g, OkSeg(g)
    PROVE  AckOf(t, g) \in SeqNo
<1>1. t.fss \in SeqNo
  BY DEF StreamType
<1> QED
  BY <1>1 DEF AckOf, OkSeg, SeqNo

\* A third duplicate may put snd_nxt anywhere: DupAcks is TRUE then.
LEMMA FastRetransmitOk ==
    ASSUME NEW t, Ok(t), t.buf, t.state # "LISTEN", NEW a \in SeqNo, NEW g,
           NEW dup3 \in BOOLEAN, dup3 => DupAcks
    PROVE  LET r == FastRetransmit(t, a, g, dup3) IN
           Ok(r) /\ Same(t, r) /\ r.buf /\ r.head = t.head /\ r.len = t.len
<1> DEFINE e == [t EXCEPT !.nxt = a]
           r == FastRetransmit(t, a, g, dup3)
<1>1. t \in StreamType
  BY DEF Ok
<1>2. CASE r = t
  BY <1>2 DEF Same
<1>3. CASE DupAcks /\ r = AddToSend(e)
  <2>1. a \in 0..NxtCap
    BY DEF SeqNo, NxtCap
  <2>2. e \in StreamType
    BY <1>1, <2>1 DEF StreamType
  <2>3. /\ e.alive = t.alive /\ e.state = t.state /\ e.una = t.una /\ e.buf = t.buf
        /\ e.head = t.head /\ e.len = t.len /\ e.timers = t.timers
        /\ e.rhead = t.rhead /\ e.merged = t.merged /\ e.frags = t.frags
        /\ e.rcvNxt = t.rcvNxt /\ t.finSent = e.finSent
    BY <1>1 DEF StreamType
  <2> HIDE DEF e
  <2>4. Ok(e)
    BY <1>3, <2>2, <2>3 DEF Ok, StreamInv, SendInv, RecvInv, TimerInv
  <2>5. Ok(r) /\ Same(e, r)
    BY <1>3, <2>4, AddToSendOk
  <2>6. r.buf /\ r.head = t.head /\ r.len = t.len
    BY <1>3, <2>2, <2>3 DEF AddToSend, StreamType
  <2> QED
    BY <2>3, <2>5, <2>6 DEF Same
<1>4. r = t \/ (DupAcks /\ r = AddToSend(e))
  <2>1. CASE dup3 /\ a < t.nxt /\ g.len = 0
    <3>1. DupAcks
      BY <2>1
    <3>2. r = AddToSend(e)
      BY <2>1 DEF FastRetransmit
    <3> QED
      BY <3>1, <3>2
  <2>2. CASE ~(dup3 /\ a < t.nxt /\ g.len = 0)
    BY <2>2 DEF FastRetransmit
  <2> QED
    BY <2>1, <2>2
<1> QED
  BY <1>2, <1>3, <1>4

\* snd_nxt past the acknowledgment, and the timer of what is in flight known
LEMMA AdvanceNxtOk ==
    ASSUME NEW t, Ok(t), t.buf, t.state \in Transmitting \cup {"FIN_WAIT_2"}, NEW a \in SeqNo
    PROVE  LET r == AdvanceNxt(t, a) IN
           /\ Untimed(r) /\ Same(t, r) /\ r.buf /\ r.head = t.head /\ r.len = t.len
           /\ r.nxt >= a
           /\ Ok(r) \/ (r.nxt = a /\ r.head < a)
<1> DEFINE l == IF t.len = 0 THEN t.lists \ {"send"} ELSE t.lists
           e == [t EXCEPT !.nxt = a, !.lists = l]
           r == AdvanceNxt(t, a)
<1>1. /\ t \in StreamType /\ t.nxt \in Nat /\ a \in Nat /\ t.head \in Nat
      /\ l \in SUBSET {"control", "send", "ack"}
  BY DEF Ok, StreamType, SeqNo, NxtCap
<1>2. CASE a > t.nxt
  <2>1. r = e
    BY <1>2 DEF AdvanceNxt
  <2> HIDE DEF l
  <2>2. a \in 0..NxtCap
    BY DEF SeqNo, NxtCap
  <2>3. e \in StreamType
    BY <1>1, <2>2 DEF StreamType
  <2>4. /\ e.alive = t.alive /\ e.state = t.state /\ e.una = t.una /\ e.buf = t.buf
        /\ e.head = t.head /\ e.len = t.len /\ e.timers = t.timers /\ e.nxt = a
        /\ e.rhead = t.rhead /\ e.merged = t.merged /\ e.frags = t.frags
        /\ e.rcvNxt = t.rcvNxt /\ t.finSent = e.finSent
    BY <1>1 DEF StreamType
  <2>10. e.buf
    BY <1>1 DEF StreamType
  <2> HIDE DEF e
  <2>5. SendInv(e) /\ RecvInv(e) /\ TimerInv(e)
    BY <2>4 DEF Ok, StreamInv, SendInv, RecvInv, TimerInv, Transmitting
  <2>6. ~DupAcks /\ e.alive /\ e.state \in Transmitting => e.una = e.head /\ e.head <= e.nxt
    BY <1>1, <1>2, <2>4 DEF Ok, StreamInv, FlightInv
  <2>7. Untimed(e)
    BY <2>3, <2>5, <2>6 DEF Untimed
  <2>8. CASE ~DupAcks /\ e.alive /\ e.state \in Transmitting
    <3>1. e.head < a
      BY <1>1, <1>2, <2>4, <2>8 DEF Ok, StreamInv, FlightInv
    <3> QED
      BY <1>1, <2>1, <2>4, <2>7, <2>8, <2>10, <3>1 DEF Same
  <2>9. CASE ~(~DupAcks /\ e.alive /\ e.state \in Transmitting)
    <3>1. ~DupAcks => FlightInv(e)
      BY <2>4, <2>9 DEF FlightInv, Retransmits
    <3>2. Ok(e)
      BY <2>3, <2>5, <3>1 DEF Ok, StreamInv
    <3> QED
      BY <1>1, <2>1, <2>4, <2>7, <2>10, <3>2 DEF Same
  <2> QED
    BY <2>8, <2>9
<1>3. CASE ~(a > t.nxt)
  <2>1. r = t
    BY <1>3 DEF AdvanceNxt
  <2>2. Untimed(t)
    BY OkUntimed
  <2> QED
    BY <1>1, <1>3, <2>1, <2>2 DEF Same
<1> QED
  BY <1>2, <1>3

\* SBRemove and snd_una move together, and the timer follows.
LEMMA RemoveAckedOk ==
    ASSUME NEW t, Untimed(t), t.buf, t.state \in Transmitting \cup {"FIN_WAIT_2"},
           NEW a \in SeqNo, a <= t.head + t.len, a <= t.nxt,
           Ok(t) \/ (t.nxt = a /\ t.head < a)
    PROVE  Ok(RemoveAcked(t, a)) /\ Same(t, RemoveAcked(t, a))
<1> DEFINE n == t.len - (a - t.head)
           e == [t EXCEPT !.head = a, !.len = n, !.una = a]
<1>1. /\ t \in StreamType /\ t.nxt \in Nat /\ a \in Nat /\ t.head \in Nat
      /\ t.len \in 0..SendSize
  BY DEF Untimed, StreamType, SeqNo, NxtCap
<1>2. CASE t.head >= a
  BY <1>1, <1>2 DEF RemoveAcked, Same
<1>3. CASE ~(t.head >= a)
  <2>1. n \in 0..SendSize
    BY <1>1, <1>3
  <2>2. RemoveAcked(t, a) = IF t.len = SendSize THEN Fail(e, "self_deadlock")
                                               ELSE UpdateRetransmissionTimer(e)
    BY <1>3 DEF RemoveAcked
  <2>3. a >= 1 /\ a + n = t.head + t.len
    BY <1>1, <1>3
  <2> HIDE DEF n
  <2>4. e \in StreamType
    BY <1>1, <2>1 DEF StreamType
  <2>5. /\ e.alive = t.alive /\ e.state = t.state /\ e.una = a /\ e.buf = t.buf
        /\ e.head = a /\ e.len = n /\ e.timers = t.timers /\ e.nxt = t.nxt
        /\ e.rhead = t.rhead /\ e.merged = t.merged /\ e.frags = t.frags
        /\ e.rcvNxt = t.rcvNxt /\ t.finSent = e.finSent
    BY <1>1 DEF StreamType
  <2> HIDE DEF e
  <2>6. SendInv(e) /\ RecvInv(e) /\ TimerInv(e)
    BY <2>3, <2>5 DEF Untimed, SendInv, RecvInv, TimerInv, Transmitting
  <2>7. Untimed(e)
    BY <2>4, <2>5, <2>6 DEF Untimed
  <2>8. e.state \notin Ended
    BY <2>5 DEF Ended, Transmitting
  <2>9. Ok(UpdateRetransmissionTimer(e)) /\ Same(e, UpdateRetransmissionTimer(e))
    BY <2>7, <2>8, UpdateTimerOk
  <2>10. Ok(e)
    <3>1. ~DupAcks /\ e.alive /\ e.state \in Retransmits /\ e.nxt > e.una => "rto" \in e.timers
      BY <1>1, <1>3, <2>5 DEF Ok, StreamInv, FlightInv, Retransmits, Transmitting
    <3> QED
      BY <2>6, <2>7, <3>1 DEF Ok, Untimed, StreamInv, FlightInv
  <2>11. Ok(Fail(e, "self_deadlock")) /\ Same(e, Fail(e, "self_deadlock"))
    BY <2>10, FailOk
  <2>12. Same(t, e)
    BY <2>5 DEF Same
  <2> QED
    BY <2>2, <2>9, <2>11, <2>12 DEF Same
<1> QED
  BY <1>2, <1>3

\* process_ack preserves the invariant and keeps the state.
LEMMA ProcessAckOk ==
    ASSUME NEW t, Ok(t), t.state \in Transmitting \cup {"FIN_WAIT_2"}, NEW g, OkSeg(g),
           NEW dup3 \in BOOLEAN, dup3 => DupAcks
    PROVE  Ok(ProcessAck(t, g, dup3)) /\ Same(t, ProcessAck(t, g, dup3))
<1> DEFINE a == AckOf(t, g)
           f == FastRetransmit(t, a, g, dup3)
           n == AdvanceNxt(f, a)
<1>1. t \in StreamType
  BY DEF Ok
<1>2. a \in SeqNo
  BY <1>1, AckOfType
<1>3. ProcessAck(t, g, dup3) = IF ~t.buf \/ a > t.head + t.len THEN t ELSE RemoveAcked(n, a)
  BY DEF ProcessAck
<1> HIDE DEF a
<1>4. CASE ~t.buf \/ a > t.head + t.len
  BY <1>3, <1>4 DEF Same
<1>5. CASE ~(~t.buf \/ a > t.head + t.len)
  <2>1. Ok(f) /\ Same(t, f) /\ f.buf /\ f.head = t.head /\ f.len = t.len
    <3>1. t.state # "LISTEN"
      BY DEF Transmitting
    <3> QED
      BY <1>2, <1>5, <3>1, FastRetransmitOk
  <2> HIDE DEF f
  <2>2. /\ Untimed(n) /\ Same(f, n) /\ n.buf /\ n.head = f.head /\ n.len = f.len
        /\ n.nxt >= a /\ (Ok(n) \/ (n.nxt = a /\ n.head < a))
    <3>1. f.state \in Transmitting \cup {"FIN_WAIT_2"}
      BY <2>1 DEF Same
    <3> QED
      BY <1>2, <2>1, <3>1, AdvanceNxtOk
  <2> HIDE DEF n
  <2>3. /\ a <= n.head + n.len /\ a <= n.nxt
        /\ n.state \in Transmitting \cup {"FIN_WAIT_2"}
    <3>1. a \in Nat /\ t.head \in Nat /\ t.len \in Nat
      BY <1>1, <1>2 DEF StreamType, SeqNo
    <3>2. n.nxt \in Nat
      BY <2>2 DEF Untimed, StreamType, NxtCap
    <3> QED
      BY <1>5, <2>1, <2>2, <3>1, <3>2 DEF Same
  <2>4. Ok(RemoveAcked(n, a)) /\ Same(n, RemoveAcked(n, a))
    BY <1>2, <2>2, <2>3, RemoveAckedOk
  <2> QED
    BY <1>3, <1>5, <2>1, <2>2, <2>4 DEF Same
<1> QED
  BY <1>4, <1>5

-----------------------------------------------------------------------------
(* Reassembly. *)

\* r is t with another receive half.
SameSend(t, r) ==
    /\ r.alive = t.alive /\ r.state = t.state /\ r.una = t.una /\ r.buf = t.buf
    /\ r.head = t.head /\ r.len = t.len /\ r.timers = t.timers
    /\ r.nxt = t.nxt /\ r.finSent = t.finSent

\* A change of the receive half alone leaves the stream good.
LEMMA SameSendOk ==
    ASSUME NEW t, Ok(t), NEW r \in StreamType, SameSend(t, r), RecvInv(r)
    PROVE  Ok(r) /\ Same(t, r)
BY DEF Ok, StreamInv, SendInv, TimerInv, FlightInv, SameSend, Same

\* the length of the contiguous bytes, which RBPut counts
LEMMA RunBound ==
    ASSUME NEW h \in PeerSeqNo, 1 <= h, h <= PeerBytes + 1, NEW f,
           f \subseteq h..PeerBytes, f \subseteq h..(h + RcvSize - 1)
    PROVE  LET m == Cardinality({k \in f : h..k \subseteq f}) IN
           m \in 0..RcvSize /\ h + m <= PeerBytes + 1
<1> DEFINE S == {k \in f : h..k \subseteq f}
           e == h + RcvSize - 1
<1>1. h \in Int /\ PeerBytes \in Int /\ e \in Int /\ h <= e
  BY DEF PeerSeqNo
<1>2. S \subseteq h..PeerBytes /\ S \subseteq h..e
  OBVIOUS
<1> HIDE DEF S, e
<1>3. /\ Cardinality(S) \in Nat
      /\ h > PeerBytes => Cardinality(S) = 0
      /\ h <= PeerBytes => Cardinality(S) <= PeerBytes - h + 1
  BY <1>1, <1>2, CardinalityBound, Zenon
<1>4. h <= e => Cardinality(S) <= e - h + 1
  BY <1>1, <1>2, CardinalityBound, Zenon
<1>5. Cardinality(S) \in 0..RcvSize /\ h + Cardinality(S) <= PeerBytes + 1
  BY <1>1, <1>3, <1>4 DEF e, PeerSeqNo
<1> QED
  BY <1>5 DEF S

\* RBPut keeps the bytes, and their contiguous run, inside the buffer.
LEMMA RBPutOk ==
    ASSUME NEW t \in StreamType, RecvInv(t), NEW g, OkSeg(g), g.len > 0
    PROVE  /\ RBPut(t, g) \in StreamType /\ RecvInv(RBPut(t, g))
           /\ SameSend(t, RBPut(t, g))
<1> DEFINE f == t.frags \cup g.seq..(g.seq + g.len - 1)
           m == Cardinality({k \in f : t.rhead..k \subseteq f})
           r == [t EXCEPT !.frags = f, !.merged = m]
<1>1. /\ t.rhead \in PeerSeqNo /\ t.merged \in 0..RcvSize
      /\ g.seq \in Nat /\ g.len \in Nat /\ g.seq + g.len <= PeerBytes + 1
  BY DEF StreamType, OkSeg
<1>2. CASE g.seq < t.rhead \/ g.seq + g.len > t.rhead + RcvSize
  BY <1>2 DEF RBPut, SameSend
<1>3. CASE ~(g.seq < t.rhead \/ g.seq + g.len > t.rhead + RcvSize)
  <2>1. RBPut(t, g) = r
    BY <1>3 DEF RBPut
  <2>2. g.seq..(g.seq + g.len - 1) \subseteq t.rhead..PeerBytes
    BY <1>1, <1>3 DEF PeerSeqNo
  <2>3. g.seq..(g.seq + g.len - 1) \subseteq t.rhead..(t.rhead + RcvSize - 1)
    BY <1>1, <1>3 DEF PeerSeqNo
  <2>4. f \subseteq t.rhead..PeerBytes /\ f \subseteq t.rhead..(t.rhead + RcvSize - 1)
    BY <2>2, <2>3 DEF RecvInv
  <2> HIDE DEF f
  <2>5. 1 <= t.rhead /\ t.rhead <= PeerBytes + 1
    BY <1>1 DEF RecvInv, PeerSeqNo
  <2>6. m \in 0..RcvSize /\ t.rhead + m <= PeerBytes + 1
    BY <1>1, <2>4, <2>5, RunBound
  <2> HIDE DEF m
  <2>7. f \in SUBSET PeerSeqNo
    BY <1>1, <2>4, <2>5 DEF PeerSeqNo
  <2>8. r \in StreamType
    BY <2>6, <2>7 DEF StreamType
  <2>9. SameSend(t, r) /\ r.rhead = t.rhead /\ r.frags = f /\ r.merged = m /\ r.rcvNxt = t.rcvNxt
    BY DEF StreamType, SameSend
  <2> HIDE DEF r
  <2>10. RecvInv(r)
    BY <2>4, <2>5, <2>6, <2>9 DEF RecvInv, SameSend
  <2> QED
    BY <2>1, <2>8, <2>9, <2>10
<1> QED
  BY <1>2, <1>3

\* RBRemove gives back at most the contiguous bytes.
LEMMA RBRemoveOk ==
    ASSUME NEW t \in StreamType, RecvInv(t), NEW n \in Nat, n <= t.merged
    PROVE  /\ RBRemove(t, n) \in StreamType /\ RecvInv(RBRemove(t, n))
           /\ SameSend(t, RBRemove(t, n))
<1> DEFINE h == t.rhead + n
           m == t.merged - n
           f == {k \in t.frags : k >= t.rhead + n}
           r == [t EXCEPT !.rhead = h, !.merged = m, !.frags = f]
<1>1. t.rhead \in PeerSeqNo /\ t.merged \in 0..RcvSize /\ t.frags \in SUBSET PeerSeqNo
  BY DEF StreamType
<1>2. h \in PeerSeqNo /\ 1 <= h /\ m \in 0..RcvSize /\ h + m <= PeerBytes + 1
  BY <1>1 DEF RecvInv, PeerSeqNo
<1>3. f \in SUBSET PeerSeqNo
  BY <1>1
<1>4. f \subseteq h..PeerBytes
  BY <1>1, <1>2 DEF RecvInv, PeerSeqNo
<1>5. f \subseteq h..(h + RcvSize - 1)
  BY <1>1, <1>2 DEF RecvInv, PeerSeqNo
<1>6. RBRemove(t, n) = r
  BY DEF RBRemove
<1> HIDE DEF h, m, f
<1>7. r \in StreamType
  BY <1>2, <1>3 DEF StreamType
<1>8. SameSend(t, r) /\ r.rhead = h /\ r.frags = f /\ r.merged = m /\ r.rcvNxt = t.rcvNxt
  BY DEF StreamType, SameSend
<1> HIDE DEF r
<1>9. RecvInv(r)
  BY <1>2, <1>4, <1>5, <1>8 DEF RecvInv, SameSend
<1> QED
  BY <1>6, <1>7, <1>8, <1>9

\* rcv_nxt and the window follow from the buffer.
LEMMA ReassembleOk ==
    ASSUME NEW t, Ok(t), t.state \notin {"LISTEN", "SYN_RCVD"}, NEW g, OkSeg(g), g.len > 0
    PROVE  Ok(Reassemble(t, g)) /\ Same(t, Reassemble(t, g))
<1> DEFINE p == RBPut(t, g)
           q == RBRemove(p, p.merged)
           r == IF t.state \in {"FIN_WAIT_1", "FIN_WAIT_2"} THEN q ELSE p
           nxt == r.rhead + r.merged
           wnd == RcvSize - r.merged
           e == [r EXCEPT !.rcvNxt = nxt, !.rcvWnd = wnd]
<1>1. p \in StreamType /\ RecvInv(p) /\ SameSend(t, p)
  BY RBPutOk DEF Ok, StreamInv
<1>2. Reassemble(t, g) = e
  BY DEF Reassemble
<1> HIDE DEF p
<1>3. p.merged \in Nat /\ p.merged <= p.merged
  BY <1>1 DEF StreamType
<1>4. q \in StreamType /\ RecvInv(q) /\ SameSend(p, q)
  BY <1>1, <1>3, RBRemoveOk
<1> HIDE DEF q
<1>5. r \in StreamType /\ RecvInv(r) /\ SameSend(t, r)
  BY <1>1, <1>4 DEF SameSend
<1> HIDE DEF r
<1>6. r.rhead \in PeerSeqNo /\ r.merged \in 0..RcvSize
  BY <1>5 DEF StreamType
<1>7. nxt \in PeerSeqNo /\ wnd \in Nat
  BY <1>5, <1>6 DEF PeerSeqNo, RecvInv
<1> HIDE DEF nxt, wnd
<1>8. e \in StreamType
  BY <1>5, <1>7 DEF StreamType
<1>9. SameSend(r, e) /\ e.rhead = r.rhead /\ e.merged = r.merged /\ e.frags = r.frags
  BY <1>5 DEF StreamType, SameSend
<1> HIDE DEF e
<1>10. RecvInv(e) /\ SameSend(t, e)
  BY <1>5, <1>9 DEF RecvInv, SameSend
<1> QED
  BY <1>2, <1>8, <1>10, SameSendOk

\* process_payload preserves the invariant and keeps the state.
LEMMA ProcessPayloadOk ==
    ASSUME NEW t, Ok(t), t.state \notin {"LISTEN", "SYN_RCVD"}, NEW g, OkSeg(g)
    PROVE  Ok(ProcessPayload(t, g)) /\ Same(t, ProcessPayload(t, g))
<1> DEFINE r == Reassemble(t, g)
           opt == IF r.rcvNxt > t.rcvNxt THEN "AGGREGATE" ELSE "NOW"
<1>1. CASE g.len = 0
  BY <1>1 DEF ProcessPayload, Same
<1>2. CASE g.len # 0
  <2>1. \/ ProcessPayload(t, g) = EnqueueAckList(t, "NOW")
        \/ ProcessPayload(t, g) = EnqueueAckList(r, opt)
    BY <1>2 DEF ProcessPayload
  <2>2. g.len > 0
    BY <1>2 DEF OkSeg
  <2>3. Ok(r) /\ Same(t, r)
    BY <2>2, ReassembleOk
  <2> HIDE DEF r
  <2>4. Ok(EnqueueAckList(t, "NOW")) /\ Same(t, EnqueueAckList(t, "NOW"))
    BY EnqueueAckListOk
  <2>5. opt \in {"NOW", "AGGREGATE", "WACK"}
    OBVIOUS
  <2> HIDE DEF opt
  <2>6. Ok(EnqueueAckList(r, opt)) /\ Same(r, EnqueueAckList(r, opt))
    BY <2>3, <2>5, EnqueueAckListOk
  <2> QED
    BY <2>1, <2>3, <2>4, <2>6 DEF Same
<1> QED
  BY <1>1, <1>2

-----------------------------------------------------------------------------
(* The handlers of user_tcp_process. *)

\* r is t in another state, rcv_nxt moved on or not.
Moved(t, r) ==
    /\ r.alive = t.alive /\ r.una = t.una /\ r.nxt = t.nxt /\ r.finSent = t.finSent
    /\ r.buf = t.buf /\ r.head = t.head /\ r.len = t.len /\ r.timers = t.timers
    /\ r.rhead = t.rhead /\ r.merged = t.merged /\ r.frags = t.frags

\* A state change is harmless if it does not come back from an end or start
\* retransmitting.
LEMMA MovedOk ==
    ASSUME NEW t, Ok(t), NEW r \in StreamType, Moved(t, r),
           r.state \notin {"LISTEN", "SYN_RCVD"},
           t.state \notin Ended \/ r.state \in Ended,
           r.state \in Transmitting => t.state \in Transmitting
    PROVE  Ok(r)
<1>1. SendInv(r) /\ RecvInv(r)
  BY DEF Ok, StreamInv, SendInv, RecvInv, Moved
<1>2. TimerInv(r)
  BY DEF Ok, StreamInv, TimerInv, Moved, Ended
<1>3. ~DupAcks => FlightInv(r)
  BY DEF Ok, StreamInv, FlightInv, Moved, Transmitting, Retransmits
<1> QED
  BY <1>1, <1>2, <1>3 DEF Ok, StreamInv

\* What keeps the state and the FIN mark does not start a close.
LEMMA SameLater == ASSUME NEW t, NEW r, Same(t, r) PROVE Later(t, r)
BY DEF Same, Later, Closing

\* The SYN is counted once.
LEMMA HandleListenOk ==
    ASSUME NEW t, Ok(t), t.state \in {"LISTEN", "SYN_RCVD"}
    PROVE  Ok(HandleListen(t)) /\ Later(t, HandleListen(t))
<1> DEFINE n == IF t.state = "LISTEN" THEN t.rcvNxt + 1 ELSE t.rcvNxt
           e == [t EXCEPT !.rcvNxt = n, !.state = "SYN_RCVD"]
<1>1. t \in StreamType /\ t.rcvNxt \in PeerSeqNo
  BY DEF Ok, StreamType
<1>2. n \in PeerSeqNo /\ n <= 1
  BY <1>1 DEF Ok, StreamInv, RecvInv, PeerSeqNo
<1>3. HandleListen(t) = AddToControl(e)
  BY DEF HandleListen
<1> HIDE DEF n
<1>4. e \in StreamType
  BY <1>1, <1>2 DEF StreamType, States
<1>5. Moved(t, e) /\ e.state = "SYN_RCVD" /\ e.rcvNxt = n
  BY <1>1 DEF StreamType, Moved
<1> HIDE DEF e
<1>6. SendInv(e) /\ RecvInv(e) /\ TimerInv(e)
  BY <1>2, <1>5 DEF Ok, StreamInv, SendInv, RecvInv, TimerInv, Moved
<1>7. ~DupAcks => FlightInv(e)
  BY <1>5 DEF Ok, StreamInv, SendInv, FlightInv, Moved, Transmitting, Retransmits
<1>8. Ok(e)
  BY <1>4, <1>6, <1>7 DEF Ok, StreamInv
<1>9. Ok(AddToControl(e)) /\ Same(e, AddToControl(e))
  BY <1>8, AddToControlOk
<1> QED
  BY <1>3, <1>5, <1>9 DEF Later, Closing, Same, Moved, AfterClose

\* the handshake is over: snd_una, snd_nxt and rcv_nxt are all 1
LEMMA HandshakeOk ==
    ASSUME NEW t, Ok(t), t.state = "SYN_RCVD", NEW e \in StreamType,
           e.alive = t.alive, e.finSent = t.finSent, e.buf = t.buf,
           e.head = t.head, e.len = t.len, e.timers = t.timers,
           e.rhead = t.rhead, e.merged = t.merged, e.frags = t.frags,
           e.una = 1, e.nxt = 1, e.rcvNxt = 1, e.state = "ESTABLISHED"
    PROVE  Ok(RemoveFromRTO(e)) /\ Later(t, RemoveFromRTO(e))
<1>1. SendInv(e) /\ RecvInv(e) /\ TimerInv(e)
  BY DEF Ok, StreamInv, SendInv, RecvInv, TimerInv
<1>2. t.head = 1
  BY DEF Ok, StreamInv, SendInv
<1>3. Untimed(e)
  BY <1>1, <1>2 DEF Untimed
<1>4. Ok(RemoveFromRTO(e)) /\ Same(e, RemoveFromRTO(e))
  BY <1>3, RemoveFromRTOOk
<1> QED
  BY <1>4 DEF Same, Later, Closing, AfterClose

\* The ACK of the handshake, a wrong one, and a full backlog.
LEMMA HandleSynRcvdOk ==
    ASSUME NEW t, Ok(t), t.state = "SYN_RCVD", NEW g, OkSeg(g), NEW full \in BOOLEAN
    PROVE  Ok(HandleSynRcvd(t, g, full)) /\ Later(t, HandleSynRcvd(t, g, full))
<1>1. t \in StreamType /\ t.una = 0 /\ t.una \in SeqNo
  BY DEF Ok, StreamType, StreamInv, SendInv
<1>2. CASE ~g.ack
  <2> DEFINE e == [t EXCEPT !.nxt = 0]
  <2>1. HandleSynRcvd(t, g, full) = AddToControl(e)
    BY <1>2 DEF HandleSynRcvd
  <2>2. 0 \in 0..NxtCap
    BY DEF NxtCap
  <2>3. e \in StreamType
    BY <1>1, <2>2 DEF StreamType
  <2>4. Same(t, e) /\ e.nxt = 0 /\ e.una = t.una /\ e.buf = t.buf /\ e.head = t.head
        /\ e.len = t.len /\ e.timers = t.timers /\ e.rhead = t.rhead /\ e.merged = t.merged
        /\ e.frags = t.frags /\ e.rcvNxt = t.rcvNxt
    BY <1>1 DEF StreamType, Same
  <2> HIDE DEF e
  <2>5. Ok(e)
    BY <1>1, <2>3, <2>4
    DEF Ok, StreamInv, SendInv, RecvInv, TimerInv, FlightInv, Same, Transmitting
  <2>6. Ok(AddToControl(e)) /\ Same(e, AddToControl(e))
    BY <2>5, AddToControlOk
  <2> QED
    BY <2>1, <2>4, <2>6 DEF Same, Later, Closing
<1>3. CASE g.ack /\ g.ackSeq # 1
  <2>1. HandleSynRcvd(t, g, full) = Fail(t, "exit")
    BY <1>3 DEF HandleSynRcvd
  <2>2. Ok(Fail(t, "exit")) /\ Same(t, Fail(t, "exit"))
    BY FailOk
  <2> QED
    BY <2>1, <2>2, SameLater
<1>4. CASE g.ack /\ g.ackSeq = 1
  <2> DEFINE una == t.una + 1
             nxt == g.ackSeq
             one == 1
             d == [t EXCEPT !.una = una, !.nxt = nxt, !.rcvNxt = one,
                            !.state = "ESTABLISHED"]
             e == RemoveFromRTO(d)
             c == [e EXCEPT !.state = "CLOSED"]
             f == IF full THEN AddToControl(c) ELSE e
  <2>1. HandleSynRcvd(t, g, full) = AddToTimeout(f)
    BY <1>4 DEF HandleSynRcvd
  <2>2. /\ una = 1 /\ nxt = 1 /\ one = 1 /\ 1 \in SeqNo /\ 1 \in 0..NxtCap /\ 1 \in PeerSeqNo
        /\ "ESTABLISHED" \in States
    BY <1>1, <1>4 DEF SeqNo, NxtCap, PeerSeqNo, States
  <2> HIDE DEF una, nxt, one
  <2>3. d \in StreamType
    <3>1. una \in SeqNo /\ nxt \in 0..NxtCap /\ one \in PeerSeqNo /\ "ESTABLISHED" \in States
      BY <2>2
    <3>2. t \in StreamType
      BY <1>1
    <3> QED
      BY <3>1, <3>2 DEF StreamType
  <2>4. /\ d.alive = t.alive /\ d.finSent = t.finSent /\ d.buf = t.buf
        /\ d.head = t.head /\ d.len = t.len /\ d.timers = t.timers
        /\ d.rhead = t.rhead /\ d.merged = t.merged /\ d.frags = t.frags
        /\ d.una = 1 /\ d.nxt = 1 /\ d.rcvNxt = 1 /\ d.state = "ESTABLISHED"
    BY <1>1, <2>2 DEF StreamType
  <2> HIDE DEF d
  <2>5. Ok(e) /\ Later(t, e)
    BY <2>3, <2>4, HandshakeOk
  <2> HIDE DEF e
  <2>6. c \in StreamType /\ Moved(e, c) /\ c.state = "CLOSED"
    BY <2>5 DEF Ok, StreamType, Moved, States
  <2> HIDE DEF c
  <2>7. Ok(c)
    BY <2>5, <2>6, MovedOk DEF Ended, Transmitting
  <2>8. Ok(AddToControl(c)) /\ Same(c, AddToControl(c))
    BY <2>7, AddToControlOk
  <2>9. Ok(f) /\ Later(t, f)
    BY <2>5, <2>6, <2>8 DEF Same, Later, Closing, Moved, AfterClose
  <2> HIDE DEF f
  <2>10. Ok(AddToTimeout(f)) /\ Same(f, AddToTimeout(f))
    BY <2>9, AddToTimeoutOk
  <2> QED
    BY <2>1, <2>9, <2>10 DEF Same, Later, Closing
<1> QED
  BY <1>2, <1>3, <1>4

\* A FIN in order takes ESTABLISHED to CLOSE_WAIT; rcv_nxt stays in range.
LEMMA HandleEstablishedOk ==
    ASSUME NEW t, Ok(t), t.state = "ESTABLISHED", NEW g, OkSeg(g),
           NEW dup3 \in BOOLEAN, dup3 => DupAcks
    PROVE  Ok(HandleEstablished(t, g, dup3)) /\ Later(t, HandleEstablished(t, g, dup3))
<1> DEFINE p == ProcessPayload(t, g)
           r == ProcessAck(p, g, dup3)
           n == r.rcvNxt + 1
           e == [r EXCEPT !.state = "CLOSE_WAIT", !.rcvNxt = n]
           c == AddToControl(e)
           h == HandleEstablished(t, g, dup3)
<1>1. Ok(p) /\ Same(t, p)
  BY ProcessPayloadOk
<1>2. p.state \in Transmitting \cup {"FIN_WAIT_2"}
  BY <1>1 DEF Same, Transmitting
<1>3. \/ h = r
      \/ h = EnqueueAckList(r, "NOW")
      \/ InOrderFin(r, g) /\ h \in {c, Fail(c, "null_socket")}
  <2> HIDE DEF r, n
  <2>1. CASE ~g.fin
    BY <2>1 DEF HandleEstablished, r
  <2>2. CASE g.fin /\ ~InOrderFin(r, g)
    BY <2>2 DEF HandleEstablished, r
  <2>3. CASE g.fin /\ InOrderFin(r, g)
    BY <2>3 DEF HandleEstablished, r, n
  <2> QED
    BY <2>1, <2>2, <2>3
<1> HIDE DEF p, h
<1>4. Ok(r) /\ Same(p, r)
  BY <1>1, <1>2, ProcessAckOk
<1> HIDE DEF r
<1>5. Same(t, r)
  BY <1>1, <1>4 DEF Same
<1>6. CASE h = r
  BY <1>4, <1>5, <1>6, SameLater DEF h
<1>7. CASE h = EnqueueAckList(r, "NOW")
  <2>1. Ok(h) /\ Same(r, h)
    BY <1>4, <1>7, EnqueueAckListOk
  <2> QED
    BY <1>5, <2>1 DEF Same, Later, Closing, h
<1>8. CASE InOrderFin(r, g) /\ h \in {c, Fail(c, "null_socket")}
  <2>1. n \in PeerSeqNo
    BY <1>8 DEF InOrderFin, OkSeg, PeerSeqNo
  <2> HIDE DEF n
  <2>2. r \in StreamType /\ "CLOSE_WAIT" \in States
    BY <1>4 DEF Ok, States
  <2>3. e \in StreamType
    BY <2>1, <2>2 DEF StreamType
  <2>4. Moved(r, e) /\ e.state = "CLOSE_WAIT"
    BY <2>2 DEF StreamType, Moved
  <2> HIDE DEF e
  <2>5. Ok(e)
    BY <1>4, <1>5, <2>3, <2>4, MovedOk DEF Same, Ended, Transmitting
  <2>6. Ok(c) /\ Same(e, c)
    BY <2>5, AddToControlOk
  <2> HIDE DEF c
  <2>7. Ok(Fail(c, "null_socket")) /\ Same(c, Fail(c, "null_socket"))
    BY <2>6, FailOk
  <2>8. Later(t, c) /\ Later(t, Fail(c, "null_socket"))
    BY <1>5, <2>4, <2>6, <2>7 DEF Same, Later, Closing, Moved, AfterClose
  <2> QED
    BY <1>8, <2>6, <2>7, <2>8 DEF h
<1> QED
  BY <1>3, <1>6, <1>7, <1>8 DEF h

\* once close() was handled, no handler can undo it
LEMMA LaterIfClosed == ASSUME NEW t, t.state \in AfterClose, NEW r PROVE Later(t, r)
BY DEF Later, Closing

\* handle_close_wait preserves the invariant.
LEMMA HandleCloseWaitOk ==
    ASSUME NEW t, Ok(t), t.state = "CLOSE_WAIT", NEW g, OkSeg(g),
           NEW dup3 \in BOOLEAN, dup3 => DupAcks
    PROVE  Ok(HandleCloseWait(t, g, dup3)) /\ Later(t, HandleCloseWait(t, g, dup3))
<1>1. Ok(AddToControl(t)) /\ Same(t, AddToControl(t))
  BY AddToControlOk
<1>2. Ok(ProcessAck(t, g, dup3)) /\ Same(t, ProcessAck(t, g, dup3))
  BY ProcessAckOk DEF Transmitting
<1>3. HandleCloseWait(t, g, dup3) \in {AddToControl(t), ProcessAck(t, g, dup3)}
  BY DEF HandleCloseWait
<1> QED
  BY <1>1, <1>2, <1>3, SameLater

\* handle_last_ack preserves the invariant.
LEMMA HandleLastAckOk ==
    ASSUME NEW t, Ok(t), t.state = "LAST_ACK", NEW g, OkSeg(g),
           NEW dup3 \in BOOLEAN, dup3 => DupAcks
    PROVE  Ok(HandleLastAck(t, g, dup3)) /\ Later(t, HandleLastAck(t, g, dup3))
<1> DEFINE r == ProcessAck(t, g, dup3)
<1>1. Ok(r)
  BY ProcessAckOk DEF Transmitting
<1>2. HandleLastAck(t, g, dup3) \in {t, r, CloseAndDestroy(r), AddToControl(r)}
  BY DEF HandleLastAck
<1> HIDE DEF r
<1>3. Ok(CloseAndDestroy(r))
  BY <1>1, OkUntimed, DestroyOk
<1>4. Ok(AddToControl(r))
  BY <1>1, AddToControlOk
<1> QED
  BY <1>1, <1>2, <1>3, <1>4, LaterIfClosed DEF AfterClose

\* The peer's FIN while ours is out: CLOSING, or CLOSED on the timewait list.
LEMMA FinInFinWait1Ok ==
    ASSUME NEW t, Ok(t), t.state \in {"FIN_WAIT_1", "FIN_WAIT_2"}, NEW g, OkSeg(g),
           InOrderFin(t, g)
    PROVE  Ok(FinInFinWait1(t))
<1> DEFINE n == t.rcvNxt + 1
           e == [t EXCEPT !.rcvNxt = n, !.state = "CLOSING"]
           c == [t EXCEPT !.rcvNxt = n, !.state = "CLOSED"]
           r == IF t.state = "FIN_WAIT_1" THEN e ELSE AddToTimewait(c)
<1>1. n \in PeerSeqNo
  BY DEF InOrderFin, OkSeg, PeerSeqNo
<1>2. FinInFinWait1(t) = AddToControl(r)
  BY DEF FinInFinWait1
<1> HIDE DEF n
<1>3. t \in StreamType /\ "CLOSING" \in States /\ "CLOSED" \in States
  BY DEF Ok, States
<1>4. e \in StreamType /\ Moved(t, e) /\ e.state = "CLOSING"
  <2>1. e \in StreamType
    BY <1>1, <1>3 DEF StreamType
  <2> QED
    BY <1>3, <2>1 DEF StreamType, Moved
<1>5. c \in StreamType /\ Moved(t, c) /\ c.state = "CLOSED"
  <2>1. c \in StreamType
    BY <1>1, <1>3 DEF StreamType
  <2> QED
    BY <1>3, <2>1 DEF StreamType, Moved
<1> HIDE DEF e, c
<1>6. ASSUME t.state = "FIN_WAIT_1" PROVE Ok(e)
  BY <1>4, <1>6, MovedOk DEF Ended, Transmitting
<1>7. Ok(c)
  BY <1>5, MovedOk DEF Ended, Transmitting
<1>8. Ok(AddToTimewait(c))
  BY <1>5, <1>7, AddToTimewaitOk DEF Ended
<1>9. Ok(r)
  BY <1>6, <1>8
<1> HIDE DEF r
<1> QED
  BY <1>2, <1>9, AddToControlOk

\* the ACK of the FIN: the timer stops in a state that does not retransmit
LEMMA FinWait2Ok ==
    ASSUME NEW a, Ok(a), a.state = "FIN_WAIT_1", a.finSent,
           NEW una \in SeqNo, NEW nxt \in 0..NxtCap
    PROVE  LET r == RemoveFromRTO([a EXCEPT !.una = una, !.state = "FIN_WAIT_2", !.nxt = nxt])
           IN  Ok(r) /\ r.state = "FIN_WAIT_2"
<1> DEFINE e == [a EXCEPT !.una = una, !.state = "FIN_WAIT_2", !.nxt = nxt]
<1>1. a \in StreamType /\ "FIN_WAIT_2" \in States
  BY DEF Ok, States
<1>2. e \in StreamType
  BY <1>1 DEF StreamType
<1>3. /\ e.alive = a.alive /\ e.finSent = a.finSent /\ e.buf = a.buf
      /\ e.head = a.head /\ e.len = a.len /\ e.timers = a.timers
      /\ e.rhead = a.rhead /\ e.merged = a.merged /\ e.frags = a.frags
      /\ e.rcvNxt = a.rcvNxt /\ e.state = "FIN_WAIT_2"
  BY <1>1 DEF StreamType
<1> HIDE DEF e
<1>4. SendInv(e) /\ RecvInv(e)
  BY <1>3 DEF Ok, StreamInv, SendInv, RecvInv
<1>5. TimerInv(e)
  BY <1>3 DEF Ok, StreamInv, TimerInv
<1>6. Untimed(e)
  BY <1>2, <1>3, <1>4, <1>5 DEF Untimed, Transmitting
<1>7. e.state \notin Retransmits
  BY <1>3 DEF Retransmits
<1>8. Ok(RemoveFromRTO(e)) /\ RemoveFromRTO(e).state = "FIN_WAIT_2"
  BY <1>3, <1>6, <1>7, RemoveFromRTOOk DEF Same
<1> QED
  BY <1>8 DEF e

\* handle_fin_wait_1: the ACK of the FIN stops the timer, in a state that does not
\* retransmit.
LEMMA HandleFinWait1Ok ==
    ASSUME NEW t, Ok(t), t.state = "FIN_WAIT_1", NEW g, OkSeg(g),
           NEW dup3 \in BOOLEAN, dup3 => DupAcks
    PROVE  Ok(HandleFinWait1(t, g, dup3)) /\ Later(t, HandleFinWait1(t, g, dup3))
<1> DEFINE a == ProcessAck(t, g, dup3)
           una == g.ackSeq
           nxt == IF una > a.nxt THEN una ELSE a.nxt
           e == [a EXCEPT !.una = una, !.state = "FIN_WAIT_2", !.nxt = nxt]
           f == IF a.finSent /\ g.ackSeq = a.fss + 1 THEN RemoveFromRTO(e) ELSE a
           r == ProcessPayload(f, g)
           h == HandleFinWait1(t, g, dup3)
<1>1. Ok(a) /\ Same(t, a)
  BY ProcessAckOk DEF Transmitting
<1>2. \/ h = AddToControl(t)
      \/ h = r
      \/ InOrderFin(r, g) /\ h = FinInFinWait1(r)
  BY DEF HandleFinWait1
<1>3. Ok(AddToControl(t))
  BY AddToControlOk
<1> HIDE DEF a, h
<1>4. a \in StreamType /\ "FIN_WAIT_2" \in States
  BY <1>1 DEF Ok, States
<1>5. una \in SeqNo /\ nxt \in 0..NxtCap
  <2>1. a.nxt \in 0..NxtCap
    BY <1>4 DEF StreamType
  <2> QED
    BY <2>1 DEF OkSeg, SeqNo, NxtCap
<1> HIDE DEF una, nxt
<1>6. ASSUME a.finSent PROVE Ok(RemoveFromRTO(e)) /\ RemoveFromRTO(e).state = "FIN_WAIT_2"
  BY <1>1, <1>5, <1>6, FinWait2Ok DEF Same
<1> HIDE DEF e
<1>7. Ok(f) /\ f.state \in {"FIN_WAIT_1", "FIN_WAIT_2"}
  BY <1>1, <1>6 DEF Same
<1> HIDE DEF f
<1>8. Ok(r) /\ Same(f, r)
  BY <1>7, ProcessPayloadOk
<1> HIDE DEF r
<1>9. InOrderFin(r, g) => Ok(FinInFinWait1(r))
  BY <1>7, <1>8, FinInFinWait1Ok DEF Same
<1>10. Ok(h)
  BY <1>2, <1>3, <1>8, <1>9
<1> QED
  BY <1>10, LaterIfClosed DEF h, AfterClose

\* handle_fin_wait_2 preserves the invariant.
LEMMA HandleFinWait2Ok ==
    ASSUME NEW t, Ok(t), t.state = "FIN_WAIT_2", NEW g, OkSeg(g),
           NEW dup3 \in BOOLEAN, dup3 => DupAcks
    PROVE  Ok(HandleFinWait2(t, g, dup3)) /\ Later(t, HandleFinWait2(t, g, dup3))
<1> DEFINE a == ProcessAck(t, g, dup3)
           r == ProcessPayload(a, g)
           n == r.rcvNxt + 1
           e == [r EXCEPT !.state = "TIME_WAIT", !.rcvNxt = n]
           h == HandleFinWait2(t, g, dup3)
<1>1. Ok(a) /\ Same(t, a)
  BY ProcessAckOk
<1>2. h = IF InOrderFin(r, g) THEN AddToControl(AddToTimewait(e)) ELSE r
  BY DEF HandleFinWait2
<1> HIDE DEF a, h
<1>3. Ok(r) /\ Same(a, r)
  BY <1>1, ProcessPayloadOk DEF Same
<1> HIDE DEF r
<1>4. CASE InOrderFin(r, g)
  <2>1. n \in PeerSeqNo
    BY <1>4 DEF InOrderFin, OkSeg, PeerSeqNo
  <2> HIDE DEF n
  <2>2. r \in StreamType /\ "TIME_WAIT" \in States
    BY <1>3 DEF Ok, States
  <2>3. e \in StreamType
    BY <2>1, <2>2 DEF StreamType
  <2>4. Moved(r, e) /\ e.state = "TIME_WAIT"
    BY <2>2 DEF StreamType, Moved
  <2> HIDE DEF e
  <2>5. Ok(e)
    BY <1>3, <2>3, <2>4, MovedOk DEF Ended, Transmitting
  <2>6. Ok(AddToTimewait(e))
    BY <2>4, <2>5, AddToTimewaitOk DEF Ended
  <2>7. Ok(h)
    BY <1>2, <1>4, <2>6, AddToControlOk
  <2> QED
    BY <2>7, LaterIfClosed DEF h, AfterClose
<1>5. CASE ~InOrderFin(r, g)
  BY <1>2, <1>3, <1>5, LaterIfClosed DEF h, AfterClose
<1> QED
  BY <1>4, <1>5

\* handle_closing: the ACK of the FIN leaves snd_nxt at snd_una, so the timer goes
\* before the timewait list comes.
LEMMA HandleClosingOk ==
    ASSUME NEW t, Ok(t), t.state = "CLOSING", NEW g, OkSeg(g),
           NEW dup3 \in BOOLEAN, dup3 => DupAcks
    PROVE  Ok(HandleClosing(t, g, dup3)) /\ Later(t, HandleClosing(t, g, dup3))
<1> DEFINE r == ProcessAck(t, g, dup3)
           una == g.ackSeq
           e == [r EXCEPT !.una = una, !.nxt = una, !.state = "TIME_WAIT"]
           h == HandleClosing(t, g, dup3)
<1>1. Ok(r) /\ Same(t, r)
  BY ProcessAckOk DEF Transmitting
<1>2. h = r \/ (r.finSent /\ h = AddToTimewait(UpdateRetransmissionTimer(e)))
  BY DEF HandleClosing
<1> HIDE DEF r, h
<1>3. r \in StreamType /\ "TIME_WAIT" \in States
  BY <1>1 DEF Ok, States
<1>4. una \in SeqNo /\ una \in 0..NxtCap
  BY DEF OkSeg, SeqNo, NxtCap
<1>5. una <= una /\ ~(una > una)
  BY <1>4 DEF SeqNo
<1> HIDE DEF una
<1>6. CASE r.finSent /\ h = AddToTimewait(UpdateRetransmissionTimer(e))
  <2>1. e \in StreamType
    BY <1>3, <1>4 DEF StreamType
  <2>2. /\ e.alive = r.alive /\ e.finSent = r.finSent /\ e.buf = r.buf
        /\ e.head = r.head /\ e.len = r.len /\ e.timers = r.timers
        /\ e.rhead = r.rhead /\ e.merged = r.merged /\ e.frags = r.frags
        /\ e.rcvNxt = r.rcvNxt /\ e.state = "TIME_WAIT" /\ e.una = una /\ e.nxt = una
    BY <1>3 DEF StreamType
  <2> HIDE DEF e
  <2>3. SendInv(e) /\ RecvInv(e)
    BY <1>1, <1>6, <2>2 DEF Ok, StreamInv, SendInv, RecvInv
  <2>4. TimerInv(e)
    BY <1>1, <2>2 DEF Ok, StreamInv, TimerInv, Same
  <2>5. Untimed(e)
    BY <2>1, <2>2, <2>3, <2>4 DEF Untimed, Transmitting
  <2>6. UpdateRetransmissionTimer(e) = RemoveFromRTO(e)
    BY <1>5, <2>2 DEF UpdateRetransmissionTimer
  <2>7. Ok(RemoveFromRTO(e)) /\ Same(e, RemoveFromRTO(e))
    BY <1>5, <2>2, <2>5, RemoveFromRTOOk
  <2>8. Ok(h)
    BY <1>6, <2>2, <2>6, <2>7, AddToTimewaitOk DEF Same, Ended
  <2> QED
    BY <2>8, LaterIfClosed DEF h, AfterClose
<1>7. CASE h = r
  BY <1>1, <1>7, LaterIfClosed DEF h, AfterClose
<1> QED
  BY <1>2, <1>6, <1>7

\* A reset destroys the stream or takes it to CLOSE_WAIT.
LEMMA ProcessRstOk ==
    ASSUME NEW t, Ok(t), t.state \notin {"CLOSED", "LISTEN"}, NEW g
    PROVE  Ok(ProcessRst(t, g)) /\ Later(t, ProcessRst(t, g))
<1> DEFINE e == [t EXCEPT !.state = "CLOSE_WAIT"]
           r == ProcessRst(t, g)
<1>1. r \in {t, CloseAndDestroy(t)} \/ (t.state \in {"ESTABLISHED", "CLOSE_WAIT"} /\ r = e)
  <2>1. t.state \in States
    BY DEF Ok, StreamType
  <2> QED
    BY <2>1 DEF ProcessRst, States
<1> HIDE DEF r
<1>2. Ok(CloseAndDestroy(t)) /\ Later(t, CloseAndDestroy(t)) /\ Later(t, t)
  BY OkUntimed, DestroyOk DEF Later
<1>3. ASSUME t.state \in {"ESTABLISHED", "CLOSE_WAIT"} PROVE Ok(e) /\ Later(t, e)
  <2>1. t \in StreamType /\ "CLOSE_WAIT" \in States
    BY DEF Ok, States
  <2>2. e \in StreamType
    BY <2>1 DEF StreamType
  <2>3. Moved(t, e) /\ e.state = "CLOSE_WAIT"
    BY <2>1 DEF StreamType, Moved
  <2> HIDE DEF e
  <2>4. Ok(e)
    BY <1>3, <2>2, <2>3, MovedOk DEF Ended, Transmitting
  <2> QED
    BY <2>3, <2>4 DEF Later, Closing, Moved, AfterClose
<1> HIDE DEF e
<1>4. Ok(r) /\ Later(t, r)
  BY <1>1, <1>2, <1>3
<1> QED
  BY <1>4 DEF r

\* A segment outside the window only asks for ACKs.
LEMMA RefuseOk ==
    ASSUME NEW t, Ok(t), NEW g
    PROVE  Ok(Refuse(t, g)) /\ Later(t, Refuse(t, g))
<1> DEFINE opt == IF g.seq <= t.rcvNxt THEN "AGGREGATE" ELSE "NOW"
           a == EnqueueAckList(t, opt)
           w == AddToTimewait(t)
           r == Refuse(t, g)
<1>1. \/ r \in {t, a, AddToControl(t)}
      \/ t.state = "TIME_WAIT" /\ r = AddToControl(w)
  BY DEF Refuse
<1>2. opt \in {"NOW", "AGGREGATE", "WACK"}
  OBVIOUS
<1> HIDE DEF opt, r
<1>3. Ok(a) /\ Same(t, a)
  BY <1>2, EnqueueAckListOk
<1>4. Ok(AddToControl(t)) /\ Same(t, AddToControl(t))
  BY AddToControlOk
<1>5. ASSUME t.state = "TIME_WAIT" PROVE Ok(AddToControl(w))
  <2>1. Ok(w)
    BY <1>5, AddToTimewaitOk DEF Ended
  <2> QED
    BY <2>1, AddToControlOk
<1>6. t.state = "TIME_WAIT" => Later(t, AddToControl(w))
  BY LaterIfClosed DEF AfterClose
<1>7. Later(t, t)
  BY DEF Later
<1>8. Ok(r) /\ Later(t, r)
  BY <1>1, <1>3, <1>4, <1>5, <1>6, <1>7, SameLater
<1> QED
  BY <1>8 DEF r

\* One handler for every state.
LEMMA HandleByStateOk ==
    ASSUME NEW t, Ok(t), NEW g, OkSeg(g), NEW dup3 \in BOOLEAN, dup3 => DupAcks,
           NEW full \in BOOLEAN
    PROVE  LET r == HandleByState(t, g, dup3, full) IN Ok(r) /\ Later(t, r)
<1> DEFINE r == HandleByState(t, g, dup3, full)
<1>1. CASE t.state = "LISTEN" \/ (t.state = "SYN_RCVD" /\ g.syn)
  <2>1. r = HandleListen(t)
    BY <1>1 DEF HandleByState
  <2> HIDE DEF r
  <2>2. Ok(r) /\ Later(t, r)
    BY <1>1, <2>1, HandleListenOk
  <2> QED
    BY <2>2 DEF r
<1>2. CASE t.state = "SYN_RCVD" /\ ~g.syn
  <2> DEFINE a == HandleSynRcvd(t, g, full)
             b == HandleEstablished(a, g, dup3)
  <2>1. r = a \/ (a.state = "ESTABLISHED" /\ r = b)
    BY <1>2 DEF HandleByState
  <2> HIDE DEF r
  <2>2. Ok(a) /\ Later(t, a)
    BY <1>2, HandleSynRcvdOk
  <2> HIDE DEF a
  <2>3. a.state = "ESTABLISHED" => Ok(b) /\ Later(a, b)
    BY <2>2, HandleEstablishedOk
  <2>4. Ok(r) /\ Later(t, r)
    BY <2>1, <2>2, <2>3 DEF Later
  <2> QED
    BY <2>4 DEF r
<1>3. CASE t.state = "ESTABLISHED"
  <2>1. r = HandleEstablished(t, g, dup3)
    BY <1>3 DEF HandleByState
  <2> QED
    BY <1>3, <2>1, HandleEstablishedOk
<1>4. CASE t.state = "CLOSE_WAIT"
  <2>1. r = HandleCloseWait(t, g, dup3)
    BY <1>4 DEF HandleByState
  <2> QED
    BY <1>4, <2>1, HandleCloseWaitOk
<1>5. CASE t.state = "LAST_ACK"
  <2>1. r = HandleLastAck(t, g, dup3)
    BY <1>5 DEF HandleByState
  <2> QED
    BY <1>5, <2>1, HandleLastAckOk
<1>6. CASE t.state = "FIN_WAIT_1"
  <2>1. r = HandleFinWait1(t, g, dup3)
    BY <1>6 DEF HandleByState
  <2> QED
    BY <1>6, <2>1, HandleFinWait1Ok
<1>7. CASE t.state = "FIN_WAIT_2"
  <2>1. r = HandleFinWait2(t, g, dup3)
    BY <1>7 DEF HandleByState
  <2> QED
    BY <1>7, <2>1, HandleFinWait2Ok
<1>8. CASE t.state = "CLOSING"
  <2>1. r = HandleClosing(t, g, dup3)
    BY <1>8 DEF HandleByState
  <2> QED
    BY <1>8, <2>1, HandleClosingOk
<1>9. CASE t.state = "TIME_WAIT"
  <2> DEFINE w == IF "timewait" \in t.timers THEN RemoveFromRTO(t) ELSE t
  <2>1. r = AddToControl(w)
    BY <1>9 DEF HandleByState
  <2>2. Ok(RemoveFromRTO(t))
    <3>1. Untimed(t)
      BY OkUntimed
    <3>2. t.state \notin Retransmits
      BY <1>9 DEF Retransmits
    <3> QED
      BY <3>1, <3>2, RemoveFromRTOOk
  <2>3. Ok(w)
    BY <2>2
  <2> HIDE DEF w, r
  <2>4. Ok(r) /\ Later(t, r)
    BY <1>9, <2>1, <2>3, AddToControlOk, LaterIfClosed DEF AfterClose
  <2> QED
    BY <2>4 DEF r
<1>10. CASE t.state = "CLOSED"
  <2>1. r = t
    BY <1>10 DEF HandleByState
  <2> QED
    BY <2>1 DEF Later
<1>11. t.state \in States
  BY DEF Ok, StreamType
<1> HIDE DEF r
<1>12. Ok(r) /\ Later(t, r)
  BY <1>1, <1>2, <1>3, <1>4, <1>5, <1>6, <1>7, <1>8, <1>9, <1>10, <1>11 DEF States, r
<1> QED
  BY <1>12 DEF r

\* A packet, whatever it is, preserves the invariant.
LEMMA ProcessOk ==
    ASSUME NEW t, Ok(t), NEW g, OkSeg(g), NEW dup3 \in BOOLEAN, dup3 => DupAcks,
           NEW full \in BOOLEAN
    PROVE  LET r == Process(t, g, dup3, full) IN Ok(r) /\ Later(t, r)
<1> DEFINE wnd == g.wnd
           rst == t.reset \/ g.rst
           w == [t EXCEPT !.peerWnd = wnd, !.reset = rst]
           r == Process(t, g, dup3, full)
           h == HandleByState(w, g, dup3, full)
<1>1. \/ r = Refuse(t, g)
      \/ t.state \notin {"CLOSED", "LISTEN"} /\ r = ProcessRst(w, g)
      \/ r = h
  BY DEF Process
<1>2. t \in StreamType /\ wnd \in 0..MaxWnd /\ rst \in BOOLEAN
  BY DEF Ok, OkSeg, StreamType
<1> HIDE DEF wnd, rst, r
<1>3. w \in StreamType
  BY <1>2 DEF StreamType
<1>4. /\ Same(t, w) /\ w.una = t.una /\ w.nxt = t.nxt /\ w.buf = t.buf /\ w.head = t.head
      /\ w.len = t.len /\ w.rhead = t.rhead /\ w.merged = t.merged /\ w.frags = t.frags
      /\ w.rcvNxt = t.rcvNxt /\ w.timers = t.timers
  BY <1>2 DEF StreamType, Same
<1> HIDE DEF w
<1>5. Ok(w)
  BY <1>3, <1>4, UntouchedOk
<1>6. Ok(Refuse(t, g)) /\ Later(t, Refuse(t, g))
  BY RefuseOk
<1>7. t.state \notin {"CLOSED", "LISTEN"} => Ok(ProcessRst(w, g)) /\ Later(w, ProcessRst(w, g))
  BY <1>4, <1>5, ProcessRstOk DEF Same
<1>8. Ok(h) /\ Later(w, h)
  BY <1>5, HandleByStateOk
<1> HIDE DEF h
<1>9. Later(t, w)
  BY <1>4, SameLater
<1>10. Ok(r) /\ Later(t, r)
  BY <1>1, <1>6, <1>7, <1>8, <1>9 DEF Later
<1> QED
  BY <1>10 DEF r

-----------------------------------------------------------------------------
(* The other parts of user_tcp_run. *)

\* After the timer ran out snd_nxt is snd_una: nothing is in flight.
LEMMA HandleRTOOk ==
    ASSUME NEW t, Untimed(t), NEW giveUp \in BOOLEAN
    PROVE  Ok(HandleRTO(t, giveUp)) /\ Later(t, HandleRTO(t, giveUp))
<1> DEFINE una == t.una
           b == [t EXCEPT !.nxt = una]
           l == b.lists \ {"control"}
           c == [b EXCEPT !.lists = l, !.waiting = TRUE]
           r == HandleRTO(t, giveUp)
<1>1. t \in StreamType /\ una \in 0..NxtCap
  BY DEF Untimed, StreamType, SeqNo, NxtCap
<1>2. \/ r = CloseAndDestroy(t)
      \/ t.state \in Retransmits /\ r \in {AddToControl(b), AddToSend(b), AddToSend(c)}
      \/ t.state \notin Retransmits /\ r = Fail(t, "assert")
  <2> HIDE DEF c, l, b
  <2>1. CASE giveUp
    BY <2>1 DEF HandleRTO
  <2>2. CASE ~giveUp /\ t.state = "SYN_RCVD"
    BY <2>2 DEF HandleRTO, Retransmits, b
  <2>3. CASE ~giveUp /\ t.state \in {"ESTABLISHED", "CLOSE_WAIT"}
    BY <2>3 DEF HandleRTO, Retransmits, b
  <2>4. CASE ~giveUp /\ t.state \in {"FIN_WAIT_1", "CLOSING", "LAST_ACK"}
    BY <2>4 DEF HandleRTO, Retransmits, b, c, l
  <2>5. CASE ~giveUp /\ t.state \notin Retransmits
    BY <2>5 DEF HandleRTO, Retransmits
  <2> QED
    BY <2>1, <2>2, <2>3, <2>4, <2>5 DEF Retransmits
<1> HIDE DEF r
<1>3. CASE r = CloseAndDestroy(t)
  BY <1>3, DestroyOk DEF r
<1>4. CASE t.state \notin Retransmits /\ r = Fail(t, "assert")
  <2>1. Ok(t)
    BY <1>4 DEF Ok, Untimed, StreamInv, FlightInv, Retransmits, Transmitting
  <2>2. Ok(r) /\ Same(t, r)
    BY <1>4, <2>1, FailOk
  <2> QED
    BY <2>2, SameLater DEF r
<1>5. CASE t.state \in Retransmits /\ r \in {AddToControl(b), AddToSend(b), AddToSend(c)}
  <2> HIDE DEF una
  <2>1. b \in StreamType
    BY <1>1 DEF StreamType
  <2>2. /\ Same(t, b) /\ b.una = t.una /\ b.nxt = una /\ b.buf = t.buf /\ b.head = t.head
        /\ b.len = t.len /\ b.rhead = t.rhead /\ b.merged = t.merged /\ b.frags = t.frags
        /\ b.rcvNxt = t.rcvNxt /\ b.timers = t.timers
    BY <1>1 DEF StreamType, Same
  <2> HIDE DEF b
  <2>3. SendInv(b) /\ RecvInv(b) /\ TimerInv(b)
    BY <1>5, <2>2 DEF Untimed, SendInv, RecvInv, TimerInv, Same, Retransmits, una
  <2>4. ~DupAcks => FlightInv(b)
    <3>1. t.una \in Nat /\ t.head \in Nat
      BY <1>1 DEF StreamType, SeqNo
    <3> QED
      BY <2>2, <3>1 DEF Untimed, FlightInv, Same, una
  <2>5. Ok(b)
    BY <2>1, <2>3, <2>4 DEF Ok, StreamInv
  <2>6. l \in SUBSET {"control", "send", "ack"}
    BY <2>1 DEF StreamType
  <2> HIDE DEF l
  <2>7. c \in StreamType
    BY <2>1, <2>6 DEF StreamType
  <2>8. /\ Same(b, c) /\ c.una = b.una /\ c.nxt = b.nxt /\ c.buf = b.buf /\ c.head = b.head
        /\ c.len = b.len /\ c.rhead = b.rhead /\ c.merged = b.merged /\ c.frags = b.frags
        /\ c.rcvNxt = b.rcvNxt /\ c.timers = b.timers
    BY <2>1 DEF StreamType, Same
  <2> HIDE DEF c
  <2>9. Ok(c)
    BY <2>5, <2>7, <2>8, UntouchedOk
  <2>10. Ok(AddToControl(b)) /\ Same(b, AddToControl(b))
    BY <2>5, AddToControlOk
  <2>11. Ok(AddToSend(b)) /\ Same(b, AddToSend(b))
    BY <2>5, AddToSendOk
  <2>12. Ok(AddToSend(c)) /\ Same(c, AddToSend(c))
    BY <2>9, AddToSendOk
  <2>13. Ok(r) /\ Same(t, r)
    BY <1>5, <2>2, <2>8, <2>10, <2>11, <2>12 DEF Same
  <2> QED
    BY <2>13, SameLater DEF r
<1> QED
  BY <1>2, <1>3, <1>4, <1>5

\* a change of the lists, queues, counters and marks only
Marked(t, r) ==
    /\ r.alive = t.alive /\ r.state = t.state /\ r.finSent = t.finSent
    /\ r.una = t.una /\ r.nxt = t.nxt /\ r.buf = t.buf /\ r.head = t.head
    /\ r.len = t.len /\ r.rhead = t.rhead /\ r.merged = t.merged /\ r.frags = t.frags
    /\ r.rcvNxt = t.rcvNxt /\ r.timers = t.timers

\* Lists, queue marks and counters are not something the invariant speaks of.
LEMMA MarkedOk ==
    ASSUME NEW t, Ok(t), NEW r \in StreamType, Marked(t, r)
    PROVE  Ok(r) /\ Same(t, r)
BY UntouchedOk DEF Marked, Same

\* The control list gets the stream back.
LEMMA StopWaitingOk ==
    ASSUME NEW t, Ok(t), NEW other
    PROVE  Ok(StopWaiting(t, other)) /\ Same(t, StopWaiting(t, other))
<1> DEFINE w == [t EXCEPT !.waiting = FALSE]
<1>1. t \in StreamType
  BY DEF Ok
<1>2. w \in StreamType /\ Marked(t, w)
  BY <1>1 DEF StreamType, Marked
<1>3. StopWaiting(t, other) \in {t, AddToControl(w)}
  BY DEF StopWaiting
<1> HIDE DEF w
<1>4. Ok(w) /\ Same(t, w)
  BY <1>2, MarkedOk
<1>5. Ok(AddToControl(w)) /\ Same(w, AddToControl(w))
  BY <1>4, AddToControlOk
<1> QED
  BY <1>3, <1>4, <1>5 DEF Same

\* ack_cnt starts again at 0.
LEMMA AcksWrittenOk ==
    ASSUME NEW t, Ok(t)
    PROVE  Ok(AcksWritten(t)) /\ Same(t, AcksWritten(t))
<1> DEFINE zero == 0
           l == t.lists \ {"ack"}
           r == [t EXCEPT !.ackCnt = zero, !.wack = FALSE, !.lists = l]
<1>1. t \in StreamType /\ l \in SUBSET {"control", "send", "ack"}
  BY DEF Ok, StreamType
<1>2. AcksWritten(t) = r /\ zero \in 0..(AckMod - 1)
  BY DEF AcksWritten
<1> HIDE DEF zero, l
<1>3. r \in StreamType
  BY <1>1, <1>2 DEF StreamType
<1>4. Marked(t, r)
  BY <1>1 DEF StreamType, Marked
<1> QED
  BY <1>2, <1>3, <1>4, MarkedOk

\* MarkedOk where lists, the only field that changes, loses an entry
LEMMA OffListOk ==
    ASSUME NEW t, Ok(t), NEW which
    PROVE  LET r == [t EXCEPT !.lists = @ \ {which}] IN Ok(r) /\ Same(t, r)
<1> DEFINE l == t.lists \ {which}
           r == [t EXCEPT !.lists = l]
<1>1. t \in StreamType /\ l \in SUBSET {"control", "send", "ack"}
  BY DEF Ok, StreamType
<1> HIDE DEF l
<1>2. r \in StreamType /\ Marked(t, r)
  BY <1>1 DEF StreamType, Marked
<1>3. Ok(r) /\ Same(t, r)
  BY <1>2, MarkedOk
<1> QED
  BY <1>3 DEF l

\* The control packet of every state; only a FIN of a closed stream sets finSent.
LEMMA SendControlPktOk ==
    ASSUME NEW t, Ok(t)
    PROVE  Ok(SendControlPkt(t)) /\ Later(t, SendControlPkt(t))
<1> DEFINE r == SendControlPkt(t)
<1>1. \/ t.state = "SYN_RCVD" /\ r = SendSynAck(t)
      \/ t.state \in {"LAST_ACK", "FIN_WAIT_1", "CLOSING"} /\ r = SendFin(t)
      \/ r = DestroyTcpStream(t)
      \/ r = Emit(t)
  <2>1. CASE t.state \in {"SYN_RCVD", "LAST_ACK", "FIN_WAIT_1", "CLOSED"}
    BY <2>1 DEF SendControlPkt
  <2>2. CASE t.state = "CLOSING"
    BY <2>2 DEF SendControlPkt
  <2>3. CASE t.state \notin {"SYN_RCVD", "LAST_ACK", "FIN_WAIT_1", "CLOSED", "CLOSING"}
    BY <2>3 DEF SendControlPkt
  <2> QED
    BY <2>1, <2>2, <2>3
<1> HIDE DEF r
<1>2. t.state = "SYN_RCVD" => Ok(SendSynAck(t)) /\ Same(t, SendSynAck(t))
  BY SendSynAckOk
<1>3. t.state \in {"LAST_ACK", "FIN_WAIT_1", "CLOSING"} => Ok(SendFin(t)) /\ Later(t, SendFin(t))
  BY SendFinOk, LaterIfClosed DEF AfterClose
<1>4. Ok(DestroyTcpStream(t)) /\ Later(t, DestroyTcpStream(t))
  BY OkUntimed, DestroyOk
<1>5. Ok(Emit(t)) /\ Same(t, Emit(t))
  BY EmitOk
<1>6. Ok(r) /\ Later(t, r)
  BY <1>1, <1>2, <1>3, <1>4, <1>5, SameLater
<1> QED
  BY <1>6 DEF r

\* The final sequence number fits: without a send buffer and before any FIN,
\* at most the SYN has gone out.
LEMMA CloseRequestedOk ==
    ASSUME NEW t, Ok(t), ~Closing(t)
    PROVE  Ok(CloseRequested(t))
<1> DEFINE onq == t.onq \ {"closeq"}
           fss == FinalSeq(t)
           timers == t.timers \ {"timeout"}
           c == [t EXCEPT !.onq = onq, !.fss = fss, !.timers = timers]
           q == c.onq \cup {"closeq_int"}
           st == CloseState(c.state)
           i == [c EXCEPT !.onq = q]
           w == [c EXCEPT !.state = st, !.waiting = TRUE]
           m == [c EXCEPT !.state = st]
           r == CloseRequested(t)
<1>1. t \in StreamType
  BY DEF Ok
<1>2. r \in {CloseAndDestroy(c), c, i, w, AddToControl(m)}
  BY DEF CloseRequested
<1>3. fss \in SeqNo
  <2>1. /\ t.head \in SeqNo /\ t.len \in 0..SendSize /\ t.nxt \in 0..NxtCap /\ SendInv(t)
        /\ ~t.finSent
    BY <1>1 DEF StreamType, Ok, StreamInv, Closing
  <2> QED
    BY <2>1 DEF FinalSeq, SendInv, SeqNo, NxtCap
<1>4. /\ onq \in SUBSET {"sendq", "ackq", "closeq", "closeq_int"}
      /\ timers \in SUBSET {"rto", "timewait", "timeout"}
      /\ "rto" \in timers <=> "rto" \in t.timers
      /\ "timewait" \in timers <=> "timewait" \in t.timers
  BY <1>1 DEF StreamType
<1> HIDE DEF onq, fss, timers, r
<1>5. c \in StreamType
  BY <1>1, <1>3, <1>4 DEF StreamType
<1>6. /\ Same(t, c) /\ c.una = t.una /\ c.nxt = t.nxt /\ c.buf = t.buf /\ c.head = t.head
      /\ c.len = t.len /\ c.rhead = t.rhead /\ c.merged = t.merged /\ c.frags = t.frags
      /\ c.rcvNxt = t.rcvNxt /\ c.timers = timers
  BY <1>1 DEF StreamType, Same
<1> HIDE DEF c
<1>7. Ok(c)
  <2>1. SendInv(c) /\ RecvInv(c)
    BY <1>6 DEF Ok, StreamInv, SendInv, RecvInv, Same
  <2>2. TimerInv(c) /\ (~DupAcks => FlightInv(c))
    BY <1>4, <1>6 DEF Ok, StreamInv, TimerInv, FlightInv, Same
  <2> QED
    BY <1>5, <2>1, <2>2 DEF Ok, StreamInv
<1>8. Ok(CloseAndDestroy(c))
  BY <1>7, OkUntimed, DestroyOk
<1>9. Ok(i)
  <2>1. q \in SUBSET {"sendq", "ackq", "closeq", "closeq_int"}
    BY <1>5 DEF StreamType
  <2> HIDE DEF q
  <2>2. i \in StreamType /\ Marked(c, i)
    BY <1>5, <2>1 DEF StreamType, Marked
  <2> HIDE DEF i
  <2> QED
    BY <1>7, <2>2, MarkedOk
<1>10. /\ st \in States
       /\ st = c.state \/ (c.state = "ESTABLISHED" /\ st = "FIN_WAIT_1")
                       \/ (c.state = "CLOSE_WAIT" /\ st = "LAST_ACK")
  <2>1. c.state \in States
    BY <1>5 DEF StreamType
  <2> QED
    BY <2>1 DEF CloseState, States
<1> HIDE DEF i, q, st
<1>11. ASSUME NEW x \in StreamType, Moved(c, x), x.state = st, x.rcvNxt = c.rcvNxt
       PROVE  Ok(x)
  <2>1. CASE st = c.state
    BY <1>7, <1>11, <2>1, MarkedOk DEF Marked, Moved
  <2>2. CASE c.state \in {"ESTABLISHED", "CLOSE_WAIT"} /\ st \in {"FIN_WAIT_1", "LAST_ACK"}
    BY <1>7, <1>11, <2>2, MovedOk DEF Ended, Transmitting
  <2> QED
    BY <1>10, <2>1, <2>2
<1>12. Ok(w) /\ Ok(m)
  <2>1. w \in StreamType /\ m \in StreamType
    BY <1>5, <1>10 DEF StreamType
  <2>2. Moved(c, w) /\ w.state = st /\ w.rcvNxt = c.rcvNxt
    BY <1>5 DEF StreamType, Moved
  <2>3. Moved(c, m) /\ m.state = st /\ m.rcvNxt = c.rcvNxt
    BY <1>5 DEF StreamType, Moved
  <2> HIDE DEF w, m
  <2> QED
    BY <1>11, <2>1, <2>2, <2>3
<1> HIDE DEF w, m
<1>13. Ok(AddToControl(m))
  BY <1>12, AddToControlOk
<1>14. Ok(r)
  BY <1>2, <1>7, <1>8, <1>9, <1>12, <1>13
<1> QED
  BY <1>14 DEF r
-----------------------------------------------------------------------------
(* The socket API. *)

\* recv() takes bytes, opens the window and may ask for an ACK.
LEMMA CopyToUserOk ==
    ASSUME NEW t, Ok(t), NEW n \in Nat, n <= t.merged
    PROVE  Ok(CopyToUser(t, n)) /\ Same(t, CopyToUser(t, n))
<1> DEFINE r == RBRemove(t, n)
           wnd == RcvSize - r.merged
           adv == t.needAdv /\ wnd > 1 /\ "ackq" \notin t.onq
           need == r.needAdv /\ ~adv
           onq == IF adv THEN r.onq \cup {"ackq"} ELSE r.onq
           e == [r EXCEPT !.rcvWnd = wnd, !.needAdv = need, !.onq = onq]
<1>1. r \in StreamType /\ RecvInv(r) /\ SameSend(t, r)
  BY RBRemoveOk DEF Ok, StreamInv
<1>2. CopyToUser(t, n) = e
  BY DEF CopyToUser
<1> HIDE DEF r
<1>3. r.merged \in 0..RcvSize
  BY <1>1 DEF StreamType
<1>4. wnd \in Nat
  BY <1>3
<1> HIDE DEF wnd, adv
<1>5. need \in BOOLEAN /\ onq \in SUBSET {"sendq", "ackq", "closeq", "closeq_int"}
  BY <1>1 DEF StreamType
<1> HIDE DEF need, onq
<1>6. Ok(r) /\ Same(t, r)
  BY <1>1, SameSendOk
<1>7. e \in StreamType
  BY <1>1, <1>4, <1>5 DEF StreamType
<1>8. Marked(r, e)
  BY <1>1 DEF StreamType, Marked
<1> HIDE DEF e
<1>9. Ok(e) /\ Same(r, e)
  BY <1>6, <1>7, <1>8, MarkedOk
<1> QED
  BY <1>2, <1>6, <1>9 DEF Same

\* send() appends what fits.
LEMMA CopyFromUserOk ==
    ASSUME NEW t, Ok(t), NEW n \in Nat, t.len + n <= SendSize,
           t.head + t.len + n <= AppBytes + 1
    PROVE  LET r == [t EXCEPT !.buf = TRUE, !.len = @ + n] IN Ok(r) /\ Same(t, r)
<1> DEFINE l == t.len + n
           r == [t EXCEPT !.buf = TRUE, !.len = l]
<1>1. t \in StreamType /\ t.len \in 0..SendSize /\ t.head \in SeqNo
  BY DEF Ok, StreamType
<1>2. l \in 0..SendSize /\ t.head + l <= AppBytes + 1
  BY <1>1 DEF SeqNo
<1> HIDE DEF l
<1>3. r \in StreamType
  BY <1>1, <1>2 DEF StreamType
<1>4. /\ Same(t, r) /\ r.una = t.una /\ r.nxt = t.nxt /\ r.buf /\ r.head = t.head
      /\ r.len = l /\ r.rhead = t.rhead /\ r.merged = t.merged /\ r.frags = t.frags
      /\ r.rcvNxt = t.rcvNxt /\ r.timers = t.timers
  BY <1>1 DEF StreamType, Same
<1> HIDE DEF r
<1>5. SendInv(r) /\ RecvInv(r) /\ TimerInv(r)
  BY <1>2, <1>4 DEF Ok, StreamInv, SendInv, RecvInv, TimerInv, Same
<1>6. ~DupAcks => FlightInv(r)
  BY <1>4 DEF Ok, StreamInv, FlightInv, Same
<1>7. Ok(r) /\ Same(t, r)
  BY <1>3, <1>4, <1>5, <1>6 DEF Ok, StreamInv
<1> QED
  BY <1>7 DEF r, l

-----------------------------------------------------------------------------
(* The inductive invariant. *)
RestOK ==
    /\ queue \in [{"acceptq", "sendq", "ackq", "closeq", "destroyq"} -> Nat]
    /\ stack \in {"start", "rtm", "timewait", "timeout", "sendq", "ackq",
                  "closeq", "destroyq", "control", "ack", "data", "dataend",
                  "packet"}
    /\ flushed \in Nat
    /\ app \in {"none", "bind", "idle", "recv", "recvwait", "send", "sendwait",
                "notify", "close", "done"}
    /\ arp \in BOOLEAN

IInv == TypeOK /\ ConnInv

\* The invariant by what it says of the stream and of the rest.
LEMMA IInvParts == IInv <=> Ok(s) /\ RestOK /\ CloseInv
BY DEF IInv, TypeOK, ConnInv, Ok, RestOK

\* A step that leaves the stream good and starts no close preserves the invariant.
LEMMA StepOk ==
    ASSUME IInv, Ok(s'), Later(s, s'), RestOK', queue'.closeq = queue.closeq,
           app = "done" => app' = "done"
    PROVE  IInv'
<1>1. CloseInv'
  BY DEF IInv, ConnInv, CloseInv, Later, Closing
<1>2. Ok(s)'
  BY DEF Ok, StreamType, StreamInv, SendInv, RecvInv, TimerInv, FlightInv
<1> QED
  BY <1>1, <1>2 DEF IInv, TypeOK, ConnInv, Ok, RestOK

\* taken off the RTO store before HandleRTO decides
LEMMA UntimedOk ==
    ASSUME NEW t, Ok(t)
    PROVE  Untimed(RemoveFromRTO(t)) /\ Same(t, RemoveFromRTO(t))
<1> DEFINE r == RemoveFromRTO(t)
<1>1. Untimed(t) /\ t \in StreamType
  BY OkUntimed DEF Ok
<1>2. r \in StreamType
  BY <1>1 DEF RemoveFromRTO, StreamType
<1>3. /\ r.alive = t.alive /\ r.state = t.state /\ r.una = t.una /\ r.nxt = t.nxt
      /\ r.finSent = t.finSent /\ r.buf = t.buf /\ r.head = t.head /\ r.len = t.len
      /\ r.rhead = t.rhead /\ r.merged = t.merged /\ r.frags = t.frags /\ r.rcvNxt = t.rcvNxt
      /\ r.timers = t.timers \ {"rto"}
  BY <1>1 DEF RemoveFromRTO, StreamType
<1> HIDE DEF r
<1>4. SendInv(r) /\ RecvInv(r) /\ TimerInv(r)
  BY <1>1, <1>3 DEF Untimed, SendInv, RecvInv, TimerInv
<1>5. Untimed(r) /\ Same(t, r)
  BY <1>1, <1>2, <1>3, <1>4 DEF Untimed, Same
<1> QED
  BY <1>5 DEF r

\* MarkedOk where onq loses an entry.
LEMMA OffQueueOk ==
    ASSUME NEW t, Ok(t), NEW q
    PROVE  LET r == [t EXCEPT !.onq = @ \ {q}] IN Ok(r) /\ Same(t, r)
<1> DEFINE onq == t.onq \ {q}
           r == [t EXCEPT !.onq = onq]
<1>1. t \in StreamType /\ onq \in SUBSET {"sendq", "ackq", "closeq", "closeq_int"}
  BY DEF Ok, StreamType
<1> HIDE DEF onq
<1>2. r \in StreamType /\ Marked(t, r)
  BY <1>1 DEF StreamType, Marked
<1>3. Ok(r) /\ Same(t, r)
  BY <1>2, MarkedOk
<1> QED
  BY <1>3 DEF onq

\* a SYN/ACK that could not be sent is sent as a first one
LEMMA ResendSynAckOk ==
    ASSUME NEW t, Ok(t), t.state = "SYN_RCVD"
    PROVE  LET r == [t EXCEPT !.nxt = 0] IN Ok(r) /\ Same(t, r)
<1> DEFINE zero == 0
           r == [t EXCEPT !.nxt = zero]
<1>1. t \in StreamType /\ zero \in 0..NxtCap /\ t.una = 0
  BY DEF Ok, StreamType, NxtCap, StreamInv, SendInv
<1>2. zero = 0
  OBVIOUS
<1> HIDE DEF zero
<1>3. r \in StreamType
  BY <1>1 DEF StreamType
<1>4. /\ Same(t, r) /\ r.una = t.una /\ r.nxt = zero /\ r.buf = t.buf /\ r.head = t.head
      /\ r.len = t.len /\ r.rhead = t.rhead /\ r.merged = t.merged /\ r.frags = t.frags
      /\ r.rcvNxt = t.rcvNxt /\ r.timers = t.timers
  BY <1>1 DEF StreamType, Same
<1> HIDE DEF r
<1>5. SendInv(r) /\ RecvInv(r) /\ TimerInv(r)
  BY <1>1, <1>2, <1>4 DEF Ok, StreamInv, SendInv, RecvInv, TimerInv, Same
<1>6. ~DupAcks => FlightInv(r)
  BY <1>1, <1>2, <1>4 DEF FlightInv, Same, Transmitting
<1>7. Ok(r) /\ Same(t, r)
  BY <1>3, <1>4, <1>5, <1>6 DEF Ok, StreamInv
<1> QED
  BY <1>7 DEF r, zero

\* Taking an entry off a queue other than closeq leaves closeq alone.
LEMMA DrainRest ==
    ASSUME RestOK, NEW q \in {"sendq", "ackq", "destroyq"},
           NEW next \in {"ackq", "closeq", "control"}, NEW handled, Drain(q, next, handled)
    PROVE  RestOK' /\ queue'.closeq = queue.closeq /\ app' = app
<1>1. \/ queue' = [queue EXCEPT ![q] = queue[q] - 1] /\ queue[q] > 0 /\ stack' = stack
      \/ queue' = queue /\ stack' = next
  BY DEF Drain
<1>2. flushed' = flushed /\ app' = app /\ arp' = arp
  BY DEF Drain
<1>3. stack' \in {"start", "rtm", "timewait", "timeout", "sendq", "ackq",
                  "closeq", "destroyq", "control", "ack", "data", "dataend", "packet"}
  BY <1>1 DEF RestOK
<1>4. /\ queue' \in [{"acceptq", "sendq", "ackq", "closeq", "destroyq"} -> Nat]
      /\ queue'.closeq = queue.closeq
  BY <1>1 DEF RestOK
<1> QED
  BY <1>2, <1>3, <1>4 DEF RestOK

\* A new stream satisfies the invariant, and nobody has closed it.
LEMMA BlankOk == Ok(Blank) /\ Ok(CreateTcpStream) /\ ~Closing(Blank) /\ ~Closing(CreateTcpStream)
<1>1. /\ 0 \in SeqNo /\ 1 \in SeqNo /\ 0 \in PeerSeqNo /\ 1 \in PeerSeqNo /\ 0 \in 0..NxtCap
      /\ 0 \in 0..SendSize /\ 0 \in 0..MaxWnd /\ 0 \in 0..RcvSize /\ 0 \in 0..(AckMod - 1)
      /\ InitWnd \in Nat /\ "CLOSED" \in States /\ "LISTEN" \in States
  BY DEF SeqNo, PeerSeqNo, NxtCap, States
<1>2. Blank \in StreamType
  BY <1>1 DEF Blank, StreamType
<1>3. CreateTcpStream \in StreamType
  BY <1>1, <1>2 DEF CreateTcpStream, StreamType
<1>4. /\ Blank.state = "CLOSED" /\ ~Blank.alive /\ ~Blank.finSent /\ Blank.una = 0
      /\ Blank.nxt = 0 /\ Blank.head = 1 /\ Blank.len = 0 /\ Blank.timers = {}
      /\ Blank.rhead = 1 /\ Blank.merged = 0 /\ Blank.frags = {} /\ Blank.rcvNxt = 0
  BY DEF Blank
<1> DEFINE c == CreateTcpStream
<1>5. /\ c.state = "LISTEN" /\ ~c.finSent /\ c.una = 0
      /\ c.nxt = 0 /\ c.head = 1 /\ c.len = 0 /\ c.timers = {}
      /\ c.rhead = 1 /\ c.merged = 0 /\ c.frags = {} /\ c.rcvNxt = 0
  BY <1>2, <1>4 DEF CreateTcpStream, StreamType
<1> HIDE DEF c
<1>6. SendInv(Blank) /\ RecvInv(Blank) /\ TimerInv(Blank) /\ FlightInv(Blank)
  BY <1>4 DEF SendInv, RecvInv, TimerInv, FlightInv
<1>7. SendInv(c) /\ RecvInv(c) /\ TimerInv(c)
  BY <1>5 DEF SendInv, RecvInv, TimerInv
<1>8. FlightInv(c)
  BY <1>5 DEF FlightInv, Transmitting, Retransmits
<1> QED
  BY <1>2, <1>3, <1>4, <1>5, <1>6, <1>7, <1>8 DEF Ok, StreamInv, Closing, AfterClose, c

\* The initial states satisfy the invariant.
LEMMA InitOk == Init => IInv
<1> SUFFICES ASSUME Init PROVE IInv
  OBVIOUS
<1>1. s = Blank
  BY DEF Init
<1>2. Ok(s) /\ ~Closing(s)
  BY <1>1, BlankOk
<1>3. RestOK /\ queue.closeq = 0
  BY DEF Init, RestOK
<1>4. CloseInv
  BY <1>2, <1>3 DEF CloseInv, Closing
<1> QED
  BY <1>2, <1>3, <1>4, IInvParts

\* The SYN is a segment as OkSeg describes it.
LEMMA SynOk == ASSUME NEW g \in Syn PROVE OkSeg(g)
<1>1. /\ g.syn = TRUE /\ g.rst = FALSE /\ g.ack = FALSE /\ g.fin = FALSE
      /\ g.seq = 0 /\ g.ackSeq = 0 /\ g.len = 0 /\ g.wnd = MaxWnd
  BY DEF Syn
<1>2. 0 \in 0..(AppBytes + 2) /\ MaxWnd \in 0..MaxWnd
  OBVIOUS
<1>3. ~(g.len > 0) /\ ~g.fin /\ g.syn
  BY <1>1
<1>4. g.seq \in Nat /\ g.len \in Nat /\ g.ackSeq \in 0..(AppBytes + 2) /\ g.wnd \in 0..MaxWnd
  BY <1>1, <1>2
<1>5. g.syn \in BOOLEAN /\ g.rst \in BOOLEAN /\ g.ack \in BOOLEAN /\ g.fin \in BOOLEAN
  BY <1>1
<1> QED
  BY <1>3, <1>4, <1>5 DEF OkSeg

\* So is every segment that carries an ACK.
LEMMA CarrierOk == ASSUME NEW g \in Carriers PROVE OkSeg(g)
<1>1. /\ g.syn = FALSE /\ g.rst \in BOOLEAN /\ g.ack = TRUE /\ g.fin \in BOOLEAN
      /\ g.seq \in 1..(PeerBytes + 2) /\ g.ackSeq \in 1..(AppBytes + 2)
      /\ g.len \in 0..PeerBytes /\ g.wnd \in 0..MaxWnd
  BY DEF Carriers
<1>2. /\ g.len > 0 => g.seq + g.len <= PeerBytes + 1
      /\ g.fin => g.seq + g.len = PeerBytes + 1
  BY DEF Carriers
<1>3. /\ g.seq \in Nat /\ g.seq >= 1 /\ g.len \in Nat
      /\ g.ackSeq \in 0..(AppBytes + 2) /\ g.ackSeq >= 1
  BY <1>1
<1> QED
  BY <1>1, <1>2, <1>3 DEF OkSeg

\* So is every segment that may arrive.
LEMMA ArrivingOk == ASSUME NEW g \in Arriving PROVE OkSeg(g)
<1>1. g \in Syn \/ g \in Carriers
  BY DEF Arriving
<1> QED
  BY <1>1, SynOk, CarrierOk

\* what a failing step leaves
LEMMA FailLater ==
    ASSUME NEW t, Ok(t), NEW why \in {"assert", "exit", "use_after_free", "self_deadlock",
             "null_socket", "overread"}
    PROVE  Ok(Fail(t, why)) /\ Later(t, Fail(t, why))
BY FailOk, SameLater

\* The timestamp of a segment asks for an ACK and no more.
LEMMA CheckTimestampOk ==
    ASSUME NEW t, Ok(t), NEW g, NEW old
    PROVE  LET u == CheckTimestamp(t, g, old) IN Ok(u) /\ Same(t, u)
<1>1. Ok(EnqueueAckList(t, "NOW")) /\ Same(t, EnqueueAckList(t, "NOW"))
  BY EnqueueAckListOk
<1> QED
  BY <1>1 DEF CheckTimestamp, Same

\* steps that leave the stream as it is
Pause ==
    \/ NoPacket \/ LearnAddress \/ StartRound \/ ControlBlocked \/ DataBlocked
    \/ \E g \in Arriving : NoTimestamp(g)

\* a step of user_tcp_run: an action of the stack thread preserves the invariant
LEMMA StackOk == ASSUME IInv, Stack PROVE IInv'
<1>1. Ok(s) /\ RestOK /\ CloseInv
  BY IInvParts
<1>2. Later(s, s)
  BY DEF Later
<1>3. CASE PassiveOpen
  <2>1. PICK g \in Syn : s' = Process(CreateTcpStream, g, FALSE, FALSE)
    BY <1>3 DEF PassiveOpen
  <2>2. OkSeg(g)
    BY SynOk
  <2>3. Ok(s') /\ Later(CreateTcpStream, s')
    BY <2>1, <2>2, BlankOk, ProcessOk
  <2>4. Later(s, s')
    BY <2>3, BlankOk DEF Later
  <2>5. RestOK' /\ queue' = queue /\ app' = app
    BY <1>1, <1>3 DEF PassiveOpen, RestOK
  <2> QED
    BY <2>3, <2>4, <2>5, StepOk
<1>4. CASE Pause
  <2>1. s' = s /\ queue' = queue /\ app' = app
    BY <1>4 DEF Pause, NoPacket, LearnAddress, StartRound, ControlBlocked, DataBlocked, NoTimestamp
  <2>2. RestOK'
    BY <1>1, <1>4 DEF Pause, NoPacket, LearnAddress, StartRound, ControlBlocked, DataBlocked,
                      NoTimestamp, RestOK
  <2> QED
    BY <1>1, <1>2, <2>1, <2>2, StepOk
<1>5. ASSUME NEW g \in Arriving, NEW old \in {FALSE, Timestamps},
             NEW dup3 \in {FALSE, DupAcks}, NEW full \in BOOLEAN,
             Receive(g, old, dup3, full)
      PROVE  IInv'
  <2> DEFINE u == CheckTimestamp(s, g, old)
  <2>1. s' = Process(u, g, dup3, full)
    BY <1>5 DEF Receive
  <2>2. OkSeg(g) /\ dup3 \in BOOLEAN /\ (dup3 => DupAcks)
    <3>1. OkSeg(g)
      BY ArrivingOk
    <3>2. CASE dup3 = FALSE
      BY <3>1, <3>2
    <3>3. CASE dup3 = DupAcks
      BY <3>1, <3>3
    <3> QED
      BY <3>2, <3>3
  <2>3. Ok(s') /\ Later(s, s')
    <3>1. Ok(u) /\ Same(s, u)
      BY <1>1, CheckTimestampOk
    <3> HIDE DEF u
    <3>2. Ok(s') /\ Later(u, s')
      BY <2>1, <2>2, <3>1, ProcessOk
    <3> QED
      BY <3>1, <3>2 DEF Same, Later, Closing
  <2>4. queue' = queue \/ queue' = [queue EXCEPT !.acceptq = @ + 1]
    BY <1>5 DEF Receive
  <2>5. stack' = "start" /\ flushed' = flushed /\ arp' = arp
        /\ (app' = app \/ (app = "recvwait" /\ app' = "recv"))
    BY <1>5 DEF Receive
  <2>6. RestOK' /\ queue'.closeq = queue.closeq
    BY <1>1, <2>4, <2>5 DEF RestOK
  <2> QED
    BY <2>3, <2>5, <2>6, StepOk
<1>6. CASE CheckRtmTimeout
  <2>1. s' = s \/ \E giveUp \in BOOLEAN : s' = HandleRTO(RemoveFromRTO(s), giveUp)
    BY <1>6 DEF CheckRtmTimeout
  <2>2. Untimed(RemoveFromRTO(s)) /\ Same(s, RemoveFromRTO(s))
    BY <1>1, UntimedOk
  <2>3. Ok(s') /\ Later(s, s')
    BY <1>1, <1>2, <2>1, <2>2, HandleRTOOk DEF Same, Later, Closing
  <2>4. RestOK' /\ queue' = queue /\ app' = app
    BY <1>1, <1>6 DEF CheckRtmTimeout, RestOK
  <2> QED
    BY <2>3, <2>4, StepOk
<1>7. CASE CheckTimewaitExpire \/ CheckConnectionTimeout
  <2>1. s' = s \/ s' = CloseAndDestroy(s)
    BY <1>7 DEF CheckTimewaitExpire, CheckConnectionTimeout
  <2>2. Ok(s') /\ Later(s, s')
    BY <1>1, <1>2, <2>1, OkUntimed, DestroyOk
  <2>3. RestOK' /\ queue' = queue /\ app' = app
    BY <1>1, <1>7 DEF CheckTimewaitExpire, CheckConnectionTimeout, RestOK
  <2> QED
    BY <2>2, <2>3, StepOk
<1>8. CASE HandleSendq
  <2> DEFINE e == [s EXCEPT !.onq = @ \ {"sendq"}]
  <2>1. Ok(e) /\ Same(s, e)
    BY <1>1, OffQueueOk
  <2>2. s' \in {s, Fail(s, "use_after_free"), AddToSend(e)}
    BY <1>8 DEF HandleSendq, Drain
  <2> HIDE DEF e
  <2>3. Ok(AddToSend(e)) /\ Same(e, AddToSend(e))
    BY <2>1, AddToSendOk
  <2>4. Ok(s') /\ Later(s, s')
    BY <1>1, <1>2, <2>1, <2>2, <2>3, FailLater DEF Same, Later, Closing
  <2>5. RestOK' /\ queue'.closeq = queue.closeq /\ app' = app
    BY <1>1, <1>8, DrainRest DEF HandleSendq
  <2> QED
    BY <2>4, <2>5, StepOk
<1>9. CASE HandleAckq
  <2> DEFINE e == [s EXCEPT !.onq = @ \ {"ackq"}]
  <2>1. Ok(e) /\ Same(s, e)
    BY <1>1, OffQueueOk
  <2>2. s' \in {s, Fail(s, "use_after_free"), EnqueueAckList(e, "AGGREGATE")}
    BY <1>9 DEF HandleAckq, Drain
  <2> HIDE DEF e
  <2>3. Ok(EnqueueAckList(e, "AGGREGATE")) /\ Same(e, EnqueueAckList(e, "AGGREGATE"))
    BY <2>1, EnqueueAckListOk
  <2>4. Ok(s') /\ Later(s, s')
    BY <1>1, <1>2, <2>1, <2>2, <2>3, FailLater DEF Same, Later, Closing
  <2>5. RestOK' /\ queue'.closeq = queue.closeq /\ app' = app
    BY <1>1, <1>9, DrainRest DEF HandleAckq
  <2> QED
    BY <2>4, <2>5, StepOk
<1>10. CASE HandleCloseq
  <2>1. CASE queue.closeq > 0
    <3>1. ~Closing(s) /\ app = "done" /\ queue.closeq = 1
      BY <1>1, <2>1 DEF CloseInv, Closing, RestOK
    <3>2. s' \in {Fail(s, "use_after_free"), CloseRequested(s)}
      BY <1>10, <2>1 DEF HandleCloseq, Drain
    <3>3. Ok(s')
      BY <1>1, <3>1, <3>2, CloseRequestedOk, FailLater
    <3>4. queue' = [queue EXCEPT !.closeq = @ - 1] /\ stack' = stack /\ flushed' = flushed
          /\ app' = app /\ arp' = arp
      BY <1>10, <2>1 DEF HandleCloseq, Drain
    <3>5. RestOK' /\ queue'.closeq = 0
      BY <1>1, <3>1, <3>4 DEF RestOK
    <3>6. CloseInv'
      BY <3>1, <3>4, <3>5 DEF CloseInv
    <3>7. StreamInv(s)' /\ (s \in StreamType)'
      BY <3>3 DEF Ok, StreamType, StreamInv, SendInv, RecvInv, TimerInv, FlightInv
    <3> QED
      BY <3>5, <3>6, <3>7 DEF IInv, TypeOK, ConnInv, RestOK
  <2>2. CASE ~(queue.closeq > 0)
    <3>1. s' = s /\ queue' = queue /\ stack' = "destroyq" /\ flushed' = flushed
          /\ app' = app /\ arp' = arp
      BY <1>10, <2>2 DEF HandleCloseq, Drain
    <3>2. RestOK'
      BY <1>1, <3>1 DEF RestOK
    <3> QED
      BY <1>1, <1>2, <3>1, <3>2, StepOk
  <2> QED
    BY <2>1, <2>2
<1>11. CASE HandleDestroyq
  <2>1. s' \in {s, Fail(s, "use_after_free"), DestroyTcpStream(s)}
    BY <1>11 DEF HandleDestroyq, Drain
  <2>2. Ok(s') /\ Later(s, s')
    BY <1>1, <1>2, <2>1, FailLater, OkUntimed, DestroyOk
  <2>3. RestOK' /\ queue'.closeq = queue.closeq /\ app' = app
    BY <1>1, <1>11, DrainRest DEF HandleDestroyq
  <2> QED
    BY <2>2, <2>3, StepOk
<1>12. CASE WriteControlList
  <2> DEFINE e == [s EXCEPT !.lists = @ \ {"control"}]
             z == [s EXCEPT !.nxt = 0]
  <2>1. Ok(e) /\ Same(s, e)
    BY <1>1, OffListOk
  <2>2. s' \in {s, SendControlPkt(e)} \/ (s.state = "SYN_RCVD" /\ s' = z)
    BY <1>12 DEF WriteControlList
  <2> HIDE DEF e
  <2>3. Ok(SendControlPkt(e)) /\ Later(e, SendControlPkt(e))
    BY <2>1, SendControlPktOk
  <2>4. s.state = "SYN_RCVD" => Ok(z) /\ Same(s, z)
    BY <1>1, ResendSynAckOk
  <2> HIDE DEF z
  <2>5. Ok(s') /\ Later(s, s')
    BY <1>1, <1>2, <2>1, <2>2, <2>3, <2>4, SameLater DEF Later
  <2>6. RestOK' /\ queue' = queue /\ app' = app
    BY <1>1, <1>12 DEF WriteControlList, RestOK
  <2> QED
    BY <2>5, <2>6, StepOk
<1>13. CASE WriteAckList
  <2> DEFINE d == AcksWritten(s)
  <2>1. \E x \in {Emit(d), s, d} : s' \in {s, StopWaiting(x, "send")}
    BY <1>13 DEF WriteAckList
  <2>2. Ok(d) /\ Same(s, d)
    BY <1>1, AcksWrittenOk
  <2> HIDE DEF d
  <2>3. Ok(Emit(d)) /\ Same(d, Emit(d))
    BY <2>2, EmitOk
  <2>4. PICK x \in {Emit(d), s, d} : s' \in {s, StopWaiting(x, "send")}
    BY <2>1
  <2>5. Ok(x) /\ Same(s, x)
    BY <1>1, <2>2, <2>3, <2>4 DEF Same
  <2>6. Ok(StopWaiting(x, "send")) /\ Same(x, StopWaiting(x, "send"))
    BY <2>5, StopWaitingOk
  <2>7. Ok(s') /\ Later(s, s')
    BY <1>1, <1>2, <2>4, <2>5, <2>6 DEF Same, Later, Closing
  <2>8. RestOK' /\ queue' = queue /\ app' = app
    BY <1>1, <1>13 DEF WriteAckList, RestOK
  <2> QED
    BY <2>7, <2>8, StepOk
<1>14. CASE WriteDataList
  <2>1. CASE "send" \notin s.lists
    <3>1. s' = s /\ queue' = queue /\ app' = app /\ stack' = "packet" /\ flushed' = flushed
          /\ arp' = arp
      BY <1>14, <2>1 DEF WriteDataList
    <3>2. RestOK'
      BY <1>1, <3>1 DEF RestOK
    <3> QED
      BY <1>1, <1>2, <3>1, <3>2, StepOk
  <2>2. CASE "send" \in s.lists
    <3>1. PICK cwnd \in 1..(AppBytes + 1), wack \in BOOLEAN :
            LET w == MinOf(cwnd, s.peerWnd)
                f == FlushSendBuffer(s, w, wack)
            IN  \/ s' = s /\ flushed' = 0 /\ stack' \in {"packet", "dataend"}
                \/ /\ s.state \in Transmitting
                   /\ s' = f[1]
                   /\ flushed' = IF f[2] < 0 THEN 0 ELSE f[2]
                   /\ stack' \in {"packet", "dataend"}
      <4>1. PICK cwnd \in 1..(AppBytes + 1), wack \in BOOLEAN :
              LET r == CASE s.state = "ESTABLISHED" /\ "control" \in s.lists ->
                              <<s, -1>>
                         [] \/ s.state = "ESTABLISHED" /\ "control" \notin s.lists
                            \/ s.state \in {"CLOSE_WAIT", "FIN_WAIT_1", "LAST_ACK"} ->
                              FlushSendBuffer(s, MinOf(cwnd, s.peerWnd), wack)
                         [] OTHER -> <<s, 0>>
              IN  /\ s' = r[1]
                  /\ flushed' = IF r[2] < 0 THEN 0 ELSE r[2]
                  /\ stack' = IF r[2] < 0 THEN "packet" ELSE "dataend"
        BY <1>14, <2>2 DEF WriteDataList
      <4> DEFINE f == FlushSendBuffer(s, MinOf(cwnd, s.peerWnd), wack)
      <4>2. CASE s.state = "ESTABLISHED" /\ "control" \in s.lists
        BY <4>1, <4>2
      <4>3. CASE \/ s.state = "ESTABLISHED" /\ "control" \notin s.lists
                 \/ s.state \in {"CLOSE_WAIT", "FIN_WAIT_1", "LAST_ACK"}
        <5>1. s' = f[1] /\ flushed' = (IF f[2] < 0 THEN 0 ELSE f[2])
              /\ stack' = IF f[2] < 0 THEN "packet" ELSE "dataend"
          BY <4>1, <4>3
        <5> QED
          BY <4>3, <5>1 DEF Transmitting
      <4>4. CASE s.state \notin {"ESTABLISHED", "CLOSE_WAIT", "FIN_WAIT_1", "LAST_ACK"}
        BY <4>1, <4>4
      <4> QED
        BY <4>2, <4>3, <4>4
    <3> DEFINE w == MinOf(cwnd, s.peerWnd)
               f == FlushSendBuffer(s, w, wack)
    <3>2. w \in Nat
      <4>1. s.peerWnd \in 0..MaxWnd
        BY <1>1 DEF Ok, StreamType
      <4> QED
        BY <4>1 DEF MinOf
    <3> HIDE DEF w
    <3>3. s.state \in Transmitting => Ok(f[1]) /\ Same(s, f[1]) /\ f[2] \in Int
      BY <1>1, <3>2, FlushSendBufferOk
    <3> HIDE DEF f
    <3>4. \/ s' = s /\ flushed' = 0
          \/ s.state \in Transmitting /\ s' = f[1] /\ flushed' = IF f[2] < 0 THEN 0 ELSE f[2]
      BY <3>1 DEF f, w
    <3>5. stack' \in {"packet", "dataend"} /\ queue' = queue /\ app' = app /\ arp' = arp
      BY <1>14, <3>1 DEF WriteDataList
    <3>6. Ok(s') /\ Later(s, s') /\ flushed' \in Nat
      BY <1>1, <1>2, <3>3, <3>4, SameLater
    <3>7. RestOK'
      BY <1>1, <3>5, <3>6 DEF RestOK
    <3> QED
      BY <3>5, <3>6, <3>7, StepOk
  <2> QED
    BY <2>1, <2>2
<1>15. CASE DataListEnd
  <2> DEFINE l == s.lists \ {"send"}
             n == IF s.ackCnt > flushed THEN s.ackCnt - flushed ELSE 0
             e == [s EXCEPT !.lists = l, !.ackCnt = n]
  <2>1. s' = StopWaiting(e, "ack")
    BY <1>15 DEF DataListEnd
  <2>2. s \in StreamType /\ s.ackCnt \in 0..(AckMod - 1) /\ flushed \in Nat
    BY <1>1 DEF Ok, StreamType, RestOK
  <2>3. n \in 0..(AckMod - 1)
    BY <2>2
  <2>4. l \in SUBSET {"control", "send", "ack"}
    BY <2>2 DEF StreamType
  <2> HIDE DEF l, n
  <2>5. e \in StreamType
    BY <2>2, <2>3, <2>4 DEF StreamType
  <2>6. Marked(s, e)
    BY <2>2 DEF StreamType, Marked
  <2> HIDE DEF e
  <2>7. Ok(e) /\ Same(s, e)
    BY <1>1, <2>5, <2>6, MarkedOk
  <2>8. Ok(s') /\ Same(e, s')
    BY <2>1, <2>7, StopWaitingOk
  <2>9. Later(s, s')
    BY <2>7, <2>8 DEF Same, Later, Closing
  <2>10. RestOK' /\ queue' = queue /\ app' = app
    BY <1>1, <1>15 DEF DataListEnd, RestOK
  <2> QED
    BY <2>8, <2>9, <2>10, StepOk
<1> QED
  BY <1>3, <1>4, <1>5, <1>6, <1>7, <1>8, <1>9, <1>10, <1>11, <1>12, <1>13, <1>14, <1>15 DEF Stack, Pause

\* A call that finds the stream freed fails.
LEMMA TouchOk ==
    ASSUME Ok(s), NEW t, Ok(t), Later(s, t)
    PROVE  Ok(Touch(t)) /\ Later(s, Touch(t))
<1>1. Touch(t) \in {t, Fail(s, "use_after_free")}
  BY DEF Touch
<1> QED
  BY <1>1, FailLater

\* a call of the socket API preserves the invariant
LEMMA AppOk == ASSUME IInv, App PROVE IInv'
<1>1. Ok(s) /\ RestOK /\ CloseInv
  BY IInvParts
<1>2. Later(s, s) /\ Ok(Touch(s)) /\ Later(s, Touch(s))
  <2>1. Later(s, s)
    BY DEF Later
  <2> QED
    BY <1>1, <2>1, TouchOk
<1>3. s \in StreamType
  BY <1>1 DEF Ok
<1>4. CASE AcceptDequeue
  <2>1. queue' = [queue EXCEPT !.acceptq = @ - 1] /\ queue.acceptq > 0 /\ app = "none"
        /\ app' = "bind" /\ s' = s /\ stack' = stack /\ flushed' = flushed /\ arp' = arp
    BY <1>4 DEF AcceptDequeue, InApi
  <2>2. RestOK' /\ queue'.closeq = queue.closeq
    BY <1>1, <2>1 DEF RestOK
  <2> QED
    BY <1>1, <1>2, <2>1, <2>2, StepOk
<1>5. CASE AcceptBind
  <2> DEFINE e == [s EXCEPT !.sock = TRUE]
  <2>1. e \in StreamType /\ Marked(s, e)
    BY <1>3 DEF StreamType, Marked
  <2>2. s' = Touch(e)
    BY <1>5 DEF AcceptBind
  <2> HIDE DEF e
  <2>3. Ok(e) /\ Later(s, e)
    BY <1>1, <2>1, MarkedOk, SameLater
  <2>4. Ok(s') /\ Later(s, s')
    BY <1>1, <2>2, <2>3, TouchOk
  <2>5. RestOK' /\ queue' = queue /\ app # "done"
    BY <1>1, <1>5 DEF AcceptBind, InApi, RestOK
  <2> QED
    BY <2>4, <2>5, StepOk
<1>6. CASE AcceptNoSocket \/ RecvCheck \/ RecvWait \/ SendCheck \/ SendWait
  <2>1. s' \in {s, Touch(s)}
    BY <1>6 DEF AcceptNoSocket, RecvCheck, RecvWait, SendCheck, SendWait
  <2>2. RestOK' /\ queue' = queue /\ app # "done"
    BY <1>1, <1>6
    DEF AcceptNoSocket, RecvCheck, RecvWait, SendCheck, SendWait, InApi, RestOK
  <2> QED
    BY <1>1, <1>2, <2>1, <2>2, StepOk
<1>7. CASE RecvCopy
  <2>1. s' = Touch(s) \/ \E n \in 1..s.merged : s' = CopyToUser(s, n)
    BY <1>7 DEF RecvCopy
  <2>2. s.merged \in Nat
    BY <1>3 DEF StreamType
  <2>3. Ok(s') /\ Later(s, s')
    <3>1. ASSUME NEW n \in 1..s.merged, s' = CopyToUser(s, n) PROVE Ok(s') /\ Later(s, s')
      <4>1. n \in Nat /\ n <= s.merged
        BY <2>2
      <4> QED
        BY <1>1, <3>1, <4>1, CopyToUserOk, SameLater
    <3> QED
      BY <1>2, <2>1, <3>1
  <2>4. (queue' = queue \/ queue' = [queue EXCEPT !.ackq = @ + 1]) /\ app' = "idle"
        /\ app = "recv" /\ stack' = stack /\ flushed' = flushed /\ arp' = arp
    BY <1>7 DEF RecvCopy, InApi
  <2>5. RestOK' /\ queue'.closeq = queue.closeq
    BY <1>1, <2>4 DEF RestOK
  <2> QED
    BY <2>3, <2>4, <2>5, StepOk
<1>8. CASE SendCopy
  <2>1. \/ s' = Touch(s)
        \/ \E n \in 1..MinOf(SendSize - s.len, AppBytes + 1 - s.head - s.len) :
              s' = [s EXCEPT !.buf = TRUE, !.len = @ + n]
    BY <1>8 DEF SendCopy
  <2>2. s.len \in 0..SendSize /\ s.head \in SeqNo
    BY <1>3 DEF StreamType
  <2>3. ASSUME NEW n \in 1..MinOf(SendSize - s.len, AppBytes + 1 - s.head - s.len)
        PROVE  n \in Nat /\ s.len + n <= SendSize /\ s.head + s.len + n <= AppBytes + 1
    <3>1. \A a, b \in Int : MinOf(a, b) \in Int /\ MinOf(a, b) <= a /\ MinOf(a, b) <= b
      BY DEF MinOf
    <3>2. SendSize - s.len \in Int /\ AppBytes + 1 - s.head - s.len \in Int
      BY <2>2 DEF SeqNo
    <3> DEFINE m == MinOf(SendSize - s.len, AppBytes + 1 - s.head - s.len)
    <3>3. m \in Int /\ m <= SendSize - s.len /\ m <= AppBytes + 1 - s.head - s.len
      BY <3>1, <3>2
    <3> HIDE DEF m
    <3>4. n \in 1..m
      BY <2>3 DEF m
    <3> QED
      BY <2>2, <3>3, <3>4 DEF SeqNo
  <2>4. Ok(s') /\ Later(s, s')
    <3>1. ASSUME NEW n \in 1..MinOf(SendSize - s.len, AppBytes + 1 - s.head - s.len),
                 s' = [s EXCEPT !.buf = TRUE, !.len = @ + n]
          PROVE  Ok(s') /\ Later(s, s')
      <4>1. n \in Nat /\ s.len + n <= SendSize /\ s.head + s.len + n <= AppBytes + 1
        BY <2>3
      <4>2. Ok(s') /\ Same(s, s')
        BY <1>1, <3>1, <4>1, CopyFromUserOk
      <4> QED
        BY <4>2, SameLater
    <3> QED
      BY <1>2, <2>1, <3>1
  <2>5. RestOK' /\ queue' = queue /\ app # "done"
    BY <1>1, <1>8 DEF SendCopy, InApi, RestOK
  <2> QED
    BY <2>4, <2>5, StepOk
<1>9. CASE SendNotify
  <2> DEFINE onq == s.onq \cup {"sendq"}
             e == [s EXCEPT !.onq = onq]
  <2>1. onq \in SUBSET {"sendq", "ackq", "closeq", "closeq_int"}
    BY <1>3 DEF StreamType
  <2>2. s' \in {s, Touch(e)}
    BY <1>9 DEF SendNotify
  <2> HIDE DEF onq
  <2>3. e \in StreamType /\ Marked(s, e)
    BY <1>3, <2>1 DEF StreamType, Marked
  <2> HIDE DEF e
  <2>4. Ok(e) /\ Later(s, e)
    BY <1>1, <2>3, MarkedOk, SameLater
  <2>5. Ok(s') /\ Later(s, s')
    BY <1>1, <1>2, <2>2, <2>4, TouchOk
  <2>6. (queue' = queue \/ queue' = [queue EXCEPT !.sendq = @ + 1]) /\ app' = "idle"
        /\ app = "notify" /\ stack' = stack /\ flushed' = flushed /\ arp' = arp
    BY <1>9 DEF SendNotify, InApi
  <2>7. RestOK' /\ queue'.closeq = queue.closeq
    BY <1>1, <2>6 DEF RestOK
  <2> QED
    BY <2>5, <2>6, <2>7, StepOk
<1>10. CASE CloseMark
  <2> DEFINE e == [s EXCEPT !.closed = TRUE, !.sock = FALSE]
  <2>1. e \in StreamType /\ Marked(s, e)
    BY <1>3 DEF StreamType, Marked
  <2>2. s' = Touch(e)
    BY <1>10 DEF CloseMark
  <2> HIDE DEF e
  <2>3. Ok(e) /\ Later(s, e)
    BY <1>1, <2>1, MarkedOk, SameLater
  <2>4. Ok(s') /\ Later(s, s')
    BY <1>1, <2>2, <2>3, TouchOk
  <2>5. (queue' = queue \/ queue' = [queue EXCEPT !.destroyq = @ + 1])
        /\ app' \in {"close", "done"}
        /\ app = "idle" /\ stack' = stack /\ flushed' = flushed /\ arp' = arp
    BY <1>10 DEF CloseMark, InApi
  <2>6. RestOK' /\ queue'.closeq = queue.closeq
    BY <1>1, <2>5 DEF RestOK
  <2> QED
    BY <2>4, <2>5, <2>6, StepOk
<1>11. CASE CloseEnqueue
  <2> DEFINE onq == s.onq \cup {"closeq"}
             e == [s EXCEPT !.onq = onq]
  <2>1. onq \in SUBSET {"sendq", "ackq", "closeq", "closeq_int"}
    BY <1>3 DEF StreamType
  <2>2. s' = Touch(e)
    BY <1>11 DEF CloseEnqueue
  <2> HIDE DEF onq
  <2>3. e \in StreamType /\ Marked(s, e)
    BY <1>3, <2>1 DEF StreamType, Marked
  <2> HIDE DEF e
  <2>4. Ok(e) /\ Later(s, e)
    BY <1>1, <2>3, MarkedOk, SameLater
  <2>5. Ok(s') /\ Later(s, s')
    BY <1>1, <2>2, <2>4, TouchOk
  <2>6. queue' = [queue EXCEPT !.closeq = @ + 1] /\ app' = "done"
        /\ app = "close" /\ stack' = stack /\ flushed' = flushed /\ arp' = arp
    BY <1>11 DEF CloseEnqueue, InApi
  <2>7. queue.closeq = 0 /\ ~Closing(s)
    BY <1>1, <2>6 DEF CloseInv, Closing, RestOK
  <2>8. RestOK' /\ queue'.closeq = 1
    BY <1>1, <2>6, <2>7 DEF RestOK
  <2>9. CloseInv'
    BY <2>5, <2>6, <2>7, <2>8 DEF CloseInv, Later, Closing
  <2>10. StreamInv(s)' /\ (s \in StreamType)'
    BY <2>5 DEF Ok, StreamType, StreamInv, SendInv, RecvInv, TimerInv, FlightInv
  <2> QED
    BY <2>8, <2>9, <2>10 DEF IInv, TypeOK, ConnInv, RestOK
<1> QED
  BY <1>4, <1>5, <1>6, <1>7, <1>8, <1>9, <1>10, <1>11 DEF App

\* Every step preserves the invariant.
LEMMA NextOk == IInv /\ [Next]_vars => IInv'
<1> SUFFICES ASSUME IInv, [Next]_vars PROVE IInv'
  OBVIOUS
<1>1. CASE Next
  BY <1>1, StackOk, AppOk DEF Next
<1>2. CASE UNCHANGED vars
  <2>1. s' = s /\ queue' = queue /\ stack' = stack /\ flushed' = flushed /\ app' = app /\ arp' = arp
    BY <1>2 DEF vars
  <2>2. Ok(s) /\ RestOK
    BY IInvParts
  <2>3. RestOK'
    BY <2>1, <2>2 DEF RestOK
  <2>4. Ok(s') /\ Later(s, s')
    BY <2>1, <2>2 DEF Later
  <2> QED
    BY <2>1, <2>3, <2>4, StepOk
<1> QED
  BY <1>1, <1>2
-----------------------------------------------------------------------------
(* The theorems. *)

\* The inductive invariant holds of every reachable state of a connection.
THEOREM ConnectionInvariant == Spec => []IInv
BY InitOk, NextOk, PTL DEF Spec

\* Every variable keeps to its type: whatever the two ends and the network do,
\* snd_una, snd_nxt, fss and rcv_nxt stay within the numbers that were used, the
\* buffers within their sizes, and ack_cnt within its field.
THEOREM TypeCorrect == Spec => []TypeOK
<1>1. IInv => TypeOK
  BY DEF IInv
<1> QED
  BY <1>1, ConnectionInvariant, PTL

\* No stream is ever on both users of snd->timer_link, the RTO store and the
\* timewait list.
THEOREM TimerLinkSafe == Spec => []OneTimerLink
<1>1. IInv => OneTimerLink
  BY DEF IInv, ConnInv, StreamInv, TimerInv, OneTimerLink
<1> QED
  BY <1>1, ConnectionInvariant, PTL

\* Without stale duplicate ACKs, snd_una is the head of the send buffer and
\* snd_nxt never before it, until the FIN is acknowledged.
THEOREM SendPointersSafe ==
    ASSUME DupAcks = FALSE PROVE Spec => []SendPointers
<1>1. IInv => SendPointers
  BY DEF IInv, ConnInv, StreamInv, FlightInv, SendPointers, Transmitting
<1> QED
  BY <1>1, ConnectionInvariant, PTL

\* Without stale duplicate ACKs, whatever is in flight has its retransmission
\* timer: no SYN, data or FIN is lost for good because the stream left the store.
THEOREM InFlightTimedSafe ==
    ASSUME DupAcks = FALSE PROVE Spec => []InFlightTimed
<1>1. IInv => InFlightTimed
  BY DEF IInv, ConnInv, StreamInv, FlightInv, InFlightTimed
<1> QED
  BY <1>1, ConnectionInvariant, PTL
=============================================================================
