----------------------------- MODULE TcpStream -----------------------------
(***************************************************************************)
(* One passively opened connection (user_tcp_stream) shared by the stack   *)
(* thread of user_eth.c, the application thread in accept, recv, send and  *)
(* close, and the network.                                                 *)
(*                                                                         *)
(* The stack thread goes round user_tcp_run: timers, queues filled by the  *)
(* API, control list, ack list, send list, one packet.  Each part is a     *)
(* step, so the application interleaves between them.                      *)
(*                                                                         *)
(* Sequence numbers count from 0 in both directions (iss = irs = 0), one   *)
(* number is one segment's worth of data (the MSS), and nothing wraps.     *)
(***************************************************************************)
EXTENDS Integers, FiniteSets

CONSTANTS AppBytes,    \* bound: what the application sends in all
          PeerBytes,   \* bound: what the peer sends before its FIN
          SendSize,    \* USER_SEND_BUFFER_SIZE
          RcvSize,     \* USER_RECV_BUFFER_SIZE
          InitWnd,     \* TCP_INITIAL_WINDOW, which is larger than RcvSize
          MaxWnd,      \* bound: windows range over 0..MaxWnd
          AckMod,      \* ack_cnt is a 6-bit field: 64
          DupAcks,     \* whether snd_wl2 ever equals the old snd_wl1, which the
                       \* duplicate test compares across sequence spaces
          OtherFlows,  \* whether there are other connections: they keep flow_cnt
                       \* above 0 and stand before this one on the lists
          Timestamps,  \* whether the peer's SYN had a timestamp (saw_timestamp)
          Epoll        \* whether the program called epoll_create (tcp->ep)

ASSUME SizesAssumption ==
    /\ AppBytes \in Nat /\ PeerBytes \in Nat /\ MaxWnd \in Nat
    /\ SendSize \in Nat \ {0} /\ RcvSize \in Nat \ {0} /\ InitWnd \in Nat
    /\ AckMod \in Nat /\ AckMod > 4
    /\ DupAcks \in BOOLEAN /\ OtherFlows \in BOOLEAN /\ Epoll \in BOOLEAN
    /\ Timestamps \in BOOLEAN

VARIABLES s,        \* the stream: user_tcp_stream with its rcv and snd parts
          queue,    \* entries for this stream in acceptq, sendq, ackq, closeq, destroyq
          stack,    \* the stack thread's position in user_tcp_run
          flushed,  \* user_tcp_write_datalist's ret between its two steps
          app,      \* the application thread's position in the socket API
          arp       \* whether the peer's address is in the ARP table

vars == <<s, queue, stack, flushed, app, arp>>

States == {"CLOSED", "LISTEN", "SYN_RCVD", "ESTABLISHED", "CLOSE_WAIT",
           "FIN_WAIT_1", "CLOSING", "LAST_ACK", "FIN_WAIT_2", "TIME_WAIT"}
Synchronized == States \ {"CLOSED", "LISTEN", "SYN_RCVD"}  \* state > SYN_RCVD

SeqNo == 0..(AppBytes + 2)       \* our sequence numbers: SYN, data, FIN
PeerSeqNo == 0..(PeerBytes + 2)  \* the peer's

\* Every FIN sent adds 1 to snd_nxt.  Past the numbers in use the model stops
\* counting; no comparison can tell.
NxtCap == AppBytes + 3

MinOf(a, b) == IF a <= b THEN a ELSE b
-----------------------------------------------------------------------------
(* The stream before its SYN, and as CreateTcpStream and user_tcp_passive_open
   leave it.  lists holds the on_*_list flags (they and the TAILQs change
   together), timers the RTO, timewait and timeout lists, onq the on_*q flags.
   sent is a history variable: the numbers that ever left for the peer. *)
Blank ==
    [ alive |-> FALSE, err |-> "none", state |-> "CLOSED",
      closed |-> FALSE, reset |-> FALSE, sock |-> FALSE,
      una |-> 0, nxt |-> 0, fss |-> 0, finSent |-> FALSE,
      buf |-> FALSE, head |-> 1, len |-> 0, peerWnd |-> 0, sent |-> {},
      rcvNxt |-> 0, rhead |-> 1, merged |-> 0, frags |-> {},
      rcvWnd |-> InitWnd, needAdv |-> FALSE,
      lists |-> {}, timers |-> {}, onq |-> {},
      ackCnt |-> 0, wack |-> FALSE, waiting |-> FALSE ]

CreateTcpStream == [Blank EXCEPT !.alive = TRUE, !.state = "LISTEN"]

(* What the code answers with assert(0), a NULL dereference, an access to a
   freed stream or a self-deadlock ends the run there. *)
Fail(t, why) == [t EXCEPT !.err = IF @ = "none" THEN why ELSE @]

AddToControl(t) == [t EXCEPT !.lists = @ \cup {"control"}]
AddToSend(t) == IF t.buf THEN [t EXCEPT !.lists = @ \cup {"send"}]
                         ELSE Fail(t, "assert")

AddToRTO(t) == [t EXCEPT !.timers = @ \cup {"rto"}]
RemoveFromRTO(t) == [t EXCEPT !.timers = @ \ {"rto"}]
\* Mut...: the definition below with a plausible bug, for the mutation runs.
MutAddToTimewait(t) == RemoveFromRTO(t)  \* never inserted
AddToTimewait(t) ==
    IF "timewait" \in t.timers
    THEN t
    ELSE [t EXCEPT !.timers = (@ \ {"rto"}) \cup {"timewait"}]
AddToTimeout(t) == IF "timeout" \in t.timers
                   THEN Fail(t, "assert")
                   ELSE [t EXCEPT !.timers = @ \cup {"timeout"}]

MutUpdateRetransmissionTimer(t) == RemoveFromRTO(t)  \* not armed again
UpdateRetransmissionTimer(t) ==
    IF t.nxt > t.una THEN AddToRTO(t) ELSE RemoveFromRTO(t)

EnqueueAckList(t, opt) ==
    [t EXCEPT !.lists = @ \cup {"ack"},
              !.wack = @ \/ opt = "WACK",
              !.ackCnt = CASE opt = "NOW" -> (@ + 1) % AckMod
                           [] opt = "AGGREGATE" -> IF @ = 0 THEN 1 ELSE @
                           [] opt = "WACK" -> @]

\* The flow, its buffers and its list links are freed.
DestroyTcpStream(t) ==
    [t EXCEPT !.alive = FALSE, !.lists = {}, !.timers = {}]

CloseAndDestroy(t) == DestroyTcpStream([t EXCEPT !.state = "CLOSED"])
-----------------------------------------------------------------------------
(* user_tcp_send_tcppkt for the kinds of packet a stream sends, when IPOutput
   has an address to send to. *)
Emit(t) == [t EXCEPT !.needAdv = @ \/ t.rcvWnd = 0]

SendData(t, n) ==
    AddToRTO([Emit(t) EXCEPT !.sent = @ \cup t.nxt..(t.nxt + n - 1),
                             !.nxt = @ + n])
SendSynAck(t) ==
    AddToRTO([Emit(t) EXCEPT !.sent = @ \cup {0}, !.nxt = 1])
SendFin(t) ==
    AddToRTO([Emit(t) EXCEPT !.sent = @ \cup {t.fss}, !.nxt = MinOf(@ + 1, NxtCap),
                             !.finSent = TRUE])
-----------------------------------------------------------------------------
(* The peer and the network.  A segment may be lost, duplicated, delayed or
   overtaken: any segment the peer could have sent by now may arrive now.  It
   acknowledges only numbers it received without a hole. *)
Acked(t) == {a \in 1..(AppBytes + 2) : 0..(a - 1) \subseteq t.sent}

Syn == [syn : {TRUE}, rst : {FALSE}, ack : {FALSE}, fin : {FALSE},
        seq : {0}, ackSeq : {0}, len : {0}, wnd : {MaxWnd}]

Carriers == {g \in [syn : {FALSE}, rst : BOOLEAN, ack : {TRUE}, fin : BOOLEAN,
                    seq : 1..(PeerBytes + 2), ackSeq : 1..(AppBytes + 2),
                    len : 0..PeerBytes, wnd : 0..MaxWnd] :
                /\ g.len > 0 => g.seq + g.len <= PeerBytes + 1
                /\ g.fin => g.seq + g.len = PeerBytes + 1
                /\ g.rst => ~g.fin /\ g.len = 0 /\ g.wnd = 0}

Arriving == Syn \cup {g \in Carriers : g.ackSeq \in Acked(s)}
-----------------------------------------------------------------------------
(* user_tcp_process_ack.  dup3 says that this is the third duplicate. *)
AckOf(t, g) ==
    IF /\ t.state \in {"FIN_WAIT_1", "FIN_WAIT_2", "CLOSING", "CLOSE_WAIT",
                       "LAST_ACK"}
       /\ t.finSent
       /\ g.ackSeq = t.fss + 1
    THEN g.ackSeq - 1
    ELSE g.ackSeq

FastRetransmit(t, a, g, dup3) ==
    IF dup3 /\ a < t.nxt /\ g.len = 0
    THEN AddToSend([t EXCEPT !.nxt = a])
    ELSE t

MutAdvanceNxt(t, a) == t  \* after an RTO snd_nxt stays behind the ACK
AdvanceNxt(t, a) ==
    IF a > t.nxt
    THEN [t EXCEPT !.nxt = a,
                   !.lists = IF t.len = 0 THEN @ \ {"send"} ELSE @]
    ELSE t

MutRemoveAcked(t, a) ==  \* snd_una not advanced
    IF t.head >= a
    THEN t
    ELSE UpdateRetransmissionTimer([t EXCEPT !.head = a, !.len = @ - (a - t.head)])
(* SBRemove under write_lock.  When the buffer was full the code goes on to
   user_tcp_flush_send_event, which takes the same lock again. *)
RemoveAcked(t, a) ==
    IF t.head >= a
    THEN t
    ELSE LET r == [t EXCEPT !.head = a, !.len = @ - (a - t.head), !.una = a]
         IN  IF t.len = SendSize THEN Fail(r, "self_deadlock")
                                 ELSE UpdateRetransmissionTimer(r)

ProcessAck(t, g, dup3) ==
    LET a == AckOf(t, g)
    IN  IF ~t.buf \/ a > t.head + t.len
        THEN t
        ELSE RemoveAcked(AdvanceNxt(FastRetransmit(t, a, g, dup3), a), a)
-----------------------------------------------------------------------------
(* user_tcp_process_payload: RBPut reassembles what fits the buffer, and after
   close() RBRemove drops it at once.  A segment that starts before the head,
   or ends beyond the buffer, is not stored. *)
RBPut(t, g) ==
    IF g.seq < t.rhead \/ g.seq + g.len > t.rhead + RcvSize
    THEN t
    ELSE LET f == t.frags \cup g.seq..(g.seq + g.len - 1)
         IN  [t EXCEPT !.frags = f,
                       !.merged = Cardinality({k \in f : t.rhead..k \subseteq f})]

MutRBRemove(t, n) ==  \* merged_len not reduced
    [t EXCEPT !.rhead = @ + n, !.frags = {k \in @ : k >= t.rhead + n}]
RBRemove(t, n) ==
    [t EXCEPT !.rhead = @ + n, !.merged = @ - n,
              !.frags = {k \in @ : k >= t.rhead + n}]

MutReassemble(t, g) ==  \* the window shrinks by every segment, new or not
    LET p == RBPut(t, g)
        r == IF t.state \in {"FIN_WAIT_1", "FIN_WAIT_2"}
             THEN RBRemove(p, p.merged) ELSE p
    IN  [r EXCEPT !.rcvNxt = r.rhead + r.merged, !.rcvWnd = @ - g.len]
Reassemble(t, g) ==
    LET p == RBPut(t, g)
        r == IF t.state \in {"FIN_WAIT_1", "FIN_WAIT_2"}
             THEN RBRemove(p, p.merged) ELSE p
    IN  [r EXCEPT !.rcvNxt = r.rhead + r.merged, !.rcvWnd = RcvSize - r.merged]

ProcessPayload(t, g) ==
    IF g.len = 0
    THEN t
    ELSE IF \/ g.seq + g.len < t.rcvNxt
            \/ g.seq + g.len > t.rcvNxt + t.rcvWnd
         THEN EnqueueAckList(t, "NOW")
         ELSE LET r == Reassemble(t, g)
              IN  EnqueueAckList(r, IF r.rcvNxt > t.rcvNxt THEN "AGGREGATE"
                                                          ELSE "NOW")

MutInOrderFin(t, g) == g.fin  \* counts a FIN that overtook data
InOrderFin(t, g) == g.fin /\ g.seq + g.len = t.rcvNxt
-----------------------------------------------------------------------------
(* The handlers user_tcp_process calls, by state. *)
HandleListen(t) ==
    AddToControl([t EXCEPT !.rcvNxt = IF t.state = "LISTEN" THEN @ + 1 ELSE @,
                           !.state = "SYN_RCVD"])

\* ~full: StreamEnqueue(listener->acceptq) found room
HandleSynRcvd(t, g, full) ==
    IF ~g.ack THEN AddToControl([t EXCEPT !.nxt = 0])
    ELSE IF g.ackSeq # 1 THEN Fail(t, "exit")
    ELSE LET e == RemoveFromRTO([t EXCEPT !.una = @ + 1, !.nxt = g.ackSeq,
                                          !.rcvNxt = 1, !.state = "ESTABLISHED"])
         IN  AddToTimeout(IF full THEN AddToControl([e EXCEPT !.state = "CLOSED"])
                                  ELSE e)

HandleEstablished(t, g, dup3) ==
    LET r == ProcessAck(ProcessPayload(t, g), g, dup3)
    IN  IF ~g.fin
        THEN r
        ELSE IF ~InOrderFin(r, g)
             THEN EnqueueAckList(r, "NOW")
             ELSE LET c == AddToControl([r EXCEPT !.state = "CLOSE_WAIT",
                                                  !.rcvNxt = @ + 1])
                  IN  IF Epoll /\ ~t.sock THEN Fail(c, "null_socket") ELSE c

HandleCloseWait(t, g, dup3) ==
    IF g.seq < t.rcvNxt THEN AddToControl(t) ELSE ProcessAck(t, g, dup3)

HandleLastAck(t, g, dup3) ==
    IF g.seq < t.rcvNxt
    THEN t
    ELSE LET r == ProcessAck(t, g, dup3)
         IN  IF ~r.finSent THEN r
             ELSE IF g.ackSeq = r.fss + 1 THEN CloseAndDestroy(r)
             ELSE AddToControl(r)

\* USER_TCP_TIMEWAIT, the length of the timewait period, is 0, the value of
\* USER_TCP_CLOSED.
FinInFinWait1(t) ==
    AddToControl(
      IF t.state = "FIN_WAIT_1"
      THEN [t EXCEPT !.rcvNxt = @ + 1, !.state = "CLOSING"]
      ELSE AddToTimewait([t EXCEPT !.rcvNxt = @ + 1, !.state = "CLOSED"]))

HandleFinWait1(t, g, dup3) ==
    IF g.seq < t.rcvNxt
    THEN AddToControl(t)
    ELSE LET a == ProcessAck(t, g, dup3)
             f == IF a.finSent /\ g.ackSeq = a.fss + 1
                  THEN RemoveFromRTO(
                         [a EXCEPT !.una = g.ackSeq, !.state = "FIN_WAIT_2",
                                   !.nxt = IF g.ackSeq > @ THEN g.ackSeq ELSE @])
                  ELSE a
             r == ProcessPayload(f, g)
         IN  IF InOrderFin(r, g) THEN FinInFinWait1(r) ELSE r

HandleFinWait2(t, g, dup3) ==
    LET r == ProcessPayload(ProcessAck(t, g, dup3), g)
    IN  IF InOrderFin(r, g)
        THEN AddToControl(AddToTimewait([r EXCEPT !.state = "TIME_WAIT",
                                                  !.rcvNxt = @ + 1]))
        ELSE r

MutHandleClosing(t, g, dup3) ==  \* the timer last, snd_nxt left alone
    LET r == ProcessAck(t, g, dup3)
    IN  IF r.finSent /\ g.ackSeq = r.fss + 1
        THEN UpdateRetransmissionTimer(AddToTimewait(
               [r EXCEPT !.una = g.ackSeq, !.state = "TIME_WAIT"]))
        ELSE r
HandleClosing(t, g, dup3) ==
    LET r == ProcessAck(t, g, dup3)
    IN  IF r.finSent /\ g.ackSeq = r.fss + 1
        THEN AddToTimewait(UpdateRetransmissionTimer(
               [r EXCEPT !.una = g.ackSeq, !.nxt = g.ackSeq,
                         !.state = "TIME_WAIT"]))
        ELSE r

\* user_tcp_process_rst
ProcessRst(t, g) ==
    CASE t.state = "SYN_RCVD" ->
            IF g.ackSeq = t.nxt THEN CloseAndDestroy(t) ELSE t
      [] t.state \in {"FIN_WAIT_1", "FIN_WAIT_2", "LAST_ACK", "CLOSING",
                      "TIME_WAIT"} -> CloseAndDestroy(t)
      [] OTHER -> IF t.onq \cap {"closeq", "closeq_int"} = {}
                  THEN [t EXCEPT !.state = "CLOSE_WAIT"]
                  ELSE t

(* user_tcp_validseq, of a synchronized stream.  First the timestamp of a segment
   that is no reset: one older than ts_recent is acknowledged at once, and the
   segment is processed all the same. *)
Stamped(t, g) == Timestamps /\ t.state \in Synchronized /\ ~g.rst
CheckTimestamp(t, g, old) ==
    IF old /\ Stamped(t, g) THEN EnqueueAckList(t, "NOW") ELSE t

\* Then the sequence number, and what is done with a segment it refuses.
ValidSeq(t, g) == /\ t.rcvNxt <= g.seq + g.len
                  /\ g.seq + g.len <= t.rcvNxt + t.rcvWnd
Refuse(t, g) ==
    CASE g.rst -> t
      [] ~g.rst /\ t.state = "ESTABLISHED" ->
            EnqueueAckList(t, IF g.seq <= t.rcvNxt THEN "AGGREGATE" ELSE "NOW")
      [] ~g.rst /\ t.state = "TIME_WAIT" -> AddToControl(AddToTimewait(t))
      [] OTHER -> AddToControl(t)

HandleByState(t, g, dup3, full) ==
    CASE t.state = "LISTEN" -> HandleListen(t)
      [] t.state = "SYN_RCVD" /\ g.syn -> HandleListen(t)
      [] t.state = "SYN_RCVD" /\ ~g.syn ->
            LET r == HandleSynRcvd(t, g, full)
            IN  IF g.len > 0 /\ r.state = "ESTABLISHED"
                THEN HandleEstablished(r, g, dup3) ELSE r
      [] t.state = "ESTABLISHED" -> HandleEstablished(t, g, dup3)
      [] t.state = "CLOSE_WAIT" -> HandleCloseWait(t, g, dup3)
      [] t.state = "LAST_ACK" -> HandleLastAck(t, g, dup3)
      [] t.state = "FIN_WAIT_1" -> HandleFinWait1(t, g, dup3)
      [] t.state = "FIN_WAIT_2" -> HandleFinWait2(t, g, dup3)
      [] t.state = "CLOSING" -> HandleClosing(t, g, dup3)
      [] t.state = "TIME_WAIT" -> AddToControl(
            IF "timewait" \in t.timers THEN RemoveFromRTO(t) ELSE t)
      [] t.state = "CLOSED" -> t

\* user_tcp_process for a stream that is in the flow table, after the timestamp
Process(t, g, dup3, full) ==
    IF t.state \in Synchronized /\ ~ValidSeq(t, g)
    THEN Refuse(t, g)
    ELSE LET w == [t EXCEPT !.peerWnd = g.wnd, !.reset = @ \/ g.rst]
         IN  IF g.rst /\ t.state \notin {"CLOSED", "LISTEN"}
             THEN ProcessRst(w, g)
             ELSE HandleByState(w, g, dup3, full)
-----------------------------------------------------------------------------
(* The stack thread, in the order of user_tcp_run. *)
At(place) == stack = place /\ s.err = "none"
FlowCnt == s.alive \/ OtherFlows

\* SYN in, when the flow table has no such stream
PassiveOpen ==
    /\ At("packet")
    /\ s = Blank
    /\ \E g \in Syn : s' = Process(CreateTcpStream, g, FALSE, FALSE)
    /\ stack' = "start"
    /\ UNCHANGED <<queue, flushed, app, arp>>

MutReadSignal ==  \* looks at the state after the FIN changed it
    /\ s.sock /\ s'.state = "ESTABLISHED"
    /\ s'.rcvNxt > s.rcvNxt
\* user_tcp_flush_read_event, for new data or the FIN of an accepted stream
ReadSignal == /\ s.sock /\ s.state = "ESTABLISHED"
              /\ s'.rcvNxt > s.rcvNxt

\* old: its timestamp is; full: other connections of the listener fill its backlog
Receive(g, old, dup3, full) ==
    /\ At("packet")
    /\ s.alive
    /\ s' = Process(CheckTimestamp(s, g, old), g, dup3, full)
    /\ queue' = IF s.state = "SYN_RCVD" /\ s'.una = 1 /\ s'.state # "CLOSED"
                THEN [queue EXCEPT !.acceptq = @ + 1]
                ELSE queue
    /\ app' = IF app = "recvwait" /\ ReadSignal THEN "recv" ELSE app
    /\ stack' = "start"
    /\ UNCHANGED <<flushed, arp>>

\* A segment without the timestamp its connection began with is refused unseen.
NoTimestamp(g) ==
    /\ At("packet")
    /\ s.alive /\ Stamped(s, g)
    /\ stack' = "start"
    /\ UNCHANGED <<s, queue, flushed, app, arp>>

\* no packet of this stream: POLLOUT, another stream's packet or ARP
NoPacket ==
    /\ At("packet")
    /\ stack' = "start"
    /\ UNCHANGED <<s, queue, flushed, app, arp>>

LearnAddress ==
    /\ At("packet")
    /\ ~arp
    /\ arp' = TRUE
    /\ stack' = "start"
    /\ UNCHANGED <<s, queue, flushed, app>>

\* flow_cnt > 0 guards the timers and user_tcp_handle_apicall
StartRound ==
    /\ At("start")
    /\ stack' = IF FlowCnt THEN "rtm" ELSE "control"
    /\ UNCHANGED <<s, queue, flushed, app, arp>>

(* HandleRTO.  giveUp: nrtx has reached TCP_MAX_RTX. *)
HandleRTO(t, giveUp) ==
    LET b == [t EXCEPT !.nxt = t.una]
    IN  CASE giveUp -> CloseAndDestroy(t)
          [] ~giveUp /\ t.state = "SYN_RCVD" -> AddToControl(b)
          [] ~giveUp /\ t.state \in {"ESTABLISHED", "CLOSE_WAIT"} -> AddToSend(b)
          [] ~giveUp /\ t.state \in {"FIN_WAIT_1", "CLOSING", "LAST_ACK"} ->
                IF b.nxt < b.fss
                THEN AddToSend([b EXCEPT !.lists = @ \ {"control"},
                                         !.waiting = TRUE])
                ELSE AddToControl(b)
          [] OTHER -> Fail(t, "assert")

(* When the timer of a stream on the RTO store runs out is left open. *)
CheckRtmTimeout ==
    /\ At("rtm")
    /\ \/ s' = s
       \/ /\ "rto" \in s.timers
          /\ \E giveUp \in BOOLEAN : s' = HandleRTO(RemoveFromRTO(s), giveUp)
    /\ stack' = "timewait"
    /\ UNCHANGED <<queue, flushed, app, arp>>

\* The timewait period is 0 long: it is over at the next check.
CheckTimewaitExpire ==
    /\ At("timewait")
    /\ s' = IF "timewait" \in s.timers /\ "control" \notin s.lists
            THEN CloseAndDestroy(s) ELSE s
    /\ stack' = "timeout"
    /\ UNCHANGED <<queue, flushed, app, arp>>

(* 30 seconds without a packet may pass before any check. *)
CheckConnectionTimeout ==
    /\ At("timeout")
    /\ \/ s' = s
       \/ "timeout" \in s.timers /\ s' = CloseAndDestroy(s)
    /\ stack' = "sendq"
    /\ UNCHANGED <<queue, flushed, app, arp>>

(* user_tcp_handle_apicall, one entry of one queue at a time. *)
Drain(q, next, handled) ==
    /\ At(q)
    /\ IF queue[q] > 0
       THEN /\ queue' = [queue EXCEPT ![q] = @ - 1]
            /\ s' = IF s.alive THEN handled ELSE Fail(s, "use_after_free")
            /\ UNCHANGED stack
       ELSE stack' = next /\ UNCHANGED <<queue, s>>
    /\ UNCHANGED <<flushed, app, arp>>

HandleSendq ==
    Drain("sendq", "ackq", AddToSend([s EXCEPT !.onq = @ \ {"sendq"}]))

HandleAckq ==
    Drain("ackq", "closeq",
          EnqueueAckList([s EXCEPT !.onq = @ \ {"ackq"}], "AGGREGATE"))

CloseState(state) == CASE state = "ESTABLISHED" -> "FIN_WAIT_1"
                       [] state = "CLOSE_WAIT" -> "LAST_ACK"
                       [] OTHER -> state

MutFinalSeq(t) == t.nxt  \* forgets the bytes still to be sent
FinalSeq(t) == IF t.buf THEN t.head + t.len ELSE t.nxt

CloseRequested(t) ==
    LET c == [t EXCEPT !.onq = @ \ {"closeq"},
                       !.fss = FinalSeq(t),
                       !.timers = @ \ {"timeout"}]
    IN  CASE c.reset -> IF c.state # "CLOSED" THEN CloseAndDestroy(c) ELSE c
          [] ~c.reset /\ "control" \in c.lists ->
                [c EXCEPT !.onq = @ \cup {"closeq_int"}]
          [] ~c.reset /\ "control" \notin c.lists /\ c.lists # {} ->
                [c EXCEPT !.state = CloseState(@), !.waiting = TRUE]
          [] ~c.reset /\ c.lists = {} ->
                IF c.state # "CLOSED"
                THEN AddToControl([c EXCEPT !.state = CloseState(@)])
                ELSE c

HandleCloseq == Drain("closeq", "destroyq", CloseRequested(s))

HandleDestroyq == Drain("destroyq", "control", DestroyTcpStream(s))
-----------------------------------------------------------------------------
(* user_tcp_write_controllist.  A packet that cannot be sent puts its stream back
   at the head of the list and ends the pass, this stream's or another's. *)
ControlDelayed(t) ==
    \/ ~arp
    \/ /\ t.state \in {"LAST_ACK", "FIN_WAIT_1", "CLOSED"}
       /\ t.lists \cap {"send", "ack"} # {}

SendControlPkt(t) ==
    CASE t.state = "SYN_RCVD" -> SendSynAck(t)
      [] t.state \in {"LAST_ACK", "FIN_WAIT_1"} -> SendFin(t)
      [] t.state = "CLOSING" -> IF t.finSent /\ t.nxt # t.fss THEN Emit(t)
                                                              ELSE SendFin(t)
      [] t.state = "CLOSED" -> DestroyTcpStream(t)
      [] OTHER -> Emit(t)

WriteControlList ==
    /\ At("control")
    /\ s' = CASE "control" \notin s.lists -> s
              [] "control" \in s.lists /\ ~ControlDelayed(s) ->
                    SendControlPkt([s EXCEPT !.lists = @ \ {"control"}])
              [] "control" \in s.lists /\ ControlDelayed(s) ->
                    IF s.state = "SYN_RCVD" THEN [s EXCEPT !.nxt = 0] ELSE s
    /\ stack' = "ack"
    /\ UNCHANGED <<queue, flushed, app, arp>>

\* The pass ended before it came to this stream.
ControlBlocked ==
    /\ At("control")
    /\ OtherFlows /\ "control" \in s.lists
    /\ stack' = "ack"
    /\ UNCHANGED <<s, queue, flushed, app, arp>>

MutStopWaiting(t, other) ==  \* stops waiting though the other list holds it
    LET w == [t EXCEPT !.waiting = FALSE]
    IN  IF t.waiting /\ other \notin t.lists THEN AddToControl(w) ELSE w
\* control_list_waiting: the stream's FIN waits for these two lists
StopWaiting(t, other) ==
    IF t.waiting /\ other \notin t.lists
    THEN AddToControl([t EXCEPT !.waiting = FALSE])
    ELSE t

MutAcksWritten(t) ==  \* one ACK per pass over the list
    [t EXCEPT !.ackCnt = IF @ = 0 THEN 0 ELSE @ - 1, !.wack = FALSE,
              !.lists = IF t.ackCnt > 1 THEN @ ELSE @ \ {"ack"}]
\* every ACK that is due is sent, or dropped, and the stream is off the list
AcksWritten(t) ==
    [t EXCEPT !.ackCnt = 0, !.wack = FALSE, !.lists = @ \ {"ack"}]

WriteAckList ==
    LET toAck == /\ s.state \in {"ESTABLISHED", "CLOSE_WAIT", "FIN_WAIT_1",
                                 "FIN_WAIT_2", "TIME_WAIT"}
                 /\ s.rcvNxt <= s.rhead + s.merged
        done == AcksWritten(s)
    IN  /\ At("ack")
        /\ s' = IF "ack" \notin s.lists THEN s
                ELSE StopWaiting(
                       CASE toAck /\ (s.ackCnt > 0 \/ s.wack) ->
                              IF arp THEN Emit(done) ELSE s
                         [] OTHER -> done, "send")
        /\ stack' = "data"
        /\ UNCHANGED <<queue, flushed, app, arp>>

(* user_tcp_flush_sendbuffer with w = MIN(cwnd, peer_wnd).  Each packet sent
   counts against w twice: once in snd_nxt - snd_una, once in w itself. *)
Sendable(t, w) ==
    Cardinality({k \in 1..MinOf(t.head + t.len - t.nxt, w) :
                    \A i \in 1..k : t.nxt - t.una + i <= w - (i - 1)})

\* The loop's outcome: the stream, and what it returns to write_datalist.
FlushSendBuffer(t, w, wack) ==
    LET k == Sendable(t, w)
        d == IF k > 0 THEN SendData(t, k) ELSE t
        blocked == d.nxt < d.head + d.len /\ w - k > 0
    IN  CASE ~t.buf -> <<Fail(t, "assert"), 0>>
          [] t.buf /\ t.len = 0 -> <<t, 0>>
          [] t.buf /\ t.len > 0 /\ t.nxt < t.head -> <<Fail(t, "assert"), 0>>
          [] t.buf /\ t.len > 0 /\ t.nxt > t.head + t.len ->
                <<Fail(t, "overread"), 0>>
          [] OTHER ->
                IF k > 0 /\ ~arp THEN <<t, -2>>
                ELSE IF blocked
                     THEN <<IF wack /\ d.nxt - d.una + 1 > d.peerWnd
                            THEN EnqueueAckList(d, "WACK") ELSE d, -3>>
                     ELSE <<d, k>>

(* user_tcp_write_datalist in two steps: the flush under write_lock, then the
   flags.  The congestion window is at least one segment. *)
WriteDataList ==
    /\ At("data")
    /\ IF "send" \notin s.lists
       THEN stack' = "packet" /\ UNCHANGED <<s, flushed>>
       ELSE \E cwnd \in 1..(AppBytes + 1), wack \in BOOLEAN :
              LET r == CASE s.state = "ESTABLISHED" /\ "control" \in s.lists ->
                              <<s, -1>>
                         [] \/ s.state = "ESTABLISHED" /\ "control" \notin s.lists
                            \/ s.state \in {"CLOSE_WAIT", "FIN_WAIT_1", "LAST_ACK"} ->
                              FlushSendBuffer(s, MinOf(cwnd, s.peerWnd), wack)
                         [] OTHER -> <<s, 0>>
              IN  /\ s' = r[1]
                  /\ flushed' = IF r[2] < 0 THEN 0 ELSE r[2]
                  /\ stack' = IF r[2] < 0 THEN "packet" ELSE "dataend"
    /\ UNCHANGED <<queue, app, arp>>

\* The flush of a stream before this one failed, which ends the pass.
DataBlocked ==
    /\ At("data")
    /\ OtherFlows /\ "send" \in s.lists
    /\ stack' = "packet"
    /\ UNCHANGED <<s, queue, flushed, app, arp>>

DataListEnd ==
    /\ At("dataend")
    /\ s' = StopWaiting([s EXCEPT !.lists = @ \ {"send"},
                                  !.ackCnt = IF @ > flushed THEN @ - flushed ELSE 0],
                        "ack")
    /\ flushed' = 0
    /\ stack' = "packet"
    /\ UNCHANGED <<queue, app, arp>>

Stack ==
    \/ PassiveOpen \/ NoPacket \/ LearnAddress
    \/ s.alive /\ \E g \in Arriving :
                   \/ NoTimestamp(g)
                   \/ \E old \in {FALSE, Timestamps}, dup3 \in {FALSE, DupAcks},
                         full \in BOOLEAN : Receive(g, old, dup3, full)
    \/ StartRound \/ CheckRtmTimeout \/ CheckTimewaitExpire \/ CheckConnectionTimeout
    \/ HandleSendq \/ HandleAckq \/ HandleCloseq \/ HandleDestroyq
    \/ WriteControlList \/ ControlBlocked \/ WriteAckList
    \/ WriteDataList \/ DataBlocked \/ DataListEnd
-----------------------------------------------------------------------------
(* The application thread: accept, then any sequence of recv and send, then
   close.  Each call is cut where it looks at the stream without a lock. *)
InApi(place) == app = place /\ s.err = "none"
Touch(t) == IF s.alive THEN t ELSE Fail(s, "use_after_free")

AcceptDequeue ==
    /\ InApi("none")
    /\ queue.acceptq > 0
    /\ queue' = [queue EXCEPT !.acceptq = @ - 1]
    /\ app' = "bind"
    /\ UNCHANGED <<s, stack, flushed, arp>>

AcceptBind ==
    /\ InApi("bind")
    /\ s' = Touch([s EXCEPT !.sock = TRUE])
    /\ app' = "idle"
    /\ UNCHANGED <<queue, stack, flushed, arp>>

\* user_socket_allocate failed: "TODO: destroy the stream"
AcceptNoSocket ==
    /\ InApi("bind")
    /\ s' = Touch(s)
    /\ app' = "done"
    /\ UNCHANGED <<queue, stack, flushed, arp>>

RecvCheck ==
    /\ InApi("idle")
    /\ s' = Touch(s)
    /\ \/ ~s.alive
       \/ s.state \in {"ESTABLISHED", "FIN_WAIT_1", "FIN_WAIT_2"}
       \/ s.state = "CLOSE_WAIT" /\ s.merged > 0
    /\ app' = "recv"
    /\ UNCHANGED <<queue, stack, flushed, arp>>

(* user_copy_to_user under read_lock; with nothing to read, the call waits on
   read_cond while the stream is ESTABLISHED and returns otherwise. *)
CopyToUser(t, n) ==
    LET r == RBRemove(t, n)
        wnd == RcvSize - r.merged
        adv == t.needAdv /\ wnd > 1 /\ "ackq" \notin t.onq
    IN  [r EXCEPT !.rcvWnd = wnd,
                  !.needAdv = @ /\ ~adv,
                  !.onq = IF adv THEN @ \cup {"ackq"} ELSE @]

RecvCopy ==
    /\ InApi("recv")
    /\ \/ /\ s.alive /\ s.merged > 0
          /\ \E n \in 1..s.merged : s' = CopyToUser(s, n)
          /\ queue' = IF "ackq" \in s'.onq \ s.onq
                      THEN [queue EXCEPT !.ackq = @ + 1] ELSE queue
       \/ /\ s.alive => s.merged = 0 /\ s.state # "ESTABLISHED"
          /\ s' = Touch(s)
          /\ UNCHANGED queue
    /\ app' = "idle"
    /\ UNCHANGED <<stack, flushed, arp>>

RecvWait ==
    /\ InApi("recv")
    /\ s.alive /\ s.merged = 0 /\ s.state = "ESTABLISHED"
    /\ app' = "recvwait"
    /\ UNCHANGED <<s, queue, stack, flushed, arp>>

SendCheck ==
    /\ InApi("idle")
    /\ s.head + s.len <= AppBytes
    /\ s' = Touch(s)
    /\ s.alive => s.state \in {"ESTABLISHED", "CLOSE_WAIT"}
    /\ app' = "send"
    /\ UNCHANGED <<queue, stack, flushed, arp>>

(* user_copy_from_user under write_lock; with the buffer full, the call waits on
   write_cond while the stream is ESTABLISHED and returns EINTR otherwise. *)
SendCopy ==
    /\ InApi("send")
    /\ \/ /\ s.alive /\ s.len < SendSize
          /\ \E n \in 1..MinOf(SendSize - s.len, AppBytes + 1 - s.head - s.len) :
                s' = [s EXCEPT !.buf = TRUE, !.len = @ + n]
          /\ app' = "notify"
       \/ /\ s.alive => s.len = SendSize /\ s.state # "ESTABLISHED"
          /\ s' = Touch(s)
          /\ app' = "idle"
    /\ UNCHANGED <<queue, stack, flushed, arp>>

\* Only user_tcp_flush_send_event signals write_cond, and RemoveAcked says
\* what becomes of that.
SendWait ==
    /\ InApi("send")
    /\ s.alive /\ s.len = SendSize /\ s.state = "ESTABLISHED"
    /\ app' = "sendwait"
    /\ UNCHANGED <<s, queue, stack, flushed, arp>>

\* after the unlock: on_sendq and on_send_list are read without it
SendNotify ==
    /\ InApi("notify")
    /\ IF s.alive /\ ("sendq" \in s.onq \/ "send" \in s.lists)
       THEN UNCHANGED <<s, queue>>
       ELSE /\ s' = Touch([s EXCEPT !.onq = @ \cup {"sendq"}])
            /\ queue' = [queue EXCEPT !.sendq = @ + 1]
    /\ app' = "idle"
    /\ UNCHANGED <<stack, flushed, arp>>

\* user_socket_close_stream up to its state check, then the rest
CloseMark ==
    /\ InApi("idle")
    /\ s' = Touch([s EXCEPT !.closed = TRUE, !.sock = FALSE])
    /\ queue' = IF s.alive /\ s.state = "CLOSED"
                THEN [queue EXCEPT !.destroyq = @ + 1] ELSE queue
    /\ app' = IF s.state \in {"ESTABLISHED", "CLOSE_WAIT"} THEN "close" ELSE "done"
    /\ UNCHANGED <<stack, flushed, arp>>

CloseEnqueue ==
    /\ InApi("close")
    /\ s' = Touch([s EXCEPT !.onq = @ \cup {"closeq"}])
    /\ queue' = [queue EXCEPT !.closeq = @ + 1]
    /\ app' = "done"
    /\ UNCHANGED <<stack, flushed, arp>>

App ==
    \/ AcceptDequeue \/ AcceptBind \/ AcceptNoSocket
    \/ RecvCheck \/ RecvCopy \/ RecvWait
    \/ SendCheck \/ SendCopy \/ SendWait \/ SendNotify
    \/ CloseMark \/ CloseEnqueue
-----------------------------------------------------------------------------
Init ==
    /\ s = Blank
    /\ queue = [acceptq |-> 0, sendq |-> 0, ackq |-> 0, closeq |-> 0, destroyq |-> 0]
    /\ stack = "start"
    /\ flushed = 0
    /\ app = "none"
    /\ arp \in BOOLEAN

Next == Stack \/ App

Spec == Init /\ [][Next]_vars

\* The stack thread never stops: poll returns whenever the transmit ring has
\* room.  Again and again it finds no packet of this stream.
FairSpec == Spec /\ WF_vars(Stack) /\ SF_vars(NoPacket)
-----------------------------------------------------------------------------
(* Properties.  A stream's fields mean nothing once it is freed. *)

StreamType ==
    [ alive : BOOLEAN,
      err : {"none", "assert", "exit", "use_after_free", "self_deadlock",
             "null_socket", "overread"},
      state : States,
      closed : BOOLEAN, reset : BOOLEAN, sock : BOOLEAN,
      una : SeqNo, nxt : 0..NxtCap, fss : SeqNo, finSent : BOOLEAN,
      buf : BOOLEAN, head : SeqNo, len : 0..SendSize, peerWnd : 0..MaxWnd,
      sent : SUBSET SeqNo,
      rcvNxt : PeerSeqNo, rhead : PeerSeqNo, merged : 0..RcvSize,
      frags : SUBSET PeerSeqNo,
      rcvWnd : Nat, needAdv : BOOLEAN,
      lists : SUBSET {"control", "send", "ack"},
      timers : SUBSET {"rto", "timewait", "timeout"},
      onq : SUBSET {"sendq", "ackq", "closeq", "closeq_int"},
      ackCnt : 0..(AckMod - 1), wack : BOOLEAN, waiting : BOOLEAN ]

\* Every variable keeps to its type; in particular snd_nxt, snd_una, fss and
\* rcv_nxt stay within the numbers the two ends have used.
TypeOK ==
    /\ s \in StreamType
    /\ queue \in [{"acceptq", "sendq", "ackq", "closeq", "destroyq"} -> Nat]
    /\ stack \in {"start", "rtm", "timewait", "timeout", "sendq", "ackq",
                  "closeq", "destroyq", "control", "ack", "data", "dataend",
                  "packet"}
    /\ flushed \in Nat
    /\ app \in {"none", "bind", "idle", "recv", "recvwait", "send", "sendwait",
                "notify", "close", "done"}
    /\ arp \in BOOLEAN

\* No assert(0) of the stack fails and it never exits: addto_sendlist has a
\* buffer, AddtoTimeoutList a stream off the list, HandleRTO a state it knows,
\* flush_sendbuffer a snd_nxt in the buffer, handle_syn_rcvd the right ack.
NoAssertFails == s.err \notin {"assert", "exit"}

\* The RTO store and the timewait list share one link of the stream
\* (snd->timer_link): a stream on both would corrupt both.
OneTimerLink == ~({"rto", "timewait"} \subseteq s.timers)

\* A stream in a state that retransmits has its timer on the RTO store as long
\* as anything it sent, SYN, data or FIN, is not acknowledged.
Retransmits == {"SYN_RCVD", "ESTABLISHED", "CLOSE_WAIT", "FIN_WAIT_1",
                "CLOSING", "LAST_ACK"}
InFlightTimed ==
    s.alive /\ s.state \in Retransmits /\ s.nxt > s.una => "rto" \in s.timers

\* Until its FIN is acknowledged a synchronized stream's snd_una is the head of
\* the send buffer, and snd_nxt is never before it: what SBRemove gave back is
\* never sent again.
SendPointers ==
    s.alive /\ s.state \in {"ESTABLISHED", "CLOSE_WAIT", "FIN_WAIT_1",
                            "CLOSING", "LAST_ACK"}
        => s.una = s.head /\ s.head <= s.nxt

\* A stream whose close() was handled sends its FIN: until it has, it is on the
\* control list, or waits (control_list_waiting) for a list it is still on.
FinNotForgotten ==
    s.alive /\ s.state \in {"FIN_WAIT_1", "LAST_ACK"} /\ ~s.finSent
        => \/ "control" \in s.lists
           \/ s.waiting /\ s.lists \cap {"send", "ack"} # {}

\* The peer has all of the application's bytes once the stream reaches
\* FIN_WAIT_2: the ACK that took it there covered everything send() accepted.
FinAckedMeansAllAcked ==
    s.alive /\ s.state = "FIN_WAIT_2" =>
        /\ 1..(s.head + s.len - 1) \subseteq s.sent
        /\ s.fss = s.head + s.len

\* rcv_nxt is the end of the contiguous bytes in the receive buffer, plus one
\* when the FIN was counted, which it is only after all the peer's bytes.
PeerStreamInOrder ==
    s.alive /\ s.state \in Synchronized =>
        \/ s.rcvNxt = s.rhead + s.merged
        \/ s.rcvNxt = s.rhead + s.merged + 1 /\ s.rcvNxt = PeerBytes + 2

\* The 6-bit ack_cnt is never near its limit, where one more immediate ACK
\* would wrap it to 0 and write_acklist would send none: the most one packet adds
\* is an ACK for an old timestamp, one for its data and one for its FIN.
AckCntNeverWraps == s.alive => s.ackCnt <= 3

\* A reader that waits in recv() has nothing to read: data and FIN that arrive
\* before it sleeps are seen, and those that arrive after wake it.
NoSleepOnData ==
    app = "recvwait" /\ s.alive => s.merged = 0 /\ s.rcvNxt = s.rhead

\* Once the window is no larger than the buffer, its right edge never retreats,
\* whatever arrives, is reassembled, or is read.
RightEdge(t) == t.rcvNxt + t.rcvWnd
WindowNeverShrinks ==
    [][s.alive /\ s'.alive /\ s.rcvWnd <= RcvSize
         => RightEdge(s') >= RightEdge(s)]_vars

\* In the end no other stream stays at the head of the control list with a packet
\* that cannot be sent.
OthersAreSent == <>[][~ControlBlocked]_vars

\* A stream in TIME_WAIT is freed in the end, however often the peer's last
\* segments come again, if the others let its control packets out: as long as it
\* is on the control list CheckTimewaitExpire leaves it alone.
TimeWaitEnds ==
    OthersAreSent =>
        (s.alive /\ s.state = "TIME_WAIT" ~> ~s.alive \/ s.err # "none")

(* What comments and traces of the code say and the code does not do. *)

\* A stream whose FIN is acknowledged and that counted the peer's FIN is in
\* TIME_WAIT ("TCP_ST_TIME_WAIT" in handle_fin_wait_1).
BothFinsLeadToTimeWait ==
    s.alive /\ s.finSent /\ s.una = s.fss + 1 /\ s.rcvNxt = PeerBytes + 2
        => s.state = "TIME_WAIT"

\* A reset ends the wait of a reader ("Notifying connection reset." in
\* process_rst).
ResetWakesReader == app = "recvwait" /\ s.alive => ~s.reset

\* An ACK that makes room in a full buffer raises the write event ("Raise Write
\* Event" in process_ack): the stack gets on with its work.
AckRaisesWriteEvent == s.err # "self_deadlock"

\* A close() put off because the stream is on the control list is carried out
\* when the lists are flushed ("wait until all the queues are flushed").
PutOffCloseIsHandled ==
    "closeq_int" \in s.onq
        ~> "closeq_int" \notin s.onq \/ ~s.alive \/ s.err # "none"
-----------------------------------------------------------------------------
(* The inductive invariant behind TypeOK, OneTimerLink, SendPointers and
   InFlightTimed, one part per half of the stream and one for its timers. *)
SendInv(t) ==
    /\ t.head >= 1 /\ t.head + t.len <= AppBytes + 1
    /\ t.state \in {"LISTEN", "SYN_RCVD"} => t.una = 0 /\ t.head = 1
    /\ t.state = "LISTEN" => t.nxt = 0
    /\ ~t.buf /\ ~t.finSent => t.una <= 1 /\ t.nxt <= 1

RecvInv(t) ==
    /\ t.rhead >= 1 /\ t.rhead + t.merged <= PeerBytes + 1
    /\ t.frags \subseteq t.rhead..PeerBytes
    /\ t.frags \subseteq t.rhead..(t.rhead + RcvSize - 1)
    /\ t.state = "LISTEN" => t.rcvNxt = 0
    /\ t.state = "SYN_RCVD" => t.rcvNxt <= 1

Transmitting == {"ESTABLISHED", "CLOSE_WAIT", "FIN_WAIT_1", "CLOSING", "LAST_ACK"}
TimerInv(t) ==
    /\ ~({"rto", "timewait"} \subseteq t.timers)
    /\ "timewait" \in t.timers => t.state \in {"TIME_WAIT", "CLOSED"}

(* Without stale duplicate ACKs. *)
FlightInv(t) ==
    /\ t.alive /\ t.state \in Transmitting => t.una = t.head /\ t.head <= t.nxt
    /\ t.alive /\ t.state \in Retransmits /\ t.nxt > t.una => "rto" \in t.timers

StreamInv(t) ==
    /\ SendInv(t) /\ RecvInv(t) /\ TimerInv(t)
    /\ ~DupAcks => FlightInv(t)

(* A close is requested once, and no FIN is sent before it is handled. *)
AfterClose == {"FIN_WAIT_1", "FIN_WAIT_2", "CLOSING", "LAST_ACK", "TIME_WAIT"}
CloseInv ==
    /\ queue.closeq <= 1
    /\ queue.closeq = 1 => app = "done"
    /\ s.finSent \/ s.state \in AfterClose => queue.closeq = 0 /\ app = "done"

ConnInv == StreamInv(s) /\ CloseInv
-----------------------------------------------------------------------------
(* What the other properties need besides.  The receiving half: *)
PeerInv(t) ==
    /\ t.state \in {"LISTEN", "SYN_RCVD"} => t.rhead = 1 /\ t.merged = 0
    /\ t.state \in {"ESTABLISHED", "FIN_WAIT_1", "FIN_WAIT_2"} =>
            t.rcvNxt = t.rhead + t.merged
    /\ t.state \in Synchronized =>
            \/ t.rcvNxt = t.rhead + t.merged
            \/ t.rcvNxt = t.rhead + t.merged + 1 /\ t.rcvNxt = PeerBytes + 2
    /\ t.rcvWnd <= RcvSize => t.merged + t.rcvWnd <= RcvSize

\* Only an answer to our SYN opens the connection, and nothing is sent or owed to
\* a peer without an address; one round's packet leaves at most three ACKs to a list
\* that was empty.
AddressKnown ==
    /\ s.state \in Synchronized \/ queue.acceptq > 0 \/ app # "none" => 0 \in s.sent
    /\ s.sent # {} \/ s.ackCnt > 0 \/ queue.ackq > 0 => arp
AckInv ==
    s.alive => /\ s.ackCnt <= 3
               /\ s.ackCnt > 0 => "ack" \in s.lists
               /\ stack \in {"data", "dataend", "packet"} => s.ackCnt = 0

InCall == {"idle", "recv", "recvwait", "send", "sendwait", "notify"}
ReaderInv ==
    s.alive => /\ app \in InCall => s.sock
               /\ app = "recvwait" => /\ s.state \in {"ESTABLISHED", "CLOSE_WAIT"}
                                      /\ s.merged = 0 /\ s.rcvNxt = s.rhead

ReadInv == PeerInv(s) /\ AddressKnown /\ AckInv /\ ReaderInv

(* The sending half, without stale duplicate ACKs. *)
BufferInv(t) ==
    /\ ~t.alive => t.lists = {} /\ t.timers = {}
    /\ ~t.buf => t.head = 1 /\ t.len = 0 /\ "send" \notin t.lists
    /\ t.state \in {"LISTEN", "SYN_RCVD"} =>
            t.sent \subseteq {0} /\ "timeout" \notin t.timers /\ ~t.finSent /\ ~t.buf
    /\ "rto" \in t.timers => t.state \in Retransmits
    /\ "rto" \in t.timers /\ t.state \in {"ESTABLISHED", "CLOSE_WAIT"} => t.buf

FinInv(t) ==
    /\ t.state \in AfterClose => t.fss = t.head + t.len
    /\ t.state = "FIN_WAIT_2" => t.len = 0 /\ 1..(t.fss - 1) \subseteq t.sent
    /\ t.alive /\ t.state \in {"FIN_WAIT_1", "LAST_ACK"} /\ ~t.finSent
        => \/ "control" \in t.lists
           \/ t.waiting /\ t.lists \cap {"send", "ack"} # {}

CallInv ==
    /\ app = "notify" \/ queue.sendq > 0 => s.buf
    /\ app # "none" \/ queue.acceptq > 0 => s.state \notin {"LISTEN", "SYN_RCVD"}
    /\ stack = "dataend" => s.alive

WriteInv == BufferInv(s) /\ FinInv(s) /\ CallInv /\ NoAssertFails
=============================================================================
