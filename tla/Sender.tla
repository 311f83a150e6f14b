------------------------------- MODULE Sender -------------------------------
(***************************************************************************)
(* The sender (user_sender) of the stack thread: its control, ack and send *)
(* lists, shared by all streams, the passes over them, and what a packet   *)
(* needs on its way out: an address in the ARP table and the one transmit  *)
(* buffer of the NIC.  TcpStream follows one stream in detail; here several *)
(* streams, with different peers, are in each other's way.                 *)
(*                                                                         *)
(* Sequence numbers count segments of data; SYN and FIN have none here.    *)
(***************************************************************************)
EXTENDS Integers, Sequences, FiniteSets

CONSTANTS Stream, Addr,
          daddr,    \* the peer of each stream
          Bytes,    \* bound: the segments the application sends on each stream
          MaxWnd    \* bound: windows range over 0..MaxWnd

ASSUME SenderAssumption ==
    /\ daddr \in [Stream -> Addr] /\ Bytes \in [Stream -> Nat]
    /\ MaxWnd \in Nat /\ "other" \notin Addr

VARIABLES state,
          sender,   \* list, cnt and on: each list, its counter, the streams
                    \* whose on_..._list flag is set
          ack_cnt, is_wack, control_list_waiting,
          snd_una, snd_nxt, snd_end, peer_wnd,  \* snd_end = head_seq + len
          flight,   \* a stream's SYN-ACK or FIN: not sent ("none"), in flight
                    \* ("out"), or once sent and timed out ("late")
          arp,      \* addresses in the table, and those a request waits for
          asked,    \* addresses whose ARP request left the machine
          snd_pkt,  \* the transmit buffer: the address of the ARP request in it,
                    \* or "other", any other packet or none
          round     \* the thread's position, and what is left of a pass

acks == <<ack_cnt, is_wack, control_list_waiting>>
data == <<snd_una, snd_nxt, snd_end, peer_wnd, flight>>
vars == <<state, sender, acks, data, arp, asked, snd_pkt, round>>

Lists == {"control", "ack", "send"}
MinOf(a, b) == IF a <= b THEN a ELSE b

Init ==
    /\ state = [s \in Stream |-> "LISTEN"]
    /\ sender = [list |-> [l \in Lists |-> <<>>], cnt |-> [l \in Lists |-> 0],
                 on |-> [l \in Lists |-> {}]]
    /\ ack_cnt = [s \in Stream |-> 0] /\ is_wack = [s \in Stream |-> FALSE]
    /\ control_list_waiting = [s \in Stream |-> FALSE]
    /\ snd_una = [s \in Stream |-> 0] /\ snd_nxt = [s \in Stream |-> 0]
    /\ snd_end = [s \in Stream |-> 0] /\ peer_wnd = [s \in Stream |-> MaxWnd]
    /\ flight = [s \in Stream |-> "none"]
    /\ arp = [table |-> {}, pending |-> {}] /\ asked = {}
    /\ snd_pkt = "other"
    /\ round = [pc |-> "calls", todo |-> 0]

At(place) == round.pc = place
On(l) == sender.on[l]
Known(s) == daddr[s] \in arp.table
InFlight(s) == snd_nxt[s] - snd_una[s]
-----------------------------------------------------------------------------
(* The lists, as functions of q = sender. *)

Add(q, l, s) ==
    IF s \in q.on[l] THEN q
    ELSE [list |-> [q.list EXCEPT ![l] = Append(@, s)],
          cnt |-> [q.cnt EXCEPT ![l] = @ + 1],
          on |-> [q.on EXCEPT ![l] = @ \cup {s}]]

\* TAILQ_REMOVE
TakeOut(list, s) ==
    LET p == CHOOSE i \in 1..Len(list) : list[i] = s
    IN  [i \in 1..(Len(list) - 1) |-> IF i < p THEN list[i] ELSE list[i + 1]]

MutRemove(q, l, s) ==  \* the counter left alone
    IF s \notin q.on[l] THEN q
    ELSE [q EXCEPT !.list[l] = TakeOut(@, s), !.on[l] = @ \ {s}]
Remove(q, l, s) ==
    IF s \notin q.on[l] THEN q
    ELSE [list |-> [q.list EXCEPT ![l] = TakeOut(@, s)],
          cnt |-> [q.cnt EXCEPT ![l] = @ - 1],
          on |-> [q.on EXCEPT ![l] = @ \ {s}]]

MutRemoveAll(q, s) == Remove(Remove(q, "control", s), "send", s)  \* forgets the acks
RemoveAll(q, s) == Remove(Remove(Remove(q, "control", s), "send", s), "ack", s)

(* DestroyTcpStream, of a stream on any of the lists of q.  The fields of a stream
   that is no more are zeroed: they mean nothing. *)
Destroy(q, s) ==
    /\ sender' = RemoveAll(q, s)
    /\ state' = [state EXCEPT ![s] = "FREE"]
    /\ ack_cnt' = [ack_cnt EXCEPT ![s] = 0] /\ is_wack' = [is_wack EXCEPT ![s] = FALSE]
    /\ control_list_waiting' = [control_list_waiting EXCEPT ![s] = FALSE]
    /\ snd_una' = [snd_una EXCEPT ![s] = 0] /\ snd_nxt' = [snd_nxt EXCEPT ![s] = 0]
    /\ snd_end' = [snd_end EXCEPT ![s] = 0] /\ peer_wnd' = [peer_wnd EXCEPT ![s] = 0]
    /\ flight' = [flight EXCEPT ![s] = "none"]

\* control_list_waiting: the FIN of the stream waits for the two other lists
StopsWaiting(q, s, other) == control_list_waiting[s] /\ s \notin q.on[other]
StopWaiting(q, s, other) ==
    /\ sender' = IF StopsWaiting(q, s, other) THEN Add(q, "control", s) ELSE q
    /\ control_list_waiting' =
         [control_list_waiting EXCEPT ![s] = @ /\ ~StopsWaiting(q, s, other)]

(* IPOutput: a packet to a known peer replaces what the transmit buffer holds.
   The address of another one is asked for, and only once until the reply. *)
MutSegmentTo(s) ==  \* asks, and forgets that it did
    snd_pkt' = (IF Known(s) THEN "other" ELSE daddr[s]) /\ UNCHANGED arp
SegmentTo(s) ==
    \/ Known(s) /\ snd_pkt' = "other" /\ UNCHANGED arp
    \/ ~Known(s) /\ daddr[s] \in arp.pending /\ UNCHANGED <<arp, snd_pkt>>
    \/ /\ ~Known(s) /\ daddr[s] \notin arp.pending
       /\ arp' = [arp EXCEPT !.pending = @ \cup {daddr[s]}]
       /\ snd_pkt' = daddr[s]
-----------------------------------------------------------------------------
(* What a round does before it writes: timers and queues of the API. *)

\* Until close() is handled.  CLOSE_WAIT is entered by a reset here.
Open == {s \in Stream : state[s] \in {"ESTABLISHED", "CLOSE_WAIT"}}

\* SBPut by the application, then the queue
HandleSendq(s) ==
    /\ At("calls") /\ s \in Open /\ snd_end[s] < Bytes[s]
    /\ snd_end' = [snd_end EXCEPT ![s] = @ + 1]
    /\ sender' = Add(sender, "send", s)
    /\ UNCHANGED <<state, acks, snd_una, snd_nxt, peer_wnd, flight, arp, asked,
                   snd_pkt, round>>

\* ACK_OPT_AGGREGATE
HandleAckq(s) ==
    /\ At("calls") /\ s \in Open
    /\ ack_cnt' = [ack_cnt EXCEPT ![s] = IF @ = 0 THEN 1 ELSE @]
    /\ sender' = Add(sender, "ack", s)
    /\ UNCHANGED <<state, is_wack, control_list_waiting, data, arp, asked, snd_pkt, round>>

\* A stream on the control list goes to closeq_int instead, which nobody reads.
HandleCloseq(s) ==
    /\ At("calls") /\ state[s] = "ESTABLISHED" /\ s \notin On("control")
    /\ state' = [state EXCEPT ![s] = "FIN_WAIT_1"]
    /\ IF s \in On("send") \cup On("ack")
       THEN /\ control_list_waiting' = [control_list_waiting EXCEPT ![s] = TRUE]
            /\ UNCHANGED sender
       ELSE /\ sender' = Add(sender, "control", s)
            /\ UNCHANGED control_list_waiting
    /\ UNCHANGED <<ack_cnt, is_wack, data, arp, asked, snd_pkt, round>>

\* On the RTO store, in a state HandleRTO knows.
TimerRuns(s) == /\ state[s] \in {"SYN_RCVD", "ESTABLISHED", "CLOSE_WAIT", "FIN_WAIT_1"}
                /\ InFlight(s) > 0 \/ flight[s] = "out"

MutRetransmitTo(s) ==  \* the FIN alone, without the data before it
    IF s \in Open THEN Add(sender, "send", s) ELSE Add(sender, "control", s)
\* The lists after HandleRTO: data goes before its FIN again, a SYN-ACK alone.
FinBehindData(s) == state[s] = "FIN_WAIT_1" /\ snd_una[s] < snd_end[s]
RetransmitTo(s) ==
    IF s \in Open THEN Add(sender, "send", s)
    ELSE IF FinBehindData(s) THEN Add(Remove(sender, "control", s), "send", s)
    ELSE Add(sender, "control", s)

\* HandleRTO
Retransmit(s) ==
    /\ At("calls") /\ TimerRuns(s)
    /\ snd_nxt' = [snd_nxt EXCEPT ![s] = snd_una[s]]
    /\ flight' = [flight EXCEPT ![s] = IF @ = "out" THEN "late" ELSE @]
    /\ sender' = RetransmitTo(s)
    /\ control_list_waiting' = [control_list_waiting EXCEPT ![s] = @ \/ FinBehindData(s)]
    /\ UNCHANGED <<state, ack_cnt, is_wack, snd_una, snd_end, peer_wnd, arp, asked,
                   snd_pkt, round>>

\* A stream is destroyed, whatever lists it is on.
Dies(s) == Destroy(sender, s) /\ UNCHANGED <<arp, asked, snd_pkt, round>>

\* HandleRTO after TCP_MAX_RTX times
GiveUp(s) == At("calls") /\ TimerRuns(s) /\ Dies(s)

\* 30 seconds of silence: established streams, and those acceptq had no room for
CheckConnectionTimeout(s) ==
    At("calls") /\ (s \in Open \/ state[s] = "CLOSED") /\ Dies(s)

CheckTimewaitExpire(s) ==
    At("calls") /\ state[s] = "TIME_WAIT" /\ s \notin On("control") /\ Dies(s)

\* close() of a stream with have_reset
HandleCloseqReset(s) == At("calls") /\ state[s] = "CLOSE_WAIT" /\ Dies(s)

Calls(s) ==
    \/ HandleSendq(s) \/ HandleAckq(s) \/ HandleCloseq(s) \/ HandleCloseqReset(s)
    \/ Retransmit(s) \/ GiveUp(s) \/ CheckConnectionTimeout(s) \/ CheckTimewaitExpire(s)

Pass(place, todo) == round' = [pc |-> place, todo |-> todo]

StartWrite ==
    /\ At("calls") /\ Pass("control", sender.cnt["control"])
    /\ UNCHANGED <<state, sender, acks, data, arp, asked, snd_pkt>>
-----------------------------------------------------------------------------
(* user_tcp_write_controllist *)

MutDelayed(s) == s \in On("send") \cup On("ack")  \* in any state
\* user_tcp_send_controlpkt < 0 before it comes to a packet
Delayed(s) == state[s] \in {"FIN_WAIT_1", "CLOSED"} /\ s \in On("send") \cup On("ack")

\* The stream goes back to the head of the list, and the pass ends there.
ControlBlocked ==
    LET s == Head(sender.list["control"])
    IN  /\ At("control") /\ round.todo > 0
        /\ Delayed(s) \/ ~Known(s)
        /\ IF Delayed(s) THEN UNCHANGED <<arp, snd_pkt>> ELSE SegmentTo(s)
        /\ Pass("ack", sender.cnt["ack"])
        /\ UNCHANGED <<state, sender, acks, data, asked>>

\* After its RST a stream is destroyed.
ControlSent ==
    LET s == Head(sender.list["control"])
        q == Remove(sender, "control", s)
    IN  /\ At("control") /\ round.todo > 0
        /\ ~Delayed(s) /\ Known(s)
        /\ SegmentTo(s)
        /\ IF state[s] = "CLOSED"
           THEN Destroy(q, s)
           ELSE /\ sender' = q
                /\ flight' = IF state[s] \in {"SYN_RCVD", "FIN_WAIT_1"}
                             THEN [flight EXCEPT ![s] = "out"] ELSE flight
                /\ UNCHANGED <<state, acks, snd_una, snd_nxt, snd_end, peer_wnd>>
        /\ Pass("control", round.todo - 1)
        /\ UNCHANGED asked

ControlDone ==
    /\ At("control") /\ round.todo = 0
    /\ Pass("ack", sender.cnt["ack"])
    /\ UNCHANGED <<state, sender, acks, data, arp, asked, snd_pkt>>
-----------------------------------------------------------------------------
(* user_tcp_write_acklist.  What is left of the pass is the list's tail. *)

\* Until the peer's FIN is counted in rcv_nxt.
MayAck == {"ESTABLISHED", "CLOSE_WAIT", "FIN_WAIT_1", "FIN_WAIT_2"}
AckNext == sender.list["ack"][Len(sender.list["ack"]) - round.todo + 1]
ToAck(s) == state[s] \in MayAck /\ (ack_cnt[s] > 0 \/ is_wack[s])

(* Every ACK goes out, or none is to be sent: off the list.  Without an
   address the stream stays, and the pass goes on with the next one. *)
AckWritten ==
    LET s == AckNext
        kept == ToAck(s) /\ ~Known(s)
    IN  /\ At("ack") /\ round.todo > 0
        /\ IF ToAck(s) THEN SegmentTo(s) ELSE UNCHANGED <<arp, snd_pkt>>
        /\ ack_cnt' = [ack_cnt EXCEPT ![s] = IF kept THEN @ ELSE 0]
        /\ is_wack' = [is_wack EXCEPT ![s] = kept /\ @]
        /\ StopWaiting(IF kept THEN sender ELSE Remove(sender, "ack", s), s, "send")
        /\ Pass("ack", round.todo - 1)
        /\ UNCHANGED <<state, data, asked>>

AckDone ==
    /\ At("ack") /\ round.todo = 0
    /\ Pass("data", sender.cnt["send"])
    /\ UNCHANGED <<state, sender, acks, data, arp, asked, snd_pkt>>
-----------------------------------------------------------------------------
(* user_tcp_write_datalist and user_tcp_flush_sendbuffer *)

MutSendable(s, w) == MinOf(snd_end[s] - snd_nxt[s], w)  \* in flight not counted
(* How many segments the window w = MIN(cwnd, peer_wnd) lets out: each counts
   twice, in snd_nxt - snd_una and off w itself. *)
Sendable(s, w) ==
    Cardinality({k \in 1..MinOf(snd_end[s] - snd_nxt[s], w) :
                    \A i \in 1..k : InFlight(s) + i <= w - (i - 1)})

Flushes(s) == state[s] \in {"CLOSE_WAIT", "FIN_WAIT_1"} \/ (state[s] = "ESTABLISHED" /\ s \notin On("control"))

\* What goes out of s, and whether flush_sendbuffer returns < 0 then.
Sent(s, w) == IF Flushes(s) /\ Known(s) THEN Sendable(s, w) ELSE 0
Blocked(s, w) ==
    \/ state[s] = "ESTABLISHED" /\ s \in On("control")
    \/ Flushes(s) /\ ~Known(s) /\ Sendable(s, w) > 0
    \/ Flushes(s) /\ snd_nxt[s] + Sendable(s, w) < snd_end[s] /\ w > Sendable(s, w)

Flush(s, w) ==
    /\ snd_nxt' = [snd_nxt EXCEPT ![s] = @ + Sent(s, w)]
    /\ IF Flushes(s) /\ Sendable(s, w) > 0 THEN SegmentTo(s) ELSE UNCHANGED <<arp, snd_pkt>>
    /\ UNCHANGED <<snd_una, snd_end, peer_wnd, flight>>

\* Beyond the peer's window, and 500 ms without an ACK (late), the peer is asked.
AsksWindow(s, w, late) ==
    /\ late /\ Flushes(s) /\ Known(s)
    /\ InFlight(s) + Sendable(s, w) + 1 > peer_wnd[s]

MutEnqueueWack(q, s) == q  \* is_wack without the list
EnqueueWack(q, s) == Add(q, "ack", s)

MutPutBack(q, s) == q  \* to its head, as in write_controllist
PutBack(q, s) == [list |-> [q.list EXCEPT !["send"] = Append(Tail(@), s)],
                  cnt |-> q.cnt, on |-> q.on]

\* ret < 0: to the tail of the list, and the pass ends.
DataBlocked ==
    LET s == Head(sender.list["send"])
    IN  /\ At("data") /\ round.todo > 0
        /\ \E cwnd \in 1..(MaxWnd + 1), late \in BOOLEAN :
             LET w == MinOf(cwnd, peer_wnd[s])
                 wack == AsksWindow(s, w, late)
             IN  /\ Blocked(s, w)
                 /\ Flush(s, w)
                 /\ is_wack' = [is_wack EXCEPT ![s] = @ \/ wack]
                 /\ sender' = PutBack(IF wack THEN EnqueueWack(sender, s) ELSE sender, s)
        /\ Pass("packet", 0)
        /\ UNCHANGED <<state, ack_cnt, control_list_waiting, asked>>

\* Data carries ACKs.
StillOwed(c, ret) == IF c > ret THEN c - ret ELSE 0

\* ret >= 0, also for a stream in a state that sends nothing
DataWritten ==
    LET s == Head(sender.list["send"])
    IN  /\ At("data") /\ round.todo > 0
        /\ \E cwnd \in 1..(MaxWnd + 1) :
             LET w == MinOf(cwnd, peer_wnd[s])
             IN  /\ ~Blocked(s, w)
                 /\ Flush(s, w)
                 /\ ack_cnt' = [ack_cnt EXCEPT ![s] = StillOwed(@, Sent(s, w))]
        /\ StopWaiting(Remove(sender, "send", s), s, "ack")
        /\ Pass("data", round.todo - 1)
        /\ UNCHANGED <<state, is_wack, asked>>

DataDone ==
    /\ At("data") /\ round.todo = 0
    /\ Pass("packet", 0)
    /\ UNCHANGED <<state, sender, acks, data, arp, asked, snd_pkt>>

Write == \/ StartWrite \/ ControlBlocked \/ ControlSent \/ ControlDone
         \/ AckWritten \/ AckDone
         \/ DataBlocked \/ DataWritten \/ DataDone
-----------------------------------------------------------------------------
(* The end of a round: one packet, or else the transmit buffer. *)

NextRound == At("packet") /\ Pass("calls", 0)

\* user_nic_send_pkts, when poll reports room and no packet
Transmit ==
    /\ NextRound
    /\ snd_pkt' = "other"
    /\ asked' = IF snd_pkt \in Addr THEN asked \cup {snd_pkt} ELSE asked
    /\ UNCHANGED <<state, sender, acks, data, arp>>

ArpRequest(a) ==
    /\ NextRound
    /\ arp' = [arp EXCEPT !.table = @ \cup {a}]
    /\ snd_pkt' = "other"
    /\ UNCHANGED <<state, sender, acks, data, asked>>

ArpReply(a) ==
    /\ NextRound /\ a \in asked
    /\ arp' = [table |-> arp.table \cup {a}, pending |-> arp.pending \ {a}]
    /\ UNCHANGED <<state, sender, acks, data, asked, snd_pkt>>

\* user_tcp_passive_open, user_tcp_handle_listen; the SYN may come again
Syn(s) ==
    /\ NextRound /\ state[s] \in {"LISTEN", "SYN_RCVD"}
    /\ state' = [state EXCEPT ![s] = "SYN_RCVD"]
    /\ sender' = Add(sender, "control", s)
    /\ UNCHANGED <<acks, data, arp, asked, snd_pkt>>

\* user_tcp_handle_syn_rcvd, with acceptq full or not
Established(s, full) ==
    /\ NextRound /\ state[s] = "SYN_RCVD" /\ flight[s] # "none"
    /\ state' = [state EXCEPT ![s] = IF full THEN "CLOSED" ELSE "ESTABLISHED"]
    /\ sender' = IF full THEN Add(sender, "control", s) ELSE sender
    /\ flight' = [flight EXCEPT ![s] = "none"]
    /\ UNCHANGED <<acks, snd_una, snd_nxt, snd_end, peer_wnd, arp, asked, snd_pkt>>

\* Data in order is answered at once.
Data(s) ==
    /\ NextRound /\ state[s] \in {"ESTABLISHED", "FIN_WAIT_1", "FIN_WAIT_2"}
    /\ ack_cnt' = [ack_cnt EXCEPT ![s] = @ + 1]
    /\ sender' = Add(sender, "ack", s)
    /\ UNCHANGED <<state, is_wack, control_list_waiting, data, arp, asked, snd_pkt>>

(* process_ack of numbers up to snd_nxt.  TcpStream has the ACK that overtakes
   a retransmission. *)
Ack(s, una, wnd) ==
    /\ NextRound /\ state[s] \in {"ESTABLISHED", "CLOSE_WAIT", "FIN_WAIT_1"}
    /\ una \in snd_una[s]..snd_nxt[s]
    /\ snd_una' = [snd_una EXCEPT ![s] = una]
    /\ peer_wnd' = [peer_wnd EXCEPT ![s] = wnd]
    /\ UNCHANGED <<state, sender, acks, snd_nxt, snd_end, flight, arp, asked, snd_pkt>>

\* The ACK of all data and of the FIN, which may have timed out since
AckOfFin(s, wnd) ==
    /\ NextRound /\ state[s] = "FIN_WAIT_1" /\ flight[s] # "none"
    /\ snd_nxt[s] = snd_end[s]
    /\ state' = [state EXCEPT ![s] = "FIN_WAIT_2"]
    /\ snd_una' = [snd_una EXCEPT ![s] = snd_end[s]]
    /\ peer_wnd' = [peer_wnd EXCEPT ![s] = wnd]
    /\ flight' = [flight EXCEPT ![s] = "none"]
    /\ UNCHANGED <<sender, acks, snd_nxt, snd_end, arp, asked, snd_pkt>>

\* The peer's FIN, after ours; it may come again
Fin(s) ==
    /\ NextRound /\ state[s] \in {"FIN_WAIT_2", "TIME_WAIT"}
    /\ state' = [state EXCEPT ![s] = "TIME_WAIT"]
    /\ sender' = Add(sender, "control", s)
    /\ UNCHANGED <<acks, data, arp, asked, snd_pkt>>

\* user_tcp_process_rst: an established stream is left to close().
Rst(s) ==
    /\ NextRound
    /\ \/ /\ state[s] \in {"SYN_RCVD", "FIN_WAIT_1", "FIN_WAIT_2", "TIME_WAIT"}
          /\ Destroy(sender, s)
       \/ /\ s \in Open
          /\ state' = [state EXCEPT ![s] = "CLOSE_WAIT"]
          /\ UNCHANGED <<sender, acks, data>>
    /\ UNCHANGED <<arp, asked, snd_pkt>>

Packet ==
    \/ \E a \in Addr : ArpRequest(a) \/ ArpReply(a)
    \/ \E s \in Stream : \/ Syn(s) \/ Data(s) \/ Fin(s) \/ Rst(s)
                         \/ \E full \in BOOLEAN : Established(s, full)
                         \/ \E wnd \in 0..MaxWnd :
                              \/ \E una \in 0..Bytes[s] : Ack(s, una, wnd)
                              \/ AckOfFin(s, wnd)

Next == (\E s \in Stream : Calls(s)) \/ Write \/ Transmit \/ Packet

Spec == Init /\ [][Next]_vars

(* The thread keeps going round; nothing is assumed of peers and callers. *)
FairSpec == Spec /\ WF_vars(Write) /\ WF_vars(Transmit \/ Packet)
-----------------------------------------------------------------------------
(* The type invariant, in three parts: the lists, the numbers, the way out. *)
SenderType == [list : [Lists -> Seq(Stream)], cnt : [Lists -> Nat],
               on : [Lists -> SUBSET Stream]]
States == {"LISTEN", "SYN_RCVD", "ESTABLISHED", "CLOSE_WAIT", "FIN_WAIT_1",
           "FIN_WAIT_2", "TIME_WAIT", "CLOSED", "FREE"}
ListType ==
    /\ state \in [Stream -> States]
    /\ sender \in SenderType
    /\ ack_cnt \in [Stream -> Nat] /\ is_wack \in [Stream -> BOOLEAN]
    /\ control_list_waiting \in [Stream -> BOOLEAN]
    /\ round \in [pc : {"calls", "control", "ack", "data", "packet"}, todo : Nat]
NumberType ==
    /\ snd_una \in [Stream -> Nat] /\ snd_nxt \in [Stream -> Nat]
    /\ snd_end \in [Stream -> Nat] /\ peer_wnd \in [Stream -> 0..MaxWnd]
    /\ flight \in [Stream -> {"none", "out", "late"}]
    /\ \A s \in Stream : /\ snd_una[s] <= snd_nxt[s] /\ snd_nxt[s] <= snd_end[s]
                         /\ snd_end[s] <= Bytes[s]
ArpType ==
    /\ arp \in [table : SUBSET Addr, pending : SUBSET Addr] /\ asked \in SUBSET Addr
    /\ snd_pkt \in {"other"} \cup Addr
TypeOK == ListType /\ NumberType /\ ArpType

(* A list holds the streams with its flag, each once, and the counter is its
   length: the passes, the additions from everywhere, the FIN that HandleRTO takes
   off again and the destruction of listed streams agree (TAILQ_REMOVE of an
   absent stream corrupts the list, a counter at 0 stops its pass for good). *)
Holds(list, n, flags) ==
    /\ n = Len(list)
    /\ \A i \in 1..Len(list) : list[i] \in flags
    /\ \A s \in flags : \E i \in 1..Len(list) : list[i] = s
    /\ \A i, j \in 1..Len(list) : list[i] = list[j] => i = j
ListsTrue(q) == \A l \in Lists : Holds(q.list[l], q.cnt[l], q.on[l])
ListsMatchFlags == ListsTrue(sender)

(* A stream that a reset, a timer or its RST destroyed is on no list, and no pass
   or flush that still had it in hand puts it back. *)
FreedUnlisted == \A s \in Stream, l \in Lists : state[s] = "FREE" => s \notin On(l)

(* An ACK that is owed has its stream on the ack list, although the data list
   pays debts too and a pass that fails keeps them. *)
AcksListed == \A s \in Stream : ack_cnt[s] > 0 \/ is_wack[s] => s \in On("ack")

(* A close that waits for the stream's data and ACKs, at first or since HandleRTO
   sent it back behind its data, waits for a list the stream is on; the pass over
   that list will wake it. *)
FinAwaited == \A s \in Stream : control_list_waiting[s] => s \in On("send") \cup On("ack")

(* An address that was asked for is pending until it is known; of the pending
   ones user_arp_request builds no second request. *)
AskedNotForgotten == asked \subseteq arp.pending \cup arp.table

(* No segment goes beyond what the peer advertised last. *)
WindowKept ==
    [][\A s \in Stream : snd_nxt'[s] > snd_nxt[s] => snd_nxt'[s] - snd_una[s] <= peer_wnd[s]]_vars

(* Data whose peer is known and has room, with nothing in flight to wait for,
   goes out whatever the peers of other streams do: write_datalist puts a
   stream that cannot send behind the others. *)
DataReady(s) == /\ s \in On("send") \ On("control") /\ snd_nxt[s] < snd_end[s]
                /\ Known(s) /\ InFlight(s) = 0 /\ peer_wnd[s] > 0
DataServed == \A s \in Stream : DataReady(s) ~> ~DataReady(s)

(* The control list has no such turns: its head blocks the others.  It still
   empties when every peer becomes known, keeps acknowledging and opening its
   window, and is silent for a round now and then: no circle of FINs, data
   and ACKs waits for itself.  (A peer whose data arrives in every round keeps
   its stream on the ack list and every other stream's SYN and FIN waiting.) *)
PeersAnswer ==
    \A s \in Stream :
        \/ <>[](state[s] = "FREE")
        \/ /\ []<>Known(s)
           /\ []<>(InFlight(s) = 0 /\ peer_wnd[s] > 0)
           /\ []<>(At("control") /\ s \notin On("ack"))
ControlDrains == PeersAnswer => \A s \in Stream : s \in On("control") ~> s \notin On("control")
-----------------------------------------------------------------------------
(* What the safety properties need to be inductive. *)

\* A pass never has more to do than its list is long.
PassInv == /\ At("control") => round.todo <= sender.cnt["control"]
           /\ At("ack") => round.todo <= sender.cnt["ack"]
           /\ At("data") => round.todo <= sender.cnt["send"]
\* Only a stream that may send owes ACKs, only one that closes waits.
StateInv == \A s \in Stream :
    /\ ack_cnt[s] > 0 \/ is_wack[s] => state[s] \in MayAck \cup {"TIME_WAIT"}
    /\ control_list_waiting[s] => state[s] \in {"FIN_WAIT_1", "FIN_WAIT_2", "TIME_WAIT"}
\* A request is recorded before it leaves.
RequestInv == snd_pkt \in Addr => snd_pkt \in arp.pending \cup arp.table

ListInv == /\ ListType /\ ListsMatchFlags /\ FreedUnlisted /\ AcksListed /\ FinAwaited
           /\ PassInv /\ StateInv
ArpInv == ArpType /\ RequestInv /\ AskedNotForgotten
SenderInv == ListInv /\ NumberType /\ ArpInv
=============================================================================
