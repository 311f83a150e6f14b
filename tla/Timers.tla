------------------------------- MODULE Timers -------------------------------
(***************************************************************************)
(* The three timer structures of the stack thread (user_timer.c) and its   *)
(* clock, for several streams: the RTO store, a ring of RTO_HASH lists and *)
(* one more for what lies further ahead; the timewait list; and the list   *)
(* of idle connections.  What the other parts of the thread do to a stream *)
(* is reduced to the calls they make here.                                 *)
(***************************************************************************)
EXTENDS Integers, Sequences, FiniteSets

CONSTANTS Stream,
          RTO_HASH,  \* 3000 ticks
          Rto,       \* snd->rto, the same for all streams
          Timeout,   \* USER_TCP_TIMEOUT in ticks
          Thresh,    \* USER_MAX_CONCURRENCY, the streams there can be
          Every,     \* 1000: how often the store is rearranged
          Word,      \* 2^32, the range of a uint32_t
          MaxTs      \* bound on the clock

ASSUME TimersAssumption ==
    /\ RTO_HASH \in Nat \ {0} /\ Rto \in Nat \ {0} /\ Timeout \in Nat \ {0}
    /\ Thresh \in Nat \ {0} /\ Every \in Nat \ {0} /\ Word \in Nat \ {0}
    /\ MaxTs \in Nat
    /\ IsFiniteSet(Stream)

USER_TCP_TIMEWAIT == 0

VARIABLES now,       \* gettimeofday
          state,     \* "free", "open", "closing" (after close()), "time_wait"
          rto,       \* rto_store: lists, count of their streams, now_idx, now_ts
          ts_rto, on_rto_idx,
          timewait_list, ts_tw_expire,
          timeout_list, last_active,
          on_control_list,
          round      \* the thread: position, ts at its start, count of CheckRtmTimeout

vars == <<now, state, rto, ts_rto, on_rto_idx, timewait_list, ts_tw_expire,
          timeout_list, last_active, on_control_list, round>>

Items(l) == {l[i] : i \in DOMAIN l}
\* The elements of l that are in S, in the order of l.
Only(l, S) ==
    LET at == {i \in DOMAIN l : l[i] \in S}
        rank(i) == Cardinality({j \in at : j <= i})
    IN  [k \in 1..Cardinality(at) |-> l[CHOOSE i \in at : rank(i) = k]]
Without(l, gone) == Only(l, Items(l) \ gone)
MoveToTail(l, s) == IF s \in Items(l) THEN Append(Without(l, {s}), s) ELSE l

\* InitRTOHashstore
Init ==
    /\ now = 0
    /\ state = [s \in Stream |-> "free"]
    /\ rto = [list |-> [i \in 0..RTO_HASH |-> <<>>], cnt |-> 0,
              now_idx |-> 0, now_ts |-> 0]
    /\ ts_rto = [s \in Stream |-> 0] /\ on_rto_idx = [s \in Stream |-> -1]
    /\ timewait_list = <<>> /\ ts_tw_expire = [s \in Stream |-> 0]
    /\ timeout_list = <<>> /\ last_active = [s \in Stream |-> 0]
    /\ on_control_list = [s \in Stream |-> FALSE]
    /\ round = [pc |-> "write", ts |-> 0, cnt |-> 0]
-----------------------------------------------------------------------------
(* The functions of user_timer.c, on r = rto and idx = on_rto_idx together. *)

Store == [r |-> rto, idx |-> on_rto_idx]

(* AddtoRTOList: an empty store starts its ring anew.  A stream that is on it
   stays where it is, although its ts_rto has changed. *)
AddtoRTOList(st, s, ts) ==
    LET base == IF st.r.cnt = 0 THEN [st.r EXCEPT !.now_idx = 0, !.now_ts = ts]
                                ELSE st.r
        offset == IF ts - base.now_ts < RTO_HASH THEN ts % RTO_HASH ELSE RTO_HASH
    IN  IF st.idx[s] >= 0 THEN st
        ELSE [r |-> [base EXCEPT !.list[offset] = Append(@, s), !.cnt = @ + 1],
              idx |-> [st.idx EXCEPT ![s] = offset]]

MutRemoveFromRTOList(st, s) ==  \* the stream keeps its index
    IF st.idx[s] < 0 THEN st
    ELSE [st EXCEPT !.r.list[st.idx[s]] = Without(@, {s}), !.r.cnt = @ - 1]
RemoveFromRTOList(st, s) ==
    IF st.idx[s] < 0 THEN st
    ELSE [r |-> [st.r EXCEPT !.list[st.idx[s]] = Without(@, {s}), !.cnt = @ - 1],
          idx |-> [st.idx EXCEPT ![s] = -1]]

\* RearrangeRTOStore: the difference is taken the other way round, and is negative
\* in a sum of unsigned words.
RearrangeRTOStore(st) ==
    LET ahead == st.r.list[RTO_HASH]
        far == {s \in Items(ahead) : st.r.now_ts - ts_rto[s] < RTO_HASH}
        slot(s) == ((st.r.now_ts - ts_rto[s] + st.r.now_idx) % Word) % RTO_HASH
    IN  [r |-> [st.r EXCEPT !.list = [i \in 0..RTO_HASH |->
                    IF i = RTO_HASH THEN Without(ahead, far)
                    ELSE @[i] \o Only(ahead, {s \in far : slot(s) = i})]],
         idx |-> [s \in Stream |-> IF s \in far THEN slot(s) ELSE st.idx[s]]]

SetStore(st) == rto' = st.r /\ on_rto_idx' = st.idx

\* DestroyTcpStream: off every list
DestroyAll(gone, st) ==
    /\ state' = [s \in Stream |-> IF s \in gone THEN "free" ELSE state[s]]
    /\ timewait_list' = Without(timewait_list, gone)
    /\ timeout_list' = Without(timeout_list, gone)
    /\ on_control_list' = [s \in Stream |-> on_control_list[s] /\ s \notin gone]
    /\ SetStore([r |-> [st.r EXCEPT !.list = [i \in 0..RTO_HASH |-> Without(@[i], gone)],
                        !.cnt = @ - Cardinality({s \in gone : st.idx[s] >= 0})],
                 idx |-> [s \in Stream |-> IF s \in gone THEN -1 ELSE st.idx[s]]])
-----------------------------------------------------------------------------
(* What the thread does to streams between two checks of the timers. *)

Tick == /\ now < MaxTs
        /\ now' = now + 1
        /\ UNCHANGED <<state, rto, ts_rto, on_rto_idx, timewait_list, ts_tw_expire,
                       timeout_list, last_active, on_control_list, round>>

\* The one packet of a round comes after the writes, on a clock of its own.
Received == /\ round.pc = "write"
            /\ round' = [round EXCEPT !.pc = "received"]

\* user_tcp_handle_syn_rcvd
Establish(s) ==
    /\ Received /\ state[s] = "free"
    /\ state' = [state EXCEPT ![s] = "open"]
    /\ last_active' = [last_active EXCEPT ![s] = now]
    /\ timeout_list' = Append(timeout_list, s)
    /\ UNCHANGED <<now, rto, ts_rto, on_rto_idx, timewait_list, ts_tw_expire,
                   on_control_list>>

MutTouch(s, ts) ==  \* UpdateTimeoutList left out
    /\ last_active' = [last_active EXCEPT ![s] = ts]
    /\ UNCHANGED timeout_list
\* last_active_ts and UpdateTimeoutList
Touch(s, ts) ==
    /\ last_active' = [last_active EXCEPT ![s] = ts]
    /\ timeout_list' = MoveToTail(timeout_list, s)

\* user_tcp_send_tcppkt with payload or FIN, on the clock of the round
Send(s) ==
    /\ round.pc = "write" /\ state[s] \in {"open", "closing"}
    /\ Touch(s, round.ts)
    /\ ts_rto' = [ts_rto EXCEPT ![s] = round.ts + Rto]
    /\ SetStore(AddtoRTOList(Store, s, round.ts + Rto))
    /\ on_control_list' = [on_control_list EXCEPT ![s] = FALSE]
    /\ UNCHANGED <<now, state, timewait_list, ts_tw_expire, round>>

\* user_tcp_send_tcppkt without payload, from the control list
SendAck(s) ==
    /\ round.pc = "write" /\ on_control_list[s]
    /\ Touch(s, round.ts)
    /\ on_control_list' = [on_control_list EXCEPT ![s] = FALSE]
    /\ UNCHANGED <<now, state, rto, ts_rto, on_rto_idx, timewait_list,
                   ts_tw_expire, round>>

(* A segment: user_tcp_process, and UpdateRetransmissionTimer when it acknowledges;
   inFlight: whether anything is left to be acknowledged. *)
Segment(s, acks, inFlight) ==
    /\ Received /\ state[s] \in {"open", "closing"}
    /\ Touch(s, now)
    /\ ts_rto' = IF acks /\ inFlight THEN [ts_rto EXCEPT ![s] = now + Rto] ELSE ts_rto
    /\ SetStore(LET removed == RemoveFromRTOList(Store, s) IN
                IF ~acks THEN Store
                ELSE IF inFlight THEN AddtoRTOList(removed, s, now + Rto)
                ELSE removed)
    /\ UNCHANGED <<now, state, timewait_list, ts_tw_expire, on_control_list>>

\* close() taken up by handle_apicall: off the timeout list
Close(s) ==
    /\ round.pc = "write" /\ state[s] = "open"
    /\ state' = [state EXCEPT ![s] = "closing"]
    /\ timeout_list' = Without(timeout_list, {s})
    /\ on_control_list' = [on_control_list EXCEPT ![s] = TRUE]
    /\ UNCHANGED <<now, rto, ts_rto, on_rto_idx, timewait_list, ts_tw_expire,
                   last_active, round>>

\* AddtoTimewaitList: both lists use timer_link, so the store is left first.
MutAddtoTimewaitList(s) ==  \* it is not
    /\ ts_tw_expire' = [ts_tw_expire EXCEPT ![s] = now + USER_TCP_TIMEWAIT]
    /\ timewait_list' = Append(Without(timewait_list, {s}), s)
    /\ UNCHANGED <<rto, on_rto_idx>>
AddtoTimewaitList(s) ==
    /\ ts_tw_expire' = [ts_tw_expire EXCEPT ![s] = now + USER_TCP_TIMEWAIT]
    /\ timewait_list' = Append(Without(timewait_list, {s}), s)
    /\ SetStore(IF s \in Items(timewait_list) THEN Store ELSE RemoveFromRTOList(Store, s))

\* when the FINs are through, and for each FIN that comes again
TimeWait(s) ==
    /\ Received /\ state[s] \in {"closing", "time_wait"}
    /\ state' = [state EXCEPT ![s] = "time_wait"]
    /\ AddtoTimewaitList(s)
    /\ Touch(s, now)
    /\ on_control_list' = [on_control_list EXCEPT ![s] = TRUE]
    /\ UNCHANGED <<now, ts_rto>>

\* a RST, or the ACK of a passive closer's FIN
Destroy(s) ==
    /\ Received /\ state[s] \in {"open", "closing"}
    /\ DestroyAll({s}, Store)
    /\ UNCHANGED <<now, ts_rto, ts_tw_expire, last_active>>
-----------------------------------------------------------------------------
(* The checks at the start of a round of user_tcp_run. *)

StartRound ==
    /\ round.pc \in {"write", "received"}
    /\ round' = [pc |-> IF \A s \in Stream : state[s] = "free" THEN "write"
                        ELSE IF rto.cnt = 0 THEN "timewait" ELSE "rtm",
                 ts |-> now, cnt |-> 0]
    /\ UNCHANGED <<now, state, rto, ts_rto, on_rto_idx, timewait_list, ts_tw_expire,
                   timeout_list, last_active, on_control_list>>

(* One turn of CheckRtmTimeout's loop: HandleRTO of at most Thresh streams of the
   slot; dead: those whose retransmissions are used up.  With fewer than Thresh
   handled so far the loop ends, and the slot stays the current one. *)
CheckRtmTimeout(dead) ==
    LET slot == rto.list[rto.now_idx]
        room == IF round.cnt < Thresh THEN Thresh - round.cnt ELSE 0
        n == IF Len(slot) < room THEN Len(slot) ELSE room
        fired == {slot[i] : i \in 1..n}
        cnt == round.cnt + n + (IF n < Len(slot) THEN 1 ELSE 0)
        handled == [r |-> [rto EXCEPT !.list[rto.now_idx] = SubSeq(slot, n + 1, Len(slot)),
                                      !.cnt = @ - n],
                    idx |-> [s \in Stream |-> IF s \in fired THEN -1 ELSE on_rto_idx[s]]]
        next == [handled EXCEPT !.r.now_idx = (@ + 1) % RTO_HASH, !.r.now_ts = @ + 1]
    IN  /\ round.pc = "rtm" /\ rto.now_ts <= round.ts
        /\ dead \subseteq fired
        /\ IF cnt < Thresh
           THEN DestroyAll(dead, handled) /\ round' = [round EXCEPT !.pc = "timewait"]
           ELSE /\ DestroyAll(dead, IF next.r.now_idx % Every = 0 THEN RearrangeRTOStore(next)
                                                          ELSE next)
                /\ round' = [round EXCEPT !.cnt = cnt]
        /\ UNCHANGED <<now, ts_rto, ts_tw_expire, last_active>>

RtmNotYet ==
    /\ round.pc = "rtm" /\ rto.now_ts > round.ts
    /\ round' = [round EXCEPT !.pc = "timewait"]
    /\ UNCHANGED <<now, state, rto, ts_rto, on_rto_idx, timewait_list, ts_tw_expire,
                   timeout_list, last_active, on_control_list>>

\* The elements of l before the first one that is not due.
DuePrefix(l, due) == {l[i] : i \in {i \in DOMAIN l : \A k \in 1..i : l[k] \in due}}

\* A stream on the control list waits for its last ACK to be written.
CheckTimewaitExpire ==
    /\ round.pc = "timewait"
    /\ LET due == {s \in Stream : ts_tw_expire[s] <= round.ts} IN
       DestroyAll({s \in DuePrefix(timewait_list, due) : ~on_control_list[s]}, Store)
    /\ round' = [round EXCEPT !.pc = "timeout"]
    /\ UNCHANGED <<now, ts_rto, ts_tw_expire, last_active>>

\* walk->socket is never set, so the stream is destroyed.
CheckConnectionTimeout ==
    /\ round.pc = "timeout"
    /\ LET due == {s \in Stream : round.ts - last_active[s] >= Timeout} IN
       DestroyAll(DuePrefix(timeout_list, due), Store)
    /\ round' = [round EXCEPT !.pc = "write"]
    /\ UNCHANGED <<now, ts_rto, ts_tw_expire, last_active>>

Next ==
    \/ Tick \/ StartRound
    \/ \E dead \in SUBSET Stream : CheckRtmTimeout(dead)
    \/ RtmNotYet \/ CheckTimewaitExpire \/ CheckConnectionTimeout
    \/ \E s \in Stream :
        \/ Establish(s) \/ Send(s) \/ SendAck(s) \/ Close(s) \/ TimeWait(s) \/ Destroy(s)
        \/ \E acks, inFlight \in BOOLEAN : Segment(s, acks, inFlight)

Spec == Init /\ [][Next]_vars
-----------------------------------------------------------------------------
Ts == 0..(MaxTs + Rto)

TypeOK ==
    /\ now \in 0..MaxTs
    /\ state \in [Stream -> {"free", "open", "closing", "time_wait"}]
    /\ rto \in [list : [0..RTO_HASH -> Seq(Stream)], cnt : Nat,
                now_idx : 0..(RTO_HASH - 1), now_ts : Nat]
    /\ ts_rto \in [Stream -> Ts] /\ on_rto_idx \in [Stream -> -1..RTO_HASH]
    /\ timewait_list \in Seq(Stream) /\ ts_tw_expire \in [Stream -> Ts]
    /\ timeout_list \in Seq(Stream) /\ last_active \in [Stream -> Ts]
    /\ on_control_list \in [Stream -> BOOLEAN]
    /\ round \in [pc : {"write", "received", "rtm", "timewait", "timeout"}, ts : Ts, cnt : Nat]

OnceIn(l) == Cardinality(Items(l)) = Len(l)

(* Every link is used once: on_rto_idx names the list of the store a stream is on,
   the count is that of the streams on the store, no stream is on a list twice,
   none is both on the store and on the timewait list, and a freed stream is on
   none. *)
ListsTrue ==
    /\ \A i \in 0..RTO_HASH :
        /\ OnceIn(rto.list[i])
        /\ Items(rto.list[i]) = {s \in Stream : on_rto_idx[s] = i}
    /\ rto.cnt = Cardinality({s \in Stream : on_rto_idx[s] >= 0})
    /\ OnceIn(timewait_list) /\ OnceIn(timeout_list)
    /\ Items(timewait_list) = {s \in Stream : state[s] = "time_wait"}
    /\ Items(timeout_list) = {s \in Stream : state[s] = "open"}
    /\ \A s \in Stream : on_rto_idx[s] >= 0 => state[s] \in {"open", "closing"}

(* Although the checks stop at the first entry that is not due, they leave none
   behind: after CheckTimewaitExpire only streams that still owe an ACK are past
   their time, and no connection is idle for longer than the timeout. *)
NothingDueLeft ==
    /\ round.pc = "timeout" =>
        \A s \in Items(timewait_list) : ts_tw_expire[s] > round.ts \/ on_control_list[s]
    /\ round.pc = "write" =>
        \A s \in Items(timeout_list) : round.ts - last_active[s] < Timeout

(* CheckRtmTimeout leaves no stream on the store whose retransmission is due. *)
NoRtoOverdue ==
    round.pc = "timewait" =>
        \A s \in Stream : on_rto_idx[s] >= 0 => ts_rto[s] > round.ts
-----------------------------------------------------------------------------
(* What makes NothingDueLeft hold: every stream is on its list once, the lists
   are in the order of the times the checks look at, and no such time lies ahead
   of the clock it was read from.  Writes go by the clock of the round, the packet
   of the round by now, so only after it may a stream be younger than the round. *)
Distinct(l) == \A i, j \in DOMAIN l : l[i] = l[j] => i = j
Ordered(l, ts) == \A i, j \in DOMAIN l : i <= j => ts[l[i]] <= ts[l[j]]

StoreInv ==
    /\ \A i \in 0..RTO_HASH :
        /\ Distinct(rto.list[i])
        /\ Items(rto.list[i]) = {s \in Stream : on_rto_idx[s] = i}
    /\ rto.cnt = Cardinality({s \in Stream : on_rto_idx[s] >= 0})
    /\ \A s \in Stream : on_rto_idx[s] >= 0 => state[s] \in {"open", "closing"}

OrderInv ==
    /\ Distinct(timewait_list) /\ Distinct(timeout_list)
    /\ Items(timewait_list) = {s \in Stream : state[s] = "time_wait"}
    /\ Items(timeout_list) = {s \in Stream : state[s] = "open"}
    /\ Ordered(timewait_list, ts_tw_expire)
    /\ Ordered(timeout_list, last_active)

ClockInv ==
    /\ round.ts <= now
    /\ \A s \in Stream : ts_tw_expire[s] <= now /\ last_active[s] <= now
    /\ round.pc # "received" => \A s \in Stream : last_active[s] <= round.ts

IInv == TypeOK /\ StoreInv /\ OrderInv /\ ClockInv /\ NothingDueLeft
=============================================================================
