# A TLA+ model of UserModeTcp

UserModeTcp is a TCP/IP stack in user space over netmap, with a socket API and
an epoll of its own. This directory holds TLA+ modules translated from its
source, configurations that check them with TLC on small instances, and proofs
that TLAPS checks for every value of the constants. Paths below are relative to
the repository (`src/` is its source directory, `include/` its headers).

To check a module: `tlc -config TcpStreamSend.cfg MCTcpStream` and the like
(`PROJECT.json` lists the runs; the largest takes three minutes); to check the proofs:
`tlapm TcpStreamProofs.tla` and the like (TcpStreamFinProofs takes four minutes from nothing, RecvBufferProofs two, the others less).

## 1. The system

Two kinds of thread share the memory of one process. The **stack thread**
(`user_tcp_run`, `src/user_eth.c`) goes round one loop for ever: check the
timers, take up what the API has queued, write the control, ack and data lists,
poll netmap, process one packet. **Application threads** call the socket API
(`src/user_api.c`) and epoll. They meet in

* the stream (`user_tcp_stream`), most of whose fields both sides read and write
  without a lock; `read_lock` and `write_lock` guard the two buffers;
* the stream queues (`acceptq`, `sendq`, `ackq`, `closeq`, `destroyq`, ...),
  rings without a lock that carry stream pointers from one side to the other;
* the condition variables `read_cond`, `write_cond` and `accept_cond`;
* the epoll instance, whose callback runs in the stack thread.

### Inventory

| component | state | operations | what is hard | what makes it correct |
|---|---|---|---|---|
| Stream queues (`user_buffer.c`) | `_head`, `_tail`, `_q` | enqueue, dequeue | no lock: stale indices, order of the slot and index stores | a bounded FIFO queue; a slot is never read before it is written or written before it is read |
| TCP connection (`user_tcp.c`, `user_timer.c`, `user_stream.c`) | state, sequence variables, windows, list and timer flags | packet handlers by state, timers, API requests, three writers | orders of FINs, ACKs, retransmissions, timers, API calls; a stream freed while referenced | no assert fails; data in flight is timed; a FIN is sent and only counted in order; one timer link |
| Socket calls on a stream (`user_api.c`, `user_socket.c`) | socket and stream pointers, `on_*q` | accept, recv, send, close | state looked at before a lock and used after it, sleeping and waking | a waiting reader is woken |
| Receive buffer (`RB*`) | `data`, `head_offset`, `tail_offset`, `merged_len`, fragments | RBPut, RBRemove | overlaps, holes, wrap-around, moving the data | the bytes before the first hole, each once and in order |
| Send buffer (`SB*`) | `head_seq`, `len`, data | SBPut, SBRemove | partial ACKs, memmove | bytes kept until acknowledged |
| epoll, red-black (`user_epoll_rb.c`) | tree, ready list, `rdnum`, `rdy` | create, ctl, wait, callback, close | three locks, of which the callback takes two and reads around the third | no event lost, no sleep on a ready list, no item listed twice |
| epoll, event queues (`user_epoll.c`) | three event rings | the same | as above | as above (not in the default build) |
| Sender (`user_tcp.c`) | control, ack and send list of all streams, their counters, the flags in the streams | add, remove, three passes | passes that stop in the middle, that put a stream back, that pay one debt twice; one head in front of all | list, flags and counter agree; what is owed is listed; one peer does not stop the others |
| RTO store, timewait and timeout lists (`user_timer.c`) | slots, `rto_now_idx`, `rto_now_ts` | add, remove, check | a clock that stands still, slots by two formulas | every timer fires, none early |
| Socket table, listeners (`user_socket.c`) | free ids, listener table | allocate, free, bind, listen, accept, close | id search, free while someone waits | ids unique, waits end |
| ARP (`user_arp.c`) | table, pending requests | request, reply | one request, no repeat | what was asked for is pending until it is known |
| NIC (`user_nic.c`) | one transmit buffer | get buffer, write | second packet before the first is written | no packet overwritten |
| IPv4, ICMP, UDP | none | header processing | nothing | nothing |
| Hash tables, memory pools, address pool | chains, free chunks | insert, remove, alloc, free | use from two threads | no element twice |

## 2. Modules

```
StreamQueue ---- implements ----> Fifo          StreamQueueProofs
SocketIds
Listener     EXTENDS StreamQueue, SocketIds     ListenerProofs
                                    (acceptq is a real ring)
SocketTable  EXTENDS SocketIds
RecvBuffer  ---- implements ----> Reassembly    RecvBufferProofs
EpollRb                                         EpollRbProofs
TcpStream  (one stream in detail: queues as     TcpStreamProofs
            counters, which is what StreamQueue
            promises; receive buffer as a set of
            bytes, which is what Reassembly promises)     TcpStreamFinProofs EXTENDS it
Sender     (several streams on the lists)       SenderProofs
Timers     (several streams and the clock)   TimersProofs
MC*  one per component, for TLC
```

**StreamQueue** models `StreamEnqueue` and `StreamDequeue`, one step per load or
store of the shared words. `enq[p]` and `deq` hold the local variables. `Producers` is the set
of threads on the enqueueing side. **Fifo** is what its two ends may rely on. The
mapping takes the elements from the consumer's head to the published tail.

**TcpStream** models one passively opened connection from SYN to free. `s` is the
stream; `queue` counts this stream's entries in each API queue; `stack` is the
place the stack thread has reached in `user_tcp_run`; `app` is the application
thread's place in a call. Every handler of `user_tcp.c` is an operator from stream
to stream with the name of its function (`HandleFinWait1`, `ProcessAck`, ...),
and `Process` composes them as `user_tcp_process` does, so a packet is one step.
The application interleaves between any two parts of the stack loop and each call
is cut where it looks at the stream without a lock. What in C is an
`assert(0)`, `exit`, a NULL dereference, an access to freed memory or a
self-deadlock sets `s.err`, and the behaviour ends there.

**EpollRb** models an epoll instance: `epoll_ctl` (in two steps, as the tree is
rearranged in between), `epoll_wait` (test and sleep, timeout, scan, one item at
a time under `ep->lock`), `epoll_event_callback` (search, read of `rdy`, insertion
under the lock, signal) and the close of the instance.

**RecvBuffer** models `RBPut` and `RBRemove` with their callers
`user_tcp_process_payload` and `user_copy_to_user`: the fragment list, the offsets
into the data, the moves of the data, and wrapping sequence numbers compared as
the code compares them. A byte is named by its sequence number. **Reassembly** is the
abstract buffer: a set of bytes and the length of its first run.

**SocketIds** is the table of sockets: the bitmap, the search for an id with its
`char byte`, and the sockets by id. Every operation holds the table's spin lock and
is an operator on the table as a whole. **SocketTable** is an application that opens and
closes sockets on it.

**Listener** is one port. Its stack thread completes handshakes and puts streams on
`acceptq` (`user_tcp_handle_syn_rcvd`, `user_tcp_flush_accept_event`), one thread
is in `accept()`, another one may close the listening socket. The queue is the module
StreamQueue itself: `Enqueue`, `AcceptDequeue` and their neighbours are its loads and
stores, so that an accept can run between any two of them. `accept_lock` is the variable
`lock`; a step that locks waits for it to be free. `listener` and `acceptq` say whether
the memory is there, and an access to what `close()` freed sets `err`. Streams end by close, and by the
timers of the stack thread (`TimedOut`), which free a stream whoever still points to it: on `acceptq`, in the hands of `accept()`, or
with a socket. `stale` counts how often that happened to a stream; its memory is the next connection's.

**Timers** has the clock, the slots of the RTO store with `rto_now_idx` and
`rto_now_ts`, the timewait list and the timeout list. A round of `user_tcp_run`
takes its time first (`StartRound`), makes the three checks, then writes on that clock
(`Send`, `SendAck`), and processes at most one packet on a clock of its own (`Segment`,
`TimeWait`, ...). What the rest of the thread does to a stream is reduced to the
functions of `user_timer.c` it calls.

**Sender** has the three lists with counters and flags, the passes `user_tcp_write_controllist`,
`user_tcp_write_acklist` and `user_tcp_write_datalist` one stream at a time, everything
that adds to a list or takes off it, and the way of a packet: address lookup, ARP request, the one transmit buffer, which
is written to the wire only in a round without a packet (the `else if` of `user_tcp_run`).

### Abstractions

* *TcpStream.* A sequence number stands for one segment's worth of data; both
  sides count from 0 and nothing wraps (RecvBuffer covers wrap-around). One incarnation of
  the stream, one other flow at most (`OtherFlows`), which may end any control or data pass before it comes to this stream
  (`ControlBlocked`, `DataBlocked`). Of a timestamp only what `validseq` makes of it is kept: missing, older than `ts_recent`, or not. The congestion window's
  arithmetic (any window of at least one segment) and memory exhaustion are left out. When an RTO or the connection timeout
  fires is left open, which allows more than the code does. `giveUp` stands for
  "nrtx reached its maximum". The network loses,
  duplicates, delays and reorders: any segment the peer could have sent by now may arrive.
* *DupAcks.* The third-duplicate branch of `process_ack` compares `snd_wl2`, an ACK
  number, with a `snd_wl1`, a sequence number; it is taken only when the two spaces happen to meet.
  The constant says whether that happens. It does in `tcp_receive`. In
  `tcp_send` it does not: see section 7.
* *StreamQueue.* Sequential consistency. The words are `volatile`, not atomic; the
  code relies on x86 order, and so does the model.
* *SocketIds.* `sockfds` comes from `posix_memalign` and is not cleared; an entry counts as
  NULL until it is written. No call the model makes reads an entry before it is.
* *Listener.* One listener at most for the port; what the table's search finds after a close is the freed
  one, which the table keeps. One accepting thread. A stream that ended is used again for a new connection.
  When a timer freed a stream too early, a pointer to it is on the queue, in `accept()` or in a socket, and whoever follows it finds
  a free chunk or another connection. A free one ends the program: the pool has written its count over the
  pointer to the socket (`AcceptFreed`), and `close()` sends it to `DestroyTcpStream` a second time, whose assert fails (`CloseFreed`). Of another connection `accept()` may find the
  socket of an earlier call (`OldSocket`), and `close()` may find it closed already; both are allowed whenever the
  stream was freed too early before, which is more than the code does. What such a connection has on `closeq` is not followed.
* *Timers.* All streams have the same RTO. `CheckRtmTimeout(dead)` leaves open whose retransmissions
  are used up. The width of `uint32_t` (`Word`) matters in one sum of `RearrangeRTOStore` and is
  kept there; elsewhere differences are signed and do not wrap within the bound of the clock.
* *Sender.* Sequence numbers count segments of data: SYN and FIN have none, and a stream that is told
  to close has left the states that take new data. Its congestion window is any. The ACK that
  overtakes a retransmission and the unlocked test of `on_sendq` are in TcpStream. Peers that close first are there too: CLOSE_WAIT is
  entered by a reset here, and there is no LAST_ACK and no CLOSING. `flight` says whether the SYN-ACK or the FIN is on its way, and whether it timed out since; the timer
  runs when it is, or data is. When a timer fires and when it gives up is left open. A destroyed stream has its numbers
  zeroed and is not used again. A control pass whose
  `user_tcp_send_controlpkt` waits for the other lists is `Delayed`. `thresh` is never reached.
* *EpollRb.* Event masks are left out, and with them `EPOLL_CTL_MOD`. A freed item is
  the value `FREED` wherever something still points to it. Spurious wake-ups are
  left out: they lead where a time-out leads. One application thread.
* *RecvBuffer.* `read_lock` makes RBPut and RBRemove atomic (both callers hold it);
  the window test, made before the lock is taken, is a step of its own.

## 3. Runs

| run | instance | what it shows |
|---|---|---|
| `accept` | 2 streams, one of which a timer may once free too early; backlog 1, 8 ids, 1 listening socket at a time, fairness | the ring is a bounded FIFO queue under every interleaving of loads and stores, with the real users of it; no stream but the one freed is lost or doubled between handshake and socket; accept never sleeps on a stream; every stream that completes its handshake is accepted |
| `tcp_send` | 2 segments to send, buffer of 3, fairness | no assert fails, snd_una/snd_nxt agree with the buffer, data in flight has a timer, the FIN is never forgotten and its ACK means everything is acknowledged; TIME_WAIT ends if the control pass comes to the stream |
| `tcp_receive` | 2 segments and a FIN to receive, buffer of 2, first window of 3; 2 segments to send through a buffer of 1; epoll, stale ACKs, old and missing timestamps | a FIN is counted only after all data, the window never shrinks, a waiting reader has nothing to read, `ack_cnt` stays far from its limit |
| `epoll` | 2 sockets, maxevents 2, fairness | flags and list agree, no event lost, no sleep on a ready list, what is listed is reported |
| `recv_buffer` | 5 bytes, numbers modulo 16 | the fragment list implements Reassembly; accesses stay in the buffer; what passed the window test fits; nothing is acknowledged across a hole |
| `timers` | 2 streams, 3 slots, 5 ticks | links, indices and counters of the three structures agree; no expired TIME_WAIT and no idle connection is left behind by the checks |
| `sender` | 2 streams of one peer, 2 and 1 segments, windows 0 and 1, fairness | lists, flags and counters agree; a destroyed stream is on no list; owed ACKs and waiting FINs are listed, also after retransmissions; nothing is sent beyond the window; data goes out whatever the other stream does; the control list empties when the peer answers |

Runs that end in a counterexample, each a place where the code does not do what it
says:

| run | where | what happens |
|---|---|---|
| `fin_wait_constant` | `user_tcp.c:1296` | `USER_TCP_TIMEWAIT` (a period, 0) for `USER_TCP_TIME_WAIT`: the stream goes to CLOSED |
| `full_buffer_ack` | `user_tcp.c:1807` | an ACK for a full send buffer takes `write_lock` twice |
| `recv_buffer_bytes` | `user_buffer.c:642` | `head_offset = len` where `+= len` is meant: recv hands out bytes twice |
| `rto_store` | `user_timer.c:47` | a stream is stored at `ts_rto % RTO_HASH`, the check looks at slot `rto_now_idx`, which is 0 and moves only when thousands of streams were handled: due retransmissions are not made |
| `socket_ids` | `user_socket.c:221` | ids 0 to 7 open, 1 closed: the byte is negative, halving it rounds towards zero, the search returns 2, which is in use |

With the line of `user_buffer.c:640` in place of 642 the property of `recv_buffer_bytes` holds on the same model.

The type invariants of StreamQueue, EpollRb, RecvBuffer and Sender, and `NoOverwrite` of StreamQueue, are proved
for every instance (section 4) and no run repeats them.

### Bounds, and why they are enough

A backlog of one makes a ring of two slots, which wraps, is full and is empty; with two
streams the second one finds it full or follows at once. Eight ids are one byte of the
bitmap at its true width. One stream freed too early is enough to be queued twice, to be
accepted as another connection, and to be taken when it is free; the other one must not suffer (`MaxStale`). Two segments suffice for a hole, for an ACK
in the middle, and for a retransmission that meets the ACK of its second half; a send buffer of one
makes the application wait for room. `AckMod` is 8 rather than 64; the invariant shows `ack_cnt <= 3`, so the width
does not matter. Instances of TcpStream with all of these at their larger values
(2 segments both ways, windows of 2) were checked once and are too slow for a regular run. The five bytes of `recv_buffer` hold three fragments with holes between them, so
that a segment can go before, between and behind fragments and merge with two or three; half
of 16 is more than the largest distance compared, as half of 2^32 is. Two sockets make the ready list
grow, be taken in part and be overtaken by a new first item; `MaxList` bounds only the
freed items that pile up on it. In `timers` three slots wrap within five ticks, the slot for what lies further ahead is used and
rearranged, and connections time out; `Thresh`, 2, is the number of streams, as `USER_MAX_CONCURRENCY` is the
number the program supports; two streams are enough to be out of order on a list. In `sender` one stream can be before or behind the other
on each list, with its peer known or not. One peer is enough for data, as a stream that has any to send has sent its SYN-ACK, for which the peer must
be known. The safety properties of `sender` were checked once for two peers, those of `accept` for two sockets that want the port, of which
the second is refused it; both are too slow for a regular run with liveness. No state constraint cuts a run; the guards on
`AppBytes`, `PeerBytes`, `MaxList`, `MaxListening`, `MaxStale`, `MaxTs`, `Bytes` and `MaxWnd` are the only bounds. `VIEW` in `recv_buffer` leaves
out `data`, which no guard and none of that run's properties reads. `SYMMETRY` in `timers`: streams
differ in nothing, and no liveness is checked there.

Deadlock is not checked for TcpStream (a connection ends; an error ends the behaviour), EpollRb
(the instance is closed), Listener and SocketTable (an error), and Timers (the clock stops at its bound). It is checked for
the receive buffer and the sender.

### Fairness

*Stack thread*: weak fairness of the whole loop, as nothing in it
waits except on the locks that appear in the model. Strong fairness of
`NoPacket`: the poll of an otherwise busy interface returns again and again without
a packet for this stream, for peers send finitely often between two polls. The application and the
peer get none. Nothing is assumed of other connections either: `write_controllist` ends its pass at the first stream whose packet
cannot be sent, and a stream in TIME_WAIT behind it stays on the list, where `CheckTimewaitExpire` leaves it alone (`user_timer.c:462`). `TimeWaitEnds`
therefore has the premise `OthersAreSent`: from some time on no other stream blocks the pass. Without it the property is false. *Listener*: weak fairness of what the stack thread has begun; strong fairness of the steps of
accept(), since a mutex that is free again and again is got in the end; a server calls `accept` again, as
all in `app/` do. *Sender*: the thread goes on round after round, with a packet or without;
nothing is assumed of peers and callers. `ControlDrains` names in `PeersAnswer` what it asks of the peers:
each becomes known, acknowledges and opens its window, and leaves a round without data
now and then, or its stream is destroyed; that no more is needed is the content of the property. *epoll*: both threads finish the calls they are in; `CallWait("forever")` is strongly
fair: the property is about programs with an event loop, the only use of epoll in `app/`.

## 4. Proofs

| theorem | says | argument |
|---|---|---|
| `TypeCorrect` | `Spec => []TypeOK`, any capacity, any number of producers | |
| `RingInvariant` | `RingInv`, if there is at most one producer | inductive |
| `AssertNeverFires`, `UnreadSlotsKept` | the assert, and no unread slot overwritten | from `RingInv` |
| `RingImplementsFifo` | `Spec => ImplementsFifo` | step simulation |
| `UsesRing` | `ListenerSpec => Spec` of StreamQueue; hence `AcceptRing`, `AcceptAsserts`, `AcceptIsFifo` | step simulation |
| `ListenerInvariant` | `ListenerInv` | inductive with `TypeOK /\ RingInv` |
| `ListenerTypeCorrect`, `NoSleepOnAcceptAlways`, `StreamsKeptAlways` | `ListenerTypeOK`, `NoSleepOnAccept`, `StreamsKept` | from `ListenerInv` |
| `SocketInvariant` | `SocketInv`, if at most seven sockets can be open (`FewSockets`) | inductive with `ListenerInv` and what is proved of the ring |
| `SocketsTrueAlways` | `SocketsTrue`, if `FewSockets` | from `SocketInv` and `OwnInv` |
| `EpollInvariant` | `TypeOK /\ EpollInv` | inductive |
| `ReadyListTrue`, `NoEventLost` | `ListMatchesFlags`, `EventsReported` | from `EpollInv` |
| `NoLostWakeup` | `NoSleepOnEvent` | inductive with `TypeOK` |
| `ConnectionInvariant` (TcpStreamProofs) | `IInv`, which is `TypeOK /\ ConnInv` | inductive |
| `TypeCorrect`, `TimerLinkSafe` (TcpStreamProofs) | `TypeOK`, `OneTimerLink` | from `IInv` |
| `SenderInvariant` | `SenderInv`, which is `ListInv /\ NumberType /\ ArpInv` | inductive |
| `TypeCorrect`, `ListsAgree`, `FreedUnlistedAlways`, `AcksListedAlways`, `FinAwaitedAlways`, `AskedKept` (SenderProofs) | `TypeOK`, `ListsMatchFlags`, `FreedUnlisted`, `AcksListed`, `FinAwaited`, `AskedNotForgotten` | from `SenderInv` |
| `WindowSafe` | the action property `WindowKept` | from `NumberType` and the arithmetic of `Sendable` |
| `SendPointersSafe`, `InFlightTimedSafe` | `SendPointers`, `InFlightTimed`, if `DupAcks` is FALSE | from `IInv` |
| `ReceiveInvariant` (TcpStreamFinProofs) | `IInv /\ ReadInv` | inductive |
| `PeerBytesCounted`, `AckCountBounded`, `ReaderNotForgotten` | `PeerStreamInOrder`, `AckCntNeverWraps`, `NoSleepOnData` | from `ReadInv` |
| `WindowKept` | the action property `WindowNeverShrinks` | with `ReceiveInvariant`, action by action |
| `WriteInvariant` | `WriteInv`, if `DupAcks` is FALSE | inductive with `IInv /\ ReadInv` |
| `AssertsHold`, `FinStaysDue`, `FinAckCoversData` | `NoAssertFails`, `FinNotForgotten`, `FinAckedMeansAllAcked`, if `DupAcks` is FALSE | from `WriteInv` |
| `TimersInvariant` | `IInv` of Timers | inductive |
| `TimersTyped`, `LinksTrue`, `ChecksLeaveNothing` | `TypeOK`, `ListsTrue`, `NothingDueLeft` | from `IInv` of Timers |
| `BufferInvariant` | `IInv` of RecvBuffer | inductive |
| `BufferTyped`, `AssertsOfRingHold`, `MoveInBounds`, `AcceptedFits`, `NoHoleAcknowledged` | `TypeOK`, `NoAssertFails`, `MemoryInBounds`, `WindowFits`, `AckedIsHeld` | from `IInv` of RecvBuffer |
| `BufferReassembles` | `Spec => ImplementsReassembly` | step simulation with `IInv` of RecvBuffer |

*The ring.* The properties are not inductive: they do not say that the head a
producer loaded and the head there is now differ only by elements taken since. `RingInv` adds that
the head a producer loaded is the present one or the ring has room, that a producer past
its test still has room, that the consumer past its test still has an element, and that every unread slot holds a stream. Since the producer alone moves `_tail`
and the consumer alone `_head`, staleness only makes each side more careful. The proof of refinement
works on index arithmetic modulo the ring's size and shows each publish to be a Put or a Take.

*The listener.* `UsesRing` comes first: every step of the listener is a step of the ring or leaves
it alone, so the theorems about the ring are theorems about `acceptq` and its invariant may be used. `StreamsKept`
counts in a sequence; `PlacesInv` says the same slot by slot, which is what a step changes, and
`QueuedCount` gets from one to the other. A stream that gets a socket must have none yet: `OwnInv`.
Both, and `StreamsKept` itself, speak of each stream until a timer frees that one under `acceptq`, `accept()` or its socket
(`stale[s] = 0`); the proof shows that what happens to the pointers left of one stream does not reach the others (`StreamsQuiet`, `GivenMoves`,
`TimedOutMoves`).
`AwakeInv` starts where accept() has seen an empty queue under `accept_lock`, before it sleeps, for the stack
thread may publish in between.

*The socket table.* `user_socket_find_id` halves a `char`, which goes wrong once the highest bit of a byte is set
(run `socket_ids`). The search takes the lowest clear bit of a byte (`LowestClear`), so id 7 of a byte is
given out only when seven sockets are open; with `FewSockets` that never happens. `OpenBound` counts: each socket with a stream
has one of its own. That holds until a timer frees a stream under `acceptq`, `accept()` or its socket, for the
connection that uses its memory next gets a second socket: hence `NoneStale` in `SocketInv` and `SocketsTrue`. That the bitmap stays true needs no such condition: `AllocateTrue` and `FreeTrue` hold for every table
and every id, free or not, from `ChangeBit`, which takes bytes apart into bits. The condition is as weak as it can be for
one byte: with the eighth socket the search can return an id in use.

*epoll.* `rdy` is read without the lock. `ThreadsInv` states why that is harmless:
only the stack thread sets `rdy` and only `epoll_ctl` changes the tree, so an item read as not listed
is still not listed when the callback inserts it, and an item read as listed has either been reported
since or is still there. Sequence facts about removing the first item and
inserting before it are the lemma `ListOps`; the step is split into `TypeStep` and `EpollStep`, one case per action.

*The connection.* `TypeOK` alone is not inductive: that `fss` and `snd_nxt` stay within the numbers used
rests on when a FIN can be sent, and that `rcv_nxt` does on what the receive buffer holds.
`SendInv` bounds head and length by what the application sends and says that without a buffer only
the SYN went out; `RecvInv` bounds the stored bytes by the buffer and by what the peer sends;
`TimerInv` says that only an ended stream is on the timewait list; `FlightInv` is `SendPointers` and
`InFlightTimed` for one stream. `CloseInv` relates the stream to `closeq` and the application: a close is
requested once, so no FIN went out before `fss` is set. One lemma per operator shows that it takes a
good stream (`Ok`) to a good one. Between an ACK and the change of the timer a stream is only `Untimed`,
and `AdvanceNxtOk` and `RemoveAckedOk` say why the handler makes that up. With stale duplicate ACKs
`FlightInv` is false (section 7), hence the condition of some theorems.

*The connection, both halves.* `ReadInv` is what the receiving half needs beyond `IInv`. `PeerStreamInOrder` does not say that a
stream whose peer has not closed counts no FIN, without which the next segment could count a second one;
`PeerInv` does, and it bounds what is stored and offered together by the buffer, which is why a read never has to take
window back. `AckCntNeverWraps` holds because the count is paid in full in every round: `AckInv` says that
an ACK owed is on the list, that the pass leaves none, and so that one packet, which is acknowledged up to three times, for an old timestamp, its data and its FIN,
and one call of `recv` add at most to a count of zero. For the sleeping reader `ReaderInv` keeps the socket of
a connection in the hands of the thread that sleeps, for the signal is only sent to a stream with a socket. `AddressKnown` is
needed where a handler looks at who sent what before.
`WriteInv` has what the asserts rest on: a stream without a buffer is on no send list and has no
timer in a state that flushes it; FIN_WAIT_2 has an empty buffer all of which went out; nobody
enqueues before there is a buffer; and the writer's pass has a stream. `FinNotForgotten` is
part of it (`FinInv`), and so is `NoAssertFails`: a state reached through a failed assert is no state of the
invariant. `AssertsHold` needs `SendPointers`, and with it the condition on stale duplicate ACKs.

*The timers.* `NothingDueLeft` holds only because each check may stop at the first entry that is not due,
that is, because the lists are in the order of the times the checks compare. `OrderInv` says so, and
`ClockInv` why an insertion at the tail keeps it so: no stream's time is ahead of the clock that is inserted. That
needs to know which of the two clocks was read: until a packet of the round was processed, every
`last_active` is at most the round's own time, although `gettimeofday` has gone on. `StoreInv` relates the lists of the store, `on_rto_idx`
and the count; the count never falls below zero because it is the number of streams with an index. The
lists are sequences; `OnlyPlaces` shows by counting places that what is left when some elements are
removed is in the old order, `WithoutHolds`, `AppendHolds`, `ConcatHolds` and `TailHolds` are what removal, insertion, the
rearrangement and `HandleRTO` do to a list, and `AddTrue`, `RemoveTrue`, `RearrangeTrue`, `DestroyedTrue` and `TakeFirstTrue` lift
that to the whole store.

*The receive buffer.* The code compares sequence numbers that wrap. As less than half of them is in use, each is
`head_seq` plus an offset, and the comparisons are those of the offsets: `OffsetNear`, `CompareInBuffer`.
`RingInv` says that the fragments are in order with a hole between any two (`Gapped`), that
`merged_len` is the length of the one at `head_seq`, and that no fragment reaches beyond what `data` holds. The heart is the loop
of RBPut: `PassInv` says what it has done after any number of passes, with the new fragment merged into
some neighbours or apart from all it passed; `PassStep` is one pass, `TraverseMeans` all of them
The library's induction theorems
take an operator, which the provers cannot instantiate; `BoundedInduction` takes a set of numbers instead and follows
from its complement having a least element, and `TraverseSteps` builds the recursive function pass by pass with it. `InsertFragment` then yields a list of the same form that has the old bytes and the
new ones, and RBRemove one without the first bytes. Between the window test and RBPut the application may read: it moves
`head_seq` and opens the window by the same amount, so a segment keeps its distance from `rcv_nxt` and the
window's end does not come nearer (`SegInv`, `WindowInv`).
For the refinement the bytes held are a set of offsets (`Held`), `Has` says which, and `rcv_nxt`
is the end of the first run because the first fragment ends at a hole.

*The sender.* `ListsMatchFlags` is not inductive alone: a pass takes the head of a list because its
count says something is left, so `PassInv` bounds what is left by the list's counter, and the destruction of
a stream must not leave a debt on a list, so `StateInv` says that only a stream that may send owes ACKs
and only one that closes waits. `FreedUnlisted` is part of the invariant, for a pass must find no destroyed stream. `RequestInv` says that a request is recorded before it can leave.
The lists are sequences without repetition: `AppendHolds`, `TakeOutHolds` and `RotateHolds` say what
appending, removing and putting back do to `Holds`, `AddTrue`, `RemoveTrue` and `PutBackTrue` lift that to all three
lists, and each action then cites those. The end of a stream's turn is the same in the ack and the data pass
(`WrittenKeeps`).

Assumptions: only those in the `ASSUME`s of the modules (sizes are naturals, buffer and first window are smaller than half of the sequence numbers, NULL is no
stream, NOFD and FREED are no sockets, there are finitely many streams in Timers), in the theorems about the ring at most one producer, and in those
about the connection's asserts, FIN, pointers and timers no stale duplicate ACKs: with them the asserts do fail;
in those about the sockets `FewSockets`.

Only model-checked: every liveness property (ENABLED and fairness are beyond the prover). Each safety invariant and action property
that a passing run checks is a theorem, some under the condition named.

## 5. Not modelled

UDP and ICMP, and IP but for the address lookup, hold no state between packets. The active open is not reachable from the API (there is no
`connect`), nor is the pool of local addresses. The
legacy `user_*` calls do what the POSIX-named ones do on the same structures. The event-queue
epoll is not in the default build; its epoll_wait, ready lists and locks are those of another
design, with no caller in the stack as it is built. `resetq` and `connectq` are drained and nothing fills them.
The chains of the hash tables, the byte copies of the send buffer and the memory pools
are data structures used by one thread at a time, except for the listener table, which Listener
has at the level of what a search finds. `PROJECT.json` gives each component's status and each hazard without a property.

## 6. Plan

What is left, in order of what it would add:

1. The liveness of one `send()`: TcpStream's race on `on_sendq` together with what Sender promises.
2. SocketTable beyond seven sockets: what an id used twice can and cannot break, as invariants and then as theorems.
3. `MemPool` with the fragment contexts of the receive buffer.

## 7. Seen while modelling, without a run

* Stale duplicate ACKs (`user_tcp.c:1665`): where the two sequence spaces meet, three of them
  pull `snd_nxt` below the head of the send buffer and the flush asserts.
* A FIN that comes before `accept()` raises the read event through a NULL socket when
  epoll is in use (`user_tcp.c:1134`).
* `CheckConnectionTimeout` means to keep a stream that has a socket, to raise an error event on it, and tests `walk->socket`
  (`user_timer.c:508`), which nothing sets: `accept()` sets `s` (`user_api.c:1085`). A connection that is silent for 30 seconds is freed under
  its open socket, and so is one whose retransmissions are used up (`user_timer.c:200`). Listener states it as `SocketKeepsStream`, which
  fails on the instance of `accept`.
* `RBRemove` says it is for the application thread only (`user_buffer.c:632`); `process_payload` calls it from the stack thread
  (`user_tcp.c:1519`), under the same lock.
* The epoll callback asserts when the socket is not in the tree: an event between `accept` and
  `EPOLL_CTL_ADD` ends the program (`user_epoll_rb.c:464`). `EPOLL_CTL_DEL` frees an item that may be on the ready
  list (`user_epoll_rb.c:243`).
* Two application threads in `send()` share the one-producer `sendq`; `assert(stream)`
  (`user_buffer.c:827`) fires. StreamQueue with `Producers = {p1, p2}` shows it as a violation of `AssertStream`.
* `process_rst` traces "Notifying connection reset." (`user_tcp.c:1588`) and wakes nobody. TcpStream states
  it as `ResetWakesReader`, which fails on the instance of `tcp_receive`.
* A close request for a stream on the control list goes to `closeq_int` (`user_tcp.c:2278`), which no code dequeues: its FIN is never
  sent. TcpStream states it as `PutOffCloseIsHandled`; it fails on the instance of `tcp_send`.
* A closed listener stays in the table of listeners (`user_socket.c:393`): the next SYN or `listen()` for its port
  reads freed memory, as does a thread woken from `accept()`.
* `listen()` on a port in use makes the socket a listener before it fails (`user_api.c:958`); `accept()` on it reads
  through NULL, and `close()` frees the socket but returns an error.
* The first `StreamDequeue` of `accept()` is made without `accept_lock` (`user_api.c:1044`): two accepting threads
  are two consumers of the ring.
* A peer whose data arrives in every round keeps its stream on the ack list; once that stream is closed, its FIN and every SYN and
  FIN behind it on the control list never leave (`user_tcp.c:2655`), nor is a stream in TIME_WAIT behind it freed. `PeersAnswer` in Sender and `OthersAreSent` in TcpStream exclude it.
* A peer that closes its window while data waits: the flush returns 0, the stream leaves the send
  list (`user_tcp.c:2722`), and only new data or a retransmission, which `rto_store` shows to be rare, brings it back.
* The ARP request is built in the one transmit buffer (`user_nic.c:75`). Any packet built before the next round
  without a received one replaces it, and as it is recorded as pending it is not built again (`user_arp.c:202`).
* The table of sockets is not cleared when it is allocated (`user_socket.c:122`); a call with an id that was never opened
  reads whatever is there.
