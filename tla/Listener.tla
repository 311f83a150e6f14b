------------------------------- MODULE Listener -------------------------------
(***************************************************************************)
(* One port from listen() to accept() and close(): the stack thread, which *)
(* completes handshakes and puts streams on acceptq, an application thread *)
(* that blocks in accept(), and another one that may close the listening   *)
(* socket meanwhile.  acceptq is the StreamQueue; sockets come from the    *)
(* table of SocketIds.  Timers of the stack thread free streams whoever    *)
(* still points to them, and their memory is used for the next connection. *)
(***************************************************************************)
EXTENDS StreamQueue, SocketIds, FiniteSets

CONSTANTS STACK,         \* the stack thread
          MaxListening,  \* bound: sockets opened to listen with
          MaxStale       \* bound: how often each stream is freed too early

ASSUME StackAssumption ==
    /\ Producers = {STACK} /\ STACK # NULL /\ "app" \notin {STACK, NULL}
    /\ MaxStale \in [Stream -> Nat]

VARIABLES table,     \* tcp->fdtable
          conn,      \* how far each stream has come
          stale,     \* how often each was freed while acceptq, accept() or a
                     \* socket pointed to it: such a pointer may be left
          listener,  \* the user_tcp_listener: "none", "open", "freed"
          acceptq,   \* listener->acceptq: "none", "open", "freed"
          lock,      \* who holds accept_lock, or NULL
          stack,     \* position of the stack thread
          app,       \* position of the application thread in accept()
          closer,    \* position of the thread that closes the listener
          err        \* "none", or how the program died

lvars == <<table, conn, stale, listener, acceptq, lock, stack, app, closer, err>>
queueVars == vars
listenerVars == <<queueVars, lvars>>

\* A struct _user_socket of the table.
Sock(type, heard, stream) == [socktype |-> type, listener |-> heard, stream |-> stream]
Fds == table.sockfds
Open == {id \in Ids : Fds[id] # NOFD}
Listening == {id \in Open : Fds[id].listener}

ListenerInit ==
    /\ Init
    /\ table = InitTable
    /\ conn = [s \in Stream |-> "none"] /\ stale = [s \in Stream |-> 0]
    /\ listener = "none" /\ acceptq = "none"
    /\ lock = NULL
    /\ stack = "idle" /\ app = "idle" /\ closer = "idle"
    /\ err = "none"

Dies(how) == /\ err' = how
             /\ UNCHANGED <<queueVars, table, conn, stale, listener, acceptq, lock,
                            stack, app, closer>>
-----------------------------------------------------------------------------
(* The application: socket(), bind() to the port, listen(), close(). *)

\* socket() and bind(); NULL when memory or ids are exhausted
Socket ==
    LET id == FindId(table.open_fds, table.cur_idx) IN
    /\ app = "idle"
    /\ Cardinality({i \in Open : Fds[i].stream = NULL}) < MaxListening
    /\ id # -1
    /\ table' = Allocate(table, id, Sock("stream", FALSE, NULL))
    /\ UNCHANGED <<queueVars, conn, stale, listener, acceptq, lock, stack, app, closer, err>>

(* listen(): the socket is a listener before the table of listeners is searched;
   when another one has the port, EADDRINUSE, it stays one without a listener. *)
Listen(id) ==
    /\ app = "idle"
    /\ id \in Open /\ Fds[id].stream = NULL
    /\ listener # "freed"
    /\ LET heard == IF listener = "none" THEN TRUE ELSE Fds[id].listener IN
       table' = [table EXCEPT !.sockfds = [@ EXCEPT ![id] = Sock("listener", heard, NULL)]]
    /\ IF listener = "none" THEN listener' = "open" /\ acceptq' = "open"
                            ELSE UNCHANGED <<listener, acceptq>>
    /\ UNCHANGED <<queueVars, conn, stale, lock, stack, app, closer, err>>

\* ListenerHTSearch compares the port of a listener close() has freed.
ListenAfterClose(id) ==
    /\ app = "idle"
    /\ id \in Open /\ Fds[id].stream = NULL
    /\ listener = "freed"
    /\ Dies("use_after_free")

(* close() of an accepted socket: user_socket_close_stream, user_socket_free.  The
   stream may be another connection by now, which is closed instead; or, by a
   second stale socket, closed already. *)
CloseStream(id) ==
    LET s == Fds[id].stream IN
    /\ app = "idle"
    /\ id \in Open /\ s # NULL /\ conn[s] # "none"
    /\ \/ conn' = [conn EXCEPT ![s] = IF @ = "syn_rcvd" THEN @ ELSE "ending"]
       \/ stale[s] > 0 /\ UNCHANGED conn
    /\ table' = Free(table, id)
    /\ UNCHANGED <<queueVars, stale, listener, acceptq, lock, stack, app, closer, err>>

\* A freed stream is CLOSED: it is destroyed once more, and the assertion fails.
CloseFreed(id) ==
    /\ app = "idle"
    /\ id \in Open /\ Fds[id].stream # NULL /\ conn[Fds[id].stream] = "none"
    /\ Dies("use_after_free")

\* close() of a socket that never got a listener: EINVAL, but it is freed.
CloseUnheard(id) ==
    /\ app = "idle"
    /\ id \in Open /\ Fds[id].stream = NULL /\ ~Fds[id].listener
    /\ table' = Free(table, id)
    /\ UNCHANGED <<queueVars, conn, stale, listener, acceptq, lock, stack, app, closer, err>>
-----------------------------------------------------------------------------
(* user_socket_close_listening, on another thread: the queue is destroyed before
   the lock is taken, and the table of listeners keeps the freed listener. *)

CloseQueue ==
    /\ closer = "idle" /\ listener = "open"
    /\ acceptq' = "freed"
    /\ closer' = "lock"
    /\ UNCHANGED <<queueVars, table, conn, stale, listener, lock, stack, app, err>>

CloseSignal ==
    /\ closer = "lock" /\ lock = NULL
    /\ app' = IF app = "asleep" THEN "woken" ELSE app
    /\ closer' = "free"
    /\ UNCHANGED <<queueVars, table, conn, stale, listener, acceptq, lock, stack, err>>

\* pthread_mutex_destroy, free(listener), user_socket_free
CloseFree ==
    /\ closer = "free"
    /\ listener' = "freed"
    /\ table' = Free(table, CHOOSE id \in Listening : TRUE)
    /\ closer' = "done"
    /\ UNCHANGED <<queueVars, conn, stale, acceptq, lock, stack, app, err>>

CloseListening == CloseQueue \/ CloseSignal \/ CloseFree
-----------------------------------------------------------------------------
(* The stack thread.  The stream after its last step of a life is used again. *)

\* user_tcp_filter_synpkt, user_tcp_handle_listen
HandleListen(s) ==
    /\ stack = "idle" /\ conn[s] = "none" /\ listener # "none"
    /\ IF listener = "freed" THEN Dies("use_after_free")
       ELSE /\ conn' = [conn EXCEPT ![s] = "syn_rcvd"]
            /\ UNCHANGED <<queueVars, table, stale, listener, acceptq, lock, stack, app,
                           closer, err>>

\* user_tcp_handle_syn_rcvd as far as StreamEnqueue's load of _head
HandleSynRcvd(s) ==
    /\ stack = "idle" /\ conn[s] = "syn_rcvd"
    /\ IF listener = "freed" \/ acceptq = "freed" THEN Dies("use_after_free")
       ELSE /\ EnqueueLoadHead(STACK, s)
            /\ conn' = [conn EXCEPT ![s] = "established"]
            /\ stack' = "enqueue"
            /\ UNCHANGED <<table, stale, listener, acceptq, lock, app, closer, err>>

\* ret < 0: CLOSED, on the control list, and the event is raised all the same
MutNotAccepted ==  \* stays ESTABLISHED
    /\ stack = "enqueue" /\ EnqueueFull(STACK)
    /\ stack' = "lock"
    /\ UNCHANGED <<table, conn, stale, listener, acceptq, lock, app, closer, err>>
NotAccepted ==
    /\ stack = "enqueue" /\ acceptq = "open"
    /\ EnqueueFull(STACK)
    /\ conn' = [conn EXCEPT ![enq[STACK].stream] = "ending"]
    /\ stack' = "lock"
    /\ UNCHANGED <<table, stale, listener, acceptq, lock, app, closer, err>>

Enqueue ==
    /\ stack = "enqueue" /\ acceptq = "open"
    /\ EnqueueRoom(STACK) \/ EnqueueStore(STACK)
    /\ UNCHANGED lvars

Enqueued ==
    /\ stack = "enqueue" /\ acceptq = "open"
    /\ EnqueuePublish(STACK)
    /\ stack' = "lock"
    /\ UNCHANGED <<table, conn, stale, listener, acceptq, lock, app, closer, err>>

EnqueueFreed == stack = "enqueue" /\ acceptq = "freed" /\ Dies("use_after_free")

\* user_tcp_flush_accept_event
FlushLock ==
    /\ stack = "lock"
    /\ IF listener = "freed" THEN Dies("use_after_free")
       ELSE /\ lock = NULL
            /\ lock' = STACK
            /\ stack' = "signal"
            /\ UNCHANGED <<queueVars, table, conn, stale, listener, acceptq, app, closer, err>>

MutFlushSignal ==  \* signals when the queue is empty
    /\ stack = "signal" /\ acceptq = "open"
    /\ app' = IF head = tail /\ app = "asleep" THEN "woken" ELSE app
    /\ lock' = NULL
    /\ stack' = "idle"
    /\ UNCHANGED <<queueVars, table, conn, stale, listener, acceptq, closer, err>>
FlushSignal ==
    /\ stack = "signal" /\ acceptq = "open"
    /\ app' = IF head # tail /\ app = "asleep" THEN "woken" ELSE app
    /\ lock' = NULL
    /\ stack' = "idle"
    /\ UNCHANGED <<queueVars, table, conn, stale, listener, acceptq, closer, err>>

FlushFreed == stack = "signal" /\ acceptq = "freed" /\ Dies("use_after_free")

\* DestroyTcpStream at the end of a connection (module TcpStream)
Destroy(s) ==
    /\ stack = "idle" /\ conn[s] = "ending"
    /\ conn' = [conn EXCEPT ![s] = "none"]
    /\ UNCHANGED <<queueVars, table, stale, listener, acceptq, lock, stack, app, closer, err>>

(* CheckConnectionTimeout, or HandleRTO when it gives up: of a stream that is on
   acceptq, in accept() or has a socket as well, for accept() sets stream->s and
   they look at stream->socket. *)
InUseElsewhere(s) == conn[s] \in {"established", "accepted"}
TimedOut(s) ==
    /\ stack = "idle" /\ conn[s] \in {"syn_rcvd", "established", "accepted", "lost"}
    /\ InUseElsewhere(s) => stale[s] < MaxStale[s]
    /\ conn' = [conn EXCEPT ![s] = "none"]
    /\ stale' = [stale EXCEPT ![s] = IF InUseElsewhere(s) THEN @ + 1 ELSE @]
    /\ UNCHANGED <<queueVars, table, listener, acceptq, lock, stack, app, closer, err>>

StackStep ==
    \/ Enqueue \/ Enqueued \/ NotAccepted \/ EnqueueFreed
    \/ FlushLock \/ FlushSignal \/ FlushFreed
-----------------------------------------------------------------------------
(* accept().  The first StreamDequeue is made without accept_lock. *)

Accept(id) ==
    /\ app = "idle"
    /\ id \in Open /\ Fds[id].socktype = "listener"
    /\ IF ~Fds[id].listener THEN Dies("null_listener")
       ELSE IF acceptq = "freed" THEN Dies("use_after_free")
       ELSE /\ DequeueLoadHead
            /\ app' = "first"
            /\ UNCHANGED <<table, conn, stale, listener, acceptq, lock, stack, closer, err>>

AcceptEmpty ==
    /\ acceptq = "open" /\ DequeueEmpty
    /\ app' = IF app = "first" THEN "lock" ELSE "wait"
    /\ UNCHANGED <<table, conn, stale, listener, acceptq, lock, stack, closer, err>>

AcceptDequeue ==
    /\ acceptq = "open" /\ (DequeueNonEmpty \/ DequeueLoadSlot)
    /\ UNCHANGED lvars

\* The stream is taken; after the loop the lock is given up.
MutAcceptTaken ==  \* returns with the lock held
    /\ acceptq = "open" /\ DequeuePublish
    /\ app' = "taken"
    /\ UNCHANGED <<table, conn, stale, listener, acceptq, lock, stack, closer, err>>
AcceptTaken ==
    /\ acceptq = "open" /\ DequeuePublish
    /\ lock' = IF app = "locked" THEN NULL ELSE lock
    /\ app' = "taken"
    /\ UNCHANGED <<table, conn, stale, listener, acceptq, stack, closer, err>>

\* pthread_mutex_lock, and the loop's StreamDequeue, which begins with _head
AcceptLock ==
    /\ app \in {"lock", "woken"}
    /\ IF listener = "freed" \/ acceptq = "freed" THEN Dies("use_after_free")
       ELSE /\ lock = NULL
            /\ DequeueLoadHead
            /\ lock' = "app"
            /\ app' = "locked"
            /\ UNCHANGED <<table, conn, stale, listener, acceptq, stack, closer, err>>

\* pthread_cond_wait
MutCondWait ==  \* sleeps with the lock held
    /\ app = "wait"
    /\ app' = "asleep"
    /\ UNCHANGED <<queueVars, table, conn, stale, listener, acceptq, lock, stack, closer, err>>
CondWait ==
    /\ app = "wait"
    /\ lock' = NULL
    /\ app' = "asleep"
    /\ UNCHANGED <<queueVars, table, conn, stale, listener, acceptq, stack, closer, err>>

DequeueFreed ==
    /\ cpc # "idle" /\ acceptq = "freed"
    /\ Dies("use_after_free")

(* A socket for the stream, which is another connection by now if its memory was
   used again. *)
Owned(s) == conn' = [conn EXCEPT ![s] = IF @ \in {"established", "lost"} THEN "accepted" ELSE @]
NewSocket ==
    LET id == FindId(table.open_fds, table.cur_idx) IN
    /\ app = "taken" /\ conn[result] # "none" /\ id # -1
    /\ table' = Allocate(table, id, Sock("stream", FALSE, result))
    /\ Owned(result)
    /\ app' = "idle"
    /\ UNCHANGED <<queueVars, stale, listener, acceptq, lock, stack, closer, err>>

\* accepted->s is set: by an earlier accept() of the same stream.
OldSocket ==
    /\ app = "taken" /\ conn[result] # "none" /\ stale[result] > 0
    /\ Owned(result)
    /\ app' = "idle"
    /\ UNCHANGED <<queueVars, table, stale, listener, acceptq, lock, stack, closer, err>>

\* No memory or no id: "TODO: destroy the stream", which nobody has any more.
NoSocket ==
    /\ app = "taken" /\ conn[result] # "none"
    /\ conn' = [conn EXCEPT ![result] = IF @ = "established" THEN "lost" ELSE @]
    /\ app' = "idle"
    /\ UNCHANGED <<queueVars, table, stale, listener, acceptq, lock, stack, closer, err>>

\* The pool keeps its count where a freed stream had the pointer to its socket.
AcceptFreed == app = "taken" /\ conn[result] = "none" /\ Dies("use_after_free")

AcceptStep ==
    \/ AcceptEmpty \/ AcceptDequeue \/ AcceptTaken \/ DequeueFreed
    \/ AcceptLock \/ CondWait \/ NewSocket \/ OldSocket \/ NoSocket \/ AcceptFreed
-----------------------------------------------------------------------------
ListenerNext ==
    /\ err = "none"
    /\ \/ StackStep \/ AcceptStep \/ CloseListening \/ Socket
       \/ \E s \in Stream : HandleListen(s) \/ HandleSynRcvd(s) \/ Destroy(s) \/ TimedOut(s)
       \/ \E id \in Ids : \/ Listen(id) \/ ListenAfterClose(id) \/ Accept(id)
                          \/ CloseStream(id) \/ CloseFreed(id) \/ CloseUnheard(id)

ListenerSpec == ListenerInit /\ [][ListenerNext]_listenerVars

(* Threads run on once they have begun an operation, a thread that waits for a
   mutex which is free again and again gets it, and a server calls accept again
   and again. *)
FairSpec ==
    /\ ListenerSpec
    /\ WF_listenerVars(err = "none" /\ StackStep)
    /\ SF_listenerVars(err = "none" /\ AcceptStep)
    /\ WF_listenerVars(err = "none" /\ \E id \in Listening : Accept(id))
-----------------------------------------------------------------------------
SockType == [socktype : {"stream", "listener"}, listener : BOOLEAN,
             stream : Stream \cup {NULL}]

ASSUME NOFDAssumption == NOFD \notin SockType

ListenerTypeOK ==
    /\ conn \in [Stream -> {"none", "syn_rcvd", "established", "accepted",
                            "ending", "lost"}]
    /\ stale \in [Stream -> Nat] /\ \A s \in Stream : stale[s] <= MaxStale[s]
    /\ listener \in {"none", "open", "freed"} /\ acceptq \in {"none", "open", "freed"}
    /\ stack \in {"idle", "enqueue", "lock", "signal"}
    /\ app \in {"idle", "first", "lock", "locked", "wait", "asleep", "woken", "taken"}
    /\ closer \in {"idle", "lock", "free", "done"}
    /\ lock = IF stack = "signal" THEN STACK
              ELSE IF app \in {"locked", "wait"} THEN "app" ELSE NULL
    /\ \A id \in Open : Fds[id] \in SockType

(* accept() never sleeps on a queue with a stream in it: the stack thread looks
   at the queue again under accept_lock after it published the stream. *)
NoSleepOnAccept ==
    app = "asleep" /\ head # tail => stack \in {"lock", "signal"} \/ closer # "idle"

\* Where an established stream may be before it has a socket.
Queued(s) == Cardinality({k \in DOMAIN Contents : Contents[k] = s})
InHand(s) == app = "taken" /\ result = s
BeingQueued(s) == pc[STACK] # "idle" /\ enq[STACK].stream = s
Places(s) == Queued(s) + (IF InHand(s) THEN 1 ELSE 0)
                       + (IF BeingQueued(s) THEN 1 ELSE 0)

(* No stream is lost or accepted twice on its way: until it has a socket an
   established one is with the stack thread, once on the queue, or taken; and
   one that a timer freed in a handshake, or ended before, is nowhere.  Only the
   streams that a timer itself freed under acceptq, accept() or a socket are
   out: their memory may be on its way twice. *)
StreamsKept ==
    \A s \in Stream : stale[s] = 0 =>
        Places(s) = IF conn[s] = "established" THEN 1 ELSE 0

(* Until a timer frees a stream under acceptq, accept() or a socket, the bitmap
   names exactly the sockets there are, and an accepted stream has one of them,
   which no other stream has been given since. *)
NoneStale == \A s \in Stream : stale[s] = 0
SocketsTrue ==
    NoneStale =>
        /\ \A id \in Ids :
            id \in Open <=> InUse(table.open_fds[SetStart(id)], id % BitsPerByte)
        /\ \A s \in Stream : Cardinality({id \in Open : Fds[id].stream = s})
                                = IF conn[s] = "accepted" THEN 1 ELSE 0

(* A stream with a socket is not destroyed: CheckConnectionTimeout has a case of
   its own for it, to raise an error event, which it never comes to. *)
SocketKeepsStream ==
    \A id \in Open : Fds[id].stream # NULL => conn[Fds[id].stream] # "none"

(* A server that keeps calling accept gets every stream that completed its
   handshake while the listener is open, if no timer frees it before. *)
QueuedIsAccepted ==
    \A s \in Stream :
        conn[s] = "established" ~>
            conn[s] # "established" \/ err # "none" \/ closer # "idle"
-----------------------------------------------------------------------------
(* What the safety properties need to be inductive. *)

\* The two threads are in the ring when they are in the parts of their calls that
\* are, and never both under accept_lock.
PlaceOfThreads ==
    /\ pc[STACK] # "idle" <=> stack = "enqueue"
    /\ cpc # "idle" <=> app \in {"first", "locked"}
    /\ stack = "signal" => app \notin {"locked", "wait"}

TableInv ==
    /\ table = [open_fds |-> table.open_fds, cur_idx |-> table.cur_idx,
                sockfds |-> table.sockfds]
    /\ Fds \in [Ids -> SockType \cup {NOFD}]

\* A stream has at most one socket, and only after it was accepted.
OwnInv ==
    \A id \in Open : Fds[id].stream # NULL /\ stale[Fds[id].stream] = 0 =>
        /\ conn[Fds[id].stream] = "accepted"
        /\ \A other \in Open : Fds[other].stream = Fds[id].stream => other = id

\* Once accept() saw an empty queue under the lock, whoever fills it will signal.
AwakeInv ==
    app \in {"wait", "asleep"} /\ head # tail =>
        stack \in {"lock", "signal"} \/ closer # "idle"

InRing(s) == \E i \in Index : Unread(i) /\ q[i] = s
\* StreamsKept, slot by slot.
OnItsWay(s) == stale[s] = 0 => conn[s] = "established" /\ ~InRing(s)
PlacesInv ==
    /\ \A i \in Index : Unread(i) /\ stale[q[i]] = 0 => conn[q[i]] = "established"
    /\ \A i, j \in Index :
        Unread(i) /\ Unread(j) /\ q[i] = q[j] /\ stale[q[i]] = 0 => i = j
    /\ stack = "enqueue" => OnItsWay(enq[STACK].stream)
    /\ app = "taken" =>
        /\ result \in Stream /\ OnItsWay(result)
        /\ stack = "enqueue" /\ stale[result] = 0 => enq[STACK].stream # result
    /\ \A s \in Stream : conn[s] = "established" /\ stale[s] = 0 =>
        InRing(s) \/ (stack = "enqueue" /\ enq[STACK].stream = s) \/ InHand(s)

ListenerInv == /\ ListenerTypeOK /\ PlaceOfThreads /\ TableInv
               /\ OwnInv /\ AwakeInv /\ PlacesInv

\* What SocketsTrue needs beyond it: as long as no more than seven sockets are
\* open at once, the highest bit of no byte is set, and FindId finds a free id.
FewSockets ==
    /\ MaxListening \in Nat
    /\ IsFiniteSet(Stream)
    /\ MaxListening + Cardinality(Stream) < BitsPerByte

\* There is a listener, whose socket is open until CloseFree.
Heard == listener = "open" \/ closer \in {"lock", "free"}
Unconnected == {id \in Open : Fds[id].stream = NULL}

BitmapTrue(t) ==
    /\ t.open_fds \in [0..(MaxFds - 1) -> 0..255]
    /\ t.cur_idx \in 0..(MaxFds - 1)
    /\ \A id \in Ids : t.sockfds[id] # NOFD <=> InUse(t.open_fds[SetStart(id)], id % BitsPerByte)

TableFits ==
    /\ BitmapTrue(table)
    /\ \A i \in 0..(MaxFds - 1) : table.open_fds[i] < 128
    /\ Cardinality(Unconnected) <= MaxListening
    /\ \A s \in Stream : conn[s] = "accepted" => \E id \in Open : Fds[id].stream = s
    /\ Listening \subseteq Unconnected
    /\ Heard => Listening # {}

SocketInv == NoneStale => TableFits
=============================================================================
