---------------------------- MODULE ListenerProofs ----------------------------
(***************************************************************************)
(* The listener uses its queue as StreamQueue demands of one producer and  *)
(* one consumer, so what is proved of the ring holds of acceptq; and what  *)
(* the listener makes of it; and the table of sockets, byte by byte.       *)
(***************************************************************************)
EXTENDS Listener, StreamQueueProofs, FiniteSetTheorems, WellFoundedInduction

LEMMA OneStack == SingleProducer
BY StackAssumption DEF SingleProducer

\* The actions that leave the ring alone.
LEMMA Quiet ==
  ASSUME \/ \E how : Dies(how)
         \/ CloseListening \/ Socket
         \/ FlushSignal \/ CondWait \/ NewSocket \/ OldSocket \/ NoSocket
         \/ \E id \in Ids : \/ Listen(id) \/ CloseStream(id) \/ CloseUnheard(id)
         \/ \E s \in Stream : Destroy(s) \/ TimedOut(s)
  PROVE  UNCHANGED vars
BY DEF Dies, CloseListening, CloseQueue, CloseSignal, CloseFree, Socket, FlushSignal,
       CondWait, NewSocket, OldSocket, NoSocket, Listen, CloseStream, CloseUnheard, Destroy,
       TimedOut, queueVars, vars

\* Every step of the listener is one of the ring, or leaves it alone.
LEMMA RingStepOrNot ==
  ASSUME [ListenerNext]_listenerVars
  PROVE  [Next]_vars
<1>1. CASE UNCHANGED listenerVars
  BY <1>1 DEF listenerVars, queueVars
<1>2. CASE StackStep
  <2>1. ASSUME Enqueue \/ Enqueued \/ NotAccepted PROVE Next
    BY <2>1, StackAssumption DEF Enqueue, Enqueued, NotAccepted, Next, StreamEnqueue
  <2>2. ASSUME EnqueueFreed \/ FlushLock \/ FlushSignal \/ FlushFreed PROVE UNCHANGED vars
    BY <2>2, Quiet DEF EnqueueFreed, FlushLock, FlushFreed, queueVars
  <2> QED
    BY <1>2, <2>1, <2>2 DEF StackStep
<1>3. CASE AcceptStep
  <2>1. ASSUME AcceptEmpty \/ AcceptDequeue \/ AcceptTaken PROVE Next
    BY <2>1 DEF AcceptEmpty, AcceptDequeue, AcceptTaken, Next, StreamDequeue
  <2>2. ASSUME AcceptLock PROVE [Next]_vars
    BY <2>2, Quiet DEF AcceptLock, Next, StreamDequeue
  <2>3. ASSUME \/ DequeueFreed \/ CondWait
               \/ NewSocket \/ OldSocket \/ NoSocket \/ AcceptFreed
        PROVE  UNCHANGED vars
    BY <2>3, Quiet DEF DequeueFreed, AcceptFreed
  <2> QED
    BY <1>3, <2>1, <2>2, <2>3 DEF AcceptStep
<1>4. CASE CloseListening \/ Socket
  BY <1>4, Quiet
<1>5. ASSUME NEW s \in Stream, HandleListen(s) \/ HandleSynRcvd(s) \/ Destroy(s) \/ TimedOut(s)
      PROVE  [Next]_vars
  <2>1. CASE HandleListen(s)
    BY <2>1, Quiet DEF HandleListen, queueVars
  <2>2. CASE HandleSynRcvd(s)
    BY <2>2, Quiet, StackAssumption DEF HandleSynRcvd, Next, StreamEnqueue
  <2> QED
    BY <1>5, <2>1, <2>2, Quiet
<1>6. ASSUME NEW id \in Ids,
             \/ Listen(id) \/ ListenAfterClose(id) \/ Accept(id)
             \/ CloseStream(id) \/ CloseFreed(id) \/ CloseUnheard(id)
      PROVE  [Next]_vars
  <2>1. CASE Accept(id)
    BY <2>1, Quiet DEF Accept, Next, StreamDequeue
  <2>2. CASE ListenAfterClose(id) \/ CloseFreed(id)
    BY <2>2, Quiet DEF ListenAfterClose, CloseFreed
  <2> QED
    BY <1>6, <2>1, <2>2, Quiet
<1> QED
  BY <1>1, <1>2, <1>3, <1>4, <1>5, <1>6 DEF ListenerNext

(* The queue of a listener is the ring with one producer: the stack thread and
   accept() keep the rules of StreamEnqueue and StreamDequeue. *)
THEOREM UsesRing == ListenerSpec => Spec
<1>1. ListenerInit => Init
  BY DEF ListenerInit
<1>2. [ListenerNext]_listenerVars => [Next]_vars
  BY RingStepOrNot
<1> QED
  BY <1>1, <1>2, PTL DEF ListenerSpec, Spec

(* A stale index on either side of acceptq is harmless. *)
THEOREM AcceptRing == ListenerSpec => [](TypeOK /\ RingInv)
<1>1. Spec => []TypeOK
  BY TypeCorrect
<1>2. Spec => []RingInv
  BY RingInvariant, OneStack
<1> QED
  BY <1>1, <1>2, UsesRing, PTL

(* StreamDequeue never hands accept() an empty slot. *)
THEOREM AcceptAsserts == ListenerSpec => []AssertStream
<1>1. Spec => []AssertStream
  BY AssertNeverFires, OneStack
<1> QED
  BY <1>1, UsesRing, PTL

(* acceptq is a bounded FIFO queue between handshake and accept(). *)
THEOREM AcceptIsFifo == ListenerSpec => ImplementsFifo
<1>1. Spec => ImplementsFifo
  BY RingImplementsFifo, OneStack
<1> QED
  BY <1>1, UsesRing
-----------------------------------------------------------------------------
(* The table: what an operation on it leaves of the sockets. *)

LEMMA AllocateFds ==
  ASSUME TableInv, NEW id, NEW s \in SockType, table' = Allocate(table, id, s)
  PROVE  TableInv' /\ \A i \in Ids : Fds'[i] = IF i = id THEN s ELSE Fds[i]
BY DEF TableInv, Allocate, Fds

LEMMA FreeFds ==
  ASSUME TableInv, NEW id, table' = Free(table, id)
  PROVE  TableInv' /\ \A i \in Ids : Fds'[i] = IF i = id THEN NOFD ELSE Fds[i]
BY DEF TableInv, Free, Fds

LEMMA ListenFds ==
  ASSUME TableInv, NEW id \in Ids, Listen(id)
  PROVE  /\ TableInv'
         /\ \A i \in Ids : i # id => Fds'[i] = Fds[i]
         /\ Fds'[id] \in SockType /\ Fds'[id].stream = NULL
<1> DEFINE heard == IF listener = "none" THEN TRUE ELSE Fds[id].listener
           s == Sock("listener", heard, NULL)
<1>1. id \in Open
  BY DEF Listen
<1>2. Fds[id] \in SockType
  BY <1>1 DEF TableInv, Open
<1>3. heard \in BOOLEAN
  BY <1>2 DEF SockType
<1>4. table' = [table EXCEPT !.sockfds = [@ EXCEPT ![id] = s]]
  BY Zenon DEF Listen
<1>5. s \in SockType /\ s.stream = NULL
  BY <1>3 DEF Sock, SockType
<1> HIDE DEF s
<1> QED
  BY <1>4, <1>5 DEF TableInv, Fds

\* What each action does to the table.
LEMMA SocketFds ==
  ASSUME TableInv, Socket
  PROVE  TableInv' /\ \E id : \A i \in Ids :
            Fds'[i] = IF i = id THEN Sock("stream", FALSE, NULL) ELSE Fds[i]
<1>1. Sock("stream", FALSE, NULL) \in SockType
  BY DEF Sock, SockType
<1>2. PICK id : table' = Allocate(table, id, Sock("stream", FALSE, NULL))
  BY DEF Socket
<1> QED
  BY <1>1, <1>2, AllocateFds

LEMMA NewSocketFds ==
  ASSUME TableInv, TypeOK, NewSocket
  PROVE  TableInv' /\ \E id : \A i \in Ids :
            Fds'[i] = IF i = id THEN Sock("stream", FALSE, result) ELSE Fds[i]
<1>1. Sock("stream", FALSE, result) \in SockType
  BY DEF Sock, SockType, TypeOK
<1>2. PICK id : table' = Allocate(table, id, Sock("stream", FALSE, result))
  BY DEF NewSocket
<1> QED
  BY <1>1, <1>2, AllocateFds

\* The actions that leave the table alone.
LEMMA TableQuiet ==
  ASSUME \/ StackStep
         \/ AcceptEmpty \/ AcceptDequeue \/ AcceptTaken \/ DequeueFreed
         \/ AcceptLock \/ CondWait \/ OldSocket \/ NoSocket \/ AcceptFreed
         \/ CloseQueue \/ CloseSignal
         \/ \E s \in Stream : HandleListen(s) \/ HandleSynRcvd(s) \/ Destroy(s) \/ TimedOut(s)
         \/ \E id \in Ids : ListenAfterClose(id) \/ Accept(id) \/ CloseFreed(id)
  PROVE  UNCHANGED table
BY DEF StackStep, Enqueue, Enqueued, NotAccepted, EnqueueFreed, FlushLock, FlushSignal,
       FlushFreed, AcceptEmpty, AcceptDequeue, AcceptTaken, DequeueFreed, AcceptLock,
       CondWait, OldSocket, NoSocket, AcceptFreed, CloseQueue, CloseSignal, HandleListen,
       HandleSynRcvd, Destroy, TimedOut, ListenAfterClose, Accept, CloseFreed, Dies, lvars

(* The actions that leave the streams alone, and those that move only the one in
   the hands of accept(). *)
LEMMA StreamsQuiet ==
  ASSUME \/ \E how : Dies(how)
         \/ Enqueue \/ Enqueued \/ EnqueueFreed \/ FlushLock \/ FlushSignal \/ FlushFreed
         \/ AcceptEmpty \/ AcceptDequeue \/ AcceptTaken \/ DequeueFreed
         \/ AcceptLock \/ CondWait \/ AcceptFreed
         \/ CloseListening \/ Socket
         \/ \E id \in Ids : \/ Listen(id) \/ ListenAfterClose(id) \/ Accept(id)
                            \/ CloseFreed(id) \/ CloseUnheard(id)
  PROVE  UNCHANGED <<conn, stale>>
BY DEF Enqueue, Enqueued, EnqueueFreed, FlushLock, FlushSignal, FlushFreed, AcceptEmpty,
       AcceptDequeue, AcceptTaken, DequeueFreed, AcceptLock, CondWait, AcceptFreed,
       CloseListening, CloseQueue, CloseSignal, CloseFree, Socket, Listen, ListenAfterClose,
       Accept, CloseFreed, CloseUnheard, Dies, lvars

LEMMA GivenMoves ==
  ASSUME NewSocket \/ OldSocket \/ NoSocket
  PROVE  /\ app = "taken" /\ app' = "idle"
         /\ UNCHANGED <<queueVars, stale, stack, listener, closer>>
         /\ \E c \in {conn[result], "accepted", "lost"} :
              /\ c # "established"
              /\ conn' = [conn EXCEPT ![result] = c]
BY DEF NewSocket, OldSocket, NoSocket, Owned

\* What the timers do to a stream that is not in use elsewhere, and to one that is.
LEMMA TimedOutMoves ==
  ASSUME NEW s \in Stream, TimedOut(s), conn \in [Stream -> {"none", "syn_rcvd",
                     "established", "accepted", "ending", "lost"}], stale \in [Stream -> Nat]
  PROVE  /\ conn' = [conn EXCEPT ![s] = "none"]
         /\ stale' \in [Stream -> Nat]
         /\ \A r \in Stream : stale[r] <= MaxStale[r] => stale'[r] <= MaxStale[r]
         /\ \A r \in Stream : stale'[r] = 0 =>
              /\ stale[r] = 0
              /\ conn[r] \in {"established", "accepted"} => conn'[r] = conn[r]
              /\ conn'[r] = conn[r] \/ conn'[r] = "none"
<1>1. MaxStale \in [Stream -> Nat]
  BY StackAssumption
<1>2. CASE InUseElsewhere(s)
  <2>1. stale' = [stale EXCEPT ![s] = stale[s] + 1] /\ stale[s] < MaxStale[s]
        /\ conn' = [conn EXCEPT ![s] = "none"]
    BY <1>2 DEF TimedOut
  <2> QED
    BY <1>1, <2>1
<1>3. CASE ~InUseElsewhere(s)
  <2>1. /\ UNCHANGED stale /\ conn' = [conn EXCEPT ![s] = "none"]
        /\ conn[s] \notin {"established", "accepted"}
    <3>1. /\ conn' = [conn EXCEPT ![s] = "none"] /\ stale' = [stale EXCEPT ![s] = stale[s]]
      BY <1>3 DEF TimedOut
    <3> QED
      BY <1>3, <3>1 DEF InUseElsewhere
  <2> QED
    BY <2>1
<1> QED
  BY <1>2, <1>3
-----------------------------------------------------------------------------
(* Types, and where the threads are. *)

\* The positions alone; the sockets are TableInv's part.
ThreadsOK ==
    /\ conn \in [Stream -> {"none", "syn_rcvd", "established", "accepted",
                            "ending", "lost"}]
    /\ stale \in [Stream -> Nat] /\ \A s \in Stream : stale[s] <= MaxStale[s]
    /\ listener \in {"none", "open", "freed"} /\ acceptq \in {"none", "open", "freed"}
    /\ stack \in {"idle", "enqueue", "lock", "signal"}
    /\ app \in {"idle", "first", "lock", "locked", "wait", "asleep", "woken", "taken"}
    /\ closer \in {"idle", "lock", "free", "done"}
    /\ lock = IF stack = "signal" THEN STACK
              ELSE IF app \in {"locked", "wait"} THEN "app" ELSE NULL

LEMMA TypeSplit == TableInv => (ListenerTypeOK <=> ThreadsOK)
BY DEF TableInv, ListenerTypeOK, ThreadsOK, Open

LEMMA ThreadsStep ==
  ASSUME ThreadsOK, PlaceOfThreads, TypeOK, ListenerNext
  PROVE  ThreadsOK' /\ PlaceOfThreads'
<1> USE StackAssumption DEF ThreadsOK, PlaceOfThreads
<1>1. ASSUME NEW how, Dies(how) PROVE ThreadsOK' /\ PlaceOfThreads'
  BY <1>1 DEF Dies, queueVars, vars
<1>2. CASE StackStep
  <2> USE DEF queueVars, vars, lvars, TypeOK
  <2>1. CASE Enqueue
    BY <2>1 DEF Enqueue, EnqueueRoom, EnqueueStore
  <2>2. CASE Enqueued
    BY <2>2 DEF Enqueued, EnqueuePublish
  <2>3. CASE NotAccepted
    BY <2>3 DEF NotAccepted, EnqueueFull
  <2>4. CASE FlushLock
    BY <2>4, <1>1 DEF FlushLock
  <2>5. CASE FlushSignal
    BY <2>5 DEF FlushSignal
  <2> QED
    BY <1>1, <1>2, <2>1, <2>2, <2>3, <2>4, <2>5 DEF StackStep, EnqueueFreed, FlushFreed
<1>3. CASE AcceptStep
  <2> USE DEF queueVars, vars, lvars
  <2>1. CASE AcceptEmpty
    BY <2>1 DEF AcceptEmpty, DequeueEmpty
  <2>2. CASE AcceptDequeue
    BY <2>2 DEF AcceptDequeue, DequeueNonEmpty, DequeueLoadSlot
  <2>3. CASE AcceptTaken
    BY <2>3 DEF AcceptTaken, DequeuePublish
  <2>4. CASE AcceptLock
    BY <2>4, <1>1 DEF AcceptLock, DequeueLoadHead
  <2>5. CASE CondWait
    BY <2>5 DEF CondWait
  <2>6. CASE NewSocket
    BY <2>6 DEF NewSocket, Owned
  <2>7. CASE OldSocket
    BY <2>7 DEF OldSocket, Owned
  <2>8. CASE NoSocket
    BY <2>8 DEF NoSocket
  <2> QED
    BY <1>1, <1>3, <2>1, <2>2, <2>3, <2>4, <2>5, <2>6, <2>7, <2>8
       DEF AcceptStep, DequeueFreed, AcceptFreed
<1>4. CASE CloseListening \/ Socket
  BY <1>4 DEF CloseListening, CloseQueue, CloseSignal, CloseFree, Socket, queueVars, vars
<1>5. ASSUME NEW s \in Stream, HandleListen(s) \/ HandleSynRcvd(s) \/ Destroy(s) \/ TimedOut(s)
      PROVE  ThreadsOK' /\ PlaceOfThreads'
  <2>1. CASE HandleListen(s)
    BY <2>1, <1>1 DEF HandleListen, queueVars, vars
  <2>2. CASE HandleSynRcvd(s)
    BY <2>2, <1>1 DEF HandleSynRcvd, EnqueueLoadHead, TypeOK
  <2>3. CASE Destroy(s)
    BY <2>3 DEF Destroy, queueVars, vars
  <2>4. CASE TimedOut(s)
    <3>1. UNCHANGED <<queueVars, listener, acceptq, lock, stack, app, closer>>
      BY <2>4 DEF TimedOut
    <3>2. /\ conn' = [conn EXCEPT ![s] = "none"] /\ stale' \in [Stream -> Nat]
          /\ \A r \in Stream : stale'[r] <= MaxStale[r]
      BY <2>4, TimedOutMoves
    <3> QED
      BY <3>1, <3>2 DEF queueVars, vars
  <2> QED
    BY <1>5, <2>1, <2>2, <2>3, <2>4
<1>6. ASSUME NEW id \in Ids,
             \/ Listen(id) \/ ListenAfterClose(id) \/ Accept(id)
             \/ CloseStream(id) \/ CloseFreed(id) \/ CloseUnheard(id)
      PROVE  ThreadsOK' /\ PlaceOfThreads'
  <2>1. CASE Listen(id)
    BY <2>1 DEF Listen, queueVars, vars
  <2>2. CASE Accept(id)
    BY <2>2, <1>1 DEF Accept, DequeueLoadHead
  <2>3. CASE CloseStream(id) \/ CloseUnheard(id)
    BY <2>3 DEF CloseStream, CloseUnheard, queueVars, vars
  <2> QED
    BY <1>6, <1>1, <2>1, <2>2, <2>3 DEF ListenAfterClose, CloseFreed
<1> QED
  BY <1>1, <1>2, <1>3, <1>4, <1>5, <1>6 DEF ListenerNext

LEMMA TableStep ==
  ASSUME TableInv, TypeOK, ListenerNext
  PROVE  TableInv'
<1>1. ASSUME UNCHANGED table PROVE TableInv'
  BY <1>1 DEF TableInv, Fds
<1>2. CASE Socket
  BY <1>2, SocketFds
<1>3. CASE NewSocket
  BY <1>3, NewSocketFds
<1>4. CASE CloseFree
  BY <1>4, FreeFds DEF CloseFree
<1>5. ASSUME NEW id \in Ids, CloseStream(id) \/ CloseUnheard(id) PROVE TableInv'
  BY <1>5, FreeFds DEF CloseStream, CloseUnheard
<1>6. ASSUME NEW id \in Ids, Listen(id) PROVE TableInv'
  BY <1>6, ListenFds
<1> QED
  BY <1>1, <1>2, <1>3, <1>4, <1>5, <1>6, TableQuiet
     DEF ListenerNext, AcceptStep, CloseListening
-----------------------------------------------------------------------------
(* A stream has one socket, if it was accepted. *)

\* Steps that leave the sockets alone only move streams that have none.
LEMMA OwnQuiet ==
  ASSUME OwnInv, TableInv, UNCHANGED table,
         \A s \in Stream : stale'[s] = 0 =>
            stale[s] = 0 /\ (conn[s] = "accepted" => conn'[s] = "accepted")
  PROVE  OwnInv'
BY DEF OwnInv, TableInv, SockType, Open, Fds

\* So does one more socket without a stream, or one socket less.
LEMMA OwnOther ==
  ASSUME OwnInv, TableInv, UNCHANGED <<conn, stale>>, NEW id,
         \A i \in Ids : i # id => Fds'[i] = Fds[i],
         id \in Ids => Fds'[id] = NOFD \/ Fds'[id].stream = NULL
  PROVE  OwnInv'
BY DEF OwnInv, Open

LEMMA OwnStep ==
  ASSUME OwnInv, TableInv, ThreadsOK, PlaceOfThreads, PlacesInv, TypeOK, RingInv,
         ListenerNext
  PROVE  OwnInv'
<1> USE StackAssumption
<1>1. ASSUME UNCHANGED <<table, conn, stale>> PROVE OwnInv'
  BY <1>1, OwnQuiet
<1>2. CASE StackStep
  <2>1. CASE NotAccepted
    <3>1. enq[STACK].stream \in Stream
      BY <2>1 DEF NotAccepted, PlaceOfThreads, RingInv, ProducerInv
    <3>2. /\ stale[enq[STACK].stream] = 0 => conn[enq[STACK].stream] = "established"
      BY <2>1 DEF NotAccepted, PlacesInv, OnItsWay
    <3>3. conn' = [conn EXCEPT ![enq[STACK].stream] = "ending"] /\ UNCHANGED stale
      BY <2>1 DEF NotAccepted
    <3>4. \A s \in Stream : stale'[s] = 0 =>
            stale[s] = 0 /\ (conn[s] = "accepted" => conn'[s] = "accepted")
      BY <3>1, <3>2, <3>3 DEF ThreadsOK
    <3> QED
      BY <1>2, <3>4, TableQuiet, OwnQuiet
  <2> QED
    BY <1>1, <1>2, <2>1, TableQuiet, StreamsQuiet DEF StackStep
<1>3. CASE AcceptStep
  <2>1. CASE NewSocket
    <3>1. PICK id : \A i \in Ids :
              Fds'[i] = IF i = id THEN Sock("stream", FALSE, result) ELSE Fds[i]
      BY <2>1, NewSocketFds
    <3>2. /\ app = "taken" /\ UNCHANGED stale
          /\ conn' = [conn EXCEPT ![result] = IF @ \in {"established", "lost"} THEN "accepted"
                                             ELSE @]
      BY <2>1 DEF NewSocket, Owned
    <3>3. result \in Stream /\ (stale[result] = 0 => conn[result] = "established")
      BY <3>2 DEF PlacesInv, OnItsWay
    <3>4. stale[result] = 0 => \A i \in Open : Fds[i].stream # result
      BY <3>3, StreamAssumption DEF OwnInv
    <3>5. Sock("stream", FALSE, result).stream = result
      BY DEF Sock
    <3>6. \A i \in Open' : i # id => i \in Open /\ Fds'[i] = Fds[i]
      BY <3>1 DEF Open
    <3>7. id \in Open' => Fds'[id].stream = result
      BY <3>1, <3>5 DEF Open
    <3>8. \A r : conn[r] = "accepted" => conn'[r] = "accepted"
      BY <3>2, <3>3 DEF ThreadsOK
    <3>9. stale[result] = 0 => conn'[result] = "accepted"
      BY <3>2, <3>3 DEF ThreadsOK
    <3> QED
      BY <3>2, <3>4, <3>6, <3>7, <3>8, <3>9 DEF OwnInv
  <2>2. CASE OldSocket \/ NoSocket
    <3>1. /\ app = "taken" /\ UNCHANGED <<table, stale>>
          /\ conn' = [conn EXCEPT ![result] =
                        IF @ \in {"established", "lost"} THEN "accepted" ELSE @]
             \/ conn' = [conn EXCEPT ![result] = IF @ = "established" THEN "lost" ELSE @]
      BY <2>2 DEF OldSocket, NoSocket, Owned
    <3>2. result \in Stream
      BY <3>1 DEF PlacesInv
    <3>3. \A s \in Stream : conn[s] = "accepted" => conn'[s] = "accepted"
      BY <3>1, <3>2 DEF ThreadsOK
    <3> QED
      BY <3>1, <3>3, OwnQuiet
  <2> QED
    BY <1>1, <1>3, <2>1, <2>2, TableQuiet, StreamsQuiet DEF AcceptStep
<1>4. CASE CloseListening
  <2>1. CASE CloseFree
    BY <1>4, <2>1, FreeFds, OwnOther, StreamsQuiet DEF CloseFree
  <2> QED
    BY <1>1, <1>4, <2>1, TableQuiet, StreamsQuiet DEF CloseListening
<1>5. CASE Socket
  <2>1. PICK id : \A i \in Ids :
            Fds'[i] = IF i = id THEN Sock("stream", FALSE, NULL) ELSE Fds[i]
    BY <1>5, SocketFds
  <2>2. Sock("stream", FALSE, NULL).stream = NULL
    BY DEF Sock
  <2>3. UNCHANGED <<conn, stale>>
    BY <1>5, StreamsQuiet
  <2> QED
    BY <2>1, <2>2, <2>3, OwnOther
<1>6. ASSUME NEW s \in Stream, HandleListen(s) \/ HandleSynRcvd(s) \/ Destroy(s) \/ TimedOut(s)
      PROVE  OwnInv'
  <2>1. UNCHANGED table
    BY <1>6, TableQuiet
  <2>2. CASE TimedOut(s)
    <3>1. \A u \in Stream : stale'[u] = 0 =>
            stale[u] = 0 /\ (conn[u] = "accepted" => conn'[u] = "accepted")
      BY <2>2, TimedOutMoves DEF ThreadsOK
    <3> QED
      BY <2>1, <3>1, OwnQuiet
  <2>3. CASE HandleListen(s) \/ HandleSynRcvd(s) \/ Destroy(s)
    <3>1. UNCHANGED stale /\ \A u \in Stream : conn[u] = "accepted" => conn'[u] = "accepted"
      BY <2>3 DEF HandleListen, HandleSynRcvd, Destroy, Dies, ThreadsOK
    <3> QED
      BY <2>1, <3>1, OwnQuiet
  <2> QED
    BY <1>6, <2>2, <2>3
<1>7. ASSUME NEW id \in Ids, Listen(id) PROVE OwnInv'
  <2>1. UNCHANGED <<conn, stale>>
    BY <1>7, StreamsQuiet
  <2> QED
    BY <1>7, <2>1, ListenFds, OwnOther
<1>8. ASSUME NEW id \in Ids, CloseStream(id) PROVE OwnInv'
  <2> DEFINE s == Fds[id].stream
  <2>1. \A i \in Ids : Fds'[i] = IF i = id THEN NOFD ELSE Fds[i]
    BY <1>8, FreeFds DEF CloseStream
  <2>2. /\ id \in Open /\ s # NULL /\ UNCHANGED stale
        /\ \/ conn' = [conn EXCEPT ![s] = IF @ = "syn_rcvd" THEN @ ELSE "ending"]
           \/ UNCHANGED conn
    BY <1>8 DEF CloseStream
  <2>3. \A i \in Open : Fds[i].stream # NULL => Fds[i].stream \in Stream
    BY DEF TableInv, SockType, Open
  <2>4. \A i \in Open' : i \in Open /\ i # id /\ Fds'[i] = Fds[i]
    BY <2>1 DEF Open
  <2>5. \A r \in Stream : r # s => conn'[r] = conn[r]
    BY <2>2, <2>3 DEF ThreadsOK
  <2>6. stale[s] = 0 => \A i \in Open : Fds[i].stream = s => i = id
    BY <2>2 DEF OwnInv
  <2> HIDE DEF s
  <2> QED
    BY <2>2, <2>3, <2>4, <2>5, <2>6 DEF OwnInv
<1>9. ASSUME NEW id \in Ids, CloseUnheard(id) PROVE OwnInv'
  BY <1>9, FreeFds, OwnOther, StreamsQuiet DEF CloseUnheard
<1>10. ASSUME NEW id \in Ids, ListenAfterClose(id) \/ Accept(id) \/ CloseFreed(id) PROVE OwnInv'
  BY <1>1, <1>10, TableQuiet, StreamsQuiet
<1> QED
  BY <1>2, <1>3, <1>4, <1>5, <1>6, <1>7, <1>8, <1>9, <1>10 DEF ListenerNext
-----------------------------------------------------------------------------
(* Where an established stream is. *)

\* The slots and the stack thread have streams, not empty places.
LEMMA OnlyStreams ==
  ASSUME RingInv, PlaceOfThreads
  PROVE  /\ \A i \in Index : Unread(i) => q[i] \in Stream
         /\ stack = "enqueue" => enq[STACK].stream \in Stream
BY StackAssumption DEF PlaceOfThreads, RingInv, UnreadInv, ProducerInv

\* A step that leaves the unread slots and the streams on their way alone.
LEMMA PlacesQuiet ==
  ASSUME PlacesInv, RingInv, PlaceOfThreads, UNCHANGED <<head, tail, result>>,
         \A i \in Index : Unread(i) => q'[i] = q[i],
         stack = "enqueue" <=> stack' = "enqueue",
         enq'[STACK].stream = enq[STACK].stream,
         app = "taken" <=> app' = "taken",
         \A s \in Stream : stale'[s] = 0 =>
            stale[s] = 0 /\ (conn[s] = "established" <=> conn'[s] = "established")
  PROVE  PlacesInv'
<1>1. \A i \in Index : Unread(i)' <=> Unread(i)
  BY DEF Unread
<1>2. \A s : InRing(s)' <=> InRing(s)
  BY <1>1 DEF InRing
<1> QED
  BY <1>1, <1>2, OnlyStreams DEF PlacesInv, OnItsWay, InHand

\* The stack thread has one more stream, which is nowhere else.
LEMMA PlacesBegin ==
  ASSUME PlacesInv, TypeOK, ThreadsOK, PlaceOfThreads, NEW s \in Stream, HandleSynRcvd(s),
         ~\E how : Dies(how)
  PROVE  PlacesInv'
<1>1. /\ stack = "idle" /\ stack' = "enqueue" /\ conn[s] = "syn_rcvd"
      /\ conn' = [conn EXCEPT ![s] = "established"]
      /\ UNCHANGED <<head, tail, q, result, app, stale>>
  BY DEF HandleSynRcvd, EnqueueLoadHead
<1>2. enq'[STACK].stream = s
  BY StackAssumption DEF HandleSynRcvd, EnqueueLoadHead, TypeOK
<1>3. \A i \in Index : Unread(i)' <=> Unread(i)
  BY <1>1 DEF Unread
<1>4. \A u : InRing(u)' <=> InRing(u)
  BY <1>1, <1>3 DEF InRing
<1>5. \A u : conn'[u] = IF u = s THEN "established" ELSE conn[u]
  BY <1>1 DEF ThreadsOK
<1>6. stale[s] = 0 => ~InRing(s)
  BY <1>1 DEF InRing, PlacesInv
<1> QED
  BY <1>1, <1>2, <1>3, <1>4, <1>5, <1>6 DEF PlacesInv, OnItsWay, InHand

\* acceptq was full: the stream ends.
LEMMA PlacesFull ==
  ASSUME PlacesInv, TypeOK, RingInv, ThreadsOK, PlaceOfThreads, NotAccepted
  PROVE  PlacesInv'
<1> DEFINE s == enq[STACK].stream
<1>1. /\ stack = "enqueue" /\ stack' = "lock"
      /\ conn' = [conn EXCEPT ![s] = "ending"]
      /\ UNCHANGED <<head, tail, q, result, app, stale>>
  BY DEF NotAccepted, EnqueueFull
<1>2. s \in Stream /\ (stale[s] = 0 => ~InRing(s) /\ ~InHand(s))
  BY <1>1, OnlyStreams DEF PlacesInv, OnItsWay, InHand
<1>3. \A i \in Index : Unread(i)' <=> Unread(i)
  BY <1>1 DEF Unread
<1>4. \A u : InRing(u)' <=> InRing(u)
  BY <1>1, <1>3 DEF InRing
<1>5. \A u \in Stream : conn'[u] = IF u = s THEN "ending" ELSE conn[u]
  BY <1>1, <1>2 DEF ThreadsOK
<1>6. \A i \in Index : Unread(i) => q[i] \in Stream /\ (stale[s] = 0 => q[i] # s)
  BY <1>2, OnlyStreams DEF InRing
<1>7. enq[STACK].stream = s
  OBVIOUS
<1> HIDE DEF s
<1> QED
  BY <1>1, <1>2, <1>3, <1>4, <1>5, <1>6, <1>7 DEF PlacesInv, OnItsWay, InHand

\* The stream is on the queue from now on.
LEMMA PlacesPublish ==
  ASSUME PlacesInv, TypeOK, RingInv, PlaceOfThreads, Enqueued
  PROVE  PlacesInv'
<1> DEFINE s == enq[STACK].stream
<1>1. /\ stack = "enqueue" /\ stack' = "lock"
      /\ enq[STACK].t = tail /\ q[tail] = s /\ s \in Stream
      /\ head # NextIndex(tail) /\ tail' = NextIndex(tail)
      /\ UNCHANGED <<head, q, result, conn, app, stale>>
  BY StackAssumption DEF Enqueued, EnqueuePublish, PlaceOfThreads, RingInv, ProducerInv
<1>2. /\ tail \in Index
      /\ \A i \in Index : Unread(i)' <=> Unread(i) \/ i = tail
  BY <1>1, CapacityAssumption DEF TypeOK, Index, NextIndex, Unread
<1>3. \A u : InRing(u)' <=> InRing(u) \/ u = s
  BY <1>1, <1>2 DEF InRing
<1>4. stale[s] = 0 => conn[s] = "established" /\ ~InRing(s) /\ ~InHand(s)
  BY <1>1 DEF PlacesInv, OnItsWay, InHand
<1>5. stale[s] = 0 => \A i \in Index : Unread(i) => q[i] # s
  BY <1>4 DEF InRing
<1> HIDE DEF s
<1>6. \A i, j \in Index : Unread(i)' /\ Unread(j)' /\ q[i] = q[j] /\ stale[q[i]] = 0 => i = j
  BY <1>1, <1>2, <1>5 DEF PlacesInv
<1>7. \A i \in Index : Unread(i)' /\ stale[q[i]] = 0 => conn[q[i]] = "established"
  BY <1>1, <1>2, <1>4 DEF PlacesInv
<1>8. \A u \in Stream : conn[u] = "established" /\ stale[u] = 0 => InRing(u)' \/ InHand(u)
  BY <1>3 DEF PlacesInv, s
<1>9. app = "taken" => /\ result \in Stream
                       /\ stale[result] = 0 => conn[result] = "established" /\ ~InRing(result)'
  BY <1>1, <1>3, <1>4 DEF PlacesInv, OnItsWay, InHand
<1> QED
  BY <1>1, <1>6, <1>7, <1>8, <1>9 DEF PlacesInv, OnItsWay, InHand

\* The oldest stream changes from the queue to the hands of accept().
LEMMA PlacesTaken ==
  ASSUME PlacesInv, TypeOK, RingInv, PlaceOfThreads, AcceptTaken
  PROVE  PlacesInv'
<1> DEFINE s == q[head]
<1>1. /\ app' = "taken" /\ app # "taken"
      /\ head # tail /\ head' = NextIndex(head) /\ result' = s
      /\ UNCHANGED <<tail, q, enq, conn, stack, stale>>
  BY DEF AcceptTaken, DequeuePublish, PlaceOfThreads, RingInv, ConsumerInv
<1>2. /\ head \in Index /\ Unread(head)
      /\ \A i \in Index : Unread(i)' <=> Unread(i) /\ i # head
  BY <1>1, CapacityAssumption DEF TypeOK, Index, NextIndex, Unread
<1>3. s \in Stream /\ (stale[s] = 0 => conn[s] = "established")
  BY <1>2, OnlyStreams DEF PlacesInv
<1>4. stale[s] = 0 => \A i \in Index : Unread(i)' => q[i] # s
  BY <1>2 DEF PlacesInv
<1>5. InRing(s)
  BY <1>2 DEF InRing
<1>6. \A u : InRing(u)' <=> \E i \in Index : Unread(i)' /\ q[i] = u
  BY <1>1 DEF InRing
<1>7. /\ \A u : InRing(u)' => InRing(u)
      /\ stale[s] = 0 => \A u : InRing(u)' => u # s
  <2>1. \A u : InRing(u)' => InRing(u)
    BY <1>2, <1>6 DEF InRing
  <2> QED
    BY <1>4, <1>6, <2>1
<1>8. \A u : InRing(u) /\ u # s => InRing(u)'
  BY <1>2, <1>6 DEF InRing
<1> HIDE DEF s
<1>9. /\ \A i \in Index : Unread(i)' /\ stale[q[i]] = 0 => conn[q[i]] = "established"
      /\ \A i, j \in Index :
          Unread(i)' /\ Unread(j)' /\ q[i] = q[j] /\ stale[q[i]] = 0 => i = j
  BY <1>2 DEF PlacesInv
<1>10. stack = "enqueue" =>
         /\ stale[enq[STACK].stream] = 0 =>
              conn[enq[STACK].stream] = "established" /\ ~InRing(enq[STACK].stream)'
         /\ stale[s] = 0 => enq[STACK].stream # s
  BY <1>1, <1>5, <1>7 DEF PlacesInv, OnItsWay
<1>11. \A u \in Stream : conn[u] = "established" /\ stale[u] = 0 =>
         InRing(u)' \/ (stack = "enqueue" /\ enq[STACK].stream = u) \/ u = s
  BY <1>1, <1>8 DEF PlacesInv, InHand
<1> QED
  BY <1>1, <1>3, <1>7, <1>9, <1>10, <1>11 DEF PlacesInv, OnItsWay, InHand

\* The stream accept() has taken gets a socket or is lost.
LEMMA PlacesGiven ==
  ASSUME PlacesInv, TypeOK, RingInv, ThreadsOK, PlaceOfThreads,
         NewSocket \/ OldSocket \/ NoSocket
  PROVE  PlacesInv'
<1>1. /\ app = "taken" /\ app' = "idle"
      /\ UNCHANGED <<head, tail, q, enq, result, stack, stale>>
  BY GivenMoves DEF queueVars, vars
<1>2. PICK c : c # "established" /\ conn' = [conn EXCEPT ![result] = c]
  BY GivenMoves
<1>3. \A i \in Index : Unread(i)' <=> Unread(i)
  BY <1>1 DEF Unread
<1>4. \A u : InRing(u)' <=> InRing(u)
  BY <1>1, <1>3 DEF InRing
<1>5. \A u \in Stream : conn'[u] = IF u = result THEN c ELSE conn[u]
  BY <1>2 DEF ThreadsOK
<1>6. /\ result \in Stream
      /\ stale[result] = 0 => /\ ~InRing(result)
                              /\ stack = "enqueue" => enq[STACK].stream # result
  BY <1>1 DEF PlacesInv, OnItsWay
<1>7. \A i \in Index : Unread(i) => q[i] \in Stream /\ (stale[result] = 0 => q[i] # result)
  BY <1>6, OnlyStreams DEF InRing
<1>8. stack = "enqueue" =>
        /\ enq[STACK].stream \in Stream
        /\ stale[enq[STACK].stream] = 0 => conn'[enq[STACK].stream] = "established"
  BY <1>5, <1>6, OnlyStreams DEF PlacesInv, OnItsWay
<1> QED
  BY <1>1, <1>2, <1>3, <1>4, <1>5, <1>6, <1>7, <1>8 DEF PlacesInv, OnItsWay, InHand

LEMMA PlacesStep ==
  ASSUME PlacesInv, OwnInv, TableInv, TypeOK, RingInv, ThreadsOK, PlaceOfThreads,
         ListenerNext
  PROVE  PlacesInv'
<1> USE StackAssumption
<1>1. ASSUME NEW how, Dies(how) PROVE PlacesInv'
  BY <1>1, PlacesQuiet DEF Dies, queueVars, vars
<1>2. CASE StackStep
  <2>1. CASE Enqueue
    <3>1. \A i \in Index : Unread(i) => q'[i] = q[i]
      BY <2>1, CapacityAssumption DEF Enqueue, EnqueueRoom, EnqueueStore, TypeOK, RingInv,
         ProducerInv, Unread, Index
    <3>2. /\ UNCHANGED <<head, tail, result, stack, app, conn, stale>>
          /\ enq'[STACK].stream = enq[STACK].stream
      BY <2>1 DEF Enqueue, EnqueueRoom, EnqueueStore, lvars, TypeOK
    <3> QED
      BY <3>1, <3>2, PlacesQuiet
  <2>2. ASSUME FlushLock \/ FlushSignal PROVE PlacesInv'
    BY <1>1, <2>2, PlacesQuiet DEF FlushLock, FlushSignal, queueVars, vars
  <2> QED
    BY <1>1, <1>2, <2>1, <2>2, PlacesFull, PlacesPublish
       DEF StackStep, EnqueueFreed, FlushFreed
<1>3. CASE AcceptStep
  <2>1. ASSUME AcceptEmpty \/ AcceptDequeue PROVE PlacesInv'
    BY <2>1, PlacesQuiet DEF AcceptEmpty, AcceptDequeue, DequeueEmpty, DequeueNonEmpty,
       DequeueLoadSlot, PlaceOfThreads, lvars
  <2>2. ASSUME AcceptLock \/ CondWait PROVE PlacesInv'
    BY <1>1, <2>2, PlacesQuiet DEF AcceptLock, CondWait, DequeueLoadHead, queueVars, vars
  <2> QED
    BY <1>1, <1>3, <2>1, <2>2, PlacesTaken, PlacesGiven
       DEF AcceptStep, DequeueFreed, AcceptFreed
<1>4. CASE CloseListening \/ Socket
  BY <1>4, PlacesQuiet DEF CloseListening, CloseQueue, CloseSignal, CloseFree, Socket,
     queueVars, vars
<1>5. ASSUME NEW s \in Stream, HandleListen(s) \/ HandleSynRcvd(s) \/ Destroy(s) \/ TimedOut(s)
      PROVE  PlacesInv'
  <2>1. CASE HandleListen(s) \/ Destroy(s)
    <3>1. CASE \E how : Dies(how)
      BY <3>1, <1>1
    <3>2. CASE ~\E how : Dies(how)
      <4>1. /\ UNCHANGED <<head, tail, q, enq, result, stack, app, stale>>
            /\ conn[s] \in {"none", "ending"}
            /\ \E c \in {"syn_rcvd", "none"} : conn' = [conn EXCEPT ![s] = c]
        BY <2>1, <3>2 DEF HandleListen, Destroy, queueVars, vars
      <4>2. \A u \in Stream : conn[u] = "established" <=> conn'[u] = "established"
        BY <4>1 DEF ThreadsOK
      <4> QED
        BY <4>1, <4>2, PlacesQuiet
    <3> QED
      BY <3>1, <3>2
  <2>2. CASE TimedOut(s)
    <3>1. UNCHANGED <<head, tail, q, enq, result, stack, app>>
      BY <2>2 DEF TimedOut, queueVars, vars
    <3>2. \A r \in Stream : stale'[r] = 0 =>
            /\ stale[r] = 0
            /\ conn[r] \in {"established", "accepted"} => conn'[r] = conn[r]
            /\ conn'[r] = conn[r] \/ conn'[r] = "none"
      BY <2>2, TimedOutMoves DEF ThreadsOK
    <3>3. \A r \in Stream : stale'[r] = 0 =>
            stale[r] = 0 /\ (conn[r] = "established" <=> conn'[r] = "established")
      BY <3>2
    <3> QED
      BY <3>1, <3>3, PlacesQuiet
  <2> QED
    BY <1>1, <1>5, <2>1, <2>2, PlacesBegin
<1>6. ASSUME NEW id \in Ids, Listen(id) \/ CloseUnheard(id) PROVE PlacesInv'
  BY <1>6, PlacesQuiet DEF Listen, CloseUnheard, queueVars, vars
<1>7. ASSUME NEW id \in Ids, CloseStream(id) PROVE PlacesInv'
  <2> DEFINE s == Fds[id].stream
  <2>1. /\ UNCHANGED <<head, tail, q, enq, result, stack, app, stale>>
        /\ id \in Open /\ s # NULL
        /\ \/ conn' = [conn EXCEPT ![s] = IF @ = "syn_rcvd" THEN @ ELSE "ending"]
           \/ UNCHANGED conn
    BY <1>7 DEF CloseStream, queueVars, vars
  <2>2. stale[s] = 0 => conn[s] = "accepted"
    BY <2>1 DEF OwnInv
  <2> HIDE DEF s
  <2>3. \A u \in Stream : u # s => conn'[u] = conn[u]
    BY <2>1 DEF ThreadsOK
  <2>4. s \in Stream => conn'[s] \in {conn[s], "ending"}
    BY <2>1 DEF ThreadsOK
  <2>5. \A u \in Stream : stale'[u] = 0 =>
          stale[u] = 0 /\ (conn[u] = "established" <=> conn'[u] = "established")
    BY <2>1, <2>2, <2>3, <2>4
  <2> QED
    BY <2>1, <2>5, PlacesQuiet
<1>8. ASSUME NEW id \in Ids, ListenAfterClose(id) \/ Accept(id) \/ CloseFreed(id) PROVE PlacesInv'
  BY <1>1, <1>8, PlacesQuiet DEF ListenAfterClose, Accept, CloseFreed, DequeueLoadHead
<1> QED
  BY <1>2, <1>3, <1>4, <1>5, <1>6, <1>7, <1>8 DEF ListenerNext
-----------------------------------------------------------------------------
(* accept() does not sleep over a stream. *)

LEMMA AwakeStep ==
  ASSUME AwakeInv, TypeOK, RingInv, ThreadsOK, PlaceOfThreads, ListenerNext
  PROVE  AwakeInv'
<1> USE StackAssumption
<1>1. ASSUME NEW how, Dies(how) PROVE AwakeInv'
  BY <1>1 DEF AwakeInv, Dies, queueVars, vars
<1>2. ASSUME UNCHANGED <<head, tail, closer>>,
             app' \in {"wait", "asleep"} => app \in {"wait", "asleep"},
             stack \in {"lock", "signal"} => stack' \in {"lock", "signal"}
      PROVE  AwakeInv'
  BY <1>2 DEF AwakeInv
<1>3. CASE StackStep
  <2>1. CASE Enqueue
    BY <1>2, <2>1 DEF Enqueue, EnqueueRoom, EnqueueStore, lvars
  <2>2. CASE Enqueued \/ NotAccepted
    BY <2>2 DEF Enqueued, NotAccepted, AwakeInv
  <2>3. CASE FlushLock
    BY <1>1, <1>2, <2>3 DEF FlushLock, queueVars, vars
  <2>4. CASE FlushSignal
    BY <2>4 DEF FlushSignal, AwakeInv, PlaceOfThreads, queueVars, vars
  <2> QED
    BY <1>1, <1>3, <2>1, <2>2, <2>3, <2>4 DEF StackStep, EnqueueFreed, FlushFreed
<1>4. CASE AcceptStep
  <2>1. CASE AcceptEmpty
    BY <2>1 DEF AcceptEmpty, DequeueEmpty, AwakeInv, RingInv, ConsumerInv
  <2>2. CASE AcceptDequeue
    BY <1>2, <2>2 DEF AcceptDequeue, DequeueNonEmpty, DequeueLoadSlot, lvars
  <2>3. CASE AcceptTaken \/ NewSocket \/ OldSocket \/ NoSocket
    BY <2>3 DEF AcceptTaken, NewSocket, OldSocket, NoSocket, AwakeInv
  <2>4. CASE AcceptLock \/ CondWait
    BY <1>1, <1>2, <2>4 DEF AcceptLock, CondWait, DequeueLoadHead, queueVars, vars
  <2> QED
    BY <1>1, <1>4, <2>1, <2>2, <2>3, <2>4 DEF AcceptStep, DequeueFreed, AcceptFreed
<1>5. CASE CloseListening
  BY <1>5 DEF CloseListening, CloseQueue, CloseSignal, CloseFree, AwakeInv
<1>6. CASE Socket
  BY <1>2, <1>6 DEF Socket, queueVars, vars
<1>7. ASSUME NEW s \in Stream, HandleListen(s) \/ HandleSynRcvd(s) \/ Destroy(s) \/ TimedOut(s)
      PROVE  AwakeInv'
  BY <1>1, <1>2, <1>7 DEF HandleListen, HandleSynRcvd, EnqueueLoadHead, Destroy, TimedOut,
     queueVars, vars
<1>8. ASSUME NEW id \in Ids,
             \/ Listen(id) \/ ListenAfterClose(id) \/ Accept(id)
             \/ CloseStream(id) \/ CloseFreed(id) \/ CloseUnheard(id)
      PROVE  AwakeInv'
  BY <1>1, <1>2, <1>8 DEF Listen, ListenAfterClose, Accept, CloseStream, CloseFreed,
     CloseUnheard, DequeueLoadHead, queueVars, vars
<1> QED
  BY <1>3, <1>4, <1>5, <1>6, <1>7, <1>8 DEF ListenerNext
-----------------------------------------------------------------------------
(* The invariant, and what follows from it. *)

Core == ThreadsOK /\ PlaceOfThreads /\ TableInv /\ OwnInv /\ AwakeInv /\ PlacesInv

LEMMA CoreInit == ListenerInit => Core
<1> SUFFICES ASSUME ListenerInit PROVE Core
  OBVIOUS
<1> USE StackAssumption DEF ListenerInit, Init, CreateStreamQueue
<1>1. TableInv /\ Open = {}
  BY DEF InitTable, TableInv, Fds, Open
<1>2. ThreadsOK /\ PlaceOfThreads
  BY DEF ThreadsOK, PlaceOfThreads
<1>3. OwnInv /\ AwakeInv
  BY <1>1 DEF OwnInv, AwakeInv
<1>4. \A i \in Index : ~Unread(i)
  BY CapacityAssumption DEF Index, Unread
<1>5. PlacesInv
  BY <1>4 DEF PlacesInv
<1> QED
  BY <1>1, <1>2, <1>3, <1>5 DEF Core

LEMMA CoreStep ==
  ASSUME Core, TypeOK, RingInv, [ListenerNext]_listenerVars
  PROVE  Core'
<1>1. CASE ListenerNext
  BY <1>1, ThreadsStep, TableStep, OwnStep, AwakeStep, PlacesStep DEF Core
<1>2. CASE UNCHANGED listenerVars
  <2>1. ThreadsOK' /\ PlaceOfThreads' /\ TableInv'
    BY <1>2 DEF Core, ThreadsOK, PlaceOfThreads, TableInv, Fds, listenerVars, lvars,
       queueVars, vars
  <2>2. OwnInv' /\ AwakeInv'
    BY <1>2, OwnQuiet DEF Core, AwakeInv, listenerVars, lvars, queueVars, vars
  <2>3. PlacesInv'
    BY <1>2, PlacesQuiet DEF Core, listenerVars, lvars, queueVars, vars
  <2> QED
    BY <2>1, <2>2, <2>3 DEF Core
<1> QED
  BY <1>1, <1>2

LEMMA CoreIsInv == Core <=> ListenerInv
BY TypeSplit DEF Core, ListenerInv

(* Between handshake, accept() and close(), where each thread stands, who holds
   accept_lock, which sockets there are and where each stream is fit together;
   where a stream is only as long as no timer has freed it under acceptq,
   accept() or its socket, but then whatever timers do to the others. *)
THEOREM ListenerInvariant == ListenerSpec => []ListenerInv
<1>1. ListenerInit => Core
  BY CoreInit
<1>2. TypeOK /\ RingInv /\ Core /\ [ListenerNext]_listenerVars => Core'
  BY CoreStep
<1>3. Core => ListenerInv
  BY CoreIsInv
<1> QED
  BY <1>1, <1>2, <1>3, AcceptRing, PTL DEF ListenerSpec

(* Mutual exclusion on accept_lock is part of it: the lock is with the stack
   thread exactly while it signals, and with accept() exactly from its second
   StreamDequeue to pthread_cond_wait. *)
THEOREM ListenerTypeCorrect == ListenerSpec => []ListenerTypeOK
<1>1. ListenerInv => ListenerTypeOK
  BY DEF ListenerInv
<1> QED
  BY <1>1, ListenerInvariant, PTL

(* accept() does not sleep while a stream waits: user_tcp_flush_accept_event
   takes accept_lock after StreamEnqueue, so it signals once accept() waits. *)
THEOREM NoSleepOnAcceptAlways == ListenerSpec => []NoSleepOnAccept
<1>1. ListenerInv => NoSleepOnAccept
  BY DEF ListenerInv, AwakeInv, NoSleepOnAccept
<1> QED
  BY <1>1, ListenerInvariant, PTL

\* How often a stream is on the queue: once, if a slot holds it.
LEMMA QueuedCount ==
  ASSUME TypeOK, RingInv, PlacesInv, NEW s \in Stream, stale[s] = 0
  PROVE  Queued(s) = IF InRing(s) THEN 1 ELSE 0
<1> DEFINE K == {k \in DOMAIN Contents : Contents[k] = s}
<1>1. Count \in 0..Capacity
  BY CapacityAssumption DEF TypeOK, Index, Count
<1>2. \A k \in 1..Count : Slot(k - 1) \in Index /\ Unread(Slot(k - 1))
  BY CapacityAssumption DEF TypeOK, Index, Count, Slot, Unread
<1>3. \A k, m \in 1..Count : Slot(k - 1) = Slot(m - 1) => k = m
  BY CapacityAssumption DEF TypeOK, Index, Count, Slot
<1>4. K = {k \in 1..Count : q[Slot(k - 1)] = s}
  BY DEF Contents
<1>5. Queued(s) = Cardinality(K)
  BY DEF Queued
<1> HIDE DEF K
<1>6. CASE InRing(s)
  <2>1. PICK i \in Index : Unread(i) /\ q[i] = s
    BY <1>6 DEF InRing
  <2>2. PICK k \in 1..Count : i = Slot(k - 1)
    <3> DEFINE n == IF head <= i THEN i - head + 1 ELSE i + Capacity + 2 - head
    <3>1. n \in 1..Count /\ i = Slot(n - 1)
      BY <2>1, CapacityAssumption DEF TypeOK, Index, Count, Slot, Unread
    <3> HIDE DEF n
    <3> QED
      BY <3>1
  <2>3. \A m \in K : Slot(m - 1) = i
    BY <1>2, <1>4, <2>1 DEF PlacesInv
  <2>4. k \in K /\ \A m \in K : m = k
    BY <1>3, <1>4, <2>1, <2>2, <2>3
  <2>5. K = {k}
    BY <2>4
  <2>6. Cardinality(K) = 1
    BY <2>5, FS_Singleton
  <2> QED
    BY <1>5, <1>6, <2>6
<1>7. CASE ~InRing(s)
  <2>1. K = {}
    BY <1>2, <1>4, <1>7 DEF InRing
  <2>2. Cardinality(K) = 0
    BY <2>1, FS_EmptySet
  <2> QED
    BY <1>5, <1>7, <2>2
<1> QED
  BY <1>6, <1>7

(* No stream is lost or handed out twice on its way from the handshake through
   acceptq to accept(), whatever the ring's size and however the threads meet,
   and whenever a timer frees one in its handshake or at its end.  A timer that
   frees it while it is on its way or has a socket (user_timer.c:508) puts this
   one stream out, and no other. *)
THEOREM StreamsKeptAlways == ListenerSpec => []StreamsKept
<1>1. TypeOK /\ RingInv /\ ListenerInv => StreamsKept
  <2> SUFFICES ASSUME TypeOK, RingInv, ListenerInv, NEW s \in Stream, stale[s] = 0
               PROVE  Places(s) = IF conn[s] = "established" THEN 1 ELSE 0
    BY DEF StreamsKept
  <2> DEFINE here == stack = "enqueue" /\ enq[STACK].stream = s
  <2>1. PlacesInv /\ PlaceOfThreads
    BY DEF ListenerInv
  <2>2. Queued(s) = IF InRing(s) THEN 1 ELSE 0
    BY <2>1, QueuedCount
  <2>3. BeingQueued(s) <=> here
    BY <2>1 DEF BeingQueued, PlaceOfThreads
  <2>4. /\ InRing(s) \/ here \/ InHand(s) <=> conn[s] = "established"
        /\ ~(InRing(s) /\ here) /\ ~(InRing(s) /\ InHand(s)) /\ ~(here /\ InHand(s))
    BY <2>1 DEF PlacesInv, OnItsWay, InHand, InRing
  <2> HIDE DEF here
  <2> QED
    BY <2>2, <2>3, <2>4 DEF Places
<1> QED
  BY <1>1, AcceptRing, ListenerInvariant, PTL
-----------------------------------------------------------------------------
(* The bytes of the bitmap. *)

Bits == 0..(BitsPerByte - 1)
Byte == 0..255

(* The places of the bits. *)
LEMMA Pow2Values ==
  /\ Bits = {0, 1, 2, 3, 4, 5, 6, 7}
  /\ Pow2(0) = 1 /\ Pow2(1) = 2 /\ Pow2(2) = 4 /\ Pow2(3) = 8
  /\ Pow2(4) = 16 /\ Pow2(5) = 32 /\ Pow2(6) = 64 /\ Pow2(7) = 128
BY DEF Bits, BitsPerByte, Pow2

ByteOf(c) == c[0] + 2 * c[1] + 4 * c[2] + 8 * c[3]
             + 16 * c[4] + 32 * c[5] + 64 * c[6] + 128 * c[7]

(* InUse reads the bits a byte is made of. *)
LEMMA BitsRead ==
  ASSUME NEW c \in [Bits -> {0, 1}]
  PROVE  /\ ByteOf(c) \in Byte
         /\ ByteOf(c) < 128 <=> c[7] = 0
         /\ \A k \in Bits : InUse(ByteOf(c), k) <=> c[k] = 1
<1> DEFINE b == ByteOf(c)
<1>1. \A k \in Bits : c[k] \in {0, 1}
  OBVIOUS
<1>2. /\ c[0] \in 0..1 /\ c[1] \in 0..1 /\ c[2] \in 0..1 /\ c[3] \in 0..1
      /\ c[4] \in 0..1 /\ c[5] \in 0..1 /\ c[6] \in 0..1 /\ c[7] \in 0..1
  BY <1>1, Pow2Values
<1>3. b \in Byte /\ (b < 128 <=> c[7] = 0)
  BY <1>2 DEF ByteOf, Byte
<1>4. /\ b % 2 = c[0]
      /\ (b \div 2) % 2 = c[1]
  BY <1>2 DEF ByteOf
<1>5. /\ (b \div 4) % 2 = c[2]
  BY <1>2 DEF ByteOf
<1>6. /\ (b \div 8) % 2 = c[3]
  BY <1>2 DEF ByteOf
<1>7. /\ (b \div 16) % 2 = c[4]
  BY <1>2 DEF ByteOf
<1>8. /\ (b \div 32) % 2 = c[5]
  BY <1>2 DEF ByteOf
<1>9. /\ (b \div 64) % 2 = c[6]
  BY <1>2 DEF ByteOf
<1>10. /\ (b \div 128) % 2 = c[7]
  BY <1>2 DEF ByteOf
<1>11. b \div 1 = b
  BY <1>3 DEF Byte
<1> HIDE DEF b
<1>12. ASSUME NEW k \in Bits PROVE InUse(b, k) <=> c[k] = 1
  BY <1>4, <1>5, <1>6, <1>7, <1>8, <1>9, <1>10, <1>11, Pow2Values DEF InUse
<1> QED
  BY <1>3, <1>12 DEF b

(* Every byte is made of bits. *)
LEMMA BitsExist ==
  ASSUME NEW b \in Byte
  PROVE  \E c \in [Bits -> {0, 1}] : b = ByteOf(c)
<1> DEFINE c == [k \in Bits |-> (b \div Pow2(k)) % 2]
<1>1. \A k \in Bits : Pow2(k) \in Nat /\ Pow2(k) > 0
  BY Pow2Values
<1>2. c \in [Bits -> {0, 1}]
  <2>1. \A p \in Nat : p > 0 => b \div p \in Nat /\ (b \div p) % 2 \in {0, 1}
    BY DEF Byte
  <2> QED
    BY <1>1, <2>1
<1>3. /\ c[0] = (b \div 1) % 2 /\ c[1] = (b \div 2) % 2 /\ c[2] = (b \div 4) % 2 
      /\ c[3] = (b \div 8) % 2 /\ c[4] = (b \div 16) % 2 /\ c[5] = (b \div 32) % 2
      /\ c[6] = (b \div 64) % 2 /\ c[7] = (b \div 128) % 2
  BY Pow2Values
<1> HIDE DEF c
<1>4. b \in Int /\ 0 <= b /\ b < 256
  BY DEF Byte
<1>5. /\ b = b \div 1
      /\ b \div 1 = 2 * (b \div 2) + ((b \div 1) % 2)
      /\ b \div 2 = 2 * (b \div 4) + ((b \div 2) % 2)
      /\ b \div 4 = 2 * (b \div 8) + ((b \div 4) % 2)
      /\ b \div 8 = 2 * (b \div 16) + ((b \div 8) % 2)
      /\ b \div 16 = 2 * (b \div 32) + ((b \div 16) % 2)
      /\ b \div 32 = 2 * (b \div 64) + ((b \div 32) % 2)
      /\ b \div 64 = 2 * (b \div 128) + ((b \div 64) % 2)
      /\ b \div 128 = (b \div 128) % 2
  <2>1. b \div 1 = 2 * (b \div 2) + ((b \div 1) % 2)
    BY <1>4
  <2>2. b \div 2 = 2 * (b \div 4) + ((b \div 2) % 2)
    BY <1>4
  <2>3. b \div 4 = 2 * (b \div 8) + ((b \div 4) % 2)
    BY <1>4
  <2>4. b \div 8 = 2 * (b \div 16) + ((b \div 8) % 2)
    BY <1>4
  <2>5. b \div 16 = 2 * (b \div 32) + ((b \div 16) % 2)
    BY <1>4
  <2>6. b \div 32 = 2 * (b \div 64) + ((b \div 32) % 2)
    BY <1>4
  <2>7. b \div 64 = 2 * (b \div 128) + ((b \div 64) % 2)
    BY <1>4
  <2>8. b = b \div 1 /\ b \div 128 = (b \div 128) % 2
    BY <1>4
  <2> QED
    BY <2>1, <2>2, <2>3, <2>4, <2>5, <2>6, <2>7, <2>8
<1>6. b = ByteOf(c)
  <2>1. \A k \in 0..7 : c[k] \in Int
    BY <1>2, Pow2Values
  <2>2. b \div 64 = c[6] + 2 * c[7]
    BY <1>3, <1>5, <2>1
  <2>3. b \div 32 = c[5] + 2 * c[6] + 4 * c[7]
    BY <1>3, <1>5, <2>2, <2>1
  <2>4. b \div 16 = c[4] + 2 * c[5] + 4 * c[6] + 8 * c[7]
    BY <1>3, <1>5, <2>3, <2>1
  <2>5. b \div 8 = c[3] + 2 * c[4] + 4 * c[5] + 8 * c[6] + 16 * c[7]
    BY <1>3, <1>5, <2>4, <2>1
  <2>6. b \div 4 = c[2] + 2 * c[3] + 4 * c[4] + 8 * c[5] + 16 * c[6] + 32 * c[7]
    BY <1>3, <1>5, <2>5, <2>1
  <2>7. b \div 2 = c[1] + 2 * c[2] + 4 * c[3] + 8 * c[4] + 16 * c[5] + 32 * c[6] + 64 * c[7]
    BY <1>3, <1>5, <2>6, <2>1
  <2>8. b \div 1 = c[0] + 2 * c[1] + 4 * c[2] + 8 * c[3] + 16 * c[4] + 32 * c[5] + 64 * c[6] + 128 * c[7]
    BY <1>3, <1>5, <2>7, <2>1
  <2> QED
    BY <1>5, <2>8 DEF ByteOf
<1> QED
  BY <1>2, <1>6

(* A bit that is clear is set without a carry, one that is set is cleared
   without a borrow. *)
LEMMA ChangeBit ==
  ASSUME NEW b \in Byte, NEW j \in Bits
  PROVE  /\ ~InUse(b, j) =>
              /\ b + Pow2(j) \in Byte
              /\ b < 128 /\ j # 7 => b + Pow2(j) < 128
              /\ \A k \in Bits : InUse(b + Pow2(j), k) <=> k = j \/ InUse(b, k)
         /\ InUse(b, j) =>
              /\ b - Pow2(j) \in Byte
              /\ b < 128 => b - Pow2(j) < 128
              /\ \A k \in Bits : InUse(b - Pow2(j), k) <=> k # j /\ InUse(b, k)
<1>1. PICK c \in [Bits -> {0, 1}] : b = ByteOf(c)
  BY BitsExist
<1>2. ASSUME NEW v \in {0, 1}
      PROVE  /\ [c EXCEPT ![j] = v] \in [Bits -> {0, 1}]
             /\ ByteOf([c EXCEPT ![j] = v]) = b + Pow2(j) * (v - c[j])
  <2> DEFINE d == [c EXCEPT ![j] = v]
  <2>1. d \in [Bits -> {0, 1}] /\ \A k \in Bits : d[k] = IF k = j THEN v ELSE c[k]
    OBVIOUS
  <2> HIDE DEF d
  <2>2. \A k \in Bits : c[k] \in 0..1
    OBVIOUS
  <2>3. ByteOf(d) = b + Pow2(j) * (v - c[j])
    <3>1. /\ c[0] \in 0..1 /\ c[1] \in 0..1 /\ c[2] \in 0..1 /\ c[3] \in 0..1
          /\ c[4] \in 0..1 /\ c[5] \in 0..1 /\ c[6] \in 0..1 /\ c[7] \in 0..1
      BY <2>2, Pow2Values
    <3>2. /\ d[0] = (IF 0 = j THEN v ELSE c[0]) /\ d[1] = (IF 1 = j THEN v ELSE c[1])
          /\ d[2] = (IF 2 = j THEN v ELSE c[2]) /\ d[3] = (IF 3 = j THEN v ELSE c[3])
          /\ d[4] = (IF 4 = j THEN v ELSE c[4]) /\ d[5] = (IF 5 = j THEN v ELSE c[5])
          /\ d[6] = (IF 6 = j THEN v ELSE c[6]) /\ d[7] = (IF 7 = j THEN v ELSE c[7])
      BY <2>1, Pow2Values
    <3>3. j \in {0, 1, 2, 3, 4, 5, 6, 7}
      BY Pow2Values
    <3> QED
      BY <1>1, <3>1, <3>2, <3>3, Pow2Values DEF ByteOf
  <2> QED
    BY <2>1, <2>3 DEF d
<1>3. Pow2(j) \in Nat /\ b \in Nat /\ c[j] \in {0, 1}
  BY Pow2Values DEF Byte
<1>4. InUse(b, j) <=> c[j] = 1
  BY <1>1, BitsRead
<1>5. CASE ~InUse(b, j)
  <2> DEFINE d == [c EXCEPT ![j] = 1]
  <2>1. d \in [Bits -> {0, 1}] /\ ByteOf(d) = b + Pow2(j)
    BY <1>2, <1>3, <1>4, <1>5
  <2>2. \A k \in Bits : d[k] = IF k = j THEN 1 ELSE c[k]
    OBVIOUS
  <2> HIDE DEF d
  <2>3. 7 \in Bits
    BY Pow2Values
  <2> QED
    BY <1>1, <1>5, <2>1, <2>2, <2>3, BitsRead
<1>6. CASE InUse(b, j)
  <2> DEFINE d == [c EXCEPT ![j] = 0]
  <2>1. d \in [Bits -> {0, 1}] /\ ByteOf(d) = b - Pow2(j)
    BY <1>2, <1>3, <1>4, <1>6
  <2>2. \A k \in Bits : d[k] = IF k = j THEN 0 ELSE c[k]
    OBVIOUS
  <2> HIDE DEF d
  <2>3. 7 \in Bits
    BY Pow2Values
  <2> QED
    BY <1>1, <1>6, <2>1, <2>2, <2>3, BitsRead
<1> QED
  BY <1>5, <1>6

(* A set of naturals has a least element. *)
LEMMA LeastOf ==
  ASSUME NEW T \in SUBSET Nat, T # {}
  PROVE  \E x \in T : \A y \in T : x <= y
<1>1. \E x \in T : \A y \in T : ~ (<<y, x>> \in OpToRel(<, Nat))
  BY WFMin, NatLessThanWellFounded
<1>2. \A x, y \in Nat : <<y, x>> \in OpToRel(<, Nat) <=> y < x
  BY DEF OpToRel
<1>3. PICK x \in T : \A y \in T : ~(y < x)
  BY <1>1, <1>2
<1> QED
  BY <1>3

(* While the highest bit of a byte is clear, halving is a shift, and the search
   finds the lowest bit that is clear. *)
LEMMA LowestClear ==
  ASSUME NEW b \in Byte, b < 128
  PROVE  /\ CountOdd(b) \in Bits
         /\ ~InUse(b, CountOdd(b))
         /\ \A k \in Bits : k < CountOdd(b) => InUse(b, k)
<1> DEFINE IsHalved(f) == f = [k \in 0..BitsPerByte |-> IF k = 0 THEN Signed(b) ELSE Halve(f[k - 1])]
           halved == CHOOSE f : IsHalved(f)
           h == [k \in 0..BitsPerByte |-> b \div Pow2(k)]
           Found(j) == halved[j] % 2 = 0 /\ \A k \in 0..(j - 1) : halved[k] % 2 = 1
<1>1. b \in Int /\ 0 <= b /\ b < 128
  BY DEF Byte
<1>2. /\ BitsPerByte = 8 /\ Pow2(8) = 256
      /\ 0..BitsPerByte = {0, 1, 2, 3, 4, 5, 6, 7, 8}
  BY DEF BitsPerByte, Pow2
<1>3. /\ h[0] = b \div 1 /\ h[1] = b \div 2 /\ h[2] = b \div 4 /\ h[3] = b \div 8
      /\ h[4] = b \div 16 /\ h[5] = b \div 32 /\ h[6] = b \div 64 /\ h[7] = b \div 128
      /\ h[8] = b \div 256
  BY <1>2, Pow2Values
<1>4. Signed(b) = b /\ b \div 1 = b
  BY <1>1 DEF Signed
<1>5. \A x \in Nat : Halve(x) = x \div 2
  BY DEF Halve
<1>6. IsHalved(h)
  <2>1. \A k \in 0..BitsPerByte : h[k] = IF k = 0 THEN Signed(b) ELSE Halve(h[k - 1])
    <3> HIDE DEF h
    <3>1. /\ b \div 2 \in Nat /\ b \div 4 \in Nat /\ b \div 8 \in Nat /\ b \div 16 \in Nat
          /\ b \div 32 \in Nat /\ b \div 64 \in Nat /\ b \div 128 \in Nat /\ b \in Nat
      BY <1>1
    <3>2. /\ b \div 4 = (b \div 2) \div 2 /\ b \div 8 = (b \div 4) \div 2
          /\ b \div 16 = (b \div 8) \div 2
      BY <1>1
    <3>3. /\ b \div 32 = (b \div 16) \div 2 /\ b \div 64 = (b \div 32) \div 2
      BY <1>1
    <3>4. /\ b \div 128 = (b \div 64) \div 2 /\ b \div 256 = (b \div 128) \div 2
      BY <1>1
    <3> QED
      BY <1>2, <1>3, <1>4, <1>5, <3>1, <3>2, <3>3, <3>4
  <2> QED
    BY <2>1
<1>7. IsHalved(halved)
  <2> HIDE DEF h, IsHalved
  <2> QED
    BY <1>6
<1>8. \A k \in 0..BitsPerByte : halved[k] = IF k = 0 THEN Signed(b) ELSE Halve(halved[k - 1])
  <2> HIDE DEF halved
  <2> QED
    BY <1>7
<1>9. \A k \in 0..BitsPerByte : halved[k] = h[k]
  <2> DEFINE e(k) == halved[k] = h[k]
  <2>1. \A k \in 0..BitsPerByte : h[k] = IF k = 0 THEN Signed(b) ELSE Halve(h[k - 1])
    <3> HIDE DEF h
    <3> QED
      BY <1>6
  <2> HIDE DEF h, halved
  <2>2. e(0) /\ e(1)
    BY <1>2, <1>8, <2>1
  <2>3. e(2) /\ e(3)
    BY <1>2, <1>8, <2>1, <2>2
  <2>4. e(4) /\ e(5)
    BY <1>2, <1>8, <2>1, <2>3
  <2>5. e(6) /\ e(7)
    BY <1>2, <1>8, <2>1, <2>4
  <2>6. e(8)
    BY <1>2, <1>8, <2>1, <2>5
  <2> QED
    BY <1>2, <2>2, <2>3, <2>4, <2>5, <2>6
<1>10. \A k \in Bits : /\ halved[k] % 2 = 1 <=> InUse(b, k)
                       /\ halved[k] % 2 = 0 <=> ~InUse(b, k)
  <2>1. \A k \in Bits : halved[k] = b \div Pow2(k) /\ k \in 0..BitsPerByte
    BY <1>9, <1>2 DEF Bits
  <2>2. \A k \in Bits : Pow2(k) \in Nat /\ Pow2(k) > 0
    BY Pow2Values
  <2>3. \A p \in Nat : p > 0 => (b \div p) % 2 \in {0, 1}
    BY <1>1
  <2> HIDE DEF halved, h
  <2> QED
    BY <2>1, <2>2, <2>3 DEF InUse
<1>11. ~InUse(b, 7)
  BY <1>1, Pow2Values DEF InUse
<1>12. \E j \in 0..BitsPerByte : Found(j)
  <2> DEFINE T == {k \in Bits : ~InUse(b, k)}
  <2>1. T \subseteq Nat /\ 7 \in T
    BY <1>11, Pow2Values DEF Bits
  <2>2. \E x \in T : \A y \in T : x <= y
    <3> HIDE DEF T
    <3> QED
      BY <2>1, LeastOf
  <2>3. PICK x \in T : \A y \in T : x <= y
    BY <2>2
  <2>4. \A k \in 0..(x - 1) : k \in Bits /\ InUse(b, k)
    BY <2>3 DEF Bits, BitsPerByte
  <2>5. x \in Bits /\ x \in 0..BitsPerByte /\ ~InUse(b, x)
    BY <2>3 DEF Bits, BitsPerByte
  <2> HIDE DEF halved, T
  <2> QED
    BY <1>10, <2>4, <2>5
<1>13. CountOdd(b) = CHOOSE j \in 0..BitsPerByte : Found(j)
  BY DEF CountOdd
<1> DEFINE j == CountOdd(b)
<1>14. j \in 0..BitsPerByte /\ Found(j)
  <2> HIDE DEF Found
  <2> QED
    BY <1>12, <1>13
<1> HIDE DEF j, halved, h
<1>15. j \in Bits
  <2>1. 7 \in Bits /\ halved[7] % 2 # 1
    BY <1>10, <1>11, Pow2Values
  <2>2. ~(7 \in 0..(j - 1))
    BY <1>14, <2>1
  <2> QED
    BY <1>2, <1>14, <2>2 DEF Bits
<1>16. ~InUse(b, j)
  BY <1>10, <1>14, <1>15
<1>17. \A k \in Bits : k < j => k \in 0..(j - 1)
  BY <1>15 DEF Bits, BitsPerByte
<1>18. \A k \in Bits : k < j => InUse(b, k)
  BY <1>10, <1>14, <1>17
<1> QED
  BY <1>15, <1>16, <1>18 DEF j

(* An id is its byte and its bit. *)
LEMMA IdPlaces ==
  /\ \A id \in Ids : SetStart(id) \in 0..(MaxFds - 1) /\ id % BitsPerByte \in Bits
  /\ \A id, other \in Ids :
       SetStart(id) = SetStart(other) /\ id % BitsPerByte = other % BitsPerByte => id = other
  /\ \A i \in 0..(MaxFds - 1), k \in Bits :
       /\ i * BitsPerByte + k \in Ids
       /\ SetStart(i * BitsPerByte + k) = i /\ (i * BitsPerByte + k) % BitsPerByte = k
BY MaxFdsAssumption DEF Ids, SetStart, Bits, BitsPerByte

(* What the search returns while the highest bit of every byte is clear: a free
   id, and the last one of a byte only when the others are in use. *)
LEMMA FindIdMeans ==
  ASSUME NEW fds \in [0..(MaxFds - 1) -> 0..255], NEW start \in 0..(MaxFds - 1),
         \A i \in 0..(MaxFds - 1) : fds[i] < 128,
         NEW id, id = FindId(fds, start), id # -1
  PROVE  /\ id \in Ids
         /\ ~InUse(fds[SetStart(id)], id % BitsPerByte)
         /\ id % BitsPerByte = 7 =>
              \A k \in 0..6 : InUse(fds[SetStart(id)], k)
<1> DEFINE room == {i \in start..(MaxFds - 1) : fds[i] # 255}
           first == CHOOSE i \in room : \A k \in room : i <= k
           j == CountOdd(fds[first])
<1>1. MaxFds \in Nat /\ MaxFds > 0 /\ BitsPerByte = 8
  BY MaxFdsAssumption DEF BitsPerByte
<1>2. start \in room
  <2>1. fds[start] < 128 /\ fds[start] \in 0..255
    OBVIOUS
  <2> QED
    BY <1>1, <2>1
<1>3. room # {} /\ room \in SUBSET Nat
  BY <1>1, <1>2
<1>4. first \in room
  <2>1. \E i \in room : \A k \in room : i <= k
    <3> HIDE DEF room
    <3> QED
      BY <1>3, LeastOf
  <2> HIDE DEF room
  <2> QED
    BY <2>1
<1>5. first \in 0..(MaxFds - 1) /\ first \in Nat
  BY <1>1, <1>4
<1>6. id = first * BitsPerByte + j
  BY <1>3 DEF FindId
<1> HIDE DEF room, first
<1>7. fds[first] \in Byte /\ fds[first] < 128
  BY <1>5 DEF Byte
<1>8. /\ j \in Bits /\ ~InUse(fds[first], j)
      /\ \A k \in Bits : k < j => InUse(fds[first], k)
  BY <1>7, LowestClear
<1> HIDE DEF j
<1>9. j \in 0..7
  BY <1>8, <1>1 DEF Bits
<1>10. id \in Ids /\ id % BitsPerByte = j /\ SetStart(id) = first
  BY <1>5, <1>6, <1>8, IdPlaces
<1>11. j = 7 => \A k \in 0..6 : InUse(fds[first], k)
  BY <1>1, <1>8 DEF Bits
<1> QED
  BY <1>8, <1>10, <1>11

(* The bitmap stays true to the sockets when one is put at an id, free or not. *)
LEMMA AllocateTrue ==
  ASSUME NEW t, BitmapTrue(t), DOMAIN t.sockfds = Ids, NEW id \in Ids, NEW s, s # NOFD
  PROVE  /\ BitmapTrue(Allocate(t, id, s))
         /\ (\A i \in 0..(MaxFds - 1) : t.open_fds[i] < 128) /\ id % BitsPerByte # 7 =>
              \A i \in 0..(MaxFds - 1) : Allocate(t, id, s).open_fds[i] < 128
<1> DEFINE n == SetStart(id)
           j == id % BitsPerByte
           b == t.open_fds[n]
           c == IF InUse(b, j) THEN b ELSE b + Pow2(j)
           u == Allocate(t, id, s)
<1>1. n \in 0..(MaxFds - 1) /\ j \in Bits /\ b \in Byte
  BY IdPlaces DEF BitmapTrue, Byte
<1>2. /\ c \in Byte
      /\ b < 128 /\ j # 7 => c < 128
      /\ \A k \in Bits : InUse(c, k) <=> k = j \/ InUse(b, k)
  BY <1>1, ChangeBit
<1>3. /\ u.open_fds = [t.open_fds EXCEPT ![n] = c]
      /\ u.cur_idx = n
      /\ u.sockfds = [t.sockfds EXCEPT ![id] = s]
  BY DEF Allocate, UseId
<1> HIDE DEF u, c
<1>4. /\ u.open_fds \in [0..(MaxFds - 1) -> 0..255]
      /\ \A i \in 0..(MaxFds - 1) : u.open_fds[i] = IF i = n THEN c ELSE t.open_fds[i]
  BY <1>1, <1>2, <1>3 DEF BitmapTrue, Byte
<1>5. \A i \in Ids : u.sockfds[i] = IF i = id THEN s ELSE t.sockfds[i]
  BY <1>3
<1>6. ASSUME NEW i \in Ids
      PROVE  u.sockfds[i] # NOFD <=> InUse(u.open_fds[SetStart(i)], i % BitsPerByte)
  <2>1. SetStart(i) \in 0..(MaxFds - 1) /\ i % BitsPerByte \in Bits
    BY IdPlaces
  <2>2. t.sockfds[i] # NOFD <=> InUse(t.open_fds[SetStart(i)], i % BitsPerByte)
    BY DEF BitmapTrue
  <2>3. CASE i = id
    BY <1>2, <1>4, <1>5, <2>1, <2>3
  <2>4. CASE i # id /\ SetStart(i) = n
    <3>1. i % BitsPerByte # j
      BY <2>4, IdPlaces
    <3> QED
      BY <1>2, <1>4, <1>5, <2>1, <2>2, <2>4, <3>1
  <2>5. CASE i # id /\ SetStart(i) # n
    BY <1>4, <1>5, <2>1, <2>2, <2>5
  <2> QED
    BY <2>3, <2>4, <2>5
<1>7. BitmapTrue(u)
  BY <1>1, <1>3, <1>4, <1>6 DEF BitmapTrue
<1>8. (\A i \in 0..(MaxFds - 1) : t.open_fds[i] < 128) /\ j # 7 =>
        \A i \in 0..(MaxFds - 1) : u.open_fds[i] < 128
  BY <1>1, <1>2, <1>4
<1> QED
  BY <1>7, <1>8 DEF u

(* So it does when the socket at an id is freed. *)
LEMMA FreeTrue ==
  ASSUME NEW t, BitmapTrue(t), DOMAIN t.sockfds = Ids, NEW id \in Ids
  PROVE  /\ BitmapTrue(Free(t, id))
         /\ (\A i \in 0..(MaxFds - 1) : t.open_fds[i] < 128) =>
              \A i \in 0..(MaxFds - 1) : Free(t, id).open_fds[i] < 128
<1> DEFINE n == SetStart(id)
           j == id % BitsPerByte
           b == t.open_fds[n]
           c == IF InUse(b, j) THEN b - Pow2(j) ELSE b
           u == Free(t, id)
<1>1. n \in 0..(MaxFds - 1) /\ j \in Bits /\ b \in Byte
  BY IdPlaces DEF BitmapTrue, Byte
<1>2. /\ c \in Byte
      /\ b < 128 => c < 128
      /\ \A k \in Bits : InUse(c, k) <=> k # j /\ InUse(b, k)
  BY <1>1, ChangeBit
<1>3. /\ u.open_fds = [t.open_fds EXCEPT ![n] = c]
      /\ u.cur_idx = n
      /\ u.sockfds = [t.sockfds EXCEPT ![id] = NOFD]
  BY DEF Free, UnuseId
<1> HIDE DEF u, c
<1>4. /\ u.open_fds \in [0..(MaxFds - 1) -> 0..255]
      /\ \A i \in 0..(MaxFds - 1) : u.open_fds[i] = IF i = n THEN c ELSE t.open_fds[i]
  BY <1>1, <1>2, <1>3 DEF BitmapTrue, Byte
<1>5. \A i \in Ids : u.sockfds[i] = IF i = id THEN NOFD ELSE t.sockfds[i]
  BY <1>3
<1>6. ASSUME NEW i \in Ids
      PROVE  u.sockfds[i] # NOFD <=> InUse(u.open_fds[SetStart(i)], i % BitsPerByte)
  <2>1. SetStart(i) \in 0..(MaxFds - 1) /\ i % BitsPerByte \in Bits
    BY IdPlaces
  <2>2. t.sockfds[i] # NOFD <=> InUse(t.open_fds[SetStart(i)], i % BitsPerByte)
    BY DEF BitmapTrue
  <2>3. CASE i = id
    BY <1>2, <1>4, <1>5, <2>1, <2>3
  <2>4. CASE i # id /\ SetStart(i) = n
    <3>1. i % BitsPerByte # j
      BY <2>4, IdPlaces
    <3> QED
      BY <1>2, <1>4, <1>5, <2>1, <2>2, <2>4, <3>1
  <2>5. CASE i # id /\ SetStart(i) # n
    BY <1>4, <1>5, <2>1, <2>2, <2>5
  <2> QED
    BY <2>3, <2>4, <2>5
<1>7. BitmapTrue(u)
  BY <1>1, <1>3, <1>4, <1>6 DEF BitmapTrue
<1>8. (\A i \in 0..(MaxFds - 1) : t.open_fds[i] < 128) =>
        \A i \in 0..(MaxFds - 1) : u.open_fds[i] < 128
  BY <1>1, <1>2, <1>4
<1> QED
  BY <1>7, <1>8 DEF u

\* What is proved of the streams never freed too early, of all of them.
OneSocketEach ==
    \A id \in Open : Fds[id].stream # NULL =>
        /\ conn[Fds[id].stream] = "accepted"
        /\ \A other \in Open : Fds[other].stream = Fds[id].stream => other = id

LEMMA OwnAll ==
  ASSUME OwnInv, TableInv, NoneStale
  PROVE  OneSocketEach
<1>1. \A id \in Open : Fds[id].stream # NULL => Fds[id].stream \in Stream
  BY DEF TableInv, SockType, Open
<1> QED
  BY <1>1 DEF OwnInv, NoneStale, OneSocketEach

(* As many sockets as streams and listeners at most: each socket with a stream
   has one of its own. *)
LEMMA OpenBound ==
  ASSUME OneSocketEach, TableInv, MaxListening \in Nat, Cardinality(Unconnected) <= MaxListening,
         NEW S \in SUBSET Stream, IsFiniteSet(S),
         \A s \in Stream : conn[s] = "accepted" => s \in S
  PROVE  /\ IsFiniteSet(Open) /\ IsFiniteSet(Unconnected)
         /\ Cardinality(Open) <= Cardinality(Unconnected) + Cardinality(S)
<1> DEFINE C == Open \ Unconnected
           f == [id \in C |-> Fds[id].stream]
<1>1. IsFiniteSet(Ids)
  BY MaxFdsAssumption, FS_Interval DEF Ids, BitsPerByte
<1>2. Open \in SUBSET Ids /\ Unconnected \in SUBSET Open /\ C \in SUBSET Open
  BY DEF Open, Unconnected
<1>3. IsFiniteSet(Open)
  BY <1>1, <1>2, FS_Subset
<1>4. IsFiniteSet(Unconnected) /\ IsFiniteSet(C)
  BY <1>2, <1>3, FS_Subset
<1>5. f \in Injection(C, S)
  <2>1. \A id \in C : id \in Open /\ Fds[id] \in SockType /\ Fds[id].stream # NULL
    BY DEF Unconnected, Open, TableInv
  <2>2. \A id \in C : Fds[id].stream \in S
    BY <2>1 DEF OneSocketEach, SockType
  <2>3. \A id, other \in C : Fds[id].stream = Fds[other].stream => id = other
    BY <2>1 DEF OneSocketEach
  <2> HIDE DEF C
  <2> QED
    BY <2>2, <2>3 DEF Injection, IsInjective
<1>6. Cardinality(C) <= Cardinality(S)
  BY <1>5, FS_Injection
<1>7. Open = Unconnected \cup C /\ Unconnected \cap C = {}
  BY <1>2
<1> HIDE DEF C
<1>8. Cardinality(Open) = Cardinality(Unconnected) + Cardinality(C)
  <2>1. Cardinality(Unconnected \cup C)
          = Cardinality(Unconnected) + Cardinality(C) - Cardinality(Unconnected \cap C)
    BY <1>4, FS_Union
  <2>2. Cardinality({}) = 0
    BY FS_EmptySet
  <2>3. Cardinality(Unconnected) \in Nat /\ Cardinality(C) \in Nat
    BY <1>4, FS_CardinalityType
  <2>4. Cardinality(Open) = Cardinality(Unconnected \cup C) /\ Cardinality(Unconnected \cap C) = 0
    BY <1>7, <2>2
  <2> QED
    BY <2>1, <2>3, <2>4
<1>9. /\ Cardinality(Unconnected) \in Nat /\ Cardinality(C) \in Nat /\ Cardinality(S) \in Nat
  BY <1>4, FS_CardinalityType
<1> QED
  BY <1>3, <1>4, <1>6, <1>8, <1>9

(* With fewer than seven sockets open the search returns a free id that is not the
   last of its byte. *)
LEMMA FindsFree ==
  ASSUME BitmapTrue(table), \A i \in 0..(MaxFds - 1) : table.open_fds[i] < 128,
         IsFiniteSet(Open), Cardinality(Open) < 7,
         NEW id, id = FindId(table.open_fds, table.cur_idx), id # -1
  PROVE  id \in Ids /\ id \notin Open /\ id % BitsPerByte # 7
<1> DEFINE n == SetStart(id)
<1>1. /\ id \in Ids
      /\ ~InUse(table.open_fds[n], id % BitsPerByte)
      /\ id % BitsPerByte = 7 => \A k \in 0..6 : InUse(table.open_fds[n], k)
  <2>1. table.open_fds \in [0..(MaxFds - 1) -> 0..255] /\ table.cur_idx \in 0..(MaxFds - 1)
    BY DEF BitmapTrue
  <2> QED
    BY <2>1, FindIdMeans
<1>2. id \notin Open
  BY <1>1 DEF BitmapTrue, Open, Fds
<1>3. ASSUME id % BitsPerByte = 7 PROVE FALSE
  <2> DEFINE a == n * BitsPerByte
  <2>1. n \in 0..(MaxFds - 1) /\ a \in Int
    BY <1>1, IdPlaces, MaxFdsAssumption DEF BitsPerByte
  <2>2. ASSUME NEW i \in a..(a + 6)
        PROVE  i \in Open
    <3>1. i - a \in 0..6 /\ i = a + (i - a)
      BY <2>1
    <3>2. i - a \in Bits
      BY <3>1 DEF Bits, BitsPerByte
    <3>3. i \in Ids /\ SetStart(i) = n /\ i % BitsPerByte = i - a
      BY <2>1, <3>1, <3>2, IdPlaces
    <3>4. InUse(table.open_fds[n], i - a)
      BY <1>1, <1>3, <3>1
    <3> QED
      BY <3>3, <3>4 DEF BitmapTrue, Open, Fds
  <2>3. a..(a + 6) \in SUBSET Open
    BY <2>2
  <2>4. Cardinality(a..(a + 6)) <= Cardinality(Open)
    BY <2>3, FS_Subset
  <2>5. Cardinality(a..(a + 6)) = 7
    <3> HIDE DEF a
    <3>1. a + 6 \in Int
      BY <2>1
    <3>2. Cardinality(a..(a + 6)) = IF a > a + 6 THEN 0 ELSE (a + 6) - a + 1
      BY <2>1, <3>1, FS_Interval
    <3> QED
      BY <2>1, <3>2
  <2>6. Cardinality(Open) \in Nat
    BY FS_CardinalityType
  <2> QED
    BY <2>4, <2>5, <2>6
<1> QED
  BY <1>1, <1>2, <1>3

(* Steps that leave the table alone accept no stream. *)
LEMMA SocketQuiet ==
  ASSUME TableFits, UNCHANGED table, Heard' => Heard,
         \A s \in Stream : conn'[s] = "accepted" => conn[s] = "accepted"
  PROVE  TableFits'
BY DEF TableFits, BitmapTrue, Unconnected, Listening, Open, Fds

(* A new socket, when fewer than seven are open. *)
LEMMA NewKeeps ==
  ASSUME TableFits, TableInv, IsFiniteSet(Open), Cardinality(Open) < 7,
         NEW id, id = FindId(table.open_fds, table.cur_idx), id # -1,
         NEW sock, sock \in SockType, ~sock.listener, table' = Allocate(table, id, sock)
  PROVE  /\ BitmapTrue(table)' /\ \A i \in 0..(MaxFds - 1) : table'.open_fds[i] < 128
         /\ id \in Ids /\ id \notin Open /\ Open' = Open \cup {id}
         /\ \A i \in Ids : Fds'[i] = IF i = id THEN sock ELSE Fds[i]
         /\ Listening' = Listening
<1>1. id \in Ids /\ id \notin Open /\ id % BitsPerByte # 7
  BY FindsFree DEF TableFits
<1>2. sock # NOFD
  BY NOFDAssumption
<1>3. DOMAIN table.sockfds = Ids
  BY DEF TableInv, Fds
<1>4. BitmapTrue(Allocate(table, id, sock))
      /\ \A i \in 0..(MaxFds - 1) : Allocate(table, id, sock).open_fds[i] < 128
  BY <1>1, <1>2, <1>3, AllocateTrue DEF TableFits
<1>5. BitmapTrue(table)' /\ \A i \in 0..(MaxFds - 1) : table'.open_fds[i] < 128
  BY <1>4 DEF BitmapTrue
<1>6. \A i \in Ids : Fds'[i] = IF i = id THEN sock ELSE Fds[i]
  BY AllocateFds
<1>7. Open' = Open \cup {id}
  BY <1>1, <1>2, <1>6 DEF Open
<1>8. Listening' = Listening
  BY <1>1, <1>6, <1>7 DEF Listening, Open
<1> QED
  BY <1>1, <1>5, <1>6, <1>7, <1>8

(* A socket less. *)
LEMMA FreeKeeps ==
  ASSUME TableFits, TableInv, OneSocketEach, IsFiniteSet(Unconnected), MaxListening \in Nat,
         NEW id \in Open, table' = Free(table, id),
         Heard' => Heard /\ id \notin Listening,
         \A s \in Stream : conn'[s] = "accepted" => conn[s] = "accepted" /\ Fds[id].stream # s
  PROVE  TableFits'
<1>1. id \in Ids
  BY DEF Open
<1>2. DOMAIN table.sockfds = Ids
  BY DEF TableInv, Fds
<1>3. BitmapTrue(Free(table, id)) /\ \A i \in 0..(MaxFds - 1) : Free(table, id).open_fds[i] < 128
  BY <1>1, <1>2, FreeTrue DEF TableFits
<1>4. BitmapTrue(table)' /\ \A i \in 0..(MaxFds - 1) : table'.open_fds[i] < 128
  BY <1>3 DEF BitmapTrue
<1>5. \A i \in Ids : Fds'[i] = IF i = id THEN NOFD ELSE Fds[i]
  BY FreeFds
<1>6. Open' = Open \ {id}
  BY <1>1, <1>5 DEF Open
<1>7. \A i \in Open' : Fds'[i] = Fds[i] /\ i \in Open /\ i # id
  BY <1>5, <1>6 DEF Open
<1>8. Unconnected' \in SUBSET Unconnected /\ Listening' = Listening \ {id}
  BY <1>6, <1>7 DEF Unconnected, Listening
<1>9. Cardinality(Unconnected') <= MaxListening
  <2>1. Cardinality(Unconnected') <= Cardinality(Unconnected) /\ IsFiniteSet(Unconnected')
    BY <1>8, FS_Subset
  <2>2. Cardinality(Unconnected') \in Nat /\ Cardinality(Unconnected) \in Nat
    BY <2>1, FS_CardinalityType
  <2> QED
    BY <2>1, <2>2 DEF TableFits
<1>10. ASSUME NEW s \in Stream, conn'[s] = "accepted"
       PROVE  \E i \in Open' : Fds'[i].stream = s
  <2>1. PICK i \in Open : Fds[i].stream = s
    BY <1>10 DEF TableFits
  <2>2. i # id
    BY <1>10, <2>1
  <2> QED
    BY <1>6, <1>7, <2>1, <2>2
<1>11. Listening' \subseteq Unconnected'
  BY <1>6, <1>7, <1>8 DEF TableFits, Unconnected
<1>12. Heard' => Listening' # {}
  BY <1>8 DEF TableFits
<1> QED
  BY <1>4, <1>9, <1>10, <1>11, <1>12 DEF TableFits

(* Every step keeps what the table, the sockets and the streams owe one another. *)
LEMMA SocketStep ==
  ASSUME FewSockets, TableFits, NoneStale, NoneStale', ListenerInv, TypeOK, RingInv,
         ListenerNext
  PROVE  TableFits'
<1> USE StackAssumption
<1>1. TableInv /\ OneSocketEach /\ PlacesInv /\ ThreadsOK /\ PlaceOfThreads
  BY CoreIsInv, OwnAll DEF Core
<1>2. MaxListening \in Nat /\ IsFiniteSet(Stream) /\ Cardinality(Stream) \in Nat
      /\ MaxListening + Cardinality(Stream) < 8
  BY FS_CardinalityType DEF FewSockets, BitsPerByte
<1>3. conn \in [Stream -> {"none", "syn_rcvd", "established", "accepted", "ending", "lost"}]
  BY <1>1 DEF ThreadsOK
<1>4. /\ IsFiniteSet(Open) /\ IsFiniteSet(Unconnected)
      /\ Cardinality(Open) \in Nat /\ Cardinality(Unconnected) \in Nat
      /\ Cardinality(Open) <= Cardinality(Unconnected) + Cardinality(Stream)
      /\ Cardinality(Unconnected) <= MaxListening
  <2>1. Cardinality(Unconnected) <= MaxListening
    BY DEF TableFits
  <2>2. /\ IsFiniteSet(Open) /\ IsFiniteSet(Unconnected)
        /\ Cardinality(Open) <= Cardinality(Unconnected) + Cardinality(Stream)
    BY <1>1, <1>2, <2>1, OpenBound
  <2> QED
    BY <2>1, <2>2, FS_CardinalityType
<1>5. CASE UNCHANGED <<table, conn, listener, closer>>
  BY <1>5, SocketQuiet DEF Heard
<1>6. CASE Socket
  <2> DEFINE id == FindId(table.open_fds, table.cur_idx)
             sock == Sock("stream", FALSE, NULL)
  <2>1. /\ Cardinality(Unconnected) < MaxListening /\ id # -1
        /\ table' = Allocate(table, id, sock) /\ UNCHANGED <<conn, listener, closer>>
    BY <1>6 DEF Socket, Unconnected
  <2>2. Cardinality(Open) < 7
    BY <1>2, <1>4, <2>1
  <2>3. sock \in SockType /\ ~sock.listener /\ sock.stream = NULL
    BY DEF Sock, SockType
  <2> HIDE DEF id, sock
  <2>4. /\ BitmapTrue(table)' /\ \A i \in 0..(MaxFds - 1) : table'.open_fds[i] < 128
        /\ id \in Ids /\ id \notin Open /\ Open' = Open \cup {id}
        /\ \A i \in Ids : Fds'[i] = IF i = id THEN sock ELSE Fds[i]
        /\ Listening' = Listening
    BY <1>1, <1>4, <2>1, <2>2, <2>3, NewKeeps DEF id
  <2>5. \A i \in Open : Fds'[i] = Fds[i] /\ i \in Open'
    BY <2>4 DEF Open
  <2>6. Unconnected' = Unconnected \cup {id}
    BY <2>3, <2>4, <2>5 DEF Unconnected
  <2>7. Cardinality(Unconnected') <= MaxListening
    <3>1. id \notin Unconnected
      BY <2>4 DEF Unconnected
    <3>2. Cardinality(Unconnected') = Cardinality(Unconnected) + 1
      BY <1>4, <2>6, <3>1, FS_AddElement
    <3> QED
      BY <1>2, <1>4, <2>1, <3>2
  <2>8. \A s \in Stream : conn'[s] = "accepted" => \E i \in Open' : Fds'[i].stream = s
    BY <2>1, <2>5 DEF TableFits
  <2>9. Listening' \subseteq Unconnected' /\ (Heard' => Listening' # {})
    BY <2>1, <2>4, <2>6 DEF TableFits, Heard
  <2> QED
    BY <2>4, <2>7, <2>8, <2>9 DEF TableFits
<1>7. CASE NewSocket
  <2> DEFINE id == FindId(table.open_fds, table.cur_idx)
             sock == Sock("stream", FALSE, result)
             S == Stream \ {result}
  <2>1. /\ app = "taken" /\ id # -1
        /\ table' = Allocate(table, id, sock) /\ UNCHANGED <<listener, closer>>
    BY <1>7 DEF NewSocket
  <2>2. result \in Stream /\ conn[result] = "established"
    BY <1>1, <2>1 DEF PlacesInv, OnItsWay, NoneStale
  <2>3. conn' = [conn EXCEPT ![result] = "accepted"]
    <3>1. conn' = [conn EXCEPT ![result] = IF conn[result] \in {"established", "lost"}
                                           THEN "accepted" ELSE conn[result]]
      BY <1>7 DEF NewSocket, Owned
    <3> QED
      BY <2>2, <3>1
  <2>4. Cardinality(Open) < 7
    <3>1. IsFiniteSet(S) /\ Cardinality(S) = Cardinality(Stream) - 1
      BY <1>2, <2>2, FS_RemoveElement
    <3>2. \A s \in Stream : conn[s] = "accepted" => s \in S
      BY <2>2
    <3>3. S \in SUBSET Stream
      OBVIOUS
    <3> HIDE DEF S
    <3>4. Cardinality(Open) <= Cardinality(Unconnected) + Cardinality(S)
      BY <1>1, <1>2, <1>4, <3>1, <3>2, <3>3, OpenBound
    <3> QED
      BY <1>2, <1>4, <3>1, <3>4
  <2>5. sock \in SockType /\ ~sock.listener /\ sock.stream = result /\ result # NULL
    BY <2>2, StreamAssumption DEF Sock, SockType
  <2> HIDE DEF id, sock
  <2>6. /\ BitmapTrue(table)' /\ \A i \in 0..(MaxFds - 1) : table'.open_fds[i] < 128
        /\ id \in Ids /\ id \notin Open /\ Open' = Open \cup {id}
        /\ \A i \in Ids : Fds'[i] = IF i = id THEN sock ELSE Fds[i]
        /\ Listening' = Listening
    BY <1>1, <1>4, <2>1, <2>4, <2>5, NewKeeps DEF id
  <2>7. \A i \in Open : Fds'[i] = Fds[i] /\ i \in Open'
    BY <2>6 DEF Open
  <2>8. Unconnected' = Unconnected
    BY <2>5, <2>6, <2>7 DEF Unconnected
  <2>9. ASSUME NEW s \in Stream, conn'[s] = "accepted"
        PROVE  \E i \in Open' : Fds'[i].stream = s
    <3>1. CASE s = result
      BY <2>5, <2>6, <3>1
    <3>2. CASE s # result
      <4>1. conn[s] = "accepted"
        BY <1>3, <2>3, <2>2, <2>9, <3>2
      <4> QED
        BY <2>7, <4>1 DEF TableFits
    <3> QED
      BY <3>1, <3>2
  <2>10. Listening' \subseteq Unconnected' /\ (Heard' => Listening' # {})
    BY <2>1, <2>6, <2>8 DEF TableFits, Heard
  <2> QED
    BY <1>4, <2>6, <2>8, <2>9, <2>10 DEF TableFits
<1>8. CASE CloseFree
  <2> DEFINE id == CHOOSE i \in Listening : TRUE
  <2>1. table' = Free(table, id) /\ UNCHANGED conn /\ closer = "free" /\ ~Heard'
    BY <1>8 DEF CloseFree, Heard
  <2>2. Listening # {}
    BY <2>1 DEF TableFits, Heard
  <2>3. id \in Listening
    BY <2>2
  <2> HIDE DEF id
  <2>4. id \in Open /\ Fds[id].stream = NULL
    BY <2>3 DEF TableFits, Unconnected
  <2> QED
    BY <1>1, <1>2, <1>4, <2>1, <2>4, StreamAssumption, FreeKeeps
<1>9. ASSUME NEW id \in Ids, CloseStream(id)
      PROVE  TableFits'
  <2>1. /\ id \in Open /\ Fds[id].stream # NULL /\ UNCHANGED <<listener, closer>>
        /\ table' = Free(table, id)
        /\ conn' = [conn EXCEPT ![Fds[id].stream] = IF @ = "syn_rcvd" THEN @ ELSE "ending"]
             \/ stale[Fds[id].stream] > 0
    BY <1>9 DEF CloseStream
  <2>2. Fds[id].stream \in Stream /\ conn[Fds[id].stream] = "accepted"
    BY <1>1, <2>1 DEF OneSocketEach, TableInv, SockType, Open
  <2>3. conn' = [conn EXCEPT ![Fds[id].stream] = "ending"]
    BY <2>1, <2>2 DEF NoneStale
  <2>4. id \notin Listening
    BY <2>1 DEF TableFits, Unconnected
  <2>5. ASSUME NEW s \in Stream, conn'[s] = "accepted"
        PROVE  conn[s] = "accepted" /\ Fds[id].stream # s
    BY <1>3, <2>2, <2>3, <2>5
  <2> QED
    BY <1>1, <1>2, <1>4, <2>1, <2>4, <2>5, FreeKeeps DEF Heard
<1>10. ASSUME NEW id \in Ids, CloseUnheard(id)
       PROVE  TableFits'
  <2>1. /\ id \in Open /\ Fds[id].stream = NULL /\ UNCHANGED <<conn, listener, closer>>
        /\ table' = Free(table, id) /\ id \notin Listening
    BY <1>10 DEF CloseUnheard, Listening
  <2> QED
    BY <1>1, <1>2, <1>4, <2>1, StreamAssumption, FreeKeeps DEF Heard
<1>11. ASSUME NEW id \in Ids, Listen(id)
       PROVE  TableFits'
  <2>1. /\ id \in Open /\ Fds[id].stream = NULL /\ UNCHANGED conn
        /\ table'.open_fds = table.open_fds /\ table'.cur_idx = table.cur_idx
    BY <1>1, <1>11 DEF Listen, TableInv
  <2>2. /\ \A i \in Ids : i # id => Fds'[i] = Fds[i]
        /\ Fds'[id] \in SockType /\ Fds'[id].stream = NULL
    BY <1>1, <1>11, ListenFds
  <2>3. Fds'[id] # NOFD
    BY <2>2, NOFDAssumption
  <2>4. Open' = Open
    BY <2>1, <2>2, <2>3 DEF Open
  <2>5. Unconnected' = Unconnected
    BY <2>1, <2>2, <2>4 DEF Unconnected, Open
  <2>6. Fds'[id].listener = IF listener = "none" THEN TRUE ELSE Fds[id].listener
    BY <1>1, <1>11 DEF Listen, TableInv, Fds, Sock
  <2>7. Listening' \subseteq Unconnected'
    BY <2>1, <2>2, <2>4, <2>5 DEF TableFits, Listening, Unconnected, Open
  <2>8. Heard' => Listening' # {}
    <3>1. CASE listener = "none"
      BY <2>1, <2>4, <2>6, <3>1 DEF Listening
    <3>2. CASE listener # "none"
      <4>1. Heard' <=> Heard
        BY <1>11, <3>2 DEF Listen, Heard
      <4>2. Listening' = Listening
        BY <2>1, <2>2, <2>4, <2>6, <3>2 DEF Listening, Open
      <4> QED
        BY <4>1, <4>2 DEF TableFits
    <3> QED
      BY <3>1, <3>2
  <2>9. BitmapTrue(table)' /\ \A i \in 0..(MaxFds - 1) : table'.open_fds[i] < 128
    <3>1. \A i \in Ids : table'.sockfds[i] # NOFD <=> table.sockfds[i] # NOFD
      BY <2>1, <2>2, <2>3 DEF Open, Fds
    <3> QED
      BY <2>1, <3>1 DEF TableFits, BitmapTrue
  <2>10. \A s \in Stream : conn'[s] = "accepted" => \E i \in Open' : Fds'[i].stream = s
    <3>1. \A s \in Stream, i \in Open : Fds[i].stream = s => i # id /\ Fds'[i].stream = s
      BY <2>1, <2>2, StreamAssumption DEF Open
    <3> QED
      BY <2>1, <2>4, <3>1 DEF TableFits
  <2> QED
    BY <2>5, <2>7, <2>8, <2>9, <2>10 DEF TableFits
<1>12. CASE NotAccepted
  <2>1. conn' = [conn EXCEPT ![enq[STACK].stream] = "ending"] /\ UNCHANGED <<table, listener, closer>>
    BY <1>12 DEF NotAccepted
  <2>2. \A s \in Stream : conn'[s] = "accepted" => conn[s] = "accepted"
    BY <1>3, <2>1
  <2> QED
    BY <2>1, <2>2, SocketQuiet DEF Heard
<1>13. CASE NoSocket
  <2>1. /\ conn' = [conn EXCEPT ![result] = IF @ = "established" THEN "lost" ELSE @]
        /\ UNCHANGED <<table, listener, closer>>
    BY <1>13 DEF NoSocket
  <2>2. \A s \in Stream : conn'[s] = "accepted" => conn[s] = "accepted"
    BY <1>3, <2>1
  <2> QED
    BY <2>1, <2>2, SocketQuiet DEF Heard
<1>14. ~OldSocket
  BY <1>1 DEF OldSocket, PlacesInv, NoneStale
<1>15. ASSUME NEW s \in Stream, HandleListen(s) \/ HandleSynRcvd(s) \/ Destroy(s) \/ TimedOut(s)
       PROVE  TableFits'
  <2>1. UNCHANGED <<table, listener, closer>>
    BY <1>15 DEF HandleListen, HandleSynRcvd, Destroy, TimedOut, Dies
  <2>2. \A r \in Stream : conn'[r] = "accepted" => conn[r] = "accepted"
    BY <1>3, <1>15 DEF HandleListen, HandleSynRcvd, Destroy, TimedOut, Dies
  <2> QED
    BY <2>1, <2>2, SocketQuiet DEF Heard
<1>16. CASE StackStep
  BY <1>5, <1>12, <1>16 DEF StackStep, Enqueue, Enqueued, EnqueueFreed, FlushLock, FlushSignal,
     FlushFreed, Dies, lvars
<1>17. CASE AcceptStep
  BY <1>5, <1>7, <1>13, <1>14, <1>17 DEF AcceptStep, AcceptEmpty, AcceptDequeue, AcceptTaken,
     DequeueFreed, AcceptLock, CondWait, AcceptFreed, Dies, lvars
<1>18. CASE CloseListening
  <2>1. CASE CloseQueue \/ CloseSignal
    <3>1. UNCHANGED <<table, conn>> /\ (Heard' => Heard)
      BY <2>1 DEF CloseQueue, CloseSignal, Heard
    <3> QED
      BY <3>1, SocketQuiet
  <2> QED
    BY <1>8, <1>18, <2>1 DEF CloseListening
<1>19. ASSUME NEW id \in Ids, ListenAfterClose(id) \/ Accept(id) \/ CloseFreed(id)
       PROVE  TableFits'
  BY <1>5, <1>19 DEF ListenAfterClose, Accept, CloseFreed, Dies
<1> QED
  BY <1>6, <1>9, <1>10, <1>11, <1>15, <1>16, <1>17, <1>18, <1>19 DEF ListenerNext

(* A table without sockets. *)
LEMMA SocketInit == FewSockets /\ ListenerInit => TableFits
<1> SUFFICES ASSUME FewSockets, ListenerInit PROVE TableFits
  OBVIOUS
<1>1. table = InitTable /\ conn = [s \in Stream |-> "none"] /\ listener = "none" /\ closer = "idle"
  BY DEF ListenerInit
<1>2. MaxListening \in Nat
  BY DEF FewSockets
<1>3. Open = {} /\ Unconnected = {} /\ Listening = {}
  BY <1>1 DEF InitTable, Open, Fds, Unconnected, Listening
<1>4. \A i \in 0..(MaxFds - 1) : table.open_fds[i] = 0
  BY <1>1 DEF InitTable
<1>5. BitmapTrue(table)
  <2>1. \A k \in Bits : Pow2(k) \in Nat /\ Pow2(k) > 0
    BY Pow2Values
  <2>2. \A k \in Bits : ~InUse(0, k)
    <3>1. \A p \in Nat : p > 0 => (0 \div p) % 2 = 0
      OBVIOUS
    <3> QED
      BY <2>1, <3>1 DEF InUse
  <2>3. \A id \in Ids : ~InUse(table.open_fds[SetStart(id)], id % BitsPerByte)
    BY <1>4, <2>2, IdPlaces
  <2>4. \A id \in Ids : table.sockfds[id] = NOFD
    BY <1>1 DEF InitTable
  <2>5. table.open_fds \in [0..(MaxFds - 1) -> 0..255] /\ table.cur_idx \in 0..(MaxFds - 1)
    BY <1>1, MaxFdsAssumption DEF InitTable
  <2> QED
    BY <2>3, <2>4, <2>5 DEF BitmapTrue
<1>6. Cardinality(Unconnected) <= MaxListening
  BY <1>2, <1>3, FS_EmptySet
<1> QED
  BY <1>1, <1>3, <1>4, <1>5, <1>6 DEF TableFits, Heard

\* A stream freed too early stays counted.
LEMMA StaleStays ==
  ASSUME ListenerInv, [ListenerNext]_listenerVars, NoneStale'
  PROVE  NoneStale
<1>1. ThreadsOK
  BY CoreIsInv DEF Core
<1>2. ASSUME NEW s \in Stream, TimedOut(s) PROVE NoneStale
  BY <1>1, <1>2, TimedOutMoves DEF NoneStale, ThreadsOK
<1>3. ASSUME UNCHANGED stale PROVE NoneStale
  BY <1>3 DEF NoneStale
<1>4. ASSUME NewSocket \/ OldSocket \/ NoSocket \/ NotAccepted PROVE UNCHANGED stale
  BY <1>4, GivenMoves DEF NotAccepted
<1>5. ASSUME NEW id \in Ids, CloseStream(id) PROVE UNCHANGED stale
  BY <1>5 DEF CloseStream
<1>6. ASSUME NEW s \in Stream, HandleListen(s) \/ HandleSynRcvd(s) \/ Destroy(s)
      PROVE  UNCHANGED stale
  BY <1>6 DEF HandleListen, HandleSynRcvd, Destroy, Dies
<1>7. CASE UNCHANGED listenerVars
  BY <1>3, <1>7 DEF listenerVars, lvars
<1>8. CASE StackStep \/ AcceptStep
  BY <1>3, <1>4, <1>8, StreamsQuiet DEF StackStep, AcceptStep
<1> QED
  BY <1>2, <1>3, <1>5, <1>6, <1>7, <1>8, StreamsQuiet DEF ListenerNext

(* As long as at most seven sockets can be open and no timer has freed a stream
   under acceptq, accept() or its socket, however the threads meet: the bitmap
   names the open sockets, no byte of it has its highest bit set, every accepted
   stream has a socket, and the one that listens is open until it is closed. *)
THEOREM SocketInvariant == ASSUME FewSockets PROVE ListenerSpec => []SocketInv
<1>1. ListenerInit => SocketInv
  BY SocketInit DEF SocketInv
<1>2. ListenerInv /\ TypeOK /\ RingInv /\ SocketInv /\ [ListenerNext]_listenerVars => SocketInv'
  <2> SUFFICES ASSUME ListenerInv, TypeOK, RingInv, SocketInv, [ListenerNext]_listenerVars,
                      NoneStale'
               PROVE  TableFits'
    BY DEF SocketInv
  <2>1. NoneStale /\ TableFits
    BY StaleStays DEF SocketInv
  <2>2. CASE ListenerNext
    BY <2>1, <2>2, SocketStep
  <2>3. CASE UNCHANGED listenerVars
    BY <2>1, <2>3, SocketQuiet DEF listenerVars, lvars, Heard
  <2> QED
    BY <2>2, <2>3
<1> QED
  BY <1>1, <1>2, AcceptRing, ListenerInvariant, PTL DEF ListenerSpec

(* Up to seven open sockets, user_socket_find_id never returns an id in use
   although it halves a signed byte: the bitmap names exactly the sockets there
   are, and an accepted stream keeps the one it was given, until a timer frees
   an established stream (SocketKeepsStream).  Once eight sockets have been open
   it does return one (IdsUnique of SocketTable). *)
THEOREM SocketsTrueAlways == ASSUME FewSockets PROVE ListenerSpec => []SocketsTrue
<1>1. SocketInv /\ ListenerInv => SocketsTrue
  <2> SUFFICES ASSUME TableFits, NoneStale, ListenerInv PROVE SocketsTrue
    BY DEF SocketInv, SocketsTrue
  <2>1. \A id \in Ids :
          id \in Open <=> InUse(table.open_fds[SetStart(id)], id % BitsPerByte)
    BY DEF TableFits, BitmapTrue, Open, Fds
  <2>2. ASSUME NEW s \in Stream
        PROVE  Cardinality({id \in Open : Fds[id].stream = s})
                 = IF conn[s] = "accepted" THEN 1 ELSE 0
    <3> DEFINE own == {id \in Open : Fds[id].stream = s}
    <3>1. s # NULL /\ OneSocketEach
      BY StreamAssumption, OwnAll DEF ListenerInv
    <3>2. CASE conn[s] = "accepted"
      <4>1. PICK id \in Open : Fds[id].stream = s
        BY <3>2 DEF TableFits
      <4>2. own = {id}
        BY <3>1, <4>1 DEF OneSocketEach
      <4>3. Cardinality(own) = 1
        BY <4>2, FS_Singleton
      <4> QED
        BY <3>2, <4>3
    <3>3. CASE conn[s] # "accepted"
      <4>1. own = {}
        BY <3>1, <3>3 DEF OneSocketEach
      <4>2. Cardinality(own) = 0
        BY <4>1, FS_EmptySet
      <4> QED
        BY <3>3, <4>2
    <3> QED
      BY <3>2, <3>3
  <2> QED
    BY <2>1, <2>2 DEF SocketsTrue
<1> QED
  BY <1>1, SocketInvariant, ListenerInvariant, PTL
=============================================================================
