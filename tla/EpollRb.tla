------------------------------- MODULE EpollRb -------------------------------
(***************************************************************************)
(* One epoll instance (user_epoll_rb.c) between the stack thread, which     *)
(* calls epoll_event_callback when data, a FIN or a connection arrives, and *)
(* the application thread, which calls epoll_ctl, epoll_wait and close.     *)
(*                                                                          *)
(* ep->lock guards the ready list and rdnum, ep->cdmtx the sleep in         *)
(* epoll_wait, ep->mtx the tree; the callback searches the tree and reads   *)
(* rdy with none of them held.  The event masks are left out.               *)
(***************************************************************************)
EXTENDS Integers, Sequences

CONSTANTS Sock,       \* the sockets that may be registered
          FREED,      \* an epitem that was freed while something pointed to it
          MaxEvents,  \* epoll_wait's maxevents
          MaxList     \* bound: no EPOLL_CTL_ADD while the list is this long; freed
                      \* items would pile up on it

ASSUME SockAssumption == FREED \notin Sock
ASSUME MaxEventsAssumption == MaxEvents \in Nat \ {0} /\ MaxList \in Nat

VARIABLES tree,     \* the sockets with an epitem in ep->rbr
          rdy,      \* epi->rdy of those items
          rdlist,   \* ep->rdlist, first item first
          rdnum,    \* ep->rdnum
          cb,       \* the stack thread's position in the callback and its epi
          app,      \* the application thread's position, its socket, timeout, num
          pending,  \* history: sockets with an event that was not yet reported
          err       \* the assert(0) of the callback, or a use of freed memory

vars == <<tree, rdy, rdlist, rdnum, cb, app, pending, err>>

Timeouts == {"none", "some", "forever"}  \* timeout = 0, > 0, < 0
Closing == {"destroy", "closed"}

\* calls that hold ep->lock, and those that rearrange the tree
Spinning == app.pc = "take"
TreeInFlux == app.pc \in {"add", "del"}
-----------------------------------------------------------------------------
(* epoll_event_callback in the stack thread. *)

\* if (tcp->ep): the stack has an event for an open socket
Raise(s) ==
    /\ err = "none" /\ cb.pc = "idle"
    /\ app.pc # "closed"
    /\ cb' = [pc |-> "find", epi |-> s]
    /\ pending' = pending \cup {s}
    /\ UNCHANGED <<tree, rdy, rdlist, rdnum, app, err>>

(* RB_FIND without ep->mtx.  While epoll_ctl rearranges the tree the search may
   miss an item that is there; a miss is assert(0). *)
Find ==
    /\ err = "none" /\ cb.pc = "find"
    /\ \/ /\ cb.epi \in tree
          /\ cb' = [cb EXCEPT !.pc = "rdy"]
          /\ UNCHANGED err
       \/ /\ app.pc # "closed"
          /\ cb.epi \notin tree \/ TreeInFlux
          /\ err' = "assert"
          /\ UNCHANGED cb
       \/ /\ app.pc = "closed"
          /\ err' = "use_after_free"
          /\ UNCHANGED cb
    /\ UNCHANGED <<tree, rdy, rdlist, rdnum, app, pending>>

\* Whatever the callback still does with an item epoll_ctl freed
FoundFreed ==
    /\ err = "none" /\ cb.epi = FREED /\ cb.pc \in {"rdy", "merge", "insert"}
    /\ err' = "use_after_free"
    /\ UNCHANGED <<tree, rdy, rdlist, rdnum, cb, app, pending>>

MutReadRdy ==  \* the ready list is not asked
    /\ err = "none" /\ cb.pc = "rdy" /\ cb.epi # FREED
    /\ cb' = [cb EXCEPT !.pc = "insert"]
    /\ UNCHANGED <<tree, rdy, rdlist, rdnum, app, pending, err>>
\* if (epi->rdy), without ep->lock
ReadRdy ==
    /\ err = "none" /\ cb.pc = "rdy" /\ cb.epi # FREED
    /\ cb' = [cb EXCEPT !.pc = IF rdy[cb.epi] THEN "merge" ELSE "insert"]
    /\ UNCHANGED <<tree, rdy, rdlist, rdnum, app, pending, err>>

\* epi->event.events |= event and return
Merge ==
    /\ err = "none" /\ cb.pc = "merge" /\ cb.epi # FREED
    /\ cb' = [cb EXCEPT !.pc = "idle"]
    /\ UNCHANGED <<tree, rdy, rdlist, rdnum, app, pending, err>>

\* Under ep->lock.  LIST_INSERT_HEAD writes to the item that was first.
Insert ==
    /\ err = "none" /\ cb.pc = "insert" /\ cb.epi # FREED
    /\ ~Spinning
    /\ IF rdlist # <<>> /\ Head(rdlist) = FREED
       THEN /\ err' = "use_after_free"
            /\ UNCHANGED <<rdy, rdlist, rdnum, cb>>
       ELSE /\ rdy' = [rdy EXCEPT ![cb.epi] = TRUE]
            /\ rdlist' = <<cb.epi>> \o rdlist
            /\ rdnum' = rdnum + 1
            /\ cb' = [cb EXCEPT !.pc = "signal"]
            /\ UNCHANGED err
    /\ UNCHANGED <<tree, app, pending>>

MutSignal ==  \* signals nobody
    /\ err = "none" /\ cb.pc = "signal"
    /\ cb' = [cb EXCEPT !.pc = "idle"]
    /\ UNCHANGED <<tree, rdy, rdlist, rdnum, app, pending, err>>
\* pthread_cond_signal under ep->cdmtx
Signal ==
    /\ err = "none" /\ cb.pc = "signal"
    /\ IF app.pc = "closed"
       THEN err' = "use_after_free" /\ UNCHANGED <<cb, app>>
       ELSE /\ cb' = [cb EXCEPT !.pc = "idle"]
            /\ app' = IF app.pc = "asleep"
                      THEN [app EXCEPT !.pc = IF app.timeout = "forever"
                                              THEN "check" ELSE "scan"]
                      ELSE app
            /\ UNCHANGED err
    /\ UNCHANGED <<tree, rdy, rdlist, rdnum, pending>>

Callback ==
    \/ Find \/ FoundFreed \/ ReadRdy \/ Merge \/ Insert \/ Signal
-----------------------------------------------------------------------------
(* epoll_ctl, the part under ep->mtx.  Between the two steps RB_INSERT or
   RB_REMOVE rebalances. *)
CtlAdd(s) ==
    /\ err = "none" /\ app.pc = "idle"
    /\ s \notin tree
    /\ Len(rdlist) < MaxList
    /\ app' = [app EXCEPT !.pc = "add", !.sock = s]
    /\ UNCHANGED <<tree, rdy, rdlist, rdnum, cb, pending, err>>

\* the item comes from calloc, so rdy = 0
AddDone ==
    /\ err = "none" /\ app.pc = "add"
    /\ tree' = tree \cup {app.sock}
    /\ rdy' = [rdy EXCEPT ![app.sock] = FALSE]
    /\ app' = [app EXCEPT !.pc = "idle"]
    /\ UNCHANGED <<rdlist, rdnum, cb, pending, err>>

CtlDel(s) ==
    /\ err = "none" /\ app.pc = "idle"
    /\ s \in tree
    /\ app' = [app EXCEPT !.pc = "del", !.sock = s]
    /\ UNCHANGED <<tree, rdy, rdlist, rdnum, cb, pending, err>>

Found == cb.pc \in {"rdy", "merge", "insert"}

\* The item is freed; the ready list and the callback may still point to it.
DelDone ==
    /\ err = "none" /\ app.pc = "del"
    /\ tree' = tree \ {app.sock}
    /\ rdlist' = [i \in DOMAIN rdlist |->
                    IF rdlist[i] = app.sock THEN FREED ELSE rdlist[i]]
    /\ cb' = IF Found /\ cb.epi = app.sock THEN [cb EXCEPT !.epi = FREED] ELSE cb
    /\ pending' = pending \ {app.sock}
    /\ app' = [app EXCEPT !.pc = "idle"]
    /\ UNCHANGED <<rdy, rdnum, err>>
-----------------------------------------------------------------------------
(* epoll_wait. *)
CallWait(timeout) ==
    /\ err = "none" /\ app.pc = "idle"
    /\ app' = [app EXCEPT !.pc = "check", !.timeout = timeout]
    /\ UNCHANGED <<tree, rdy, rdlist, rdnum, cb, pending, err>>

\* The loop's test and pthread_cond_wait are one step: the callback signals
\* under ep->cdmtx, which epoll_wait holds from the one to the other.
WaitCheck ==
    /\ err = "none" /\ app.pc = "check"
    /\ app' = [app EXCEPT !.pc = IF rdnum = 0 /\ app.timeout # "none"
                                 THEN "asleep" ELSE "scan"]
    /\ UNCHANGED <<tree, rdy, rdlist, rdnum, cb, pending, err>>

\* pthread_cond_timedwait ends: timeout = 0 ends the loop
WaitTimeout ==
    /\ err = "none" /\ app.pc = "asleep" /\ app.timeout = "some"
    /\ app' = [app EXCEPT !.pc = "scan"]
    /\ UNCHANGED <<tree, rdy, rdlist, rdnum, cb, pending, err>>

\* num is fixed once ep->lock is taken
ScanStart ==
    /\ err = "none" /\ app.pc = "scan"
    /\ app' = [app EXCEPT !.pc = "take",
                          !.num = IF rdnum > MaxEvents THEN MaxEvents ELSE rdnum]
    /\ UNCHANGED <<tree, rdy, rdlist, rdnum, cb, pending, err>>

MutTakeItem ==  \* rdy not reset
    /\ err = "none" /\ app.pc = "take"
    /\ app.num # 0 /\ rdlist # <<>>
    /\ IF Head(rdlist) = FREED \/ (Len(rdlist) > 1 /\ rdlist[2] = FREED)
       THEN err' = "use_after_free" /\ UNCHANGED <<rdy, rdlist, rdnum, pending, app>>
       ELSE /\ rdlist' = Tail(rdlist)
            /\ rdnum' = rdnum - 1
            /\ pending' = pending \ {Head(rdlist)}
            /\ app' = [app EXCEPT !.num = @ - 1]
            /\ UNCHANGED <<rdy, err>>
    /\ UNCHANGED <<tree, cb>>
\* LIST_REMOVE reads the first item and writes to the second.
TakeItem ==
    /\ err = "none" /\ app.pc = "take"
    /\ app.num # 0 /\ rdlist # <<>>
    /\ IF Head(rdlist) = FREED \/ (Len(rdlist) > 1 /\ rdlist[2] = FREED)
       THEN err' = "use_after_free" /\ UNCHANGED <<rdy, rdlist, rdnum, pending, app>>
       ELSE /\ rdlist' = Tail(rdlist)
            /\ rdy' = [rdy EXCEPT ![Head(rdlist)] = FALSE]
            /\ rdnum' = rdnum - 1
            /\ pending' = pending \ {Head(rdlist)}
            /\ app' = [app EXCEPT !.num = @ - 1]
            /\ UNCHANGED err
    /\ UNCHANGED <<tree, cb>>

WaitReturn ==
    /\ err = "none" /\ app.pc = "take"
    /\ app.num = 0 \/ rdlist = <<>>
    /\ app' = [app EXCEPT !.pc = "idle"]
    /\ UNCHANGED <<tree, rdy, rdlist, rdnum, cb, pending, err>>

Wait == WaitCheck \/ WaitTimeout \/ ScanStart \/ TakeItem \/ WaitReturn
-----------------------------------------------------------------------------
(* user_epoll_close_socket: epoll_destroy unlinks the ready list without
   ep->lock and leaves rdnum and rdy alone, then the tree, then ep is freed. *)
CloseList ==
    /\ err = "none" /\ app.pc = "idle"
    /\ rdlist' = <<>>
    /\ err' = IF \E i \in DOMAIN rdlist : rdlist[i] = FREED
              THEN "use_after_free" ELSE err
    /\ app' = [app EXCEPT !.pc = "destroy"]
    /\ UNCHANGED <<tree, rdy, rdnum, cb, pending>>

CloseFree ==
    /\ err = "none" /\ app.pc = "destroy"
    /\ tree' = {}
    /\ cb' = IF Found THEN [cb EXCEPT !.epi = FREED] ELSE cb
    /\ pending' = {}
    /\ app' = [app EXCEPT !.pc = "closed"]
    /\ UNCHANGED <<rdy, rdlist, rdnum, err>>

Ctl == (\E s \in Sock : CtlAdd(s) \/ CtlDel(s)) \/ AddDone \/ DelDone
-----------------------------------------------------------------------------
\* epoll_create
Init ==
    /\ tree = {}
    /\ rdy = [s \in Sock |-> FALSE]
    /\ rdlist = <<>>
    /\ rdnum = 0
    /\ cb = [pc |-> "idle", epi |-> FREED]
    /\ app = [pc |-> "idle", sock |-> FREED, timeout |-> "none", num |-> 0]
    /\ pending = {}
    /\ err = "none"

Next ==
    \/ Callback \/ Ctl \/ Wait \/ CloseList \/ CloseFree
    \/ \E s \in Sock : Raise(s)
    \/ \E timeout \in Timeouts : CallWait(timeout)

Spec == Init /\ [][Next]_vars

(* The stack thread finishes its callbacks and the application the calls it
   began; an application with an event loop calls epoll_wait again and again. *)
FairSpec ==
    /\ Spec
    /\ WF_vars(Callback) /\ WF_vars(Wait) /\ WF_vars(AddDone \/ DelDone)
    /\ WF_vars(CloseFree)
    /\ SF_vars(CallWait("forever"))
-----------------------------------------------------------------------------
TypeOK ==
    /\ tree \subseteq Sock
    /\ rdy \in [Sock -> BOOLEAN]
    /\ rdlist \in Seq(Sock \cup {FREED})
    /\ rdnum \in Nat
    /\ cb \in [pc : {"idle", "find", "rdy", "merge", "insert", "signal"},
               epi : Sock \cup {FREED}]
    /\ app \in [pc : {"idle", "add", "del", "check", "asleep", "scan", "take"}
                       \cup Closing,
                sock : Sock \cup {FREED}, timeout : Timeouts, num : Nat]
    /\ pending \subseteq Sock
    /\ err \in {"none", "assert", "use_after_free"}

Listed(s) == \E i \in DOMAIN rdlist : rdlist[i] = s

(* rdy and rdnum tell the truth about the ready list, although rdy is read
   without ep->lock: an item is on the list exactly when rdy is set, never
   twice (a second LIST_INSERT_HEAD would make a cycle), and rdnum counts the
   list. *)
ListMatchesFlags ==
    err = "none" /\ app.pc \notin Closing =>
        /\ \A s \in tree : rdy[s] <=> Listed(s)
        /\ \A i, j \in DOMAIN rdlist :
                i # j /\ rdlist[i] = rdlist[j] => rdlist[i] = FREED
        /\ rdnum = Len(rdlist)

(* epoll_wait never sleeps through an event: when it sleeps with an item on the
   list, the callback that put it there has not signalled yet. *)
NoSleepOnEvent == err = "none" /\ app.pc = "asleep" /\ rdnum > 0 => cb.pc = "signal"

(* In an event loop that takes as many items as there are sockets, an item on
   the ready list is reported, though new items go before it. *)
ListedIsReported ==
    \A s \in Sock :
        Listed(s) ~> ~Listed(s) \/ err # "none" \/ app.pc \in Closing

(* An event is on its way to the application until it is
   reported: it is not lost between the callback, which reads rdy without
   ep->lock and then leaves a listed item alone, and epoll_wait taking it off. *)
EventsReported ==
    err = "none" /\ app.pc \notin Closing =>
        \A s \in pending : Listed(s) \/ (cb.pc # "idle" /\ cb.epi = s)
-----------------------------------------------------------------------------
(* The inductive invariant behind ListMatchesFlags and EventsReported: only the
   stack thread sets rdy and only epoll_ctl changes the tree, so what one thread
   looked at still holds when it acts on it, or the item was freed. *)
ThreadsInv ==
    err = "none" /\ app.pc \notin Closing =>
        /\ Found => cb.epi \in tree \cup {FREED}
        /\ cb.pc = "find" => cb.epi \in Sock
        /\ cb.pc = "insert" /\ cb.epi # FREED => ~rdy[cb.epi]
        /\ cb.pc \in {"merge", "signal"} /\ cb.epi \in pending => Listed(cb.epi)
        /\ app.pc = "add" => app.sock \in Sock \ tree
        /\ app.pc = "del" => app.sock \in tree
        /\ \A s \in Sock \ tree : ~Listed(s)

EpollInv == ListMatchesFlags /\ EventsReported /\ ThreadsInv
=============================================================================
