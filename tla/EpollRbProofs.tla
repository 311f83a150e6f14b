--------------------------- MODULE EpollRbProofs ---------------------------
(***************************************************************************)
(* Theorems about EpollRb, for every set of sockets and every maxevents:   *)
(* the ready list is what rdy and rdnum say, no event is lost between the  *)
(* stack thread and the application, and epoll_wait never sleeps through   *)
(* one.                                                                    *)
(***************************************************************************)
EXTENDS EpollRb, TLAPS

USE SockAssumption, MaxEventsAssumption

\* An item put before a list and taken off it again.
LEMMA ListOps ==
  ASSUME NEW S, NEW e \in S, NEW l \in Seq(S)
  PROVE  /\ <<e>> \o l \in Seq(S)
         /\ l # <<>> => Tail(l) \in Seq(S) /\ Head(l) \in S
OBVIOUS

(* Every step keeps the types; that rdnum does not go below 0 needs that it
   counts the list. *)
LEMMA TypeStep ==
  ASSUME TypeOK, EpollInv, [Next]_vars
  PROVE  TypeOK'
<1> USE DEF TypeOK
<1>1. CASE Callback
  <2>1. CASE Find \/ FoundFreed \/ ReadRdy \/ Merge
    BY <2>1 DEF Find, FoundFreed, ReadRdy, Merge
  <2>2. CASE Insert
    <3>1. rdlist' \in Seq(Sock \cup {FREED})
      <4>1. rdlist' = rdlist \/ rdlist' = <<cb.epi>> \o rdlist
        BY <2>2 DEF Insert
      <4>2. cb.epi \in Sock \cup {FREED} /\ rdlist \in Seq(Sock \cup {FREED})
        OBVIOUS
      <4> HIDE DEF TypeOK
      <4> QED
        BY <4>1, <4>2, ListOps
    <3>2. cb' \in [pc : {"idle", "find", "rdy", "merge", "insert", "signal"},
                   epi : Sock \cup {FREED}]
      BY <2>2 DEF Insert
    <3>3. rdy' \in [Sock -> BOOLEAN]
      BY <2>2 DEF Insert
    <3>4. rdnum' \in Nat /\ err' \in {"none", "assert", "use_after_free"}
      BY <2>2 DEF Insert
    <3> QED
      BY <2>2, <3>1, <3>2, <3>3, <3>4 DEF Insert
  <2>3. CASE Signal
    BY <2>3 DEF Signal
  <2> QED
    BY <1>1, <2>1, <2>2, <2>3 DEF Callback
<1>2. CASE Ctl
  <2>1. ASSUME NEW s \in Sock, CtlAdd(s) \/ CtlDel(s) PROVE TypeOK'
    BY <2>1 DEF CtlAdd, CtlDel
  <2>2. CASE AddDone
    <3>1. rdy' \in [Sock -> BOOLEAN]
      BY <2>2 DEF AddDone
    <3>2. app.sock \in Sock
      BY <2>2 DEF AddDone, EpollInv, ThreadsInv, Closing
    <3> QED
      BY <2>2, <3>1, <3>2 DEF AddDone
  <2>3. CASE DelDone
    BY <2>3 DEF DelDone
  <2> QED
    BY <1>2, <2>1, <2>2, <2>3 DEF Ctl
<1>3. CASE Wait
  <2>1. CASE WaitCheck \/ WaitTimeout \/ ScanStart \/ WaitReturn
    BY <2>1 DEF WaitCheck, WaitTimeout, ScanStart, WaitReturn
  <2>2. CASE TakeItem
    <3>1. rdnum = Len(rdlist)
      BY <2>2 DEF TakeItem, EpollInv, ListMatchesFlags, Closing
    <3>2. rdnum' \in Nat
      BY <2>2, <3>1 DEF TakeItem
    <3>3. app' \in [pc : {"idle", "add", "del", "check", "asleep", "scan", "take"}
                           \cup Closing,
                    sock : Sock \cup {FREED}, timeout : Timeouts, num : Nat]
      <4>1. app' = app \/ app' = [app EXCEPT !.num = app.num - 1]
        BY <2>2 DEF TakeItem
      <4>2. app.num - 1 \in Nat
        BY <2>2 DEF TakeItem
      <4> QED
        BY <4>1, <4>2
    <3>4. rdy' \in [Sock -> BOOLEAN] /\ rdlist' \in Seq(Sock \cup {FREED})
      <4>1. rdlist' = rdlist \/ (rdlist # <<>> /\ rdlist' = Tail(rdlist))
        BY <2>2 DEF TakeItem
      <4>2. rdy' = rdy \/ rdy' = [rdy EXCEPT ![Head(rdlist)] = FALSE]
        BY <2>2 DEF TakeItem
      <4>3. rdlist \in Seq(Sock \cup {FREED}) /\ rdy \in [Sock -> BOOLEAN]
        OBVIOUS
      <4> HIDE DEF TypeOK
      <4>4. rdlist' \in Seq(Sock \cup {FREED})
        BY <4>1, <4>3
      <4>5. rdy' \in [Sock -> BOOLEAN]
        BY <4>2, <4>3
      <4> QED
        BY <4>4, <4>5
    <3> QED
      BY <2>2, <3>2, <3>3, <3>4 DEF TakeItem
  <2> QED
    BY <1>3, <2>1, <2>2 DEF Wait
<1>4. CASE CloseList \/ CloseFree
  <2>1. CASE CloseList
    BY <2>1 DEF CloseList, Closing
  <2>2. CASE CloseFree
    BY <2>2 DEF CloseFree, Closing, Found
  <2> QED
    BY <1>4, <2>1, <2>2
<1>5. ASSUME NEW s \in Sock, Raise(s) PROVE TypeOK'
  BY <1>5 DEF Raise
<1>6. ASSUME NEW t \in Timeouts, CallWait(t) PROVE TypeOK'
  BY <1>6 DEF CallWait
<1>7. CASE UNCHANGED vars
  BY <1>7 DEF vars
<1> QED
  BY <1>1, <1>2, <1>3, <1>4, <1>5, <1>6, <1>7 DEF Next

(* Every step keeps the inductive invariant. *)
LEMMA EpollStep ==
  ASSUME TypeOK, TypeOK', EpollInv, [Next]_vars
  PROVE  EpollInv'
<1> USE DEF EpollInv, Closing, Found
<1>1. ASSUME UNCHANGED <<tree, rdy, rdlist, rdnum, cb, pending, err>>,
             app'.pc \notin {"add", "del"},
             app'.pc \notin Closing => app.pc \notin Closing
      PROVE  EpollInv'
  BY <1>1 DEF ListMatchesFlags, EventsReported, ThreadsInv, Listed
<1>2. CASE Find \/ FoundFreed
  BY <1>2 DEF Find, FoundFreed, TypeOK, ListMatchesFlags, EventsReported, ThreadsInv,
              Listed
<1>3. CASE ReadRdy
  BY <1>3 DEF ReadRdy, TypeOK, ListMatchesFlags, EventsReported, ThreadsInv, Listed
<1>4. CASE Merge
  BY <1>4 DEF Merge, TypeOK, ListMatchesFlags, EventsReported, ThreadsInv, Listed
<1>5. CASE Insert
  <2>1. CASE err' # "none" \/ app.pc \in Closing
    BY <1>5, <2>1 DEF Insert, ListMatchesFlags, EventsReported, ThreadsInv
  <2>2. CASE err' = "none" /\ app.pc \notin Closing
    <3>1. /\ rdlist' = <<cb.epi>> \o rdlist /\ rdnum' = rdnum + 1
          /\ rdy' = [rdy EXCEPT ![cb.epi] = TRUE]
          /\ cb' = [cb EXCEPT !.pc = "signal"]
          /\ UNCHANGED <<tree, app, pending>> /\ err = "none"
      BY <1>5, <2>2 DEF Insert
    <3>2. cb.epi \in tree /\ cb.epi \in Sock /\ ~Listed(cb.epi)
      BY <1>5, <2>2, <3>1 DEF Insert, ThreadsInv, ListMatchesFlags, TypeOK
    <3>3. /\ DOMAIN rdlist' = 1..(Len(rdlist) + 1) /\ Len(rdlist') = Len(rdlist) + 1
          /\ rdlist'[1] = cb.epi
          /\ \A i \in 2..(Len(rdlist) + 1) : rdlist'[i] = rdlist[i - 1]
      BY <3>1 DEF TypeOK
    <3>4. \A s : Listed(s)' <=> s = cb.epi \/ Listed(s)
      <4>1. ASSUME NEW s, Listed(s) PROVE Listed(s)'
        <5>1. PICK i \in DOMAIN rdlist : rdlist[i] = s
          BY <4>1 DEF Listed
        <5>2. i + 1 \in DOMAIN rdlist' /\ rdlist'[i + 1] = s
          BY <3>3, <5>1 DEF TypeOK
        <5> QED
          BY <5>2 DEF Listed
      <4>2. ASSUME NEW s, s = cb.epi PROVE Listed(s)'
        <5>1. 1 \in DOMAIN rdlist' /\ rdlist'[1] = s
          BY <3>3, <4>2 DEF TypeOK
        <5> QED
          BY <5>1 DEF Listed
      <4>3. ASSUME NEW s, Listed(s)', s # cb.epi PROVE Listed(s)
        <5>1. PICK i \in DOMAIN rdlist' : rdlist'[i] = s
          BY <4>3 DEF Listed
        <5>2. i - 1 \in DOMAIN rdlist /\ rdlist[i - 1] = s
          BY <3>3, <4>3, <5>1 DEF TypeOK
        <5> QED
          BY <5>2 DEF Listed
      <4> QED
        BY <4>1, <4>2, <4>3
    <3>5. \A i, j \in DOMAIN rdlist' :
             i # j /\ rdlist'[i] = rdlist'[j] => rdlist'[i] = FREED
      <4> SUFFICES ASSUME NEW i \in DOMAIN rdlist', NEW j \in DOMAIN rdlist', i # j,
                          rdlist'[i] = rdlist'[j]
                   PROVE  rdlist'[i] = FREED
        OBVIOUS
      <4>1. \A k \in 2..(Len(rdlist) + 1) :
               k - 1 \in DOMAIN rdlist /\ rdlist'[k] = rdlist[k - 1]
                 /\ rdlist'[k] # cb.epi
        BY <3>2, <3>3 DEF Listed, TypeOK
      <4>2. i # 1 /\ j # 1
        BY <3>3, <4>1
      <4>3. i - 1 \in DOMAIN rdlist /\ j - 1 \in DOMAIN rdlist /\ i - 1 # j - 1
        BY <3>3, <4>1, <4>2
      <4> QED
        BY <2>2, <3>1, <3>3, <4>1, <4>2, <4>3 DEF ListMatchesFlags
    <3>6. ListMatchesFlags'
      BY <2>2, <3>1, <3>2, <3>3, <3>4, <3>5 DEF ListMatchesFlags, TypeOK
    <3>7. EventsReported'
      BY <2>2, <3>1, <3>4 DEF EventsReported, TypeOK
    <3>8. ThreadsInv'
      BY <2>2, <3>1, <3>2, <3>4 DEF ThreadsInv, TypeOK
    <3> QED
      BY <3>6, <3>7, <3>8
  <2> QED
    BY <2>1, <2>2
<1>6. CASE Signal
  BY <1>6 DEF Signal, TypeOK, ListMatchesFlags, EventsReported, ThreadsInv, Listed
<1>7. ASSUME NEW s \in Sock, CtlAdd(s) \/ CtlDel(s)
      PROVE  EpollInv'
  <2>1. /\ UNCHANGED <<tree, rdy, rdlist, rdnum, cb, pending, err>>
        /\ app'.pc \in {"add", "del"} /\ app'.sock = s /\ app.pc = "idle"
        /\ app'.pc = "add" => s \notin tree
        /\ app'.pc = "del" => s \in tree
    BY <1>7 DEF CtlAdd, CtlDel, TypeOK
  <2>2. ListMatchesFlags' /\ EventsReported'
    BY <2>1 DEF ListMatchesFlags, EventsReported, Listed
  <2>3. ThreadsInv'
    BY <2>1 DEF ThreadsInv, Listed
  <2> QED
    BY <2>2, <2>3
<1>8. CASE AddDone
  BY <1>8 DEF AddDone, TypeOK, ListMatchesFlags, EventsReported, ThreadsInv, Listed
<1>9. CASE DelDone
  BY <1>9 DEF DelDone, TypeOK, ListMatchesFlags, EventsReported, ThreadsInv, Listed
<1>10. CASE WaitCheck \/ WaitTimeout \/ ScanStart \/ WaitReturn
  BY <1>1, <1>10 DEF WaitCheck, WaitTimeout, ScanStart, WaitReturn, TypeOK
<1>11. CASE TakeItem
  <2>1. CASE err' # "none"
    BY <2>1 DEF ListMatchesFlags, EventsReported, ThreadsInv
  <2>2. CASE err' = "none"
    <3> DEFINE h == Head(rdlist)
    <3>1. /\ rdlist # <<>> /\ h # FREED /\ rdlist' = Tail(rdlist)
          /\ rdy' = [rdy EXCEPT ![h] = FALSE] /\ rdnum' = rdnum - 1
          /\ pending' = pending \ {h} /\ UNCHANGED <<tree, cb>>
          /\ err = "none" /\ app.pc = "take" /\ app'.pc = "take"
      BY <1>11, <2>2 DEF TakeItem, TypeOK
    <3>2. /\ DOMAIN rdlist' = 1..(Len(rdlist) - 1) /\ Len(rdlist') = Len(rdlist) - 1
          /\ \A i \in 1..(Len(rdlist) - 1) : rdlist'[i] = rdlist[i + 1]
          /\ 1 \in DOMAIN rdlist /\ h = rdlist[1] /\ DOMAIN rdlist = 1..Len(rdlist)
          /\ Len(rdlist) \in Nat
      BY <3>1 DEF TypeOK
    <3>3. \A s : Listed(s)' <=> s # h /\ Listed(s)
      <4>1. \A i \in 2..Len(rdlist) : rdlist[i] # h
        BY <3>1, <3>2 DEF ListMatchesFlags
      <4>2. ASSUME NEW s, Listed(s)' PROVE s # h /\ Listed(s)
        <5>1. PICK i \in DOMAIN rdlist' : rdlist'[i] = s
          BY <4>2 DEF Listed
        <5>2. i + 1 \in 2..Len(rdlist) /\ rdlist[i + 1] = s
          BY <3>2, <5>1
        <5> QED
          BY <3>2, <4>1, <5>2 DEF Listed
      <4>3. ASSUME NEW s, s # h, Listed(s) PROVE Listed(s)'
        <5>1. PICK i \in DOMAIN rdlist : rdlist[i] = s
          BY <4>3 DEF Listed
        <5>2. i - 1 \in DOMAIN rdlist' /\ rdlist'[i - 1] = s
          BY <3>2, <4>3, <5>1
        <5> QED
          BY <5>2 DEF Listed
      <4> QED
        BY <4>2, <4>3
    <3>4. h \in Sock /\ Listed(h)
      BY <3>1, <3>2 DEF TypeOK, Listed
    <3>5. \A i, j \in DOMAIN rdlist' :
             i # j /\ rdlist'[i] = rdlist'[j] => rdlist'[i] = FREED
      <4> SUFFICES ASSUME NEW i \in DOMAIN rdlist', NEW j \in DOMAIN rdlist', i # j,
                          rdlist'[i] = rdlist'[j]
                   PROVE  rdlist'[i] = FREED
        OBVIOUS
      <4>1. i + 1 \in DOMAIN rdlist /\ j + 1 \in DOMAIN rdlist /\ i + 1 # j + 1
        BY <3>2
      <4> QED
        BY <3>1, <3>2, <4>1 DEF ListMatchesFlags
    <3>6. ListMatchesFlags'
      BY <3>1, <3>2, <3>3, <3>4, <3>5 DEF ListMatchesFlags, TypeOK
    <3>7. EventsReported'
      BY <3>1, <3>3 DEF EventsReported, TypeOK
    <3>8. ThreadsInv'
      <4>1. cb.pc = "insert" /\ cb.epi # FREED => ~rdy'[cb.epi]
        BY <3>1, <3>4 DEF ThreadsInv, TypeOK
      <4> QED
        BY <3>1, <3>3, <4>1 DEF ThreadsInv
    <3> QED
      BY <3>6, <3>7, <3>8
  <2> QED
    BY <2>1, <2>2
<1>12. CASE CloseList \/ CloseFree
  BY <1>12 DEF CloseList, CloseFree, TypeOK, ListMatchesFlags, EventsReported,
               ThreadsInv
<1>13. ASSUME NEW s \in Sock, Raise(s) PROVE EpollInv'
  BY <1>13 DEF Raise, TypeOK, ListMatchesFlags, EventsReported, ThreadsInv, Listed
<1>14. ASSUME NEW t \in Timeouts, CallWait(t) PROVE EpollInv'
  BY <1>1, <1>14 DEF CallWait, TypeOK
<1>15. CASE UNCHANGED vars
  BY <1>15 DEF vars, ListMatchesFlags, EventsReported, ThreadsInv, Listed
<1> QED
  BY <1>2, <1>3, <1>4, <1>5, <1>6, <1>7, <1>8, <1>9, <1>10, <1>11, <1>12, <1>13,
     <1>14, <1>15 DEF Next, Callback, Ctl, Wait

(* The types and the inductive invariant, for every set of sockets. *)
THEOREM EpollInvariant == Spec => [](TypeOK /\ EpollInv)
<1>1. Init => TypeOK /\ EpollInv
  BY DEF Init, TypeOK, EpollInv, ListMatchesFlags, EventsReported, ThreadsInv, Found,
         Timeouts, Listed
<1>2. TypeOK /\ EpollInv /\ [Next]_vars => (TypeOK /\ EpollInv)'
  BY TypeStep, EpollStep
<1> QED
  BY <1>1, <1>2, PTL DEF Spec

(* The ready list holds an item exactly when its rdy flag is set, and no item
   twice, although the callback reads rdy without ep->lock. *)
THEOREM ReadyListTrue == Spec => []ListMatchesFlags
<1>1. TypeOK /\ EpollInv => ListMatchesFlags
  BY DEF EpollInv
<1> QED
  BY <1>1, EpollInvariant, PTL

(* No event is lost between the callback and epoll_wait: until it is reported,
   its item is on the ready list or the callback is at work on it. *)
THEOREM NoEventLost == Spec => []EventsReported
<1>1. TypeOK /\ EpollInv => EventsReported
  BY DEF EpollInv
<1> QED
  BY <1>1, EpollInvariant, PTL

(* epoll_wait sleeps only while nothing is ready, or while the callback that
   made something ready still has to signal. *)
THEOREM NoLostWakeup == Spec => []NoSleepOnEvent
<1>1. Init => NoSleepOnEvent
  BY DEF Init, NoSleepOnEvent
<1>2. TypeOK /\ NoSleepOnEvent /\ [Next]_vars => NoSleepOnEvent'
  <2> SUFFICES ASSUME TypeOK, NoSleepOnEvent, [Next]_vars PROVE NoSleepOnEvent'
    OBVIOUS
  <2> USE DEF NoSleepOnEvent, TypeOK
  <2>1. CASE Callback
    BY <2>1 DEF Callback, Find, FoundFreed, ReadRdy, Merge, Insert, Signal
  <2>2. CASE Ctl
    BY <2>2 DEF Ctl, CtlAdd, CtlDel, AddDone, DelDone
  <2>3. CASE Wait
    <3>1. CASE TakeItem
      BY <3>1 DEF TakeItem
    <3>2. CASE WaitCheck
      BY <3>2 DEF WaitCheck
    <3>3. CASE WaitTimeout \/ ScanStart \/ WaitReturn
      BY <3>3 DEF WaitTimeout, ScanStart, WaitReturn
    <3> QED
      BY <2>3, <3>1, <3>2, <3>3 DEF Wait
  <2>4. CASE CloseList \/ CloseFree
    BY <2>4 DEF CloseList, CloseFree
  <2>5. ASSUME NEW s \in Sock, Raise(s) PROVE NoSleepOnEvent'
    BY <2>5 DEF Raise
  <2>6. ASSUME NEW t \in Timeouts, CallWait(t) PROVE NoSleepOnEvent'
    BY <2>6 DEF CallWait
  <2>7. CASE UNCHANGED vars
    BY <2>7 DEF vars
  <2> QED
    BY <2>1, <2>2, <2>3, <2>4, <2>5, <2>6, <2>7 DEF Next
<1> QED
  BY <1>1, <1>2, EpollInvariant, PTL DEF Spec
=============================================================================
