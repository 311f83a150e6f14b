---------------------------- MODULE SenderProofs ----------------------------
(***************************************************************************)
(* Proofs about the sender's lists, for any number of streams and peers,   *)
(* any amount of data and any windows.                                     *)
(***************************************************************************)
EXTENDS Sender, FiniteSetTheorems, TLAPS
-----------------------------------------------------------------------------
(* The lists as sequences: TAILQ_INSERT_TAIL, TAILQ_REMOVE, and the head put
   at the tail keep a list without repetitions that holds exactly the flags. *)

(* TAILQ_INSERT_TAIL of a stream without the flag (addto_..._list). *)
LEMMA AppendHolds ==
    ASSUME NEW S, NEW list \in Seq(S), NEW n, NEW flags, NEW s \in S,
           Holds(list, n, flags), s \notin flags
    PROVE  /\ Append(list, s) \in Seq(S)
           /\ Holds(Append(list, s), n + 1, flags \cup {s})
<1> DEFINE new == Append(list, s)
<1>1. new \in Seq(S)
  OBVIOUS
<1>2. /\ Len(list) \in Nat
      /\ Len(new) = Len(list) + 1
      /\ \A i \in 1..Len(list) : new[i] = list[i]
      /\ new[Len(list) + 1] = s
  OBVIOUS
<1> HIDE DEF new
<1>3. \A i \in 1..Len(new) : new[i] \in flags \cup {s}
  BY <1>2 DEF Holds
<1>4. \A t \in flags \cup {s} : \E i \in 1..Len(new) : new[i] = t
  <2> SUFFICES ASSUME NEW t \in flags \cup {s}
               PROVE  \E i \in 1..Len(new) : new[i] = t
    OBVIOUS
  <2>1. CASE t = s
    <3>1. Len(list) + 1 \in 1..Len(new)
      BY <1>2
    <3> QED
      BY <1>2, <2>1, <3>1
  <2>2. CASE t \in flags
    <3>1. PICK i \in 1..Len(list) : list[i] = t
      BY <2>2 DEF Holds
    <3>2. i \in 1..Len(new) /\ new[i] = t
      BY <1>2, <3>1
    <3> QED
      BY <3>2
  <2> QED
    BY <2>1, <2>2
<1>5. \A i, j \in 1..Len(new) : new[i] = new[j] => i = j
  BY <1>2 DEF Holds
<1>6. n + 1 = Len(new)
  BY <1>2 DEF Holds
<1> QED
  BY <1>1, <1>3, <1>4, <1>5, <1>6 DEF Holds, new

(* TAILQ_REMOVE of a stream with the flag. *)
LEMMA TakeOutHolds ==
    ASSUME NEW S, NEW list \in Seq(S), NEW n, NEW flags, NEW s \in flags,
           Holds(list, n, flags)
    PROVE  /\ TakeOut(list, s) \in Seq(S)
           /\ Holds(TakeOut(list, s), n - 1, flags \ {s})
           /\ n \in Nat \ {0}
<1> DEFINE p == CHOOSE i \in 1..Len(list) : list[i] = s
           new == TakeOut(list, s)
<1>1. p \in 1..Len(list) /\ list[p] = s
  BY DEF Holds
<1>2. Len(list) \in Nat /\ Len(list) > 0
  BY <1>1
<1>3. new = [i \in 1..(Len(list) - 1) |-> IF i < p THEN list[i] ELSE list[i + 1]]
  BY DEF TakeOut
<1> HIDE DEF p, new
<1>4. \A i \in 1..Len(list) : list[i] \in S
  OBVIOUS
<1>5. new \in [1..(Len(list) - 1) -> S]
  BY <1>1, <1>2, <1>3, <1>4
<1>6. new \in Seq(S) /\ Len(new) = Len(list) - 1
  BY <1>2, <1>5
<1>7. \A i \in 1..Len(new) : new[i] = IF i < p THEN list[i] ELSE list[i + 1]
  BY <1>3, <1>6
<1>8. \A i \in 1..Len(new) : new[i] \in flags \ {s}
  BY <1>1, <1>2, <1>6, <1>7 DEF Holds
<1>9. \A t \in flags \ {s} : \E i \in 1..Len(new) : new[i] = t
  <2> SUFFICES ASSUME NEW t \in flags, t # s
               PROVE  \E i \in 1..Len(new) : new[i] = t
    OBVIOUS
  <2>1. PICK i \in 1..Len(list) : list[i] = t
    BY DEF Holds
  <2>2. i # p
    BY <1>1, <2>1
  <2>3. CASE i < p
    <3>1. i \in 1..Len(new) /\ new[i] = t
      BY <1>1, <1>2, <1>6, <1>7, <2>1, <2>3
    <3> QED
      BY <3>1
  <2>4. CASE i > p
    <3>1. i - 1 \in 1..Len(new) /\ new[i - 1] = t
      BY <1>1, <1>2, <1>6, <1>7, <2>1, <2>4
    <3> QED
      BY <3>1
  <2> QED
    BY <1>1, <2>2, <2>3, <2>4
<1>10. \A i, j \in 1..Len(new) : new[i] = new[j] => i = j
  BY <1>1, <1>2, <1>6, <1>7 DEF Holds
<1>11. n - 1 = Len(new) /\ n \in Nat \ {0}
  BY <1>2, <1>6 DEF Holds
<1> QED
  BY <1>6, <1>8, <1>9, <1>10, <1>11 DEF Holds, new

(* The head put at the tail (write_datalist, ret < 0). *)
LEMMA RotateHolds ==
    ASSUME NEW S, NEW list \in Seq(S), NEW n, NEW flags,
           Holds(list, n, flags), Len(list) > 0
    PROVE  /\ Append(Tail(list), Head(list)) \in Seq(S)
           /\ Holds(Append(Tail(list), Head(list)), n, flags)
<1> DEFINE new == Append(Tail(list), Head(list))
<1>1. Len(list) \in Nat /\ Head(list) = list[1] /\ list[1] \in S /\ Tail(list) \in Seq(S)
  OBVIOUS
<1>2. new \in Seq(S)
  BY <1>1
<1>3. /\ Len(new) = Len(list)
      /\ \A i \in 1..(Len(list) - 1) : new[i] = list[i + 1]
      /\ new[Len(list)] = list[1]
  BY <1>1
<1> HIDE DEF new
<1>4. \A i \in 1..Len(new) : new[i] \in flags
  BY <1>1, <1>3 DEF Holds
<1>5. \A t \in flags : \E i \in 1..Len(new) : new[i] = t
  <2> SUFFICES ASSUME NEW t \in flags
               PROVE  \E i \in 1..Len(new) : new[i] = t
    OBVIOUS
  <2>1. PICK i \in 1..Len(list) : list[i] = t
    BY DEF Holds
  <2>2. CASE i = 1
    <3>1. Len(list) \in 1..Len(new) /\ new[Len(list)] = t
      BY <1>1, <1>3, <2>1, <2>2
    <3> QED
      BY <3>1
  <2>3. CASE i # 1
    <3>1. i - 1 \in 1..Len(new) /\ new[i - 1] = t
      BY <1>1, <1>3, <2>1, <2>3
    <3> QED
      BY <3>1
  <2> QED
    BY <2>2, <2>3
<1>6. \A i, j \in 1..Len(new) : new[i] = new[j] => i = j
  BY <1>1, <1>3 DEF Holds
<1> QED
  BY <1>2, <1>3, <1>4, <1>5, <1>6 DEF Holds, new
-----------------------------------------------------------------------------
(* The sender's record. *)

(* Add: the flag is set, the other lists stay, no counter falls. *)
LEMMA AddTrue ==
    ASSUME NEW q \in SenderType, ListsTrue(q), NEW l \in Lists, NEW s \in Stream
    PROVE  /\ Add(q, l, s) \in SenderType
           /\ ListsTrue(Add(q, l, s))
           /\ \A m \in Lists : /\ Add(q, l, s).on[m] = (IF m = l THEN q.on[m] \cup {s} ELSE q.on[m])
                               /\ Add(q, l, s).cnt[m] >= q.cnt[m]
                               /\ m # l => Add(q, l, s).list[m] = q.list[m]
<1>0. /\ q.list \in [Lists -> Seq(Stream)] /\ q.cnt \in [Lists -> Nat]
      /\ q.on \in [Lists -> SUBSET Stream]
      /\ \A m \in Lists : Holds(q.list[m], q.cnt[m], q.on[m])
  BY DEF SenderType, ListsTrue
<1>1. CASE s \in q.on[l]
  <2>1. Add(q, l, s) = q
    BY <1>1 DEF Add
  <2>2. \A m \in Lists : q.cnt[m] \in Nat
    BY <1>0
  <2>3. \A m \in Lists : m = l => q.on[m] \cup {s} = q.on[m]
    BY <1>1
  <2>4. \A m \in Lists : q.cnt[m] >= q.cnt[m]
    BY <2>2
  <2> QED
    BY <2>1, <2>3, <2>4
<1>2. CASE s \notin q.on[l]
  <2> DEFINE r == Add(q, l, s)
  <2>1. /\ Append(q.list[l], s) \in Seq(Stream)
        /\ Holds(Append(q.list[l], s), q.cnt[l] + 1, q.on[l] \cup {s})
    BY <1>0, <1>2, AppendHolds
  <2>2. r = [list |-> [q.list EXCEPT ![l] = Append(@, s)],
             cnt |-> [q.cnt EXCEPT ![l] = @ + 1],
             on |-> [q.on EXCEPT ![l] = @ \cup {s}]]
    BY <1>2 DEF Add
  <2> HIDE DEF r
  <2>3. /\ r.list = [q.list EXCEPT ![l] = Append(@, s)]
        /\ r.cnt = [q.cnt EXCEPT ![l] = @ + 1]
        /\ r.on = [q.on EXCEPT ![l] = @ \cup {s}]
    BY <2>2
  <2>4. r.list \in [Lists -> Seq(Stream)]
    BY <1>0, <2>1, <2>3
  <2>5. r.cnt \in [Lists -> Nat]
    BY <1>0, <2>3
  <2>6. r.on \in [Lists -> SUBSET Stream]
    BY <1>0, <2>3
  <2>7. r \in SenderType
    BY <2>2, <2>3, <2>4, <2>5, <2>6 DEF SenderType
  <2>8. ASSUME NEW m \in Lists
        PROVE  /\ Holds(r.list[m], r.cnt[m], r.on[m])
               /\ r.on[m] = IF m = l THEN q.on[m] \cup {s} ELSE q.on[m]
               /\ r.cnt[m] >= q.cnt[m]
               /\ m # l => r.list[m] = q.list[m]
    <3>1. CASE m = l
      BY <1>0, <2>1, <2>3, <3>1
    <3>2. CASE m # l
      BY <1>0, <2>3, <3>2
    <3> QED
      BY <3>1, <3>2
  <2> QED
    BY <2>7, <2>8 DEF ListsTrue, r
<1> QED
  BY <1>1, <1>2

(* Add loses no flag, sets one of the stream's own, and lowers no counter. *)
LEMMA AddGrows ==
    ASSUME NEW q \in SenderType, ListsTrue(q), NEW l \in Lists, NEW s \in Stream, NEW r,
           r = Add(q, l, s)
    PROVE  /\ r \in SenderType /\ ListsTrue(r)
           /\ \A m \in Lists : q.on[m] \subseteq r.on[m] /\ r.cnt[m] >= q.cnt[m]
           /\ \A m \in Lists : r.on[m] \subseteq q.on[m] \cup {s}
           /\ s \in r.on[l]
<1>1. /\ Add(q, l, s) \in SenderType
      /\ ListsTrue(Add(q, l, s))
      /\ \A m \in Lists : /\ Add(q, l, s).on[m] = (IF m = l THEN q.on[m] \cup {s} ELSE q.on[m])
                          /\ Add(q, l, s).cnt[m] >= q.cnt[m]
                          /\ m # l => Add(q, l, s).list[m] = q.list[m]
  BY AddTrue
<1>2. /\ r \in SenderType
      /\ ListsTrue(r)
      /\ \A m \in Lists : /\ r.on[m] = (IF m = l THEN q.on[m] \cup {s} ELSE q.on[m])
                          /\ r.cnt[m] >= q.cnt[m]
  BY <1>1, Zenon
<1>3. \A m \in Lists : q.on[m] \subseteq r.on[m] /\ r.on[m] \subseteq q.on[m] \cup {s}
  BY <1>2
<1>4. s \in r.on[l]
  BY <1>2
<1> QED
  BY <1>2, <1>3, <1>4

(* Remove: the flag is cleared, the other lists stay, and the counter falls by
   one if the stream was on the list. *)
LEMMA RemoveTrue ==
    ASSUME NEW q \in SenderType, ListsTrue(q), NEW l \in Lists, NEW s \in Stream
    PROVE  /\ Remove(q, l, s) \in SenderType
           /\ ListsTrue(Remove(q, l, s))
           /\ \A m \in Lists : /\ Remove(q, l, s).on[m] = (IF m = l THEN q.on[m] \ {s} ELSE q.on[m])
                               /\ m # l => Remove(q, l, s).cnt[m] = q.cnt[m]
                               /\ Remove(q, l, s).cnt[m] >= q.cnt[m] - 1
           /\ s \notin q.on[l] => Remove(q, l, s) = q
<1>0. /\ q.list \in [Lists -> Seq(Stream)] /\ q.cnt \in [Lists -> Nat]
      /\ q.on \in [Lists -> SUBSET Stream]
      /\ \A m \in Lists : Holds(q.list[m], q.cnt[m], q.on[m])
  BY DEF SenderType, ListsTrue
<1>1. CASE s \notin q.on[l]
  <2>1. Remove(q, l, s) = q
    BY <1>1 DEF Remove
  <2>2. \A m \in Lists : q.cnt[m] \in Nat
    BY <1>0
  <2>3. \A m \in Lists : m = l => q.on[m] \ {s} = q.on[m]
    BY <1>1
  <2>4. \A m \in Lists : q.cnt[m] >= q.cnt[m] - 1
    BY <2>2
  <2> QED
    BY <2>1, <2>3, <2>4
<1>2. CASE s \in q.on[l]
  <2> DEFINE r == Remove(q, l, s)
  <2>1. /\ TakeOut(q.list[l], s) \in Seq(Stream)
        /\ Holds(TakeOut(q.list[l], s), q.cnt[l] - 1, q.on[l] \ {s})
        /\ q.cnt[l] \in Nat \ {0}
    <3> DEFINE list == q.list[l]
               n == q.cnt[l]
               flags == q.on[l]
    <3>1. list \in Seq(Stream) /\ Holds(list, n, flags)
      BY <1>0
    <3>2. s \in flags
      BY <1>2
    <3> HIDE DEF list, n, flags
    <3>3. /\ TakeOut(list, s) \in Seq(Stream)
          /\ Holds(TakeOut(list, s), n - 1, flags \ {s})
          /\ n \in Nat \ {0}
      BY <3>1, <3>2, TakeOutHolds
    <3> QED
      BY <3>3 DEF list, n, flags
  <2>2. r = [list |-> [q.list EXCEPT ![l] = TakeOut(@, s)],
             cnt |-> [q.cnt EXCEPT ![l] = @ - 1],
             on |-> [q.on EXCEPT ![l] = @ \ {s}]]
    BY <1>2 DEF Remove
  <2> HIDE DEF r
  <2>3. /\ r.list = [q.list EXCEPT ![l] = TakeOut(@, s)]
        /\ r.cnt = [q.cnt EXCEPT ![l] = @ - 1]
        /\ r.on = [q.on EXCEPT ![l] = @ \ {s}]
    BY <2>2
  <2>4. r.list \in [Lists -> Seq(Stream)]
    BY <1>0, <2>1, <2>3
  <2>5. r.cnt \in [Lists -> Nat]
    BY <1>0, <2>1, <2>3
  <2>6. r.on \in [Lists -> SUBSET Stream]
    BY <1>0, <2>3
  <2>7. r \in SenderType
    BY <2>2, <2>3, <2>4, <2>5, <2>6 DEF SenderType
  <2>8. ASSUME NEW m \in Lists
        PROVE  /\ Holds(r.list[m], r.cnt[m], r.on[m])
               /\ r.on[m] = IF m = l THEN q.on[m] \ {s} ELSE q.on[m]
               /\ m # l => r.cnt[m] = q.cnt[m]
               /\ r.cnt[m] >= q.cnt[m] - 1
    <3>1. CASE m = l
      BY <1>0, <2>1, <2>3, <3>1
    <3>2. CASE m # l
      BY <1>0, <2>3, <3>2
    <3> QED
      BY <3>1, <3>2
  <2> QED
    BY <1>2, <2>7, <2>8 DEF ListsTrue, r
<1> QED
  BY <1>1, <1>2

(* RemoveAll: the stream is on no list, and no counter falls by more than one. *)
LEMMA RemoveAllTrue ==
    ASSUME NEW q \in SenderType, ListsTrue(q), NEW s \in Stream
    PROVE  /\ RemoveAll(q, s) \in SenderType
           /\ ListsTrue(RemoveAll(q, s))
           /\ \A m \in Lists : /\ RemoveAll(q, s).on[m] = q.on[m] \ {s}
                               /\ RemoveAll(q, s).cnt[m] >= q.cnt[m] - 1
<1> DEFINE a == Remove(q, "control", s)
           b == Remove(a, "send", s)
           c == Remove(b, "ack", s)
<1>0. Lists = {"control", "send", "ack"}
  BY DEF Lists
<1>1. RemoveAll(q, s) = c
  BY DEF RemoveAll
<1>2. /\ a \in SenderType /\ ListsTrue(a)
      /\ \A m \in Lists : /\ a.on[m] = (IF m = "control" THEN q.on[m] \ {s} ELSE q.on[m])
                          /\ m # "control" => a.cnt[m] = q.cnt[m]
                          /\ a.cnt[m] >= q.cnt[m] - 1
  BY <1>0, RemoveTrue
<1> HIDE DEF a
<1>3. /\ b \in SenderType /\ ListsTrue(b)
      /\ \A m \in Lists : /\ b.on[m] = (IF m = "send" THEN a.on[m] \ {s} ELSE a.on[m])
                          /\ m # "send" => b.cnt[m] = a.cnt[m]
                          /\ b.cnt[m] >= a.cnt[m] - 1
  BY <1>0, <1>2, RemoveTrue
<1> HIDE DEF b
<1>4. /\ c \in SenderType /\ ListsTrue(c)
      /\ \A m \in Lists : /\ c.on[m] = (IF m = "ack" THEN b.on[m] \ {s} ELSE b.on[m])
                          /\ m # "ack" => c.cnt[m] = b.cnt[m]
                          /\ c.cnt[m] >= b.cnt[m] - 1
  BY <1>0, <1>3, RemoveTrue
<1> HIDE DEF c
<1>5. ASSUME NEW m \in Lists
      PROVE  c.on[m] = q.on[m] \ {s} /\ c.cnt[m] >= q.cnt[m] - 1
  <2>1. CASE m = "control"
    BY <1>2, <1>3, <1>4, <2>1
  <2>2. CASE m = "send"
    BY <1>2, <1>3, <1>4, <2>2
  <2>3. CASE m = "ack"
    BY <1>2, <1>3, <1>4, <2>3
  <2> QED
    BY <1>0, <2>1, <2>2, <2>3
<1> QED
  BY <1>1, <1>4, <1>5

(* PutBack of a nonempty send list. *)
LEMMA PutBackTrue ==
    ASSUME NEW q \in SenderType, ListsTrue(q), NEW s, Len(q.list["send"]) > 0,
           s = Head(q.list["send"])
    PROVE  /\ PutBack(q, s) \in SenderType
           /\ ListsTrue(PutBack(q, s))
           /\ PutBack(q, s).on = q.on
<1> DEFINE r == PutBack(q, s)
<1>0. /\ q.list \in [Lists -> Seq(Stream)] /\ q.cnt \in [Lists -> Nat]
      /\ q.on \in [Lists -> SUBSET Stream] /\ "send" \in Lists
      /\ \A m \in Lists : Holds(q.list[m], q.cnt[m], q.on[m])
  BY DEF SenderType, ListsTrue, Lists
<1>1. /\ Append(Tail(q.list["send"]), s) \in Seq(Stream)
      /\ Holds(Append(Tail(q.list["send"]), s), q.cnt["send"], q.on["send"])
  <2>1. /\ q.list["send"] \in Seq(Stream)
        /\ Holds(q.list["send"], q.cnt["send"], q.on["send"])
    BY <1>0
  <2> QED
    BY <2>1, RotateHolds
<1>2. r = [list |-> [q.list EXCEPT !["send"] = Append(Tail(@), s)], cnt |-> q.cnt,
           on |-> q.on]
  BY DEF PutBack
<1> HIDE DEF r
<1>3. /\ r.list = [q.list EXCEPT !["send"] = Append(Tail(@), s)]
      /\ r.cnt = q.cnt /\ r.on = q.on
  BY <1>2
<1>4. r.list \in [Lists -> Seq(Stream)]
  BY <1>0, <1>1, <1>3
<1>5. r \in SenderType
  BY <1>0, <1>2, <1>3, <1>4 DEF SenderType
<1>6. ASSUME NEW m \in Lists
      PROVE  Holds(r.list[m], r.cnt[m], r.on[m])
  <2>1. CASE m = "send"
    BY <1>0, <1>1, <1>3, <2>1
  <2>2. CASE m # "send"
    BY <1>0, <1>3, <2>2
  <2> QED
    BY <2>1, <2>2
<1> QED
  BY <1>3, <1>5, <1>6 DEF ListsTrue, r
-----------------------------------------------------------------------------
(* The way out. *)

(* Building a packet, or none, keeps what is known and asked. *)
LEMMA SegmentKeepsArp ==
    ASSUME ArpInv, NEW s \in Stream, UNCHANGED asked,
           SegmentTo(s) \/ UNCHANGED <<arp, snd_pkt>>
    PROVE  ArpInv'
<1> USE SenderAssumption
<1>0. /\ daddr[s] \in Addr /\ "other" \notin Addr
      /\ arp.table \in SUBSET Addr /\ arp.pending \in SUBSET Addr
  BY DEF SenderAssumption, ArpInv, ArpType
<1>1. CASE UNCHANGED <<arp, snd_pkt>>
  BY <1>1 DEF ArpInv, ArpType, RequestInv, AskedNotForgotten
<1>2. CASE snd_pkt' = "other" /\ UNCHANGED arp
  BY <1>0, <1>2 DEF ArpInv, ArpType, RequestInv, AskedNotForgotten
<1>3. CASE /\ arp' = [arp EXCEPT !.pending = @ \cup {daddr[s]}]
           /\ snd_pkt' = daddr[s]
  <2>1. /\ arp' = [table |-> arp.table, pending |-> arp.pending \cup {daddr[s]}]
    BY <1>3 DEF ArpInv, ArpType
  <2>2. arp'.table = arp.table /\ arp'.pending = arp.pending \cup {daddr[s]}
    BY <2>1
  <2> QED
    BY <1>0, <1>3, <2>1, <2>2 DEF ArpInv, ArpType, RequestInv, AskedNotForgotten
<1> QED
  BY <1>1, <1>2, <1>3 DEF SegmentTo

(* The window lets out no more than the buffer holds and, with what is in
   flight, no more than w. *)
LEMMA SendableBounds ==
    ASSUME NumberType, NEW s \in Stream, NEW w \in Nat
    PROVE  /\ Sendable(s, w) \in Nat
           /\ snd_nxt[s] + Sendable(s, w) <= snd_end[s]
           /\ Sendable(s, w) > 0 => InFlight(s) + Sendable(s, w) <= w
<1>0. /\ snd_una[s] \in Nat /\ snd_nxt[s] \in Nat /\ snd_end[s] \in Nat
      /\ snd_una[s] <= snd_nxt[s] /\ snd_nxt[s] <= snd_end[s]
  BY DEF NumberType
<1> DEFINE f == InFlight(s)
           room == snd_end[s] - snd_nxt[s]
           K == {k \in 1..MinOf(room, w) : \A i \in 1..k : f + i <= w - (i - 1)}
<1>1. f \in Nat /\ room \in Nat
  BY <1>0 DEF InFlight
<1>2. Sendable(s, w) = Cardinality(K)
  BY DEF Sendable
<1> HIDE DEF f, room
<1>3. K \subseteq 1..room
  BY <1>1 DEF MinOf
<1>4. K \subseteq 1..(w - f)
  <2> SUFFICES ASSUME NEW k \in K
               PROVE  k \in 1..(w - f)
    OBVIOUS
  <2>1. k \in Nat /\ k >= 1
    BY <1>1 DEF MinOf
  <2>2. k \in 1..k
    BY <2>1
  <2>3. f + k <= w - (k - 1)
    BY <2>2
  <2> QED
    BY <1>1, <2>1, <2>3
<1> HIDE DEF K
<1>5. Cardinality(K) \in Nat /\ Cardinality(K) <= room
  <2>1. IsFiniteSet(1..room) /\ Cardinality(1..room) = room
    <3>1. room \in Int /\ 1 \in Int
      BY <1>1
    <3>2. Cardinality(1..room) = IF 1 > room THEN 0 ELSE room - 1 + 1
      BY <3>1, FS_Interval
    <3> QED
      BY <1>1, <3>1, <3>2, FS_Interval
  <2>2. IsFiniteSet(K) /\ Cardinality(K) <= Cardinality(1..room)
    BY <1>3, <2>1, FS_Subset
  <2> QED
    BY <2>1, <2>2, FS_CardinalityType
<1>6. Cardinality(K) > 0 => f + Cardinality(K) <= w
  <2> SUFFICES ASSUME Cardinality(K) > 0
               PROVE  f + Cardinality(K) <= w
    OBVIOUS
  <2>1. IsFiniteSet(1..(w - f))
    <3>1. w - f \in Int /\ 1 \in Int
      BY <1>1
    <3> QED
      BY <3>1, FS_Interval
  <2>2. Cardinality(K) <= Cardinality(1..(w - f))
    BY <1>4, <2>1, FS_Subset
  <2>3. Cardinality(1..(w - f)) = IF 1 > w - f THEN 0 ELSE (w - f) - 1 + 1
    <3>1. w - f \in Int /\ 1 \in Int
      BY <1>1
    <3> QED
      BY <3>1, FS_Interval
  <2> QED
    BY <1>1, <1>5, <2>2, <2>3
<1>7. Sendable(s, w) \in Nat /\ Sendable(s, w) <= room
  BY <1>2, <1>5
<1>8. snd_nxt[s] + Sendable(s, w) <= snd_end[s]
  BY <1>0, <1>7 DEF room
<1>9. Sendable(s, w) > 0 => InFlight(s) + Sendable(s, w) <= w
  BY <1>2, <1>6 DEF f
<1> QED
  BY <1>7, <1>8, <1>9

(* A flush moves snd_nxt of one stream, within its buffer and the window. *)
LEMMA FlushKeepsNumbers ==
    ASSUME NumberType, ArpInv, NEW s \in Stream, NEW cwnd \in 1..(MaxWnd + 1),
           Flush(s, MinOf(cwnd, peer_wnd[s])), UNCHANGED asked
    PROVE  /\ NumberType' /\ ArpInv'
           /\ Sent(s, MinOf(cwnd, peer_wnd[s])) \in Nat
           /\ \A t \in Stream : snd_nxt'[t] > snd_nxt[t]
                                  => snd_nxt'[t] - snd_una[t] <= peer_wnd[t]
<1> DEFINE w == MinOf(cwnd, peer_wnd[s])
           k == Sent(s, w)
<1>0. /\ snd_una[s] \in Nat /\ snd_nxt[s] \in Nat /\ snd_end[s] \in Nat
      /\ snd_una[s] <= snd_nxt[s] /\ snd_nxt[s] <= snd_end[s]
      /\ peer_wnd[s] \in Nat /\ MaxWnd \in Nat
  BY SenderAssumption DEF NumberType, SenderAssumption
<1>1. w \in Nat /\ w <= peer_wnd[s]
  BY <1>0 DEF MinOf
<1>2. /\ snd_nxt' = [snd_nxt EXCEPT ![s] = @ + k]
      /\ UNCHANGED <<snd_una, snd_end, peer_wnd, flight>>
      /\ SegmentTo(s) \/ UNCHANGED <<arp, snd_pkt>>
  BY DEF Flush
<1> HIDE DEF w
<1>3. /\ k \in Nat /\ snd_nxt[s] + k <= snd_end[s]
      /\ k > 0 => InFlight(s) + k <= w
  BY <1>0, <1>1, SendableBounds DEF Sent
<1> HIDE DEF k
<1>4. NumberType'
  <2>1. snd_nxt' \in [Stream -> Nat]
    BY <1>0, <1>2, <1>3 DEF NumberType
  <2>2. ASSUME NEW t \in Stream
        PROVE  /\ snd_una'[t] <= snd_nxt'[t] /\ snd_nxt'[t] <= snd_end'[t]
               /\ snd_end'[t] <= Bytes[t]
    <3>1. CASE t = s
      BY <1>0, <1>2, <1>3, <3>1 DEF NumberType
    <3>2. CASE t # s
      BY <1>2, <3>2 DEF NumberType
    <3> QED
      BY <3>1, <3>2
  <2> QED
    BY <1>2, <2>1, <2>2 DEF NumberType
<1>5. ASSUME NEW t \in Stream, snd_nxt'[t] > snd_nxt[t]
      PROVE  snd_nxt'[t] - snd_una[t] <= peer_wnd[t]
  <2>0. snd_nxt[t] \in Nat
    BY DEF NumberType
  <2>1. CASE t = s
    <3>1. snd_nxt'[s] = snd_nxt[s] + k
      BY <1>2 DEF NumberType
    <3>2. k > 0
      BY <1>0, <1>3, <1>5, <2>1, <3>1
    <3> QED
      BY <1>0, <1>1, <1>3, <2>1, <3>1, <3>2 DEF InFlight
  <2>2. CASE t # s
    BY <1>2, <1>5, <2>0, <2>2 DEF NumberType
  <2> QED
    BY <2>1, <2>2
<1>6. ArpInv'
  BY <1>2, SegmentKeepsArp
<1> QED
  BY <1>3, <1>4, <1>5, <1>6 DEF k, w
-----------------------------------------------------------------------------
(* The invariant. *)

(* The list a pass works on is not empty, and its next stream has the flag. *)
LEMMA NextOfPass ==
    ASSUME ListInv, NEW l \in Lists, round.todo > 0, round.todo <= sender.cnt[l]
    PROVE  /\ Len(sender.list[l]) > 0
           /\ Head(sender.list[l]) \in Stream /\ Head(sender.list[l]) \in On(l)
           /\ l = "ack" => AckNext \in Stream /\ AckNext \in On("ack")
           /\ sender.cnt[l] \in Nat /\ round.todo \in Nat
<1>0. /\ sender.list[l] \in Seq(Stream) /\ sender.on[l] \in SUBSET Stream
      /\ sender.cnt[l] \in Nat /\ round.todo \in Nat
  BY DEF ListInv, ListType, SenderType
<1>1. Holds(sender.list[l], sender.cnt[l], sender.on[l])
  BY DEF ListInv, ListsMatchFlags, ListsTrue
<1>2. \A i \in 1..Len(sender.list[l]) : sender.list[l][i] \in On(l)
  BY <1>1 DEF Holds, On
<1>3. /\ Len(sender.list[l]) \in Nat /\ Len(sender.list[l]) > 0
      /\ round.todo <= Len(sender.list[l])
  BY <1>0, <1>1 DEF Holds
<1>4. Head(sender.list[l]) = sender.list[l][1]
  BY <1>0, <1>3
<1>5. Head(sender.list[l]) \in On(l)
  BY <1>2, <1>3, <1>4
<1>6. Len(sender.list[l]) - round.todo + 1 \in 1..Len(sender.list[l])
  BY <1>0, <1>3
<1>7. l = "ack" => AckNext \in On("ack")
  BY <1>2, <1>6 DEF AckNext
<1> QED
  BY <1>0, <1>3, <1>5, <1>7 DEF On

(* StopWaiting: only the control list may grow, and a stream that still waits
   has the other list to wait for. *)
LEMMA StopWaitingTrue ==
    ASSUME NEW q \in SenderType, ListsTrue(q), NEW s \in Stream, NEW other \in Lists,
           control_list_waiting \in [Stream -> BOOLEAN], StopWaiting(q, s, other)
    PROVE  /\ sender' \in SenderType /\ ListsTrue(sender')
           /\ \A l \in Lists : q.on[l] \subseteq sender'.on[l] /\ sender'.cnt[l] >= q.cnt[l]
           /\ \A l \in Lists : sender'.on[l] \subseteq q.on[l] \cup {s}
           /\ control_list_waiting' \in [Stream -> BOOLEAN]
           /\ \A t \in Stream : control_list_waiting'[t] => control_list_waiting[t]
           /\ control_list_waiting'[s] => s \in q.on[other]
<1> DEFINE yes == StopsWaiting(q, s, other)
<1>1. /\ sender' = IF yes THEN Add(q, "control", s) ELSE q
      /\ control_list_waiting' = [control_list_waiting EXCEPT ![s] = @ /\ ~yes]
  BY DEF StopWaiting
<1>2. yes <=> control_list_waiting[s] /\ s \notin q.on[other]
  BY DEF StopsWaiting
<1> HIDE DEF yes
<1>3. control_list_waiting' \in [Stream -> BOOLEAN]
  BY <1>1
<1>4. \A t \in Stream : control_list_waiting'[t] => control_list_waiting[t]
  BY <1>1
<1>5. control_list_waiting'[s] => s \in q.on[other]
  BY <1>1, <1>2
<1>6. /\ sender' \in SenderType /\ ListsTrue(sender')
      /\ \A l \in Lists : q.on[l] \subseteq sender'.on[l] /\ sender'.cnt[l] >= q.cnt[l]
      /\ \A l \in Lists : sender'.on[l] \subseteq q.on[l] \cup {s}
  <2>1. CASE yes
    <3>1. "control" \in Lists /\ sender' = Add(q, "control", s)
      BY <1>1, <2>1 DEF Lists
    <3> QED
      BY <3>1, AddGrows
  <2>2. CASE ~yes
    <3>1. sender' = q /\ \A l \in Lists : q.cnt[l] \in Nat
      BY <1>1, <2>2 DEF SenderType
    <3> QED
      BY <3>1
  <2> QED
    BY <2>1, <2>2
<1> QED
  BY <1>3, <1>4, <1>5, <1>6

(* The start of a pass over a list, from any other position. *)
LEMMA PassStarts ==
    ASSUME ListInv, NEW place \in {"control", "ack", "data"}, NEW l \in Lists,
           <<place, l>> \in {<<"control", "control">>, <<"ack", "ack">>, <<"data", "send">>},
           Pass(place, sender.cnt[l]), UNCHANGED sender
    PROVE  /\ PassInv'
           /\ round' \in [pc : {"calls", "control", "ack", "data", "packet"}, todo : Nat]
<1>1. sender.cnt[l] \in Nat
  BY DEF ListInv, ListType, SenderType
<1>2. round' = [pc |-> place, todo |-> sender.cnt[l]] /\ sender' = sender
  BY DEF Pass
<1>3. round'.pc = place /\ round'.todo = sender.cnt[l]
  BY <1>2
<1>4. (place = "control" /\ l = "control") \/ (place = "ack" /\ l = "ack")
        \/ (place = "data" /\ l = "send")
  OBVIOUS
<1> QED
  BY <1>1, <1>2, <1>3, <1>4 DEF PassInv, At

(* A stream put on a list by a timer, a queue or a packet. *)
LEMMA AddKeeps ==
    ASSUME ListInv, NEW l \in Lists, NEW s \in Stream, sender' = Add(sender, l, s),
           UNCHANGED control_list_waiting
    PROVE  /\ sender' \in SenderType /\ ListsMatchFlags'
           /\ FinAwaited'
           /\ \A m \in Lists : On(m) \subseteq On(m)' /\ On(m)' \subseteq On(m) \cup {s}
           /\ s \in On(l)'
<1>1. sender \in SenderType /\ ListsTrue(sender)
  BY DEF ListInv, ListType, ListsMatchFlags
<1>2. /\ sender' \in SenderType /\ ListsTrue(sender')
      /\ \A m \in Lists : /\ sender.on[m] \subseteq sender'.on[m]
                          /\ sender'.on[m] \subseteq sender.on[m] \cup {s}
      /\ s \in sender'.on[l]
  BY <1>1, AddGrows
<1>4. \A m \in Lists : On(m) \subseteq On(m)' /\ On(m)' \subseteq On(m) \cup {s}
  BY <1>2 DEF On
<1>5. s \in On(l)'
  BY <1>2 DEF On
<1>6. ListsMatchFlags'
  BY <1>2 DEF ListsMatchFlags
<1>7. FinAwaited'
  <2>1. "send" \in Lists /\ "ack" \in Lists
    BY DEF Lists
  <2>2. On("send") \subseteq On("send")' /\ On("ack") \subseteq On("ack")'
    BY <1>4, <2>1
  <2> QED
    BY <2>2 DEF FinAwaited, ListInv
<1> QED
  BY <1>2, <1>4, <1>5, <1>6, <1>7

(* AcksListed survives when no ACK is added and no ack flag cleared. *)
LEMMA AcksStay ==
    ASSUME ListInv, UNCHANGED <<ack_cnt, is_wack>>, On("ack") \subseteq On("ack")'
    PROVE  AcksListed'
BY DEF ListInv, AcksListed

(* A stream that is not destroyed may be put on lists. *)
LEMMA FreedStay ==
    ASSUME ListInv, NEW s \in Stream, state'[s] # "FREE",
           \A t \in Stream \ {s} : state'[t] = state[t],
           \A m \in Lists : On(m)' \subseteq On(m) \cup {s}
    PROVE  FreedUnlisted'
BY DEF ListInv, FreedUnlisted

(* The destruction of a stream that may be on any list: nothing of it is left. *)
LEMMA DestroyKeeps ==
    ASSUME ListInv, NumberType, NEW s \in Stream, Destroy(sender, s), PassInv',
           round' \in [pc : {"calls", "control", "ack", "data", "packet"}, todo : Nat]
    PROVE  ListInv' /\ NumberType'
<1>1. /\ sender' = RemoveAll(sender, s)
      /\ state' = [state EXCEPT ![s] = "FREE"]
      /\ ack_cnt' = [ack_cnt EXCEPT ![s] = 0]
      /\ is_wack' = [is_wack EXCEPT ![s] = FALSE]
      /\ control_list_waiting' = [control_list_waiting EXCEPT ![s] = FALSE]
  BY DEF Destroy
<1>2. /\ sender' \in SenderType /\ ListsTrue(sender')
      /\ \A m \in Lists : On(m)' = On(m) \ {s}
  BY <1>1, RemoveAllTrue DEF ListInv, ListType, ListsMatchFlags, On
<1>3. /\ state' \in [Stream -> States] /\ ack_cnt' \in [Stream -> Nat]
      /\ is_wack' \in [Stream -> BOOLEAN] /\ control_list_waiting' \in [Stream -> BOOLEAN]
  BY <1>1 DEF ListInv, ListType, States
<1>4. /\ state'[s] = "FREE" /\ ack_cnt'[s] = 0 /\ ~is_wack'[s] /\ ~control_list_waiting'[s]
      /\ \A t \in Stream \ {s} :
           /\ state'[t] = state[t] /\ ack_cnt'[t] = ack_cnt[t] /\ is_wack'[t] = is_wack[t]
           /\ control_list_waiting'[t] = control_list_waiting[t]
  BY <1>1 DEF ListInv, ListType
<1>5. ListType' /\ ListsMatchFlags'
  BY <1>2, <1>3 DEF ListType, ListsMatchFlags
<1>6. FreedUnlisted'
  BY <1>2, <1>4 DEF ListInv, FreedUnlisted
<1>7. AcksListed' /\ FinAwaited'
  <2>1. "ack" \in Lists /\ "send" \in Lists
    BY DEF Lists
  <2>2. On("ack")' = On("ack") \ {s} /\ On("send")' = On("send") \ {s}
    BY <1>2, <2>1
  <2>3. ASSUME NEW t \in Stream
        PROVE  /\ ack_cnt'[t] > 0 \/ is_wack'[t] => t \in On("ack")'
               /\ control_list_waiting'[t] => t \in On("send")' \cup On("ack")'
    <3>1. CASE t = s
      BY <1>4, <3>1
    <3>2. CASE t # s
      BY <1>4, <2>2, <3>2 DEF ListInv, AcksListed, FinAwaited
    <3> QED
      BY <3>1, <3>2
  <2> QED
    BY <2>3 DEF AcksListed, FinAwaited
<1>8. StateInv'
  <2>1. ASSUME NEW t \in Stream
        PROVE  /\ ack_cnt'[t] > 0 \/ is_wack'[t] => state'[t] \in MayAck \cup {"TIME_WAIT"}
               /\ control_list_waiting'[t]
                    => state'[t] \in {"FIN_WAIT_1", "FIN_WAIT_2", "TIME_WAIT"}
    <3>1. CASE t = s
      BY <1>4, <3>1
    <3>2. CASE t # s
      BY <1>4, <3>2 DEF ListInv, StateInv
    <3> QED
      BY <3>1, <3>2
  <2> QED
    BY <2>1 DEF StateInv
<1>9. NumberType'
  <2>1. /\ snd_una' = [snd_una EXCEPT ![s] = 0] /\ snd_nxt' = [snd_nxt EXCEPT ![s] = 0]
        /\ snd_end' = [snd_end EXCEPT ![s] = 0] /\ peer_wnd' = [peer_wnd EXCEPT ![s] = 0]
        /\ flight' = [flight EXCEPT ![s] = "none"]
    BY DEF Destroy
  <2>2. MaxWnd \in Nat /\ \A t \in Stream : Bytes[t] \in Nat
    BY SenderAssumption DEF SenderAssumption
  <2>3. /\ snd_una' \in [Stream -> Nat] /\ snd_nxt' \in [Stream -> Nat]
        /\ snd_end' \in [Stream -> Nat] /\ peer_wnd' \in [Stream -> 0..MaxWnd]
        /\ flight' \in [Stream -> {"none", "out", "late"}]
    BY <2>1, <2>2 DEF NumberType
  <2>4. ASSUME NEW t \in Stream
        PROVE  /\ snd_una'[t] <= snd_nxt'[t] /\ snd_nxt'[t] <= snd_end'[t]
               /\ snd_end'[t] <= Bytes[t]
    <3>1. CASE t = s
      BY <2>1, <2>2, <3>1 DEF NumberType
    <3>2. CASE t # s
      BY <2>1, <3>2 DEF NumberType
    <3> QED
      BY <3>1, <3>2
  <2> QED
    BY <2>3, <2>4 DEF NumberType
<1> QED
  BY <1>5, <1>6, <1>7, <1>8, <1>9 DEF ListInv

(* HandleRTO: the stream leaves the control list at most, for the send list. *)
LEMMA RetransmitLists ==
    ASSUME sender \in SenderType, ListsTrue(sender), NEW s \in Stream,
           sender' = RetransmitTo(s)
    PROVE  /\ sender' \in SenderType /\ ListsTrue(sender')
           /\ On("ack") \subseteq On("ack")' /\ On("send") \subseteq On("send")'
           /\ \A m \in Lists : On(m)' \subseteq On(m) \cup {s}
           /\ FinBehindData(s) => s \in On("send")'
<1>0. "send" \in Lists /\ "ack" \in Lists /\ "control" \in Lists
  BY DEF Lists
<1> DEFINE q == Remove(sender, "control", s)
<1>1. /\ q \in SenderType /\ ListsTrue(q)
      /\ q.on["send"] = sender.on["send"] /\ q.on["ack"] = sender.on["ack"]
      /\ \A m \in Lists : q.on[m] \subseteq sender.on[m]
  <2>1. /\ q \in SenderType /\ ListsTrue(q)
        /\ \A m \in Lists :
             /\ q.on[m] = (IF m = "control" THEN sender.on[m] \ {s} ELSE sender.on[m])
             /\ m # "control" => q.cnt[m] = sender.cnt[m]
             /\ q.cnt[m] >= sender.cnt[m] - 1
    BY <1>0, RemoveTrue
  <2> HIDE DEF q
  <2> QED
    BY <1>0, <2>1
<1>2. FinBehindData(s) => s \notin Open
  BY DEF FinBehindData, Open
<1> HIDE DEF q
<1>3. CASE FinBehindData(s)
  <2>1. sender' = Add(q, "send", s)
    BY <1>2, <1>3 DEF RetransmitTo, q
  <2>2. /\ sender' \in SenderType /\ ListsTrue(sender')
        /\ \A m \in Lists : /\ q.on[m] \subseteq sender'.on[m]
                            /\ sender'.on[m] \subseteq q.on[m] \cup {s}
        /\ s \in sender'.on["send"]
    BY <1>0, <1>1, <2>1, AddGrows
  <2> QED
    BY <1>0, <1>1, <2>2 DEF On
<1>4. CASE ~FinBehindData(s)
  <2>1. sender' = Add(sender, "send", s) \/ sender' = Add(sender, "control", s)
    BY <1>4 DEF RetransmitTo
  <2>2. /\ sender' \in SenderType /\ ListsTrue(sender')
        /\ \A m \in Lists : /\ sender.on[m] \subseteq sender'.on[m]
                            /\ sender'.on[m] \subseteq sender.on[m] \cup {s}
    BY <1>0, <2>1, AddGrows
  <2> QED
    BY <1>0, <1>4, <2>2 DEF On
<1> QED
  BY <1>3, <1>4

(* A packet that moves a stream on, and may put it on the control list. *)
LEMMA StateMoves ==
    ASSUME ListInv, NEW s \in Stream, NEW new \in States \ {"FREE"},
           state' = [state EXCEPT ![s] = new],
           sender' = sender \/ sender' = Add(sender, "control", s),
           UNCHANGED acks,
           state[s] \in MayAck \cup {"TIME_WAIT"} => new \in MayAck \cup {"TIME_WAIT"},
           state[s] \in {"FIN_WAIT_1", "FIN_WAIT_2", "TIME_WAIT"}
             => new \in {"FIN_WAIT_1", "FIN_WAIT_2", "TIME_WAIT"},
           PassInv',
           round' \in [pc : {"calls", "control", "ack", "data", "packet"}, todo : Nat]
    PROVE  ListInv'
<1>1. UNCHANGED <<ack_cnt, is_wack, control_list_waiting>>
  BY DEF acks
<1>2. /\ sender' \in SenderType /\ ListsMatchFlags' /\ FinAwaited'
      /\ \A m \in Lists : On(m) \subseteq On(m)' /\ On(m)' \subseteq On(m) \cup {s}
  <2>1. CASE sender' = sender
    BY <1>1, <2>1 DEF ListInv, ListType, ListsMatchFlags, FinAwaited, On
  <2>2. CASE sender' = Add(sender, "control", s)
    <3>1. "control" \in Lists
      BY DEF Lists
    <3> QED
      BY <1>1, <2>2, <3>1, AddKeeps
  <2> QED
    BY <2>1, <2>2
<1>3. /\ state' \in [Stream -> States] /\ state'[s] = new
      /\ \A t \in Stream \ {s} : state'[t] = state[t]
  BY DEF ListInv, ListType
<1>4. AcksListed'
  <2>1. On("ack") \subseteq On("ack")'
    BY <1>2 DEF Lists
  <2> QED
    BY <1>1, <2>1, AcksStay
<1>5. FreedUnlisted'
  BY <1>2, <1>3, FreedStay
<1>6. StateInv'
  <2>1. ASSUME NEW t \in Stream
        PROVE  /\ ack_cnt'[t] > 0 \/ is_wack'[t] => state'[t] \in MayAck \cup {"TIME_WAIT"}
               /\ control_list_waiting'[t]
                    => state'[t] \in {"FIN_WAIT_1", "FIN_WAIT_2", "TIME_WAIT"}
    <3>1. CASE t = s
      BY <1>1, <1>3, <3>1 DEF ListInv, StateInv
    <3>2. CASE t # s
      BY <1>1, <1>3, <3>2 DEF ListInv, StateInv
    <3> QED
      BY <3>1, <3>2
  <2> QED
    BY <2>1 DEF StateInv
<1>7. ListType'
  BY <1>1, <1>2, <1>3 DEF ListInv, ListType
<1> QED
  BY <1>2, <1>4, <1>5, <1>6, <1>7 DEF ListInv

(* What timers and queues ask for. *)
LEMMA CallsKeep ==
    ASSUME SenderInv, NEW s \in Stream, Calls(s)
    PROVE  SenderInv'
<1> USE DEF vars, data, acks
<1>0. /\ ListInv /\ NumberType /\ ArpInv /\ At("calls")
      /\ "send" \in Lists /\ "ack" \in Lists /\ "control" \in Lists
      /\ state \in [Stream -> States]
  BY DEF SenderInv, ListInv, ListType, Lists, Calls, HandleSendq, HandleAckq, HandleCloseq, HandleCloseqReset,
         Retransmit, GiveUp, CheckConnectionTimeout, CheckTimewaitExpire
<1>1. UNCHANGED <<arp, asked, snd_pkt, round>>
  BY DEF Dies, Calls, HandleSendq, HandleAckq, HandleCloseq, HandleCloseqReset,
         Retransmit, GiveUp, CheckConnectionTimeout, CheckTimewaitExpire
<1>2. ArpInv'
  BY <1>0, <1>1 DEF ArpInv, ArpType, RequestInv, AskedNotForgotten
<1>3. PassInv'
  BY <1>0, <1>1 DEF PassInv, At
<1>4. round' \in [pc : {"calls", "control", "ack", "data", "packet"}, todo : Nat]
  BY <1>0, <1>1 DEF ListInv, ListType
<1>5. CASE HandleSendq(s)
  <2>1. /\ UNCHANGED <<state, acks, snd_una, snd_nxt, peer_wnd, flight>>
        /\ sender' = Add(sender, "send", s)
        /\ snd_end' = [snd_end EXCEPT ![s] = @ + 1] /\ snd_end[s] < Bytes[s]
        /\ state[s] # "FREE"
    BY <1>5 DEF HandleSendq, Open
  <2>2. /\ sender' \in SenderType /\ ListsMatchFlags' /\ FinAwaited'
        /\ \A m \in Lists : On(m) \subseteq On(m)' /\ On(m)' \subseteq On(m) \cup {s}
    BY <1>0, <2>1, AddKeeps
  <2>3. AcksListed' /\ FreedUnlisted'
    BY <1>0, <2>1, <2>2, AcksStay, FreedStay
  <2>4. StateInv' /\ ListType'
    BY <1>0, <1>4, <2>1, <2>2 DEF ListInv, ListType, StateInv
  <2>5. NumberType'
    <3>1. /\ snd_end \in [Stream -> Nat] /\ snd_end[s] \in Nat /\ snd_nxt[s] \in Nat
          /\ Bytes[s] \in Nat /\ snd_nxt[s] <= snd_end[s]
      BY <1>0, SenderAssumption DEF NumberType, SenderAssumption
    <3>2. /\ snd_end' \in [Stream -> Nat] /\ snd_end'[s] = snd_end[s] + 1
          /\ \A t \in Stream : t # s => snd_end'[t] = snd_end[t]
      BY <2>1, <3>1
    <3>3. snd_nxt[s] <= snd_end'[s] /\ snd_end'[s] <= Bytes[s]
      BY <2>1, <3>1, <3>2
    <3> QED
      BY <1>0, <2>1, <3>2, <3>3 DEF NumberType
  <2> QED
    BY <1>2, <1>3, <2>2, <2>3, <2>4, <2>5 DEF SenderInv, ListInv
<1>6. CASE HandleAckq(s)
  <2>1. /\ UNCHANGED <<state, is_wack, control_list_waiting, data>>
        /\ state[s] \in {"ESTABLISHED", "CLOSE_WAIT"}
        /\ ack_cnt' = [ack_cnt EXCEPT ![s] = IF @ = 0 THEN 1 ELSE @]
        /\ sender' = Add(sender, "ack", s)
    BY <1>6 DEF HandleAckq, Open
  <2>2. /\ sender' \in SenderType /\ ListsMatchFlags' /\ FinAwaited'
        /\ \A m \in Lists : On(m) \subseteq On(m)' /\ On(m)' \subseteq On(m) \cup {s}
        /\ s \in On("ack")'
    BY <1>0, <2>1, AddKeeps
  <2>3. ack_cnt' \in [Stream -> Nat] /\ \A t \in Stream : t # s => ack_cnt'[t] = ack_cnt[t]
    BY <1>0, <2>1 DEF ListInv, ListType
  <2>4. AcksListed' /\ FreedUnlisted'
    <3>1. FreedUnlisted'
      BY <1>0, <2>1, <2>2, FreedStay
    <3> QED
      BY <1>0, <2>1, <2>2, <2>3, <3>1 DEF ListInv, AcksListed
  <2>5. StateInv'
    BY <1>0, <2>1, <2>3 DEF ListInv, StateInv, MayAck
  <2>6. ListType'
    BY <1>0, <1>4, <2>1, <2>2, <2>3 DEF ListInv, ListType
  <2>7. NumberType'
    BY <1>0, <2>1 DEF NumberType
  <2> QED
    BY <1>2, <1>3, <2>2, <2>4, <2>5, <2>6, <2>7 DEF SenderInv, ListInv
<1>7. CASE HandleCloseq(s)
  <2>1. /\ UNCHANGED <<ack_cnt, is_wack, data>>
        /\ state[s] = "ESTABLISHED"
        /\ state' = [state EXCEPT ![s] = "FIN_WAIT_1"]
        /\ IF s \in On("send") \cup On("ack")
           THEN /\ control_list_waiting' = [control_list_waiting EXCEPT ![s] = TRUE]
                /\ UNCHANGED sender
           ELSE /\ sender' = Add(sender, "control", s)
                /\ UNCHANGED control_list_waiting
    BY <1>7 DEF HandleCloseq
  <2>2. /\ state' \in [Stream -> States]
        /\ state'[s] = "FIN_WAIT_1" /\ \A t \in Stream : t # s => state'[t] = state[t]
    BY <1>0, <2>1 DEF ListInv, ListType, States
  <2>3. NumberType'
    BY <1>0, <2>1 DEF NumberType
  <2>4. CASE s \in On("send") \cup On("ack")
    <3>1. /\ control_list_waiting' \in [Stream -> BOOLEAN]
          /\ \A t \in Stream : t # s => control_list_waiting'[t] = control_list_waiting[t]
          /\ sender' = sender
      BY <1>0, <2>1, <2>4 DEF ListInv, ListType
    <3>2. ListType' /\ ListsMatchFlags'
      BY <1>0, <1>4, <2>1, <2>2, <3>1 DEF ListInv, ListType, ListsMatchFlags
    <3>3. StateInv'
      BY <1>0, <2>1, <2>2, <3>1 DEF ListInv, StateInv, MayAck
    <3>4. AcksListed' /\ FinAwaited' /\ FreedUnlisted'
      BY <1>0, <2>1, <2>2, <2>4, <3>1 DEF ListInv, AcksListed, FinAwaited, FreedUnlisted, On
    <3> QED
      BY <1>2, <1>3, <2>3, <3>2, <3>3, <3>4 DEF SenderInv, ListInv
  <2>5. CASE s \notin On("send") \cup On("ack")
    <3>1. sender' = Add(sender, "control", s) /\ UNCHANGED control_list_waiting
      BY <2>1, <2>5
    <3>2. /\ sender' \in SenderType /\ ListsMatchFlags' /\ FinAwaited'
          /\ \A m \in Lists : On(m) \subseteq On(m)' /\ On(m)' \subseteq On(m) \cup {s}
      BY <1>0, <3>1, AddKeeps
    <3>3. AcksListed' /\ FreedUnlisted'
      BY <1>0, <2>1, <2>2, <3>2, AcksStay, FreedStay
    <3>4. ListType'
      BY <1>0, <1>4, <2>1, <2>2, <3>1, <3>2 DEF ListInv, ListType
    <3>5. StateInv'
      BY <1>0, <2>1, <2>2, <3>1 DEF ListInv, StateInv, MayAck
    <3> QED
      BY <1>2, <1>3, <2>3, <3>2, <3>3, <3>4, <3>5 DEF SenderInv, ListInv
  <2> QED
    BY <2>4, <2>5
<1>8. CASE Retransmit(s)
  <2>1. /\ UNCHANGED <<state, ack_cnt, is_wack, snd_una, snd_end, peer_wnd>>
        /\ sender' = RetransmitTo(s)
        /\ snd_nxt' = [snd_nxt EXCEPT ![s] = snd_una[s]]
        /\ flight' = [flight EXCEPT ![s] = IF @ = "out" THEN "late" ELSE @]
        /\ control_list_waiting' = [control_list_waiting EXCEPT ![s] = @ \/ FinBehindData(s)]
        /\ state[s] # "FREE"
    BY <1>8 DEF Retransmit, TimerRuns
  <2>2. /\ sender' \in SenderType /\ ListsTrue(sender')
        /\ On("ack") \subseteq On("ack")' /\ On("send") \subseteq On("send")'
        /\ \A m \in Lists : On(m)' \subseteq On(m) \cup {s}
        /\ FinBehindData(s) => s \in On("send")'
    BY <1>0, <2>1, RetransmitLists DEF ListInv, ListType, ListsMatchFlags
  <2>3. /\ control_list_waiting' \in [Stream -> BOOLEAN]
        /\ control_list_waiting'[s] => control_list_waiting[s] \/ FinBehindData(s)
        /\ \A t \in Stream \ {s} : control_list_waiting'[t] = control_list_waiting[t]
    <3>1. control_list_waiting \in [Stream -> BOOLEAN] /\ FinBehindData(s) \in BOOLEAN
      BY <1>0 DEF ListInv, ListType, FinBehindData
    <3> HIDE DEF FinBehindData
    <3> QED
      BY <2>1, <3>1
  <2>4. AcksListed' /\ FreedUnlisted'
    BY <1>0, <2>1, <2>2, AcksStay, FreedStay
  <2>5. FinAwaited'
    BY <1>0, <2>2, <2>3 DEF ListInv, FinAwaited
  <2>6. StateInv'
    BY <1>0, <2>1, <2>3 DEF ListInv, StateInv, FinBehindData
  <2>7. ListType' /\ ListsMatchFlags'
    BY <1>0, <1>4, <2>1, <2>2, <2>3 DEF ListInv, ListType, ListsMatchFlags
  <2>8. NumberType'
    BY <1>0, <2>1, SenderAssumption DEF NumberType, SenderAssumption
  <2> QED
    BY <1>2, <1>3, <2>4, <2>5, <2>6, <2>7, <2>8 DEF SenderInv, ListInv
<1>9. CASE Destroy(sender, s)
  BY <1>0, <1>2, <1>3, <1>4, <1>9, DestroyKeeps DEF SenderInv
<1> QED
  BY <1>5, <1>6, <1>7, <1>8, <1>9
     DEF Calls, HandleCloseqReset, GiveUp, CheckConnectionTimeout, CheckTimewaitExpire, Dies

(* A step that leaves streams, lists and debts alone. *)
LEMMA ListsStay ==
    ASSUME ListInv, UNCHANGED <<state, sender, acks>>, PassInv',
           round' \in [pc : {"calls", "control", "ack", "data", "packet"}, todo : Nat]
    PROVE  ListInv'
<1>1. UNCHANGED <<state, sender, ack_cnt, is_wack, control_list_waiting>>
  BY DEF acks
<1>2. ListType'
  BY <1>1 DEF ListInv, ListType
<1>3. ListsMatchFlags' /\ FreedUnlisted' /\ AcksListed' /\ FinAwaited' /\ StateInv'
  BY <1>1 DEF ListInv, ListsMatchFlags, FreedUnlisted, AcksListed, FinAwaited, StateInv, On
<1> QED
  BY <1>2, <1>3 DEF ListInv

(* A pass goes on with one less to do. *)
LEMMA PassGoesOn ==
    ASSUME ListInv, NEW place \in {"control", "ack", "data"}, NEW l \in Lists,
           <<place, l>> \in {<<"control", "control">>, <<"ack", "ack">>, <<"data", "send">>},
           At(place), round.todo > 0, Pass(place, round.todo - 1),
           sender'.cnt[l] \in Nat, sender'.cnt[l] >= sender.cnt[l] - 1
    PROVE  /\ PassInv'
           /\ round' \in [pc : {"calls", "control", "ack", "data", "packet"}, todo : Nat]
<1>1. sender.cnt[l] \in Nat /\ round.todo \in Nat /\ round.todo <= sender.cnt[l]
  BY DEF ListInv, ListType, SenderType, PassInv, At
<1>2. round' = [pc |-> place, todo |-> round.todo - 1]
  BY DEF Pass
<1>3. round'.pc = place /\ round'.todo = round.todo - 1 /\ round.todo - 1 \in Nat
  BY <1>1, <1>2
<1>4. round'.todo <= sender'.cnt[l]
  BY <1>1, <1>3
<1>5. (place = "control" /\ l = "control") \/ (place = "ack" /\ l = "ack")
        \/ (place = "data" /\ l = "send")
  OBVIOUS
<1>6. PassInv'
  BY <1>3, <1>4, <1>5 DEF PassInv, At
<1> QED
  BY <1>2, <1>3, <1>6

(* The pass over the control list.  A stream is destroyed after its RST. *)
LEMMA ControlKeeps ==
    ASSUME SenderInv, StartWrite \/ ControlBlocked \/ ControlSent \/ ControlDone
    PROVE  SenderInv'
<1>0. /\ ListInv /\ NumberType /\ ArpInv
      /\ "send" \in Lists /\ "ack" \in Lists /\ "control" \in Lists
  BY DEF SenderInv, Lists
<1>1. StartWrite \/ ControlBlocked \/ ControlDone => NumberType'
  BY <1>0 DEF NumberType, StartWrite, ControlBlocked, ControlDone, data
<1>2. CASE StartWrite
  <2>1. /\ Pass("control", sender.cnt["control"])
        /\ UNCHANGED <<state, sender, acks, arp, asked, snd_pkt>>
    BY <1>2 DEF StartWrite
  <2>2. ListInv'
    <3>1. /\ PassInv'
          /\ round' \in [pc : {"calls", "control", "ack", "data", "packet"}, todo : Nat]
      BY <1>0, <2>1, PassStarts
    <3> QED
      BY <1>0, <2>1, <3>1, ListsStay
  <2>3. ArpInv'
    BY <1>0, <2>1 DEF ArpInv, ArpType, RequestInv, AskedNotForgotten
  <2> QED
    BY <1>1, <1>2, <2>2, <2>3 DEF SenderInv
<1>3. CASE ControlDone
  <2>1. /\ Pass("ack", sender.cnt["ack"])
        /\ UNCHANGED <<state, sender, acks, arp, asked, snd_pkt>>
    BY <1>3 DEF ControlDone
  <2>2. ListInv'
    <3>1. /\ PassInv'
          /\ round' \in [pc : {"calls", "control", "ack", "data", "packet"}, todo : Nat]
      BY <1>0, <2>1, PassStarts
    <3> QED
      BY <1>0, <2>1, <3>1, ListsStay
  <2>3. ArpInv'
    BY <1>0, <2>1 DEF ArpInv, ArpType, RequestInv, AskedNotForgotten
  <2> QED
    BY <1>1, <1>3, <2>2, <2>3 DEF SenderInv
<1>4. CASE ControlBlocked
  <2> DEFINE s == Head(sender.list["control"])
  <2>1. /\ At("control") /\ round.todo > 0
        /\ SegmentTo(s) \/ UNCHANGED <<arp, snd_pkt>>
        /\ Pass("ack", sender.cnt["ack"])
        /\ UNCHANGED <<state, sender, acks, asked>>
    BY <1>4 DEF ControlBlocked
  <2>2. s \in Stream
    <3>1. round.todo <= sender.cnt["control"]
      BY <1>0, <2>1 DEF ListInv, PassInv
    <3> QED
      BY <1>0, <2>1, <3>1, NextOfPass
  <2> HIDE DEF s
  <2>3. ListInv'
    <3>1. /\ PassInv'
          /\ round' \in [pc : {"calls", "control", "ack", "data", "packet"}, todo : Nat]
      BY <1>0, <2>1, PassStarts
    <3> QED
      BY <1>0, <2>1, <3>1, ListsStay
  <2>4. ArpInv'
    BY <1>0, <2>1, <2>2, SegmentKeepsArp
  <2> QED
    BY <1>1, <1>4, <2>3, <2>4 DEF SenderInv
<1>5. CASE ControlSent
  <2> DEFINE s == Head(sender.list["control"])
             q == Remove(sender, "control", s)
  <2>1. /\ At("control") /\ round.todo > 0
        /\ SegmentTo(s)
        /\ IF state[s] = "CLOSED"
           THEN Destroy(q, s)
           ELSE /\ sender' = q
                /\ flight' = (IF state[s] \in {"SYN_RCVD", "FIN_WAIT_1"}
                              THEN [flight EXCEPT ![s] = "out"] ELSE flight)
                /\ UNCHANGED <<state, acks, snd_una, snd_nxt, snd_end, peer_wnd>>
        /\ Pass("control", round.todo - 1)
        /\ UNCHANGED asked
    BY <1>5 DEF ControlSent
  <2>2. s \in Stream
    <3>1. round.todo <= sender.cnt["control"]
      BY <1>0, <2>1 DEF ListInv, PassInv
    <3> QED
      BY <1>0, <2>1, <3>1, NextOfPass
  <2> HIDE DEF s
  <2>3. /\ q \in SenderType /\ ListsTrue(q)
        /\ q.cnt["control"] >= sender.cnt["control"] - 1
        /\ s \notin q.on["control"]
        /\ \A m \in Lists : q.on[m] \subseteq sender.on[m]
        /\ q.on["send"] = sender.on["send"] /\ q.on["ack"] = sender.on["ack"]
    <3>1. sender \in SenderType /\ ListsTrue(sender)
      BY <1>0 DEF ListInv, ListType, ListsMatchFlags
    <3>2. /\ q \in SenderType /\ ListsTrue(q)
          /\ \A m \in Lists :
               /\ q.on[m] = (IF m = "control" THEN sender.on[m] \ {s} ELSE sender.on[m])
               /\ m # "control" => q.cnt[m] = sender.cnt[m]
               /\ q.cnt[m] >= sender.cnt[m] - 1
      BY <1>0, <2>2, <3>1, RemoveTrue
    <3> HIDE DEF q
    <3> QED
      BY <1>0, <3>2
  <2>4. ArpInv'
    BY <1>0, <2>1, <2>2, SegmentKeepsArp
  <2>5. CASE state[s] = "CLOSED"
    <3>1. RemoveAll(q, s) = RemoveAll(sender, s)
      <4>1. Remove(q, "control", s) = q
        <5> HIDE DEF q
        <5> QED
          BY <2>3 DEF Remove
      <4>2. Remove(q, "control", s) = Remove(sender, "control", s)
        BY <4>1
      <4> QED
        BY <4>2 DEF RemoveAll
    <3> HIDE DEF q
    <3>2. Destroy(sender, s)
      BY <2>1, <2>5, <3>1 DEF Destroy
    <3>3. /\ sender'.cnt["control"] \in Nat
          /\ sender'.cnt["control"] >= sender.cnt["control"] - 1
      <4>1. sender' = RemoveAll(sender, s)
        BY <3>2 DEF Destroy
      <4>2. /\ sender' \in SenderType
            /\ \A m \in Lists : sender'.cnt[m] >= sender.cnt[m] - 1
        BY <1>0, <2>2, <4>1, RemoveAllTrue DEF ListInv, ListType, ListsMatchFlags
      <4> QED
        BY <1>0, <4>2 DEF SenderType
    <3>4. /\ PassInv'
          /\ round' \in [pc : {"calls", "control", "ack", "data", "packet"}, todo : Nat]
      BY <1>0, <2>1, <3>3, PassGoesOn
    <3> QED
      BY <1>0, <2>2, <2>4, <3>2, <3>4, DestroyKeeps DEF SenderInv
  <2>6. CASE state[s] # "CLOSED"
    <3> HIDE DEF q
    <3>1. /\ sender' = q
          /\ flight' = (IF state[s] \in {"SYN_RCVD", "FIN_WAIT_1"}
                        THEN [flight EXCEPT ![s] = "out"] ELSE flight)
          /\ UNCHANGED <<state, ack_cnt, is_wack, control_list_waiting,
                         snd_una, snd_nxt, snd_end, peer_wnd>>
      BY <2>1, <2>6 DEF acks
    <3>2. /\ sender' \in SenderType /\ ListsMatchFlags'
          /\ On("send")' = On("send") /\ On("ack")' = On("ack")
          /\ \A m \in Lists : On(m)' \subseteq On(m)
          /\ sender'.cnt["control"] \in Nat
          /\ sender'.cnt["control"] >= sender.cnt["control"] - 1
      BY <1>0, <2>3, <3>1 DEF ListsMatchFlags, On, SenderType
    <3>3. /\ PassInv'
          /\ round' \in [pc : {"calls", "control", "ack", "data", "packet"}, todo : Nat]
      BY <1>0, <2>1, <3>2, PassGoesOn
    <3>4. AcksListed' /\ FinAwaited' /\ FreedUnlisted'
      BY <1>0, <3>1, <3>2 DEF ListInv, AcksListed, FinAwaited, FreedUnlisted
    <3>5. StateInv'
      BY <1>0, <3>1 DEF ListInv, StateInv
    <3>6. ListType'
      BY <1>0, <3>1, <3>2, <3>3 DEF ListInv, ListType
    <3>7. NumberType'
      BY <1>0, <3>1 DEF NumberType
    <3> QED
      BY <2>4, <3>2, <3>3, <3>4, <3>5, <3>6, <3>7 DEF SenderInv, ListInv
  <2> QED
    BY <2>5, <2>6
<1> QED
  BY <1>2, <1>3, <1>4, <1>5

(* No pass is under way. *)
LEMMA NoPass ==
    ASSUME NEW place \in {"calls", "packet"}, Pass(place, 0)
    PROVE  /\ PassInv'
           /\ round' \in [pc : {"calls", "control", "ack", "data", "packet"}, todo : Nat]
<1>1. round' = [pc |-> place, todo |-> 0] /\ 0 \in Nat
  BY DEF Pass
<1>2. round'.pc = place
  BY <1>1
<1> QED
  BY <1>1, <1>2 DEF PassInv, At

(* What the ack pass and the data pass have in common: s leaves one of the two
   lists, or stays, pays its debts, and its FIN waits for the other list. *)
LEMMA WrittenKeeps ==
    ASSUME ListInv, NEW q \in SenderType, ListsTrue(q), NEW s \in Stream,
           NEW l \in {"ack", "send"}, NEW other \in {"ack", "send"}, other # l,
           \A m \in Lists : On(m) \ {s} \subseteq q.on[m] /\ q.on[m] \subseteq On(m),
           s \in On(l),
           On(other) \subseteq q.on[other],
           StopWaiting(q, s, other), UNCHANGED state,
           ack_cnt' \in [Stream -> Nat], is_wack' \in [Stream -> BOOLEAN],
           \A t \in Stream : /\ ack_cnt'[t] > 0 => ack_cnt[t] > 0
                             /\ is_wack'[t] => is_wack[t],
           s \in q.on["ack"] \/ ~(ack_cnt'[s] > 0 \/ is_wack'[s]),
           PassInv',
           round' \in [pc : {"calls", "control", "ack", "data", "packet"}, todo : Nat]
    PROVE  ListInv'
<1>0. "ack" \in Lists /\ "send" \in Lists /\ l \in Lists /\ other \in Lists
  BY DEF Lists
<1>1. /\ sender' \in SenderType /\ ListsTrue(sender')
      /\ \A m \in Lists : q.on[m] \subseteq sender'.on[m]
      /\ \A m \in Lists : sender'.on[m] \subseteq q.on[m] \cup {s}
      /\ control_list_waiting' \in [Stream -> BOOLEAN]
      /\ \A t \in Stream : control_list_waiting'[t] => control_list_waiting[t]
      /\ control_list_waiting'[s] => s \in q.on[other]
  BY <1>0, StopWaitingTrue DEF ListInv, ListType
<1>2. ListType' /\ ListsMatchFlags'
  BY <1>1 DEF ListInv, ListType, ListsMatchFlags
<1>3. StateInv'
  BY <1>1 DEF ListInv, StateInv
<1>4. \A t \in Stream \ {s}, m \in Lists : t \in On(m) => t \in sender'.on[m]
  BY <1>1
<1>5. AcksListed'
  <2> SUFFICES ASSUME NEW t \in Stream, ack_cnt'[t] > 0 \/ is_wack'[t]
               PROVE  t \in sender'.on["ack"]
    BY DEF AcksListed, On
  <2>1. CASE t = s
    BY <1>0, <1>1, <2>1
  <2>2. CASE t # s
    <3>1. t \in On("ack")
      BY DEF ListInv, AcksListed
    <3> QED
      BY <1>0, <1>4, <2>2, <3>1
  <2> QED
    BY <2>1, <2>2
<1>6. FinAwaited'
  <2> SUFFICES ASSUME NEW t \in Stream, control_list_waiting'[t]
               PROVE  t \in sender'.on["send"] \cup sender'.on["ack"]
    BY DEF FinAwaited, On
  <2>1. CASE t = s
    <3>1. s \in sender'.on[other]
      BY <1>0, <1>1, <2>1
    <3> QED
      BY <2>1, <3>1
  <2>2. CASE t # s
    <3>1. t \in On("send") \cup On("ack")
      BY <1>1 DEF ListInv, FinAwaited
    <3> QED
      BY <1>0, <1>4, <2>2, <3>1
  <2> QED
    BY <2>1, <2>2
<1>7. FreedUnlisted'
  <2>1. state[s] # "FREE"
    BY <1>0 DEF ListInv, FreedUnlisted
  <2>2. \A m \in Lists : On(m)' \subseteq On(m) \cup {s}
    BY <1>1 DEF On
  <2> QED
    BY <2>1, <2>2, FreedStay
<1> QED
  BY <1>2, <1>3, <1>5, <1>6, <1>7 DEF ListInv

(* The pass over the ack list. *)
LEMMA AckKeeps ==
    ASSUME SenderInv, AckWritten \/ AckDone
    PROVE  SenderInv'
<1>0. /\ ListInv /\ NumberType /\ ArpInv
      /\ "send" \in Lists /\ "ack" \in Lists /\ "control" \in Lists
      /\ sender \in SenderType /\ ListsTrue(sender)
  BY DEF SenderInv, Lists, ListInv, ListType, ListsMatchFlags
<1>1. NumberType' /\ UNCHANGED <<state, asked>>
  BY <1>0 DEF NumberType, AckWritten, AckDone, data
<1>2. CASE AckDone
  <2>1. /\ Pass("data", sender.cnt["send"])
        /\ UNCHANGED <<state, sender, acks, arp, asked, snd_pkt>>
    BY <1>2 DEF AckDone
  <2>2. ListInv'
    <3>1. /\ PassInv'
          /\ round' \in [pc : {"calls", "control", "ack", "data", "packet"}, todo : Nat]
      BY <1>0, <2>1, PassStarts
    <3> QED
      BY <1>0, <2>1, <3>1, ListsStay
  <2>3. ArpInv'
    BY <1>0, <2>1 DEF ArpInv, ArpType, RequestInv, AskedNotForgotten
  <2> QED
    BY <1>1, <2>2, <2>3 DEF SenderInv
<1>3. CASE AckWritten
  <2> DEFINE s == AckNext
             kept == ToAck(s) /\ ~Known(s)
             q == IF kept THEN sender ELSE Remove(sender, "ack", s)
  <2>1. /\ At("ack") /\ round.todo > 0
        /\ SegmentTo(s) \/ UNCHANGED <<arp, snd_pkt>>
        /\ ack_cnt' = [ack_cnt EXCEPT ![s] = IF kept THEN @ ELSE 0]
        /\ is_wack' = [is_wack EXCEPT ![s] = kept /\ @]
        /\ StopWaiting(q, s, "send")
        /\ Pass("ack", round.todo - 1)
    BY <1>3 DEF AckWritten
  <2>2. s \in Stream /\ s \in On("ack")
    <3>1. round.todo <= sender.cnt["ack"]
      BY <1>0, <2>1 DEF ListInv, PassInv
    <3> QED
      BY <1>0, <2>1, <3>1, NextOfPass
  <2> HIDE DEF s
  <2>3. kept \in BOOLEAN
    OBVIOUS
  <2> HIDE DEF kept
  <2>4. /\ q \in SenderType /\ ListsTrue(q)
        /\ q.cnt["ack"] >= sender.cnt["ack"] - 1
        /\ \A m \in Lists : On(m) \ {s} \subseteq q.on[m] /\ q.on[m] \subseteq On(m)
        /\ On("send") \subseteq q.on["send"]
        /\ kept => q = sender
    <3>1. CASE kept
      <4>1. sender.cnt["ack"] \in Nat /\ q = sender
        BY <1>0, <3>1 DEF SenderType
      <4> QED
        BY <1>0, <4>1 DEF On
    <3>2. CASE ~kept
      <4>1. q = Remove(sender, "ack", s)
        BY <3>2
      <4> HIDE DEF q
      <4>2. /\ Remove(sender, "ack", s) \in SenderType
            /\ ListsTrue(Remove(sender, "ack", s))
            /\ \A m \in Lists :
                 /\ Remove(sender, "ack", s).on[m]
                      = (IF m = "ack" THEN sender.on[m] \ {s} ELSE sender.on[m])
                 /\ m # "ack" => Remove(sender, "ack", s).cnt[m] = sender.cnt[m]
                 /\ Remove(sender, "ack", s).cnt[m] >= sender.cnt[m] - 1
        BY <1>0, <2>2, RemoveTrue
      <4>3. /\ q \in SenderType /\ ListsTrue(q)
            /\ \A m \in Lists : /\ q.on[m] = (IF m = "ack" THEN sender.on[m] \ {s} ELSE sender.on[m])
                                /\ q.cnt[m] >= sender.cnt[m] - 1
        BY <4>1, <4>2, Zenon
      <4> QED
        BY <1>0, <3>2, <4>3 DEF On
    <3> QED
      BY <3>1, <3>2
  <2> HIDE DEF q
  <2>5. /\ sender'.cnt["ack"] \in Nat /\ sender'.cnt["ack"] >= sender.cnt["ack"] - 1
    <3>1. /\ sender' \in SenderType
          /\ \A m \in Lists : sender'.cnt[m] >= q.cnt[m]
      BY <1>0, <2>1, <2>2, <2>4, StopWaitingTrue DEF ListInv, ListType
    <3>2. q.cnt["ack"] \in Nat /\ sender'.cnt["ack"] \in Nat /\ sender.cnt["ack"] \in Nat
      BY <1>0, <2>4, <3>1 DEF SenderType
    <3> QED
      BY <1>0, <2>4, <3>1, <3>2
  <2>6. /\ PassInv'
        /\ round' \in [pc : {"calls", "control", "ack", "data", "packet"}, todo : Nat]
    BY <1>0, <2>1, <2>5, PassGoesOn
  <2>7. /\ ack_cnt' \in [Stream -> Nat] /\ is_wack' \in [Stream -> BOOLEAN]
        /\ \A t \in Stream : /\ ack_cnt'[t] > 0 => ack_cnt[t] > 0
                             /\ is_wack'[t] => is_wack[t]
        /\ kept \/ ~(ack_cnt'[s] > 0 \/ is_wack'[s])
    BY <1>0, <2>1, <2>2, <2>3 DEF ListInv, ListType
  <2>8. s \in q.on["ack"] \/ ~(ack_cnt'[s] > 0 \/ is_wack'[s])
    BY <1>0, <2>2, <2>4, <2>7 DEF ListInv, AcksListed, On
  <2>9. ListInv'
    BY <1>0, <1>1, <2>1, <2>2, <2>4, <2>6, <2>7, <2>8, WrittenKeeps
  <2>10. ArpInv'
    BY <1>0, <1>1, <2>1, <2>2, SegmentKeepsArp
  <2> QED
    BY <1>1, <2>9, <2>10 DEF SenderInv
<1> QED
  BY <1>2, <1>3

(* The pass over the send list. *)
LEMMA DataKeeps ==
    ASSUME SenderInv, DataBlocked \/ DataWritten \/ DataDone
    PROVE  /\ SenderInv'
           /\ \A t \in Stream : snd_nxt'[t] > snd_nxt[t]
                                  => snd_nxt'[t] - snd_una[t] <= peer_wnd[t]
<1>0. /\ ListInv /\ NumberType /\ ArpInv
      /\ "send" \in Lists /\ "ack" \in Lists /\ "control" \in Lists
      /\ sender \in SenderType /\ ListsTrue(sender)
  BY DEF SenderInv, Lists, ListInv, ListType, ListsMatchFlags
<1>1. CASE DataDone
  <2>1. /\ Pass("packet", 0)
        /\ UNCHANGED <<state, sender, acks, data, arp, asked, snd_pkt>>
    BY <1>1 DEF DataDone
  <2>2. ListInv'
    <3>1. /\ PassInv'
          /\ round' \in [pc : {"calls", "control", "ack", "data", "packet"}, todo : Nat]
      BY <2>1, NoPass
    <3> QED
      BY <1>0, <2>1, <3>1, ListsStay
  <2>3. ArpInv' /\ NumberType'
    BY <1>0, <2>1 DEF ArpInv, ArpType, RequestInv, AskedNotForgotten, NumberType, data
  <2>4. \A t \in Stream : ~(snd_nxt'[t] > snd_nxt[t])
    BY <1>0, <2>1 DEF data, NumberType
  <2> QED
    BY <2>2, <2>3, <2>4 DEF SenderInv
<1>2. CASE DataBlocked
  <2> DEFINE s == Head(sender.list["send"])
  <2>1. /\ At("data") /\ round.todo > 0
        /\ Pass("packet", 0)
        /\ UNCHANGED <<state, ack_cnt, control_list_waiting, asked>>
    BY <1>2 DEF DataBlocked
  <2>2. PICK cwnd \in 1..(MaxWnd + 1), late \in BOOLEAN :
          LET w == MinOf(cwnd, peer_wnd[s])
              wack == AsksWindow(s, w, late)
          IN  /\ Flush(s, w)
              /\ is_wack' = [is_wack EXCEPT ![s] = @ \/ wack]
              /\ sender' = PutBack(IF wack THEN EnqueueWack(sender, s) ELSE sender, s)
    BY <1>2 DEF DataBlocked
  <2> DEFINE w == MinOf(cwnd, peer_wnd[s])
             wack == AsksWindow(s, w, late)
             q == IF wack THEN EnqueueWack(sender, s) ELSE sender
  <2>3. /\ Flush(s, w)
        /\ is_wack' = [is_wack EXCEPT ![s] = @ \/ wack]
        /\ sender' = PutBack(q, s)
    BY <2>2
  <2>4. s \in Stream /\ s \in On("send") /\ Len(sender.list["send"]) > 0
    <3>1. round.todo <= sender.cnt["send"]
      BY <1>0, <2>1 DEF ListInv, PassInv
    <3> QED
      BY <1>0, <2>1, <3>1, NextOfPass
  <2>5. wack \in BOOLEAN /\ (wack => state[s] \in MayAck)
    BY DEF AsksWindow, Flushes, MayAck
  <2>6. s = Head(sender.list["send"])
    OBVIOUS
  <2> HIDE DEF s
  <2>7. /\ NumberType' /\ ArpInv'
        /\ \A t \in Stream : snd_nxt'[t] > snd_nxt[t]
                               => snd_nxt'[t] - snd_una[t] <= peer_wnd[t]
    BY <1>0, <2>1, <2>3, <2>4, FlushKeepsNumbers
  <2> HIDE DEF wack
  <2>8. /\ q \in SenderType /\ ListsTrue(q)
        /\ q.list["send"] = sender.list["send"]
        /\ \A m \in Lists : On(m) \subseteq q.on[m] /\ q.on[m] \subseteq On(m) \cup {s}
        /\ wack => s \in q.on["ack"]
    <3>1. CASE ~wack
      <4>1. q = sender
        BY <3>1
      <4> QED
        BY <1>0, <3>1, <4>1 DEF On
    <3>2. CASE wack
      <4>1. q = Add(sender, "ack", s)
        BY <3>2 DEF EnqueueWack
      <4> HIDE DEF q
      <4>2. /\ q \in SenderType /\ ListsTrue(q)
            /\ \A m \in Lists : /\ sender.on[m] \subseteq q.on[m]
                                /\ q.on[m] \subseteq sender.on[m] \cup {s}
            /\ s \in q.on["ack"]
        BY <1>0, <2>4, <4>1, AddGrows
      <4>3. q.list["send"] = sender.list["send"]
        BY <1>0, <4>1 DEF Add, SenderType
      <4> QED
        BY <4>2, <4>3 DEF On
    <3> QED
      BY <3>1, <3>2
  <2> HIDE DEF q
  <2>9. /\ sender' \in SenderType /\ ListsTrue(sender') /\ sender'.on = q.on
    BY <2>3, <2>4, <2>6, <2>8, PutBackTrue
  <2>10. /\ On("ack") \subseteq On("ack")' /\ On("send") \subseteq On("send")'
         /\ \A m \in Lists : On(m)' \subseteq On(m) \cup {s}
         /\ wack => s \in On("ack")'
    BY <1>0, <2>8, <2>9 DEF On
  <2>11. /\ is_wack' \in [Stream -> BOOLEAN]
         /\ \A t \in Stream : is_wack'[t] => is_wack[t] \/ (t = s /\ wack)
    BY <1>0, <2>3, <2>4, <2>5 DEF ListInv, ListType
  <2>12. /\ PassInv'
         /\ round' \in [pc : {"calls", "control", "ack", "data", "packet"}, todo : Nat]
    BY <2>1, NoPass
  <2>13. ListType' /\ ListsMatchFlags'
    BY <1>0, <2>1, <2>9, <2>11, <2>12 DEF ListInv, ListType, ListsMatchFlags
  <2>14. AcksListed' /\ FinAwaited' /\ FreedUnlisted'
    <3>1. state[s] # "FREE"
      BY <1>0, <2>4 DEF ListInv, FreedUnlisted
    <3>2. FreedUnlisted'
      BY <1>0, <2>1, <2>4, <2>10, <3>1, FreedStay
    <3> QED
      BY <1>0, <2>1, <2>10, <2>11, <3>2 DEF ListInv, AcksListed, FinAwaited
  <2>15. StateInv'
    BY <1>0, <2>1, <2>5, <2>11 DEF ListInv, StateInv
  <2> QED
    BY <2>7, <2>12, <2>13, <2>14, <2>15 DEF SenderInv, ListInv
<1>3. CASE DataWritten
  <2> DEFINE s == Head(sender.list["send"])
             q == Remove(sender, "send", s)
  <2>1. /\ At("data") /\ round.todo > 0
        /\ StopWaiting(q, s, "ack")
        /\ Pass("data", round.todo - 1)
        /\ UNCHANGED <<state, is_wack, asked>>
    BY <1>3 DEF DataWritten
  <2>2. PICK cwnd \in 1..(MaxWnd + 1) :
          LET w == MinOf(cwnd, peer_wnd[s])
          IN  /\ Flush(s, w)
              /\ ack_cnt' = [ack_cnt EXCEPT ![s] = StillOwed(@, Sent(s, w))]
    BY <1>3 DEF DataWritten
  <2> DEFINE w == MinOf(cwnd, peer_wnd[s])
  <2>3. /\ Flush(s, w)
        /\ ack_cnt' = [ack_cnt EXCEPT ![s] = StillOwed(@, Sent(s, w))]
    BY <2>2
  <2>4. s \in Stream /\ s \in On("send")
    <3>1. round.todo <= sender.cnt["send"]
      BY <1>0, <2>1 DEF ListInv, PassInv
    <3> QED
      BY <1>0, <2>1, <3>1, NextOfPass
  <2> HIDE DEF s
  <2>5. /\ NumberType' /\ ArpInv' /\ Sent(s, w) \in Nat
        /\ \A t \in Stream : snd_nxt'[t] > snd_nxt[t]
                               => snd_nxt'[t] - snd_una[t] <= peer_wnd[t]
    BY <1>0, <2>1, <2>3, <2>4, FlushKeepsNumbers
  <2> HIDE DEF w
  <2>6. /\ q \in SenderType /\ ListsTrue(q)
        /\ q.cnt["send"] >= sender.cnt["send"] - 1
        /\ \A m \in Lists : On(m) \ {s} \subseteq q.on[m] /\ q.on[m] \subseteq On(m)
        /\ On("ack") = q.on["ack"]
    <3>1. /\ Remove(sender, "send", s) \in SenderType
          /\ ListsTrue(Remove(sender, "send", s))
          /\ \A m \in Lists :
               /\ Remove(sender, "send", s).on[m]
                    = (IF m = "send" THEN sender.on[m] \ {s} ELSE sender.on[m])
               /\ m # "send" => Remove(sender, "send", s).cnt[m] = sender.cnt[m]
               /\ Remove(sender, "send", s).cnt[m] >= sender.cnt[m] - 1
      BY <1>0, <2>4, RemoveTrue
    <3>2. q = Remove(sender, "send", s)
      OBVIOUS
    <3> HIDE DEF q
    <3>3. /\ q \in SenderType /\ ListsTrue(q)
          /\ \A m \in Lists : /\ q.on[m] = (IF m = "send" THEN sender.on[m] \ {s} ELSE sender.on[m])
                              /\ q.cnt[m] >= sender.cnt[m] - 1
      BY <3>1, <3>2, Zenon
    <3> QED
      BY <1>0, <3>3 DEF On
  <2> HIDE DEF q
  <2>7. /\ sender'.cnt["send"] \in Nat /\ sender'.cnt["send"] >= sender.cnt["send"] - 1
    <3>1. /\ sender' \in SenderType
          /\ \A m \in Lists : sender'.cnt[m] >= q.cnt[m]
      BY <1>0, <2>1, <2>4, <2>6, StopWaitingTrue DEF ListInv, ListType
    <3>2. q.cnt["send"] \in Nat /\ sender'.cnt["send"] \in Nat /\ sender.cnt["send"] \in Nat
      BY <1>0, <2>6, <3>1 DEF SenderType
    <3> QED
      BY <1>0, <2>6, <3>1, <3>2
  <2>8. /\ PassInv'
        /\ round' \in [pc : {"calls", "control", "ack", "data", "packet"}, todo : Nat]
    BY <1>0, <2>1, <2>7, PassGoesOn
  <2>9. /\ ack_cnt \in [Stream -> Nat] /\ is_wack \in [Stream -> BOOLEAN]
        /\ StillOwed(ack_cnt[s], Sent(s, w)) \in Nat
        /\ StillOwed(ack_cnt[s], Sent(s, w)) > 0 => ack_cnt[s] > 0
    BY <1>0, <2>4, <2>5 DEF ListInv, ListType, StillOwed
  <2>10. /\ ack_cnt' \in [Stream -> Nat] /\ is_wack' \in [Stream -> BOOLEAN]
         /\ \A t \in Stream : /\ ack_cnt'[t] > 0 => ack_cnt[t] > 0
                              /\ is_wack'[t] => is_wack[t]
    BY <2>1, <2>3, <2>4, <2>9
  <2>11. s \in q.on["ack"] \/ ~(ack_cnt'[s] > 0 \/ is_wack'[s])
    BY <1>0, <2>4, <2>6, <2>10 DEF ListInv, AcksListed
  <2>12. ListInv'
    BY <1>0, <2>1, <2>4, <2>6, <2>8, <2>10, <2>11, WrittenKeeps
  <2> QED
    BY <2>5, <2>12 DEF SenderInv
<1> QED
  BY <1>1, <1>2, <1>3

(* The end of a round. *)
LEMMA PacketKeeps ==
    ASSUME SenderInv, Transmit \/ Packet
    PROVE  SenderInv'
<1>0. /\ ListInv /\ NumberType /\ ArpInv
      /\ "send" \in Lists /\ "ack" \in Lists /\ "control" \in Lists
  BY DEF SenderInv, Lists
<1>1. /\ PassInv'
      /\ round' \in [pc : {"calls", "control", "ack", "data", "packet"}, todo : Nat]
  <2>1. Pass("calls", 0)
    BY DEF Transmit, Packet, ArpRequest, ArpReply, Syn, Established, Data, Ack,
           AckOfFin, Fin, Rst, NextRound
  <2> QED
    BY <2>1, NoPass
<1>2. CASE Transmit
  <2>1. /\ snd_pkt' = "other"
        /\ asked' = IF snd_pkt \in Addr THEN asked \cup {snd_pkt} ELSE asked
        /\ UNCHANGED <<state, sender, acks, data, arp>>
    BY <1>2 DEF Transmit
  <2>2. ArpInv'
    BY <1>0, <2>1, SenderAssumption
       DEF ArpInv, ArpType, RequestInv, AskedNotForgotten, SenderAssumption
  <2>3. ListInv'
    BY <1>0, <1>1, <2>1, ListsStay
  <2>4. NumberType'
    BY <1>0, <2>1 DEF NumberType, data
  <2> QED
    BY <2>2, <2>3, <2>4 DEF SenderInv
<1>3. ASSUME NEW a \in Addr, ArpRequest(a) \/ ArpReply(a)
      PROVE  SenderInv'
  <2>1. /\ UNCHANGED <<state, sender, acks, data, asked>>
        /\ \/ arp' = [arp EXCEPT !.table = @ \cup {a}] /\ snd_pkt' = "other"
           \/ /\ arp' = [table |-> arp.table \cup {a}, pending |-> arp.pending \ {a}]
              /\ UNCHANGED snd_pkt
    BY <1>3 DEF ArpRequest, ArpReply
  <2>2. /\ arp'.table = arp.table \cup {a}
        /\ arp'.pending \in {arp.pending, arp.pending \ {a}}
        /\ arp' = [table |-> arp'.table, pending |-> arp'.pending]
        /\ snd_pkt' \in {"other", snd_pkt}
    BY <1>0, <2>1 DEF ArpInv, ArpType
  <2>3. ArpInv'
    BY <1>0, <2>1, <2>2, SenderAssumption
       DEF ArpInv, ArpType, RequestInv, AskedNotForgotten, SenderAssumption
  <2>4. ListInv'
    BY <1>0, <1>1, <2>1, ListsStay
  <2>5. NumberType'
    BY <1>0, <2>1 DEF NumberType, data
  <2> QED
    BY <2>3, <2>4, <2>5 DEF SenderInv
<1>4. ASSUME NEW s \in Stream,
             Syn(s) \/ Fin(s) \/ \E full \in BOOLEAN : Established(s, full)
      PROVE  SenderInv'
  <2>1. PICK new \in {"SYN_RCVD", "CLOSED", "ESTABLISHED", "TIME_WAIT"} :
          /\ state' = [state EXCEPT ![s] = new]
          /\ IF new = "TIME_WAIT" THEN state[s] \in {"FIN_WAIT_2", "TIME_WAIT"}
             ELSE state[s] \in {"LISTEN", "SYN_RCVD"}
          /\ sender' = sender \/ sender' = Add(sender, "control", s)
          /\ flight' \in {flight, [flight EXCEPT ![s] = "none"]}
          /\ UNCHANGED <<acks, snd_una, snd_nxt, snd_end, peer_wnd, arp, asked, snd_pkt>>
    BY <1>4 DEF Syn, Fin, Established, data
  <2>2. ListInv'
    BY <1>0, <1>1, <2>1, StateMoves DEF States, MayAck
  <2>3. NumberType' /\ ArpInv'
    BY <1>0, <2>1 DEF NumberType, ArpInv, ArpType, RequestInv, AskedNotForgotten
  <2> QED
    BY <2>2, <2>3 DEF SenderInv
<1>5. ASSUME NEW s \in Stream, Data(s)
      PROVE  SenderInv'
  <2>1. /\ UNCHANGED <<state, is_wack, control_list_waiting, data, arp, asked, snd_pkt>>
        /\ state[s] \in {"ESTABLISHED", "FIN_WAIT_1", "FIN_WAIT_2"}
        /\ ack_cnt' = [ack_cnt EXCEPT ![s] = @ + 1]
        /\ sender' = Add(sender, "ack", s)
    BY <1>5 DEF Data
  <2>2. /\ sender' \in SenderType /\ ListsMatchFlags' /\ FinAwaited'
        /\ \A m \in Lists : On(m) \subseteq On(m)' /\ On(m)' \subseteq On(m) \cup {s}
        /\ s \in On("ack")'
    BY <1>0, <2>1, AddKeeps
  <2>3. ack_cnt' \in [Stream -> Nat] /\ \A t \in Stream : t # s => ack_cnt'[t] = ack_cnt[t]
    BY <1>0, <2>1 DEF ListInv, ListType
  <2>4. AcksListed' /\ FreedUnlisted'
    <3>1. FreedUnlisted'
      BY <1>0, <2>1, <2>2, FreedStay
    <3> QED
      BY <1>0, <2>1, <2>2, <2>3, <3>1 DEF ListInv, AcksListed
  <2>5. StateInv'
    BY <1>0, <2>1, <2>3 DEF ListInv, StateInv, MayAck
  <2>6. ListType'
    BY <1>0, <1>1, <2>1, <2>2, <2>3 DEF ListInv, ListType
  <2>7. NumberType' /\ ArpInv'
    BY <1>0, <2>1 DEF NumberType, data, ArpInv, ArpType, RequestInv, AskedNotForgotten
  <2> QED
    BY <1>1, <2>2, <2>4, <2>5, <2>6, <2>7 DEF SenderInv, ListInv
<1>6. ASSUME NEW s \in Stream, NEW una \in 0..Bytes[s], NEW wnd \in 0..MaxWnd, Ack(s, una, wnd)
      PROVE  SenderInv'
  <2>1. /\ UNCHANGED <<state, sender, acks, snd_nxt, snd_end, flight, arp, asked, snd_pkt>>
        /\ una \in snd_una[s]..snd_nxt[s]
        /\ snd_una' = [snd_una EXCEPT ![s] = una]
        /\ peer_wnd' = [peer_wnd EXCEPT ![s] = wnd]
    BY <1>6 DEF Ack
  <2>2. /\ snd_una[s] \in Nat /\ snd_nxt[s] \in Nat
        /\ una \in Nat /\ una <= snd_nxt[s]
    BY <1>0, <2>1 DEF NumberType
  <2>3. NumberType'
    BY <1>0, <2>1, <2>2 DEF NumberType
  <2>4. ListInv'
    BY <1>0, <1>1, <2>1, ListsStay
  <2>5. ArpInv'
    BY <1>0, <2>1 DEF ArpInv, ArpType, RequestInv, AskedNotForgotten
  <2> QED
    BY <2>3, <2>4, <2>5 DEF SenderInv
<1>7. ASSUME NEW s \in Stream, NEW wnd \in 0..MaxWnd, AckOfFin(s, wnd)
      PROVE  SenderInv'
  <2>1. /\ state[s] = "FIN_WAIT_1" /\ snd_nxt[s] = snd_end[s]
        /\ state' = [state EXCEPT ![s] = "FIN_WAIT_2"]
        /\ snd_una' = [snd_una EXCEPT ![s] = snd_end[s]]
        /\ peer_wnd' = [peer_wnd EXCEPT ![s] = wnd]
        /\ flight' = [flight EXCEPT ![s] = "none"]
        /\ UNCHANGED <<sender, acks, snd_nxt, snd_end, arp, asked, snd_pkt>>
    BY <1>7 DEF AckOfFin
  <2>2. ListInv'
    BY <1>0, <1>1, <2>1, StateMoves DEF States, MayAck
  <2>3. NumberType'
    <3>1. snd_end[s] \in Nat
      BY <1>0 DEF NumberType
    <3> QED
      BY <1>0, <2>1, <3>1 DEF NumberType
  <2>4. ArpInv'
    BY <1>0, <2>1 DEF ArpInv, ArpType, RequestInv, AskedNotForgotten
  <2> QED
    BY <2>2, <2>3, <2>4 DEF SenderInv
<1>8. ASSUME NEW s \in Stream, Rst(s)
      PROVE  SenderInv'
  <2>1. UNCHANGED <<arp, asked, snd_pkt>>
    BY <1>8 DEF Rst
  <2>2. ArpInv'
    BY <1>0, <2>1 DEF ArpInv, ArpType, RequestInv, AskedNotForgotten
  <2>3. CASE Destroy(sender, s)
    BY <1>0, <1>1, <2>2, <2>3, DestroyKeeps DEF SenderInv
  <2>4. CASE s \in Open /\ state' = [state EXCEPT ![s] = "CLOSE_WAIT"]
             /\ UNCHANGED <<sender, acks, data>>
    <3>1. state[s] \in {"ESTABLISHED", "CLOSE_WAIT"}
      BY <2>4 DEF Open
    <3>2. ListInv'
      BY <1>0, <1>1, <2>4, <3>1, StateMoves DEF States, MayAck
    <3>3. NumberType'
      BY <1>0, <2>4 DEF NumberType, data
    <3> QED
      BY <2>2, <3>2, <3>3 DEF SenderInv
  <2> QED
    BY <1>8, <2>3, <2>4 DEF Rst
<1> QED
  BY <1>2, <1>3, <1>4, <1>5, <1>6, <1>7, <1>8 DEF Packet
-----------------------------------------------------------------------------
(* The theorems. *)

LEMMA InitHolds == Init => SenderInv
<1> SUFFICES ASSUME Init
             PROVE  SenderInv
  OBVIOUS
<1> USE DEF Init
<1>1. /\ sender = [list |-> [l \in Lists |-> <<>>], cnt |-> [l \in Lists |-> 0],
                   on |-> [l \in Lists |-> {}]]
      /\ <<>> \in Seq(Stream) /\ 0 \in Nat /\ {} \in SUBSET Stream
  OBVIOUS
<1>2. /\ sender.list = [l \in Lists |-> <<>>] /\ sender.cnt = [l \in Lists |-> 0]
      /\ sender.on = [l \in Lists |-> {}]
  BY <1>1
<1>3. sender \in SenderType
  <2>1. sender.list \in [Lists -> Seq(Stream)]
    BY <1>1, <1>2
  <2>2. sender.cnt \in [Lists -> Nat]
    BY <1>1, <1>2
  <2>3. sender.on \in [Lists -> SUBSET Stream]
    BY <1>1, <1>2
  <2> QED
    BY <1>1, <1>2, <2>1, <2>2, <2>3 DEF SenderType
<1>4. ListsMatchFlags
  <2> SUFFICES ASSUME NEW l \in Lists
               PROVE  Holds(sender.list[l], sender.cnt[l], sender.on[l])
    BY DEF ListsMatchFlags, ListsTrue
  <2>1. sender.list[l] = <<>> /\ sender.cnt[l] = 0 /\ sender.on[l] = {} /\ Len(<<>>) = 0
    BY <1>2
  <2> QED
    BY <2>1 DEF Holds
<1>5. AcksListed /\ FinAwaited /\ FreedUnlisted /\ StateInv /\ PassInv
  BY DEF AcksListed, FinAwaited, FreedUnlisted, StateInv, PassInv, At
<1>6. ListType
  BY <1>3 DEF ListType, States
<1>7. NumberType
  <2>1. MaxWnd \in 0..MaxWnd /\ \A s \in Stream : Bytes[s] \in Nat
    BY SenderAssumption DEF SenderAssumption
  <2> QED
    BY <2>1 DEF NumberType
<1>8. ArpInv
  BY SenderAssumption DEF ArpInv, ArpType, RequestInv, AskedNotForgotten, SenderAssumption
<1> QED
  BY <1>4, <1>5, <1>6, <1>7, <1>8 DEF SenderInv, ListInv

(* Only the pass over the send list moves snd_nxt forward. *)
LEMMA OnlyFlushSends ==
    ASSUME SenderInv, [Next]_vars, ~(DataBlocked \/ DataWritten \/ DataDone)
    PROVE  \A t \in Stream : snd_nxt'[t] > snd_nxt[t]
                               => snd_nxt'[t] - snd_una[t] <= peer_wnd[t]
<1>0. /\ snd_nxt \in [Stream -> Nat] /\ snd_una \in [Stream -> Nat]
      /\ \A t \in Stream : snd_una[t] <= snd_nxt[t]
  BY DEF SenderInv, NumberType
<1>1. \/ UNCHANGED snd_nxt
      \/ \E s \in Stream : Retransmit(s)
      \/ \E s, q : Destroy(q, s)
  BY DEF Next, Calls, HandleSendq, HandleAckq, HandleCloseq, HandleCloseqReset,
         Retransmit, GiveUp, CheckConnectionTimeout, CheckTimewaitExpire, Dies, Write,
         StartWrite, ControlBlocked, ControlSent, ControlDone, AckWritten, AckDone, Transmit,
         Packet, ArpRequest, ArpReply, Syn, Established, Data, Ack, AckOfFin, Fin, Rst,
         data, vars
<1>2. snd_nxt' \in [Stream -> Nat] /\ \A t \in Stream : snd_nxt'[t] <= snd_nxt[t]
  <2>1. ASSUME NEW s \in Stream, Retransmit(s)
        PROVE  snd_nxt' \in [Stream -> Nat] /\ \A t \in Stream : snd_nxt'[t] <= snd_nxt[t]
    BY <1>0, <2>1 DEF Retransmit
  <2>2. ASSUME NEW s, NEW q, Destroy(q, s)
        PROVE  snd_nxt' \in [Stream -> Nat] /\ \A t \in Stream : snd_nxt'[t] <= snd_nxt[t]
    <3>1. snd_nxt' = [snd_nxt EXCEPT ![s] = 0]
      BY <2>2 DEF Destroy
    <3>2. ASSUME NEW t \in Stream
          PROVE  snd_nxt'[t] \in {0, snd_nxt[t]} /\ snd_nxt[t] \in Nat
      BY <1>0, <3>1
    <3>3. snd_nxt' \in [Stream -> Nat]
      BY <1>0, <3>1
    <3> QED
      BY <3>2, <3>3
  <2> QED
    BY <1>0, <1>1, <2>1, <2>2
<1> QED
  BY <1>0, <1>2

LEMMA StepHolds == SenderInv /\ [Next]_vars => SenderInv'
<1> SUFFICES ASSUME SenderInv, [Next]_vars
             PROVE  SenderInv'
  OBVIOUS
<1>1. CASE \E s \in Stream : Calls(s)
  BY <1>1, CallsKeep
<1>2. CASE Write
  BY <1>2, ControlKeeps, AckKeeps, DataKeeps DEF Write
<1>3. CASE Transmit \/ Packet
  BY <1>3, PacketKeeps
<1>4. CASE UNCHANGED vars
  <2>1. UNCHANGED <<state, sender, acks, data, arp, asked, snd_pkt, round>>
    BY <1>4 DEF vars
  <2>2. ListInv'
    <3>1. /\ PassInv'
          /\ round' \in [pc : {"calls", "control", "ack", "data", "packet"}, todo : Nat]
      BY <2>1 DEF SenderInv, ListInv, ListType, PassInv, At
    <3> QED
      BY <2>1, <3>1, ListsStay DEF SenderInv
  <2>3. NumberType' /\ ArpInv'
    BY <2>1 DEF SenderInv, NumberType, data, ArpInv, ArpType, RequestInv, AskedNotForgotten
  <2> QED
    BY <2>2, <2>3 DEF SenderInv
<1> QED
  BY <1>1, <1>2, <1>3, <1>4 DEF Next

(* The inductive invariant: lists, counters and flags, debts, waits, passes,
   numbers and the ARP table, together. *)
THEOREM SenderInvariant == Spec => []SenderInv
<1> QED
  BY InitHolds, StepHolds, PTL DEF Spec

(* Every variable keeps its type; snd_una <= snd_nxt <= the end of the data. *)
THEOREM TypeCorrect == Spec => []TypeOK
<1>1. SenderInv => TypeOK
  BY DEF SenderInv, ListInv, ArpInv, TypeOK
<1> QED
  BY <1>1, SenderInvariant, PTL

(* The three TAILQs hold exactly the streams with the flag, each once, and the
   counters their lengths, for any number of streams: through the passes, the
   additions, the FIN that HandleRTO moves behind its data, and the destruction
   of a stream that is on any of the lists. *)
THEOREM ListsAgree == Spec => []ListsMatchFlags
<1>1. SenderInv => ListsMatchFlags
  BY DEF SenderInv, ListInv
<1> QED
  BY <1>1, SenderInvariant, PTL

(* DestroyTcpStream of a listed stream, by a reset, a timer or a pass, leaves
   nothing of it on the lists, and nothing puts it back. *)
THEOREM FreedUnlistedAlways == Spec => []FreedUnlisted
<1>1. SenderInv => FreedUnlisted
  BY DEF SenderInv, ListInv
<1> QED
  BY <1>1, SenderInvariant, PTL

(* An ACK owed has its stream on the ack list (write_acklist, write_datalist,
   flush_sendbuffer). *)
THEOREM AcksListedAlways == Spec => []AcksListed
<1>1. SenderInv => AcksListed
  BY DEF SenderInv, ListInv
<1> QED
  BY <1>1, SenderInvariant, PTL

(* A FIN held back by control_list_waiting, at close() or by HandleRTO, which
   sends it behind its data again, has a list to wait for. *)
THEOREM FinAwaitedAlways == Spec => []FinAwaited
<1>1. SenderInv => FinAwaited
  BY DEF SenderInv, ListInv
<1> QED
  BY <1>1, SenderInvariant, PTL

(* An address whose request left is pending or known (user_arp_request). *)
THEOREM AskedKept == Spec => []AskedNotForgotten
<1>1. SenderInv => AskedNotForgotten
  BY DEF SenderInv, ArpInv
<1> QED
  BY <1>1, SenderInvariant, PTL

(* user_tcp_flush_sendbuffer stays within the window the peer advertised last,
   whatever the congestion window does. *)
THEOREM WindowSafe == Spec => WindowKept
<1>1. SenderInv /\ [Next]_vars
        => [\A s \in Stream : snd_nxt'[s] > snd_nxt[s]
                                => snd_nxt'[s] - snd_una[s] <= peer_wnd[s]]_vars
  BY DataKeeps, OnlyFlushSends
<1> QED
  BY <1>1, SenderInvariant, PTL DEF Spec, WindowKept
=============================================================================
