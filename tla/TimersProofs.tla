---------------------------- MODULE TimersProofs ----------------------------
(***************************************************************************)
(* Proofs about the timer lists, for any set of streams, ring, timeouts    *)
(* and batch, and any range of the clock.                                  *)
(***************************************************************************)
EXTENDS Timers, FiniteSetTheorems, TLAPS
-----------------------------------------------------------------------------
(* The lists as sequences. *)

(* Only keeps the elements of a set, each place of the new list standing for one
   of the old, in the same order. *)
LEMMA OnlyPlaces ==
    ASSUME NEW S, NEW l \in Seq(S), NEW T
    PROVE  /\ Only(l, T) \in Seq(S)
           /\ \A k \in DOMAIN Only(l, T) : Only(l, T)[k] \in T
           /\ \A i \in DOMAIN l : l[i] \in T => \E k \in DOMAIN Only(l, T) : Only(l, T)[k] = l[i]
           /\ \A k \in DOMAIN Only(l, T) : \E p \in DOMAIN l : Only(l, T)[k] = l[p]
           /\ \A k, m \in DOMAIN Only(l, T) :
                k < m => \E p, q \in DOMAIN l : p < q /\ Only(l, T)[k] = l[p] /\ Only(l, T)[m] = l[q]
<1> DEFINE at == {i \in DOMAIN l : l[i] \in T}
           upto(i) == {j \in at : j <= i}
           rank(i) == Cardinality(upto(i))
           n == Cardinality(at)
           place(k) == CHOOSE i \in at : rank(i) = k
           new == Only(l, T)
<1>1. DOMAIN l = 1..Len(l) /\ Len(l) \in Nat /\ \A i \in DOMAIN l : l[i] \in S
  OBVIOUS
<1>2. new = [k \in 1..n |-> l[place(k)]]
  BY DEF Only
<1>3. IsFiniteSet(1..Len(l)) /\ at \in SUBSET (1..Len(l)) /\ at \subseteq Nat
  BY <1>1, FS_Interval
<1>4. IsFiniteSet(at) /\ n \in Nat
  <2>1. IsFiniteSet(at)
    BY <1>3, FS_Subset
  <2> QED
    BY <2>1, FS_CardinalityType
<1> HIDE DEF new
<1>5. \A i \in at : l[i] \in T /\ i \in DOMAIN l /\ i \in Nat
  BY <1>3
<1>6. \A i \in DOMAIN l : l[i] \in T => i \in at
  OBVIOUS
<1> HIDE DEF at
<1>7. ASSUME NEW i \in at
      PROVE  IsFiniteSet(upto(i)) /\ rank(i) \in 1..n
  <2>1. upto(i) \in SUBSET at /\ i \in upto(i)
    BY <1>5
  <2>2. IsFiniteSet(upto(i)) /\ rank(i) <= n
    BY <1>4, <2>1, FS_Subset
  <2>3. rank(i) \in Nat
    BY <2>2, FS_CardinalityType
  <2>4. rank(i) # 0
    BY <2>1, <2>2, FS_EmptySet
  <2> QED
    BY <1>4, <2>2, <2>3, <2>4
<1>8. ASSUME NEW i \in at, NEW j \in at, i < j
      PROVE  rank(i) < rank(j)
  <2> DEFINE a == upto(i)
             b == upto(j)
  <2>1. a \in SUBSET b
    BY <1>5, <1>8
  <2>2. j \in b /\ j \notin a
    BY <1>5, <1>8
  <2>3. IsFiniteSet(b) /\ Cardinality(a) \in Nat /\ Cardinality(b) \in Nat
    <3>1. IsFiniteSet(upto(i)) /\ IsFiniteSet(upto(j))
      BY <1>7
    <3>2. IsFiniteSet(a) /\ IsFiniteSet(b)
      BY <3>1
    <3> HIDE DEF a, b
    <3> QED
      BY <3>2, FS_CardinalityType
  <2> HIDE DEF a, b
  <2>4. Cardinality(a) <= Cardinality(b) /\ (Cardinality(b) = Cardinality(a) => b = a)
    BY <2>1, <2>3, FS_Subset
  <2>5. Cardinality(a) < Cardinality(b)
    BY <2>2, <2>3, <2>4
  <2> QED
    BY <2>5 DEF a, b
<1> HIDE DEF upto
<1>9. \A k \in 1..n : \E i \in at : rank(i) = k
  <2> DEFINE f == [i \in at |-> rank(i)]
  <2>1. \A i, j \in at : rank(i) = rank(j) => i = j
    <3> SUFFICES ASSUME NEW i \in at, NEW j \in at, rank(i) = rank(j), i # j
                 PROVE  FALSE
      OBVIOUS
    <3>1. i < j \/ j < i
      BY <1>5
    <3>2. rank(i) \in Nat /\ rank(j) \in Nat
      BY <1>4, <1>7
    <3> QED
      BY <1>8, <3>1, <3>2
  <2>2. f \in [at -> 1..n] /\ \A i \in at : f[i] = rank(i)
    BY <1>7
  <2>3. f \in Injection(at, 1..n)
    BY <2>1, <2>2 DEF Injection, IsInjective
  <2>4. IsFiniteSet(1..n) /\ Cardinality(1..n) = n
    BY <1>4, FS_Interval
  <2>5. f \in Surjection(at, 1..n)
    BY <2>3, <2>4, FS_Injection
  <2> QED
    BY <2>2, <2>5 DEF Surjection
<1>10. \A k \in 1..n : place(k) \in at /\ rank(place(k)) = k
  BY <1>9
<1> HIDE DEF place
<1>11. ASSUME NEW k \in 1..n, NEW m \in 1..n, k < m
       PROVE  place(k) < place(m)
  <2> DEFINE p == place(k)
             q == place(m)
  <2>1. p \in at /\ q \in at /\ rank(p) = k /\ rank(q) = m
    BY <1>10
  <2>2. p \in Nat /\ q \in Nat /\ k \in Nat /\ m \in Nat
    BY <1>5, <2>1
  <2> HIDE DEF p, q
  <2>3. p # q
    BY <1>11, <2>1, <2>2
  <2>4. ~(q < p)
    <3> SUFFICES ASSUME q < p PROVE FALSE
      OBVIOUS
    <3>1. rank(q) < rank(p)
      BY <1>8, <2>1
    <3> QED
      BY <1>11, <2>1, <2>2, <3>1
  <2>5. p < q
    BY <2>2, <2>3, <2>4
  <2> QED
    BY <2>5 DEF p, q
<1>12. DOMAIN new = 1..n /\ \A k \in 1..n : new[k] = l[place(k)]
  BY <1>2
<1>13. \A i \in at : place(rank(i)) = i
  <2> SUFFICES ASSUME NEW i \in at, place(rank(i)) # i
               PROVE  FALSE
    OBVIOUS
  <2> DEFINE p == place(rank(i))
  <2>1. p \in at /\ rank(p) = rank(i) /\ rank(i) \in Nat
    BY <1>4, <1>7, <1>10
  <2>2. p < i \/ i < p
    BY <1>5, <2>1
  <2> HIDE DEF p
  <2>3. CASE p < i
    BY <1>8, <2>1, <2>3
  <2>4. CASE i < p
    BY <1>8, <2>1, <2>4
  <2> QED
    BY <2>2, <2>3, <2>4
<1> HIDE DEF rank
<1>14. new \in Seq(S)
  <2>1. \A k \in 1..n : l[place(k)] \in S
    BY <1>1, <1>5, <1>10
  <2>2. new \in [1..n -> S]
    BY <1>2, <2>1
  <2> QED
    BY <1>4, <2>2
<1>15. \A k \in DOMAIN new : new[k] \in T
  BY <1>5, <1>10, <1>12
<1>16. \A i \in DOMAIN l : l[i] \in T => \E k \in DOMAIN new : new[k] = l[i]
  <2> SUFFICES ASSUME NEW i \in DOMAIN l, l[i] \in T
               PROVE  \E k \in DOMAIN new : new[k] = l[i]
    OBVIOUS
  <2>1. i \in at
    BY <1>6
  <2>2. rank(i) \in 1..n /\ new[rank(i)] = l[i]
    BY <1>7, <1>12, <1>13, <2>1
  <2> QED
    BY <1>12, <2>2
<1>17. \A k \in DOMAIN new : \E p \in DOMAIN l : new[k] = l[p]
  BY <1>5, <1>10, <1>12
<1>18. \A k, m \in DOMAIN new :
         k < m => \E p, q \in DOMAIN l : p < q /\ new[k] = l[p] /\ new[m] = l[q]
  BY <1>5, <1>10, <1>11, <1>12
<1> QED
  BY <1>14, <1>15, <1>16, <1>17, <1>18 DEF new

(* What Only does to the elements of a list without repetitions. *)
LEMMA OnlyHolds ==
    ASSUME NEW S, NEW l \in Seq(S), NEW T, Distinct(l)
    PROVE  /\ Only(l, T) \in Seq(S)
           /\ Items(Only(l, T)) = Items(l) \cap T
           /\ Distinct(Only(l, T))
<1> DEFINE new == Only(l, T)
<1>1. /\ new \in Seq(S)
      /\ \A k \in DOMAIN new : new[k] \in T
      /\ \A i \in DOMAIN l : l[i] \in T => \E k \in DOMAIN new : new[k] = l[i]
      /\ \A k \in DOMAIN new : \E p \in DOMAIN l : new[k] = l[p]
      /\ \A k, m \in DOMAIN new :
            k < m => \E p, q \in DOMAIN l : p < q /\ new[k] = l[p] /\ new[m] = l[q]
  BY OnlyPlaces
<1> HIDE DEF new
<1>2. DOMAIN new \subseteq Nat /\ DOMAIN l \subseteq Nat
  <2>1. DOMAIN new = 1..Len(new) /\ DOMAIN l = 1..Len(l)
    BY <1>1
  <2> QED
    BY <2>1
<1>3. Items(new) = Items(l) \cap T
  BY <1>1 DEF Items
<1>4. Distinct(new)
  <2> SUFFICES ASSUME NEW k \in DOMAIN new, NEW m \in DOMAIN new, new[k] = new[m], k < m
               PROVE  FALSE
    BY <1>2 DEF Distinct
  <2>1. PICK p \in DOMAIN l, q \in DOMAIN l : p < q /\ new[k] = l[p] /\ new[m] = l[q]
    BY <1>1
  <2>2. p = q
    BY <2>1 DEF Distinct
  <2> QED
    BY <1>2, <2>1, <2>2
<1> QED
  BY <1>1, <1>3, <1>4 DEF new

(* Only keeps a list in the order of a clock. *)
LEMMA OnlyOrdered ==
    ASSUME NEW S, NEW l \in Seq(S), NEW T, NEW ts \in [S -> Int], Ordered(l, ts)
    PROVE  Ordered(Only(l, T), ts)
<1> DEFINE new == Only(l, T)
<1>1. /\ new \in Seq(S)
      /\ \A k, m \in DOMAIN new :
            k < m => \E p, q \in DOMAIN l : p < q /\ new[k] = l[p] /\ new[m] = l[q]
  BY OnlyPlaces
<1> HIDE DEF new
<1>2. DOMAIN new \subseteq Nat /\ DOMAIN l \subseteq Nat
  <2>1. DOMAIN new = 1..Len(new) /\ DOMAIN l = 1..Len(l)
    BY <1>1
  <2> QED
    BY <2>1
<1>3. ASSUME NEW k \in DOMAIN new, NEW m \in DOMAIN new, k <= m
      PROVE  ts[new[k]] <= ts[new[m]]
  <2>1. new[k] \in S /\ ts[new[k]] \in Int
    BY <1>1
  <2>2. CASE k = m
    BY <2>1, <2>2
  <2>3. CASE k < m
    <3>1. PICK p \in DOMAIN l, q \in DOMAIN l : p < q /\ new[k] = l[p] /\ new[m] = l[q]
      BY <1>1, <2>3
    <3>2. p <= q
      BY <1>2, <3>1
    <3>3. ts[l[p]] <= ts[l[q]]
      BY <3>2 DEF Ordered
    <3> QED
      BY <3>1, <3>3
  <2> QED
    BY <1>2, <1>3, <2>2, <2>3
<1> QED
  BY <1>3 DEF Ordered, new

(* TAILQ_REMOVE of some elements. *)
LEMMA WithoutHolds ==
    ASSUME NEW S, NEW l \in Seq(S), NEW gone, Distinct(l)
    PROVE  /\ Without(l, gone) \in Seq(S)
           /\ Items(Without(l, gone)) = Items(l) \ gone
           /\ Distinct(Without(l, gone))
           /\ \A ts \in [S -> Int] : Ordered(l, ts) => Ordered(Without(l, gone), ts)
<1>1. Items(l) \cap (Items(l) \ gone) = Items(l) \ gone
  OBVIOUS
<1>2. /\ Only(l, Items(l) \ gone) \in Seq(S)
      /\ Items(Only(l, Items(l) \ gone)) = Items(l) \cap (Items(l) \ gone)
      /\ Distinct(Only(l, Items(l) \ gone))
  BY OnlyHolds
<1>3. \A ts \in [S -> Int] : Ordered(l, ts) => Ordered(Only(l, Items(l) \ gone), ts)
  BY OnlyOrdered
<1> QED
  BY <1>1, <1>2, <1>3 DEF Without

(* TAILQ_INSERT_TAIL of an element that is not on the list and whose time is not
   before those on it. *)
LEMMA AppendHolds ==
    ASSUME NEW S, NEW l \in Seq(S), NEW x \in S, x \notin Items(l), Distinct(l)
    PROVE  /\ Append(l, x) \in Seq(S)
           /\ Items(Append(l, x)) = Items(l) \cup {x}
           /\ Distinct(Append(l, x))
           /\ \A ts \in [S -> Int] :
                Ordered(l, ts) /\ (\A y \in Items(l) : ts[y] <= ts[x]) => Ordered(Append(l, x), ts)
<1> DEFINE new == Append(l, x)
<1>1. new \in Seq(S)
  OBVIOUS
<1>2. /\ Len(l) \in Nat
      /\ DOMAIN l = 1..Len(l)
      /\ DOMAIN new = 1..(Len(l) + 1)
      /\ \A i \in 1..Len(l) : new[i] = l[i] /\ l[i] \in S
      /\ new[Len(l) + 1] = x
  OBVIOUS
<1> HIDE DEF new
<1>3. \A i \in DOMAIN new : i \in DOMAIN l \/ i = Len(l) + 1
  BY <1>2
<1>4. DOMAIN l \subseteq DOMAIN new /\ Len(l) + 1 \in DOMAIN new
  BY <1>2
<1>5. Items(new) = Items(l) \cup {x}
  <2>1. \A y \in Items(new) : y \in Items(l) \cup {x}
    BY <1>2, <1>3 DEF Items
  <2>2. \A y \in Items(l) \cup {x} : y \in Items(new)
    BY <1>2, <1>4 DEF Items
  <2> QED
    BY <2>1, <2>2
<1>6. Distinct(new)
  BY <1>2, <1>3 DEF Distinct, Items
<1>7. ASSUME NEW ts \in [S -> Int], Ordered(l, ts), \A y \in Items(l) : ts[y] <= ts[x]
      PROVE  Ordered(new, ts)
  <2> SUFFICES ASSUME NEW i \in DOMAIN new, NEW j \in DOMAIN new, i <= j
               PROVE  ts[new[i]] <= ts[new[j]]
    BY DEF Ordered
  <2>1. CASE j \in DOMAIN l
    <3>1. i \in DOMAIN l /\ new[i] = l[i] /\ new[j] = l[j]
      BY <1>2, <2>1
    <3> QED
      BY <1>7, <2>1, <3>1 DEF Ordered
  <2>2. CASE j = Len(l) + 1
    <3>1. CASE i \in DOMAIN l
      BY <1>2, <1>7, <2>2, <3>1 DEF Items
    <3>2. CASE i = Len(l) + 1
      <4>1. ts[x] \in Int
        OBVIOUS
      <4> QED
        BY <1>2, <2>2, <3>2, <4>1
    <3> QED
      BY <1>3, <3>1, <3>2
  <2> QED
    BY <1>3, <2>1, <2>2
<1> QED
  BY <1>1, <1>5, <1>6, <1>7 DEF new

(* TAILQ_CONCAT of lists that share nothing. *)
LEMMA ConcatHolds ==
    ASSUME NEW S, NEW l \in Seq(S), NEW m \in Seq(S), Distinct(l), Distinct(m),
           Items(l) \cap Items(m) = {}
    PROVE  /\ l \o m \in Seq(S)
           /\ Items(l \o m) = Items(l) \cup Items(m)
           /\ Distinct(l \o m)
<1> DEFINE new == l \o m
<1>1. new \in Seq(S)
  OBVIOUS
<1>2. /\ Len(l) \in Nat /\ Len(m) \in Nat
      /\ DOMAIN l = 1..Len(l) /\ DOMAIN m = 1..Len(m)
      /\ DOMAIN new = 1..(Len(l) + Len(m))
      /\ \A i \in 1..(Len(l) + Len(m)) : new[i] = IF i <= Len(l) THEN l[i] ELSE m[i - Len(l)]
  OBVIOUS
<1> HIDE DEF new
<1>3. \A i \in DOMAIN new : \/ i \in DOMAIN l /\ new[i] = l[i]
                            \/ i > Len(l) /\ i - Len(l) \in DOMAIN m /\ new[i] = m[i - Len(l)]
  BY <1>2
<1>4. \A i \in DOMAIN l : i \in DOMAIN new /\ new[i] = l[i]
  BY <1>2
<1>5. \A j \in DOMAIN m : Len(l) + j \in DOMAIN new /\ new[Len(l) + j] = m[j]
  <2> SUFFICES ASSUME NEW j \in DOMAIN m
               PROVE  Len(l) + j \in DOMAIN new /\ new[Len(l) + j] = m[j]
    OBVIOUS
  <2>1. j \in Nat /\ Len(l) + j \in 1..(Len(l) + Len(m)) /\ ~(Len(l) + j <= Len(l))
    BY <1>2
  <2>2. (Len(l) + j) - Len(l) = j
    BY <1>2, <2>1
  <2> QED
    BY <1>2, <2>1, <2>2
<1>6. Items(new) = Items(l) \cup Items(m)
  <2>1. \A y \in Items(new) : y \in Items(l) \cup Items(m)
    BY <1>3 DEF Items
  <2>2. \A y \in Items(l) \cup Items(m) : y \in Items(new)
    BY <1>4, <1>5 DEF Items
  <2> QED
    BY <2>1, <2>2
<1>7. Distinct(new)
  <2> SUFFICES ASSUME NEW i \in DOMAIN new, NEW j \in DOMAIN new, new[i] = new[j]
               PROVE  i = j
    BY DEF Distinct
  <2>1. i \in Nat /\ j \in Nat
    BY <1>2
  <2>2. CASE i \in DOMAIN l /\ j \in DOMAIN l
    BY <1>4, <2>2 DEF Distinct
  <2>3. CASE i \notin DOMAIN l /\ j \notin DOMAIN l
    <3>1. i - Len(l) = j - Len(l)
      BY <1>3, <2>3 DEF Distinct
    <3> QED
      BY <1>2, <2>1, <3>1
  <2>4. CASE i \in DOMAIN l /\ j \notin DOMAIN l
    BY <1>3, <1>4, <2>4 DEF Items
  <2>5. CASE i \notin DOMAIN l /\ j \in DOMAIN l
    BY <1>3, <1>4, <2>5 DEF Items
  <2> QED
    BY <2>2, <2>3, <2>4, <2>5
<1> QED
  BY <1>1, <1>6, <1>7 DEF new

First(l, n) == {l[i] : i \in 1..n}

(* The first n elements of a list taken off, as HandleRTO does one by one. *)
LEMMA TailHolds ==
    ASSUME NEW S, NEW l \in Seq(S), NEW n \in 0..Len(l), Distinct(l)
    PROVE  /\ SubSeq(l, n + 1, Len(l)) \in Seq(S)
           /\ Items(SubSeq(l, n + 1, Len(l))) = Items(l) \ First(l, n)
           /\ Distinct(SubSeq(l, n + 1, Len(l)))
           /\ First(l, n) \subseteq Items(l)
           /\ IsFiniteSet(First(l, n)) /\ Cardinality(First(l, n)) = n
<1> DEFINE new == SubSeq(l, n + 1, Len(l))
           first == {l[i] : i \in 1..n}
<1>1. /\ Len(l) \in Nat /\ n \in Nat /\ n <= Len(l)
      /\ DOMAIN l = 1..Len(l) /\ \A i \in 1..Len(l) : l[i] \in S
  OBVIOUS
<1>2. new = [i \in 1..(Len(l) - n) |-> l[i + n]]
  <2>1. (1 + Len(l)) - (n + 1) = Len(l) - n /\ \A i \in 1..(Len(l) - n) : i + (n + 1) - 1 = i + n
    BY <1>1
  <2> QED
    BY <1>1, <2>1
<1> HIDE DEF new
<1>3. DOMAIN new = 1..(Len(l) - n) /\ \A i \in 1..(Len(l) - n) : new[i] = l[i + n] /\ i + n \in DOMAIN l
  BY <1>1, <1>2
<1>4. new \in Seq(S)
  <2>1. new \in [1..(Len(l) - n) -> S]
    BY <1>1, <1>2, <1>3
  <2>2. Len(l) - n \in Nat
    BY <1>1
  <2> QED
    BY <2>1, <2>2
<1>5. Items(new) = Items(l) \ first
  <2>1. ASSUME NEW y \in Items(new)
        PROVE  y \in Items(l) \ first
    <3>1. PICK i \in 1..(Len(l) - n) : y = l[i + n]
      BY <1>3 DEF Items
    <3>2. i + n \in DOMAIN l
      BY <1>3
    <3>3. \A j \in 1..n : l[j] # l[i + n]
      <4> SUFFICES ASSUME NEW j \in 1..n, l[j] = l[i + n]
                   PROVE  FALSE
        OBVIOUS
      <4>1. j \in DOMAIN l
        BY <1>1
      <4>2. j = i + n
        BY <3>2, <4>1 DEF Distinct
      <4> QED
        BY <1>1, <4>2
    <3> QED
      BY <3>1, <3>2, <3>3 DEF Items
  <2>2. ASSUME NEW y \in Items(l) \ first
        PROVE  y \in Items(new)
    <3>1. PICK j \in DOMAIN l : y = l[j]
      BY DEF Items
    <3>2. j \notin 1..n
      BY <3>1
    <3>3. j - n \in 1..(Len(l) - n) /\ (j - n) + n = j
      BY <1>1, <3>2
    <3> QED
      BY <1>3, <3>1, <3>3 DEF Items
  <2> QED
    BY <2>1, <2>2
<1>6. Distinct(new)
  <2> SUFFICES ASSUME NEW i \in DOMAIN new, NEW j \in DOMAIN new, new[i] = new[j]
               PROVE  i = j
    BY DEF Distinct
  <2>1. i + n = j + n
    BY <1>3 DEF Distinct
  <2> QED
    BY <1>1, <1>3, <2>1
<1>7. first \subseteq Items(l)
  BY <1>1 DEF Items
<1>8. IsFiniteSet(first) /\ Cardinality(first) = n
  <2> DEFINE f == [i \in 1..n |-> l[i]]
  <2>1. f \in [1..n -> first]
    OBVIOUS
  <2>2. \A i, j \in 1..n : f[i] = f[j] => i = j
    BY <1>1 DEF Distinct
  <2>3. \A y \in first : \E i \in 1..n : f[i] = y
    OBVIOUS
  <2> HIDE DEF first, f
  <2>4. f \in Bijection(1..n, first)
    BY <2>1, <2>2, <2>3 DEF Bijection, Injection, IsInjective, Surjection
  <2>5. ExistsBijection(1..n, first)
    BY <2>4 DEF ExistsBijection
  <2>6. IsFiniteSet(1..n) /\ Cardinality(1..n) = n
    BY <1>1, FS_Interval
  <2> QED
    BY <2>5, <2>6, FS_Bijection
<1> QED
  BY <1>4, <1>5, <1>6, <1>7, <1>8 DEF new, First

(* A list without repetitions is as long as it has elements. *)
LEMMA DistinctOnce ==
    ASSUME NEW S, NEW l \in Seq(S), Distinct(l)
    PROVE  OnceIn(l)
<1>1. PICK n \in 0..Len(l) : n = Len(l)
  OBVIOUS
<1>2. Cardinality(First(l, n)) = n
  BY TailHolds
<1>3. Items(l) = First(l, n)
  BY <1>1 DEF Items, First
<1> QED
  BY <1>1, <1>2, <1>3 DEF OnceIn

(* The order of a list depends on the times of its elements only. *)
LEMMA OrderedSame ==
    ASSUME NEW l, NEW ts, NEW new, Ordered(l, ts), \A y \in Items(l) : new[y] = ts[y]
    PROVE  Ordered(l, new)
BY DEF Ordered, Items

(* Of a list in the order of ts, DuePrefix leaves only elements that are not due. *)
LEMMA PrefixLeaves ==
    ASSUME NEW S, NEW l \in Seq(S), NEW ts \in [S -> Int], Ordered(l, ts),
           NEW due, NEW bound \in Int,
           \A y \in S : y \notin due => ts[y] > bound
    PROVE  /\ DuePrefix(l, due) \subseteq Items(l) \cap due
           /\ \A y \in Items(l) : y \notin DuePrefix(l, due) => ts[y] > bound
<1>1. DOMAIN l = 1..Len(l) /\ Len(l) \in Nat /\ \A i \in DOMAIN l : l[i] \in S
  OBVIOUS
<1>2. ASSUME NEW y \in DuePrefix(l, due)
      PROVE  y \in Items(l) \cap due
  <2>1. PICK i \in DOMAIN l : y = l[i] /\ \A k \in 1..i : l[k] \in due
    BY DEF DuePrefix
  <2>2. i \in 1..i
    BY <1>1, <2>1
  <2> QED
    BY <2>1, <2>2 DEF Items
<1>3. ASSUME NEW y \in Items(l), y \notin DuePrefix(l, due)
      PROVE  ts[y] > bound
  <2>1. PICK i \in DOMAIN l : y = l[i]
    BY DEF Items
  <2>2. PICK k \in 1..i : l[k] \notin due
    BY <1>3, <2>1 DEF DuePrefix
  <2>3. k \in DOMAIN l /\ k <= i
    BY <1>1, <2>1
  <2>4. ts[l[k]] <= ts[l[i]] /\ ts[l[k]] > bound
    BY <1>1, <2>1, <2>2, <2>3 DEF Ordered
  <2>5. ts[l[k]] \in Int /\ ts[l[i]] \in Int
    BY <1>1, <2>1, <2>3
  <2> QED
    BY <2>1, <2>4, <2>5
<1> QED
  BY <1>2, <1>3
-----------------------------------------------------------------------------
(* The RTO store: the lists, the indices and the count of r and idx together. *)

StoreType ==
    [r : [list : [0..RTO_HASH -> Seq(Stream)], cnt : Nat,
          now_idx : 0..(RTO_HASH - 1), now_ts : Nat],
     idx : [Stream -> -1..RTO_HASH]]

On(st) == {s \in Stream : st.idx[s] >= 0}
At(st, i) == {s \in Stream : st.idx[s] = i}

StoreTrue(st) ==
    /\ \A i \in 0..RTO_HASH : Distinct(st.r.list[i]) /\ Items(st.r.list[i]) = At(st, i)
    /\ st.r.cnt = Cardinality(On(st))

(* The set of streams on a store is finite, and its size a number. *)
LEMMA OnFinite ==
    ASSUME NEW st
    PROVE  IsFiniteSet(On(st)) /\ Cardinality(On(st)) \in Nat
<1>1. On(st) \in SUBSET Stream
  BY DEF On
<1>2. IsFiniteSet(On(st))
  BY <1>1, FS_Subset, TimersAssumption
<1> QED
  BY <1>2, FS_CardinalityType

(* AddtoRTOList puts a stream on one list of the store, unless it is on one. *)
LEMMA AddTrue ==
    ASSUME NEW st \in StoreType, StoreTrue(st), NEW s \in Stream, NEW ts \in Nat
    PROVE  /\ AddtoRTOList(st, s, ts) \in StoreType
           /\ StoreTrue(AddtoRTOList(st, s, ts))
           /\ On(AddtoRTOList(st, s, ts)) = On(st) \cup {s}
<1> USE TimersAssumption
<1> DEFINE r == AddtoRTOList(st, s, ts)
           base == IF st.r.cnt = 0 THEN [st.r EXCEPT !.now_idx = 0, !.now_ts = ts] ELSE st.r
           offset == IF ts - base.now_ts < RTO_HASH THEN ts % RTO_HASH ELSE RTO_HASH
<1>1. /\ st.r.list \in [0..RTO_HASH -> Seq(Stream)] /\ st.r.cnt \in Nat
      /\ st.idx \in [Stream -> -1..RTO_HASH]
  BY DEF StoreType
<1>2. CASE st.idx[s] >= 0
  BY <1>2 DEF AddtoRTOList, On
<1>3. CASE ~(st.idx[s] >= 0)
  <2>1. base \in [list : [0..RTO_HASH -> Seq(Stream)], cnt : Nat,
                  now_idx : 0..(RTO_HASH - 1), now_ts : Nat]
        /\ base.list = st.r.list /\ base.cnt = st.r.cnt
    <3>1. 0 \in 0..(RTO_HASH - 1)
      OBVIOUS
    <3> QED
      BY <3>1 DEF StoreType
  <2>2. r = [r |-> [base EXCEPT !.list[offset] = Append(@, s), !.cnt = @ + 1],
             idx |-> [st.idx EXCEPT ![s] = offset]]
    BY <1>3 DEF AddtoRTOList
  <2>3. offset \in 0..RTO_HASH
    <3>1. ts % RTO_HASH \in 0..(RTO_HASH - 1)
      OBVIOUS
    <3> QED
      BY <3>1
  <2> HIDE DEF base, offset, r
  <2>4. /\ r.r.list = [st.r.list EXCEPT ![offset] = Append(@, s)]
        /\ r.r.cnt = st.r.cnt + 1
        /\ r.idx = [st.idx EXCEPT ![s] = offset]
        /\ r.r.now_idx = base.now_idx /\ r.r.now_ts = base.now_ts
    BY <2>1, <2>2
  <2>5. s \notin At(st, offset) /\ s \notin On(st)
    BY <1>3, <2>3 DEF At, On
  <2>6. /\ Append(st.r.list[offset], s) \in Seq(Stream)
        /\ Items(Append(st.r.list[offset], s)) = At(st, offset) \cup {s}
        /\ Distinct(Append(st.r.list[offset], s))
    <3>1. st.r.list[offset] \in Seq(Stream)
      BY <1>1, <2>3
    <3>2. Items(st.r.list[offset]) = At(st, offset) /\ Distinct(st.r.list[offset])
      BY <2>3 DEF StoreTrue
    <3> QED
      BY <2>5, <3>1, <3>2, AppendHolds
  <2>7. r \in StoreType
    <3>1. r.r.list \in [0..RTO_HASH -> Seq(Stream)] /\ r.r.cnt \in Nat
      BY <1>1, <2>3, <2>4, <2>6
    <3>2. r.idx \in [Stream -> -1..RTO_HASH]
      <4>1. offset \in -1..RTO_HASH
        BY <2>3
      <4> QED
        BY <1>1, <2>4, <4>1
    <3> QED
      BY <2>1, <2>2, <2>4, <3>1, <3>2 DEF StoreType
  <2>8. ASSUME NEW i \in 0..RTO_HASH
        PROVE  Distinct(r.r.list[i]) /\ Items(r.r.list[i]) = At(r, i)
    <3>1. CASE i = offset
      <4>1. At(r, offset) = At(st, offset) \cup {s}
        BY <1>1, <2>4 DEF At
      <4>2. r.r.list[i] = Append(st.r.list[offset], s)
        BY <1>1, <2>3, <2>4, <3>1
      <4> QED
        BY <2>6, <3>1, <4>1, <4>2
    <3>2. CASE i # offset
      <4>1. At(r, i) = At(st, i)
        BY <1>1, <1>3, <2>4, <3>2 DEF At
      <4>2. r.r.list[i] = st.r.list[i]
        BY <1>1, <2>4, <3>2
      <4> QED
        BY <4>1, <4>2 DEF StoreTrue
    <3> QED
      BY <3>1, <3>2
  <2>9. On(r) = On(st) \cup {s}
    <3>1. offset >= 0
      BY <2>3
    <3> QED
      BY <1>1, <2>4, <3>1 DEF On
  <2>10. r.r.cnt = Cardinality(On(r))
    <3>1. Cardinality(On(st) \cup {s}) = Cardinality(On(st)) + 1
      BY <2>5, OnFinite, FS_AddElement
    <3> QED
      BY <2>4, <2>9, <3>1 DEF StoreTrue
  <2> QED
    BY <2>7, <2>8, <2>9, <2>10 DEF StoreTrue, r
<1> QED
  BY <1>2, <1>3

(* RemoveFromRTOList takes a stream off the store, if it is on it. *)
LEMMA RemoveTrue ==
    ASSUME NEW st \in StoreType, StoreTrue(st), NEW s \in Stream
    PROVE  /\ RemoveFromRTOList(st, s) \in StoreType
           /\ StoreTrue(RemoveFromRTOList(st, s))
           /\ On(RemoveFromRTOList(st, s)) = On(st) \ {s}
<1> USE TimersAssumption
<1> DEFINE r == RemoveFromRTOList(st, s)
           at == st.idx[s]
<1>1. /\ st.r.list \in [0..RTO_HASH -> Seq(Stream)] /\ st.r.cnt \in Nat
      /\ st.idx \in [Stream -> -1..RTO_HASH]
      /\ at \in -1..RTO_HASH
  BY DEF StoreType
<1>2. CASE at < 0
  <2>1. s \notin On(st)
    BY <1>1, <1>2 DEF On
  <2> QED
    BY <1>2, <2>1 DEF RemoveFromRTOList
<1>3. CASE ~(at < 0)
  <2>1. r = [r |-> [st.r EXCEPT !.list[at] = Without(@, {s}), !.cnt = @ - 1],
             idx |-> [st.idx EXCEPT ![s] = -1]]
    BY <1>3 DEF RemoveFromRTOList
  <2>2. at \in 0..RTO_HASH /\ s \in At(st, at) /\ s \in On(st)
    BY <1>1, <1>3 DEF At, On
  <2>3. /\ Without(st.r.list[at], {s}) \in Seq(Stream)
        /\ Items(Without(st.r.list[at], {s})) = At(st, at) \ {s}
        /\ Distinct(Without(st.r.list[at], {s}))
    <3>1. st.r.list[at] \in Seq(Stream)
      BY <1>1, <2>2
    <3>2. Items(st.r.list[at]) = At(st, at) /\ Distinct(st.r.list[at])
      BY <2>2 DEF StoreTrue
    <3> QED
      BY <3>1, <3>2, WithoutHolds
  <2> HIDE DEF r
  <2>4. /\ r.r.list = [st.r.list EXCEPT ![at] = Without(@, {s})]
        /\ r.r.cnt = st.r.cnt - 1
        /\ r.idx = [st.idx EXCEPT ![s] = -1]
    <3>1. st.r \in [list : [0..RTO_HASH -> Seq(Stream)], cnt : Nat,
                    now_idx : 0..(RTO_HASH - 1), now_ts : Nat]
      BY DEF StoreType
    <3> QED
      BY <2>1, <3>1
  <2>5. On(r) = On(st) \ {s}
    BY <1>1, <2>4 DEF On
  <2>6. r.r.cnt = Cardinality(On(r))
    <3>1. Cardinality(On(st) \ {s}) = Cardinality(On(st)) - 1
      BY <2>2, OnFinite, FS_RemoveElement
    <3> QED
      BY <2>4, <2>5, <3>1 DEF StoreTrue
  <2>7. r \in StoreType
    <3>1. r.r.list \in [0..RTO_HASH -> Seq(Stream)]
      BY <1>1, <2>2, <2>3, <2>4
    <3>2. r.r.cnt \in Nat
      BY <2>6, OnFinite
    <3>3. r.idx \in [Stream -> -1..RTO_HASH]
      BY <1>1, <2>4
    <3> QED
      BY <2>1, <2>4, <3>1, <3>2, <3>3 DEF StoreType
  <2>8. ASSUME NEW i \in 0..RTO_HASH
        PROVE  Distinct(r.r.list[i]) /\ Items(r.r.list[i]) = At(r, i)
    <3>1. CASE i = at
      <4>1. At(r, at) = At(st, at) \ {s}
        BY <1>1, <2>2, <2>4 DEF At
      <4>2. r.r.list[i] = Without(st.r.list[at], {s})
        BY <1>1, <2>2, <2>4, <3>1
      <4> QED
        BY <2>3, <3>1, <4>1, <4>2
    <3>2. CASE i # at
      <4>1. At(r, i) = At(st, i)
        BY <1>1, <2>4, <3>2 DEF At
      <4>2. r.r.list[i] = st.r.list[i]
        BY <1>1, <2>4, <3>2
      <4> QED
        BY <4>1, <4>2 DEF StoreTrue
    <3> QED
      BY <3>1, <3>2
  <2> QED
    BY <2>5, <2>6, <2>7, <2>8 DEF StoreTrue, r
<1> QED
  BY <1>2, <1>3

(* RearrangeRTOStore moves the streams that are not far any more into the ring, and
   loses none. *)
LEMMA RearrangeTrue ==
    ASSUME NEW st \in StoreType, StoreTrue(st), ts_rto \in [Stream -> Ts]
    PROVE  /\ RearrangeRTOStore(st) \in StoreType
           /\ StoreTrue(RearrangeRTOStore(st))
           /\ On(RearrangeRTOStore(st)) = On(st)
<1> USE TimersAssumption
<1> DEFINE r == RearrangeRTOStore(st)
           ahead == st.r.list[RTO_HASH]
           far == {s \in Items(ahead) : st.r.now_ts - ts_rto[s] < RTO_HASH}
           slot(s) == ((st.r.now_ts - ts_rto[s] + st.r.now_idx) % Word) % RTO_HASH
           moved(i) == {s \in far : slot(s) = i}
<1>1. /\ st.r.list \in [0..RTO_HASH -> Seq(Stream)] /\ st.r.cnt \in Nat
      /\ st.r.now_ts \in Nat /\ st.r.now_idx \in Nat
      /\ st.idx \in [Stream -> -1..RTO_HASH]
      /\ st.r \in [list : [0..RTO_HASH -> Seq(Stream)], cnt : Nat,
                   now_idx : 0..(RTO_HASH - 1), now_ts : Nat]
  BY DEF StoreType
<1>2. /\ RTO_HASH \in 0..RTO_HASH
      /\ ahead \in Seq(Stream) /\ Distinct(ahead) /\ Items(ahead) = At(st, RTO_HASH)
  <2>1. RTO_HASH \in 0..RTO_HASH
    OBVIOUS
  <2> QED
    BY <1>1, <2>1 DEF StoreTrue
<1>3. \A s \in Stream : slot(s) \in 0..(RTO_HASH - 1)
  <2> SUFFICES ASSUME NEW s \in Stream PROVE slot(s) \in 0..(RTO_HASH - 1)
    OBVIOUS
  <2>1. ts_rto[s] \in Int
    BY DEF Ts
  <2> DEFINE sum == st.r.now_ts - ts_rto[s] + st.r.now_idx
             word == sum % Word
  <2>2. sum \in Int
    BY <1>1, <2>1
  <2> HIDE DEF sum
  <2>3. word \in Int
    BY <2>2
  <2> HIDE DEF word
  <2>4. word % RTO_HASH \in 0..(RTO_HASH - 1)
    BY <2>3
  <2> QED
    BY <2>4 DEF word, sum
<1>4. r = [r |-> [st.r EXCEPT !.list = [i \in 0..RTO_HASH |->
                    IF i = RTO_HASH THEN Without(ahead, far)
                    ELSE @[i] \o Only(ahead, moved(i))]],
           idx |-> [s \in Stream |-> IF s \in far THEN slot(s) ELSE st.idx[s]]]
  BY DEF RearrangeRTOStore
<1>5. \A i : moved(i) \subseteq far
  OBVIOUS
<1>6. \A s \in far : s \in Stream /\ st.idx[s] = RTO_HASH
  BY <1>2 DEF At
<1>7. \A i, s : s \in moved(i) <=> s \in far /\ slot(s) = i
  OBVIOUS
<1> HIDE DEF far, slot, moved, r, ahead
<1>8. /\ r.r.list = [i \in 0..RTO_HASH |->
                        IF i = RTO_HASH THEN Without(ahead, far)
                        ELSE st.r.list[i] \o Only(ahead, moved(i))]
      /\ r.r.cnt = st.r.cnt
      /\ r.idx = [s \in Stream |-> IF s \in far THEN slot(s) ELSE st.idx[s]]
  BY <1>1, <1>4
<1>9. ASSUME NEW i \in 0..RTO_HASH
      PROVE  /\ r.r.list[i] \in Seq(Stream) /\ Distinct(r.r.list[i])
             /\ Items(r.r.list[i]) = At(r, i)
  <2>1. CASE i = RTO_HASH
    <3>1. r.r.list[i] = Without(ahead, far)
      BY <1>8, <2>1
    <3>2. /\ Without(ahead, far) \in Seq(Stream) /\ Distinct(Without(ahead, far))
          /\ Items(Without(ahead, far)) = At(st, RTO_HASH) \ far
      BY <1>2, WithoutHolds
    <3>3. At(r, RTO_HASH) = At(st, RTO_HASH) \ far
      <4>1. \A s \in Stream : slot(s) # RTO_HASH
        BY <1>3
      <4> QED
        BY <1>8, <4>1 DEF At
    <3> QED
      BY <2>1, <3>1, <3>2, <3>3
  <2>2. CASE i # RTO_HASH
    <3> DEFINE l == st.r.list[i]
               m == Only(ahead, moved(i))
    <3>1. r.r.list[i] = l \o m
      BY <1>8, <2>2
    <3>2. l \in Seq(Stream) /\ Distinct(l) /\ Items(l) = At(st, i)
      BY <1>1 DEF StoreTrue
    <3>3. /\ m \in Seq(Stream) /\ Distinct(m)
          /\ Items(m) = At(st, RTO_HASH) \cap moved(i)
      BY <1>2, OnlyHolds
    <3>4. Items(m) = moved(i)
      BY <1>5, <1>6, <3>3 DEF At
    <3>5. Items(l) \cap Items(m) = {}
      BY <1>5, <1>6, <2>2, <3>2, <3>4 DEF At
    <3>6. At(r, i) = At(st, i) \cup moved(i)
      BY <1>6, <1>7, <1>8, <2>2 DEF At
    <3> HIDE DEF l, m
    <3>7. l \o m \in Seq(Stream) /\ Items(l \o m) = Items(l) \cup Items(m) /\ Distinct(l \o m)
      BY <3>2, <3>3, <3>5, ConcatHolds
    <3> QED
      BY <3>1, <3>2, <3>4, <3>6, <3>7
  <2> QED
    BY <2>1, <2>2
<1>10. r \in StoreType
  <2>1. r.r.list \in [0..RTO_HASH -> Seq(Stream)]
    BY <1>8, <1>9
  <2>2. r.idx \in [Stream -> -1..RTO_HASH]
    BY <1>1, <1>3, <1>8
  <2> QED
    BY <1>1, <1>4, <1>8, <2>1, <2>2 DEF StoreType
<1>11. On(r) = On(st)
  BY <1>3, <1>6, <1>8 DEF On
<1> QED
  BY <1>8, <1>9, <1>10, <1>11 DEF StoreTrue, r

(* What DestroyAll makes of a store. *)
Destroyed(gone, st) ==
    [r |-> [st.r EXCEPT !.list = [i \in 0..RTO_HASH |-> Without(@[i], gone)],
                        !.cnt = @ - Cardinality({s \in gone : st.idx[s] >= 0})],
     idx |-> [s \in Stream |-> IF s \in gone THEN -1 ELSE st.idx[s]]]

(* Destroyed streams leave the store. *)
LEMMA DestroyedTrue ==
    ASSUME NEW st \in StoreType, StoreTrue(st), NEW gone \in SUBSET Stream
    PROVE  /\ Destroyed(gone, st) \in StoreType
           /\ StoreTrue(Destroyed(gone, st))
           /\ On(Destroyed(gone, st)) = On(st) \ gone
<1> USE TimersAssumption
<1> DEFINE r == Destroyed(gone, st)
           were == {s \in gone : st.idx[s] >= 0}
<1>1. /\ st.r.list \in [0..RTO_HASH -> Seq(Stream)] /\ st.r.cnt \in Nat
      /\ st.idx \in [Stream -> -1..RTO_HASH]
      /\ st.r \in [list : [0..RTO_HASH -> Seq(Stream)], cnt : Nat,
                   now_idx : 0..(RTO_HASH - 1), now_ts : Nat]
  BY DEF StoreType
<1>2. r = [r |-> [st.r EXCEPT !.list = [i \in 0..RTO_HASH |-> Without(@[i], gone)],
                              !.cnt = @ - Cardinality(were)],
           idx |-> [s \in Stream |-> IF s \in gone THEN -1 ELSE st.idx[s]]]
  BY DEF Destroyed
<1>3. were = On(st) \cap gone
  BY DEF On
<1> HIDE DEF r, were
<1>4. /\ r.r.list = [i \in 0..RTO_HASH |-> Without(st.r.list[i], gone)]
      /\ r.r.cnt = st.r.cnt - Cardinality(were)
      /\ r.idx = [s \in Stream |-> IF s \in gone THEN -1 ELSE st.idx[s]]
  BY <1>1, <1>2
<1>5. ASSUME NEW i \in 0..RTO_HASH
      PROVE  /\ r.r.list[i] \in Seq(Stream) /\ Distinct(r.r.list[i])
             /\ Items(r.r.list[i]) = At(r, i)
  <2>1. st.r.list[i] \in Seq(Stream) /\ Distinct(st.r.list[i]) /\ Items(st.r.list[i]) = At(st, i)
    BY <1>1 DEF StoreTrue
  <2>2. /\ Without(st.r.list[i], gone) \in Seq(Stream) /\ Distinct(Without(st.r.list[i], gone))
        /\ Items(Without(st.r.list[i], gone)) = At(st, i) \ gone
    BY <2>1, WithoutHolds
  <2>3. At(r, i) = At(st, i) \ gone
    BY <1>1, <1>4 DEF At
  <2> QED
    BY <1>4, <2>2, <2>3
<1>6. On(r) = On(st) \ gone
  BY <1>1, <1>4 DEF On
<1>7. r.r.cnt = Cardinality(On(r))
  <2>1. Cardinality(On(st) \ gone) = Cardinality(On(st)) - Cardinality(On(st) \cap gone)
    BY OnFinite, FS_Difference
  <2> QED
    BY <1>3, <1>4, <1>6, <2>1 DEF StoreTrue
<1>8. r \in StoreType
  <2>1. r.r.list \in [0..RTO_HASH -> Seq(Stream)]
    BY <1>4, <1>5
  <2>2. r.idx \in [Stream -> -1..RTO_HASH]
    BY <1>1, <1>4
  <2>3. r.r.cnt \in Nat
    BY <1>7, OnFinite
  <2>4. r.r.now_idx = st.r.now_idx /\ r.r.now_ts = st.r.now_ts
    BY <1>1, <1>2
  <2> QED
    BY <1>1, <1>2, <2>1, <2>2, <2>3, <2>4 DEF StoreType
<1> QED
  BY <1>5, <1>6, <1>7, <1>8 DEF StoreTrue, r

(* HandleRTO of the first n streams of a slot: their places, their indices and
   their number leave the store together. *)
TakeFirst(st, at, n) ==
    [r |-> [st.r EXCEPT !.list[at] = SubSeq(st.r.list[at], n + 1, Len(st.r.list[at])),
                        !.cnt = @ - n],
     idx |-> [s \in Stream |-> IF s \in First(st.r.list[at], n) THEN -1 ELSE st.idx[s]]]

(* The streams handled are those that leave. *)
LEMMA TakeFirstTrue ==
    ASSUME NEW st \in StoreType, StoreTrue(st), NEW at \in 0..RTO_HASH,
           NEW n \in 0..Len(st.r.list[at])
    PROVE  /\ TakeFirst(st, at, n) \in StoreType
           /\ StoreTrue(TakeFirst(st, at, n))
           /\ On(TakeFirst(st, at, n)) = On(st) \ First(st.r.list[at], n)
           /\ First(st.r.list[at], n) \subseteq On(st)
<1> USE TimersAssumption
<1> DEFINE r == TakeFirst(st, at, n)
           l == st.r.list[at]
           first == First(l, n)
<1>1. /\ st.r.list \in [0..RTO_HASH -> Seq(Stream)] /\ st.r.cnt \in Nat
      /\ st.idx \in [Stream -> -1..RTO_HASH]
      /\ st.r \in [list : [0..RTO_HASH -> Seq(Stream)], cnt : Nat,
                   now_idx : 0..(RTO_HASH - 1), now_ts : Nat]
  BY DEF StoreType
<1>2. l \in Seq(Stream) /\ Distinct(l) /\ Items(l) = At(st, at) /\ n \in 0..Len(l) /\ n \in Nat
  BY <1>1 DEF StoreTrue
<1>3. r = [r |-> [st.r EXCEPT !.list[at] = SubSeq(l, n + 1, Len(l)), !.cnt = @ - n],
           idx |-> [s \in Stream |-> IF s \in first THEN -1 ELSE st.idx[s]]]
  BY DEF TakeFirst
<1> HIDE DEF r, l, first
<1>4. /\ SubSeq(l, n + 1, Len(l)) \in Seq(Stream)
      /\ Items(SubSeq(l, n + 1, Len(l))) = Items(l) \ first
      /\ Distinct(SubSeq(l, n + 1, Len(l)))
      /\ first \subseteq Items(l)
      /\ IsFiniteSet(first) /\ Cardinality(first) = n
  BY <1>2, TailHolds DEF first
<1> DEFINE rest == SubSeq(l, n + 1, Len(l))
<1>5. /\ r.r.list = [st.r.list EXCEPT ![at] = rest]
      /\ r.r.cnt = st.r.cnt - n
      /\ r.idx = [s \in Stream |-> IF s \in first THEN -1 ELSE st.idx[s]]
  BY <1>1, <1>3
<1> HIDE DEF rest
<1>6. first \subseteq At(st, at) /\ first \subseteq On(st)
  <2>1. at >= 0
    OBVIOUS
  <2> QED
    BY <1>2, <1>4, <2>1 DEF At, On
<1>7. ASSUME NEW i \in 0..RTO_HASH
      PROVE  /\ r.r.list[i] \in Seq(Stream) /\ Distinct(r.r.list[i])
             /\ Items(r.r.list[i]) = At(r, i)
  <2>1. At(r, i) = At(st, i) \ first
    <3>1. i # -1
      OBVIOUS
    <3>2. \A s \in Stream : r.idx[s] = IF s \in first THEN -1 ELSE st.idx[s]
      BY <1>5
    <3> QED
      BY <3>1, <3>2 DEF At
  <2>2. CASE i = at
    <3>1. r.r.list[i] = rest
      BY <1>1, <1>5, <2>2
    <3> QED
      BY <1>2, <1>4, <2>1, <2>2, <3>1 DEF rest
  <2>3. CASE i # at
    <3>1. At(st, i) \ first = At(st, i)
      BY <1>6, <2>3 DEF At
    <3>2. r.r.list[i] = st.r.list[i] /\ st.r.list[i] \in Seq(Stream)
      BY <1>1, <1>5, <2>3
    <3> QED
      BY <2>1, <3>1, <3>2 DEF StoreTrue
  <2> QED
    BY <2>2, <2>3
<1>8. On(r) = On(st) \ first
  BY <1>1, <1>5 DEF On
<1>9. r.r.cnt = Cardinality(On(r))
  <2>1. Cardinality(On(st) \ first) = Cardinality(On(st)) - Cardinality(On(st) \cap first)
    BY OnFinite, FS_Difference
  <2>2. On(st) \cap first = first
    BY <1>6
  <2> QED
    BY <1>4, <1>5, <1>8, <2>1, <2>2 DEF StoreTrue
<1>10. r \in StoreType
  <2>1. r.r.list \in [0..RTO_HASH -> Seq(Stream)]
    <3>1. rest \in Seq(Stream)
      BY <1>4 DEF rest
    <3> QED
      BY <1>1, <1>5, <3>1
  <2>2. r.idx \in [Stream -> -1..RTO_HASH]
    BY <1>1, <1>5
  <2>3. r.r.cnt \in Nat
    BY <1>9, OnFinite
  <2>4. r.r.now_idx = st.r.now_idx /\ r.r.now_ts = st.r.now_ts
    BY <1>1, <1>3
  <2> QED
    BY <1>1, <1>3, <2>1, <2>2, <2>3, <2>4 DEF StoreType
<1> QED
  BY <1>6, <1>7, <1>8, <1>9, <1>10 DEF StoreTrue, r, first, l

(* The next slot of the ring. *)
Turned(st) == [st EXCEPT !.r.now_idx = (@ + 1) % RTO_HASH, !.r.now_ts = @ + 1]

(* Turning the ring moves no stream. *)
LEMMA TurnedTrue ==
    ASSUME NEW st \in StoreType, StoreTrue(st)
    PROVE  Turned(st) \in StoreType /\ StoreTrue(Turned(st)) /\ On(Turned(st)) = On(st)
<1> USE TimersAssumption
<1> DEFINE i == (st.r.now_idx + 1) % RTO_HASH
           ts == st.r.now_ts + 1
           r == Turned(st)
<1>1. i \in 0..(RTO_HASH - 1) /\ ts \in Nat
  <2>1. st.r.now_idx \in 0..(RTO_HASH - 1) /\ st.r.now_ts \in Nat
    BY DEF StoreType
  <2> DEFINE n == st.r.now_idx + 1
  <2> HIDE DEF n
  <2>2. n \in Nat => n % RTO_HASH \in 0..(RTO_HASH - 1)
    OBVIOUS
  <2> QED
    BY <2>1, <2>2 DEF n
<1>2. r = [st EXCEPT !.r = [@ EXCEPT !.now_idx = i, !.now_ts = ts]]
  BY DEF Turned, StoreType
<1> HIDE DEF i, ts, r
<1>3. r \in StoreType /\ r.r.list = st.r.list /\ r.r.cnt = st.r.cnt /\ r.idx = st.idx
  BY <1>1, <1>2 DEF StoreType
<1> QED
  BY <1>3 DEF StoreTrue, On, At, r
-----------------------------------------------------------------------------
(* The state, in these terms. *)

(* The store of a state in which the invariant holds. *)
LEMMA StoreOfState ==
    ASSUME TypeOK
    PROVE  /\ Store \in StoreType
           /\ StoreInv <=> /\ StoreTrue(Store)
                           /\ \A s \in On(Store) : state[s] \in {"open", "closing"}
<1>1. Store.r = rto /\ Store.idx = on_rto_idx /\ Store = [r |-> rto, idx |-> on_rto_idx]
  BY DEF Store
<1>2. Store \in StoreType
  BY <1>1 DEF StoreType, TypeOK
<1>3. StoreTrue(Store) <=>
        /\ \A i \in 0..RTO_HASH :
            /\ Distinct(rto.list[i])
            /\ Items(rto.list[i]) = {s \in Stream : on_rto_idx[s] = i}
        /\ rto.cnt = Cardinality({s \in Stream : on_rto_idx[s] >= 0})
  BY <1>1 DEF StoreTrue, At, On
<1>4. (\A s \in On(Store) : state[s] \in {"open", "closing"})
        <=> \A s \in Stream : on_rto_idx[s] >= 0 => state[s] \in {"open", "closing"}
  BY <1>1 DEF On
<1> QED
  BY <1>2, <1>3, <1>4 DEF StoreInv

(* SetStore of a store that is right, with the states of the streams on it. *)
LEMMA StoreSet ==
    ASSUME NEW st \in StoreType, StoreTrue(st), SetStore(st),
           \A s \in On(st) : state'[s] \in {"open", "closing"}
    PROVE  /\ rto' \in [list : [0..RTO_HASH -> Seq(Stream)], cnt : Nat,
                        now_idx : 0..(RTO_HASH - 1), now_ts : Nat]
           /\ on_rto_idx' \in [Stream -> -1..RTO_HASH]
           /\ StoreInv'
<1>1. rto' = st.r /\ on_rto_idx' = st.idx
  BY DEF SetStore
<1>2. /\ st.r \in [list : [0..RTO_HASH -> Seq(Stream)], cnt : Nat,
                   now_idx : 0..(RTO_HASH - 1), now_ts : Nat]
      /\ st.idx \in [Stream -> -1..RTO_HASH]
  BY DEF StoreType
<1>3. \A i \in 0..RTO_HASH :
            /\ Distinct(st.r.list[i])
            /\ Items(st.r.list[i]) = {s \in Stream : st.idx[s] = i}
  BY DEF StoreTrue, At
<1>4. st.r.cnt = Cardinality({s \in Stream : st.idx[s] >= 0})
  BY DEF StoreTrue, On
<1>5. \A s \in Stream : st.idx[s] >= 0 => state'[s] \in {"open", "closing"}
  BY DEF On
<1> QED
  BY <1>1, <1>2, <1>3, <1>4, <1>5 DEF StoreInv, Distinct, Items

(* DestroyAll takes streams off all lists. *)
LEMMA DestroyKeeps ==
    ASSUME TypeOK, OrderInv, NEW st \in StoreType, StoreTrue(st), NEW gone \in SUBSET Stream,
           \A s \in On(st) : state[s] \in {"open", "closing"},
           DestroyAll(gone, st), UNCHANGED <<ts_tw_expire, last_active>>
    PROVE  /\ state' \in [Stream -> {"free", "open", "closing", "time_wait"}]
           /\ on_control_list' = [s \in Stream |-> on_control_list[s] /\ s \notin gone]
           /\ rto' \in [list : [0..RTO_HASH -> Seq(Stream)], cnt : Nat,
                        now_idx : 0..(RTO_HASH - 1), now_ts : Nat]
           /\ on_rto_idx' \in [Stream -> -1..RTO_HASH]
           /\ timewait_list' \in Seq(Stream) /\ timeout_list' \in Seq(Stream)
           /\ Items(timewait_list') = Items(timewait_list) \ gone
           /\ Items(timeout_list') = Items(timeout_list) \ gone
           /\ StoreInv' /\ OrderInv'
<1> USE TimersAssumption
<1>1. /\ state' = [s \in Stream |-> IF s \in gone THEN "free" ELSE state[s]]
      /\ timewait_list' = Without(timewait_list, gone)
      /\ timeout_list' = Without(timeout_list, gone)
      /\ on_control_list' = [s \in Stream |-> on_control_list[s] /\ s \notin gone]
      /\ SetStore(Destroyed(gone, st))
  BY DEF DestroyAll, Destroyed
<1>2. /\ state \in [Stream -> {"free", "open", "closing", "time_wait"}]
      /\ timewait_list \in Seq(Stream) /\ timeout_list \in Seq(Stream)
      /\ ts_tw_expire \in [Stream -> Ts] /\ last_active \in [Stream -> Ts]
  BY DEF TypeOK
<1>3. state' \in [Stream -> {"free", "open", "closing", "time_wait"}]
  BY <1>1, <1>2
<1>4. /\ Destroyed(gone, st) \in StoreType
      /\ StoreTrue(Destroyed(gone, st))
      /\ On(Destroyed(gone, st)) = On(st) \ gone
  BY DestroyedTrue
<1>5. \A s \in On(Destroyed(gone, st)) : state'[s] \in {"open", "closing"}
  BY <1>1, <1>4 DEF On
<1>6. /\ rto' \in [list : [0..RTO_HASH -> Seq(Stream)], cnt : Nat,
                   now_idx : 0..(RTO_HASH - 1), now_ts : Nat]
      /\ on_rto_idx' \in [Stream -> -1..RTO_HASH]
      /\ StoreInv'
  BY <1>1, <1>4, <1>5, StoreSet
<1>7. ts_tw_expire \in [Stream -> Int] /\ last_active \in [Stream -> Int]
  <2>1. Ts \subseteq Int
    BY DEF Ts
  <2> QED
    BY <1>2, <2>1
<1>8. /\ timewait_list' \in Seq(Stream)
      /\ Items(timewait_list') = Items(timewait_list) \ gone
      /\ Distinct(timewait_list')
      /\ Ordered(timewait_list', ts_tw_expire)
  <2>1. Distinct(timewait_list) /\ Ordered(timewait_list, ts_tw_expire)
    BY DEF OrderInv
  <2>2. /\ Without(timewait_list, gone) \in Seq(Stream)
        /\ Items(Without(timewait_list, gone)) = Items(timewait_list) \ gone
        /\ Distinct(Without(timewait_list, gone))
        /\ Ordered(Without(timewait_list, gone), ts_tw_expire)
    BY <1>2, <1>7, <2>1, WithoutHolds
  <2> QED
    BY <1>1, <2>2
<1>9. /\ timeout_list' \in Seq(Stream)
      /\ Items(timeout_list') = Items(timeout_list) \ gone
      /\ Distinct(timeout_list')
      /\ Ordered(timeout_list', last_active)
  <2>1. Distinct(timeout_list) /\ Ordered(timeout_list, last_active)
    BY DEF OrderInv
  <2>2. /\ Without(timeout_list, gone) \in Seq(Stream)
        /\ Items(Without(timeout_list, gone)) = Items(timeout_list) \ gone
        /\ Distinct(Without(timeout_list, gone))
        /\ Ordered(Without(timeout_list, gone), last_active)
    BY <1>2, <1>7, <2>1, WithoutHolds
  <2> QED
    BY <1>1, <2>2
<1>10. /\ Items(timewait_list) \ gone = {s \in Stream : state'[s] = "time_wait"}
       /\ Items(timeout_list) \ gone = {s \in Stream : state'[s] = "open"}
  <2>1. \A s \in Stream : state'[s] = IF s \in gone THEN "free" ELSE state[s]
    BY <1>1
  <2>2. /\ Items(timewait_list) = {s \in Stream : state[s] = "time_wait"}
        /\ Items(timeout_list) = {s \in Stream : state[s] = "open"}
    BY DEF OrderInv
  <2> HIDE DEF OrderInv
  <2> QED
    BY <2>1, <2>2
<1>11. OrderInv'
  <2>1. /\ Items(timewait_list') = {s \in Stream : state'[s] = "time_wait"}
        /\ Items(timeout_list') = {s \in Stream : state'[s] = "open"}
    BY <1>8, <1>9, <1>10
  <2>2. ts_tw_expire' = ts_tw_expire /\ last_active' = last_active
    OBVIOUS
  <2>3. Items(timewait_list)' = Items(timewait_list') /\ Items(timeout_list)' = Items(timeout_list')
    BY DEF Items
  <2>4. /\ Distinct(timewait_list)' /\ Distinct(timeout_list)'
        /\ Ordered(timewait_list, ts_tw_expire)' /\ Ordered(timeout_list, last_active)'
    BY <1>8, <1>9, <2>2 DEF Distinct, Ordered
  <2> QED
    BY <2>1, <2>3, <2>4 DEF OrderInv
<1> QED
  BY <1>1, <1>3, <1>6, <1>8, <1>9, <1>11

(* Touch with a time no stream is ahead of: the stream becomes the youngest. *)
LEMMA TouchKeeps ==
    ASSUME TypeOK, OrderInv, NEW s \in Stream, NEW ts \in Ts,
           \A t \in Stream : last_active[t] <= ts, Touch(s, ts)
    PROVE  /\ last_active' \in [Stream -> Ts]
           /\ \A t \in Stream : last_active'[t] = IF t = s THEN ts ELSE last_active[t]
           /\ timeout_list' \in Seq(Stream) /\ Distinct(timeout_list')
           /\ Items(timeout_list') = Items(timeout_list)
           /\ Ordered(timeout_list', last_active')
<1> USE TimersAssumption
<1> DEFINE new == [last_active EXCEPT ![s] = ts]
           l == timeout_list
           rest == Without(l, {s})
<1>1. last_active' = new /\ timeout_list' = IF s \in Items(l) THEN Append(rest, s) ELSE l
  BY DEF Touch, MoveToTail
<1>2. /\ last_active \in [Stream -> Ts] /\ l \in Seq(Stream)
      /\ Distinct(l) /\ Ordered(l, last_active)
  BY DEF TypeOK, OrderInv
<1>3. Ts \subseteq Int
  BY DEF Ts
<1>4. /\ new \in [Stream -> Ts]
      /\ \A t \in Stream : new[t] = IF t = s THEN ts ELSE last_active[t]
  BY <1>2
<1>5. new \in [Stream -> Int] /\ last_active \in [Stream -> Int]
  BY <1>2, <1>3, <1>4
<1> HIDE DEF new, l, rest
<1>6. CASE s \in Items(l)
  <2>1. /\ rest \in Seq(Stream) /\ Items(rest) = Items(l) \ {s} /\ Distinct(rest)
        /\ Ordered(rest, last_active)
    BY <1>2, <1>5, WithoutHolds DEF rest
  <2>2. Items(rest) \subseteq Stream
    BY <2>1 DEF Items
  <2>3. Ordered(rest, new)
    <3>1. \A y \in Items(rest) : new[y] = last_active[y]
      BY <1>4, <2>1, <2>2
    <3> QED
      BY <2>1, <3>1, OrderedSame
  <2>4. \A y \in Items(rest) : new[y] <= new[s]
    BY <1>4, <2>1, <2>2
  <2>5. /\ Append(rest, s) \in Seq(Stream) /\ Items(Append(rest, s)) = Items(rest) \cup {s}
        /\ Distinct(Append(rest, s)) /\ Ordered(Append(rest, s), new)
    BY <1>5, <2>1, <2>3, <2>4, AppendHolds
  <2> QED
    BY <1>1, <1>4, <1>6, <2>1, <2>5 DEF l
<1>7. CASE s \notin Items(l)
  <2>1. Items(l) \subseteq Stream
    BY <1>2 DEF Items
  <2>2. \A y \in Items(l) : new[y] = last_active[y]
    BY <1>4, <1>7, <2>1
  <2>3. Ordered(l, new)
    BY <1>2, <2>2, OrderedSame
  <2> QED
    BY <1>1, <1>2, <1>4, <1>7, <2>3 DEF l
<1> QED
  BY <1>6, <1>7

(* What OrderInv says of the two lists, primed part by part. *)
LEMMA OrderInvOf ==
    ASSUME Distinct(timewait_list'), Distinct(timeout_list'),
           Items(timewait_list') = {s \in Stream : state'[s] = "time_wait"},
           Items(timeout_list') = {s \in Stream : state'[s] = "open"},
           Ordered(timewait_list', ts_tw_expire'), Ordered(timeout_list', last_active')
    PROVE  OrderInv'
<1>1. Items(timewait_list)' = Items(timewait_list') /\ Items(timeout_list)' = Items(timeout_list')
  BY DEF Items
<1>2. /\ Distinct(timewait_list)' /\ Distinct(timeout_list)'
      /\ Ordered(timewait_list, ts_tw_expire)' /\ Ordered(timeout_list, last_active)'
  BY DEF Distinct, Ordered
<1> QED
  BY <1>1, <1>2 DEF OrderInv

(* A step that leaves a list and its times alone keeps what OrderInv says of it. *)
LEMMA WaitSame ==
    ASSUME OrderInv, UNCHANGED <<timewait_list, ts_tw_expire>>
    PROVE  /\ Distinct(timewait_list') /\ Ordered(timewait_list', ts_tw_expire')
           /\ Items(timewait_list') = {s \in Stream : state[s] = "time_wait"}
<1>1. /\ Distinct(timewait_list) /\ Ordered(timewait_list, ts_tw_expire)
      /\ Items(timewait_list) = {s \in Stream : state[s] = "time_wait"}
  BY DEF OrderInv
<1> QED
  BY <1>1

(* A step that leaves the store and the states alone keeps StoreInv. *)
LEMMA StoreSame ==
    ASSUME StoreInv, UNCHANGED <<rto, on_rto_idx, state>>
    PROVE  StoreInv'
BY DEF StoreInv, Distinct, Items

(* A step that leaves the two lists, their times and the states alone keeps OrderInv. *)
LEMMA OrderSame ==
    ASSUME OrderInv, UNCHANGED <<state, timewait_list, ts_tw_expire, timeout_list, last_active>>
    PROVE  OrderInv'
BY DEF OrderInv, Distinct, Items, Ordered
-----------------------------------------------------------------------------
(* The steps. *)

(* The invariant holds of an empty store and empty lists. *)
LEMMA InitIInv == Init => IInv
<1> SUFFICES ASSUME Init PROVE IInv
  OBVIOUS
<1> USE TimersAssumption
<1>1. TypeOK
  <2>1. <<>> \in Seq(Stream) /\ 0 \in Ts /\ 0 \in 0..MaxTs /\ -1 \in -1..RTO_HASH
        /\ 0 \in 0..(RTO_HASH - 1)
    BY DEF Ts
  <2>2. rto \in [list : [0..RTO_HASH -> Seq(Stream)], cnt : Nat,
                 now_idx : 0..(RTO_HASH - 1), now_ts : Nat]
    BY <2>1 DEF Init
  <2> QED
    BY <2>1, <2>2 DEF TypeOK, Init
<1>2. Items(<<>>) = {} /\ Distinct(<<>>) /\ \A ts : Ordered(<<>>, ts)
  BY DEF Items, Distinct, Ordered
<1>3. StoreInv
  <2>1. {s \in Stream : on_rto_idx[s] >= 0} = {}
    BY DEF Init
  <2>2. Cardinality({}) = 0
    BY FS_EmptySet
  <2>3. \A i \in 0..RTO_HASH : rto.list[i] = <<>> /\ {s \in Stream : on_rto_idx[s] = i} = {}
    BY DEF Init
  <2> QED
    BY <1>2, <2>1, <2>2, <2>3 DEF StoreInv, Init
<1>4. OrderInv
  BY <1>2 DEF OrderInv, Init
<1>5. ClockInv
  BY DEF ClockInv, Init
<1>6. NothingDueLeft
  BY <1>2 DEF NothingDueLeft, Init
<1> QED
  BY <1>1, <1>3, <1>4, <1>5, <1>6 DEF IInv

(* gettimeofday goes on. *)
LEMMA TickKeeps ==
    ASSUME IInv, Tick
    PROVE  IInv'
<1> USE TimersAssumption DEF IInv
<1>1. TypeOK'
  BY DEF Tick, TypeOK
<1>2. StoreInv' /\ OrderInv'
  BY StoreSame, OrderSame DEF Tick
<1>3. ClockInv'
  <2>1. /\ now \in Int /\ round.ts \in Int
        /\ \A s \in Stream : ts_tw_expire[s] \in Int /\ last_active[s] \in Int
    BY DEF TypeOK, Ts
  <2> QED
    BY <2>1 DEF Tick, ClockInv
<1>4. NothingDueLeft'
  BY DEF Tick, NothingDueLeft, Items
<1> QED
  BY <1>1, <1>2, <1>3, <1>4

(* user_tcp_handle_syn_rcvd *)
LEMMA EstablishKeeps ==
    ASSUME IInv, NEW s \in Stream, Establish(s)
    PROVE  IInv'
<1> USE TimersAssumption DEF IInv
<1>1. /\ round.pc = "write" /\ round' = [round EXCEPT !.pc = "received"]
      /\ state[s] = "free" /\ state' = [state EXCEPT ![s] = "open"]
      /\ last_active' = [last_active EXCEPT ![s] = now]
      /\ timeout_list' = Append(timeout_list, s)
      /\ UNCHANGED <<now, rto, ts_rto, on_rto_idx, timewait_list, ts_tw_expire, on_control_list>>
  BY DEF Establish, Received
<1>2. /\ timeout_list \in Seq(Stream) /\ last_active \in [Stream -> Ts] /\ now \in Ts /\ now \in Int
      /\ state \in [Stream -> {"free", "open", "closing", "time_wait"}] /\ Ts \subseteq Int
  BY DEF TypeOK, Ts
<1>3. /\ Distinct(timeout_list) /\ Ordered(timeout_list, last_active)
      /\ Items(timeout_list) = {t \in Stream : state[t] = "open"}
  BY DEF OrderInv
<1>4. \A t \in Stream : last_active'[t] = IF t = s THEN now ELSE last_active[t]
  BY <1>1, <1>2
<1>5. s \notin Items(timeout_list) /\ \A y \in Items(timeout_list) : y \in Stream
  BY <1>1, <1>3
<1>6. last_active' \in [Stream -> Ts] /\ last_active' \in [Stream -> Int]
  BY <1>1, <1>2
<1>7. /\ timeout_list' \in Seq(Stream) /\ Distinct(timeout_list')
      /\ Items(timeout_list') = Items(timeout_list) \cup {s}
      /\ Ordered(timeout_list', last_active')
  <2>1. Ordered(timeout_list, last_active')
    BY <1>3, <1>4, <1>5, OrderedSame
  <2>2. \A y \in Items(timeout_list) : last_active'[y] <= last_active'[s]
    BY <1>2, <1>4, <1>5 DEF ClockInv
  <2> QED
    BY <1>1, <1>2, <1>3, <1>5, <1>6, <2>1, <2>2, AppendHolds
<1>8. TypeOK'
  BY <1>1, <1>6, <1>7 DEF TypeOK
<1>9. StoreInv'
  BY <1>1, <1>2 DEF StoreInv, Distinct, Items
<1>10. OrderInv'
  <2>1. Items(timeout_list') = {t \in Stream : state'[t] = "open"}
    BY <1>1, <1>2, <1>3, <1>7
  <2>2. {t \in Stream : state'[t] = "time_wait"} = {t \in Stream : state[t] = "time_wait"}
    BY <1>1, <1>2
  <2> QED
    BY <1>1, <1>7, <2>1, <2>2, WaitSame, OrderInvOf
<1>11. ClockInv'
  BY <1>1, <1>2, <1>4 DEF ClockInv, TypeOK
<1>12. NothingDueLeft'
  BY <1>1 DEF NothingDueLeft, TypeOK
<1> QED
  BY <1>8, <1>9, <1>10, <1>11, <1>12

(* user_tcp_send_tcppkt with payload or FIN *)
LEMMA SendKeeps ==
    ASSUME IInv, NEW s \in Stream, Send(s)
    PROVE  IInv'
<1> USE TimersAssumption DEF IInv
<1>1. /\ round.pc = "write" /\ state[s] \in {"open", "closing"}
      /\ Touch(s, round.ts)
      /\ ts_rto' = [ts_rto EXCEPT ![s] = round.ts + Rto]
      /\ SetStore(AddtoRTOList(Store, s, round.ts + Rto))
      /\ on_control_list' = [on_control_list EXCEPT ![s] = FALSE]
      /\ UNCHANGED <<now, state, timewait_list, ts_tw_expire, round>>
  BY DEF Send
<1>2. /\ round.ts \in Ts /\ round.ts \in Nat /\ now \in 0..MaxTs
      /\ \A t \in Stream : round.ts >= last_active[t] /\ last_active[t] \in Int
      /\ round.ts <= now
  BY <1>1 DEF TypeOK, ClockInv, Ts
<1>3. round.ts + Rto \in Ts /\ round.ts + Rto \in Nat
  BY <1>2 DEF Ts
<1>4. /\ last_active' \in [Stream -> Ts]
      /\ \A t \in Stream : last_active'[t] = IF t = s THEN round.ts ELSE last_active[t]
      /\ timeout_list' \in Seq(Stream) /\ Distinct(timeout_list')
      /\ Items(timeout_list') = Items(timeout_list)
      /\ Ordered(timeout_list', last_active')
  <2>1. \A t \in Stream : last_active[t] <= round.ts
    BY <1>2
  <2> QED
    BY <1>1, <1>2, <2>1, TouchKeeps
<1>5. /\ Store \in StoreType /\ StoreTrue(Store)
      /\ \A t \in On(Store) : state[t] \in {"open", "closing"}
  BY StoreOfState
<1>6. /\ rto' \in [list : [0..RTO_HASH -> Seq(Stream)], cnt : Nat,
                   now_idx : 0..(RTO_HASH - 1), now_ts : Nat]
      /\ on_rto_idx' \in [Stream -> -1..RTO_HASH]
      /\ StoreInv'
  <2> DEFINE st == AddtoRTOList(Store, s, round.ts + Rto)
  <2>1. st \in StoreType /\ StoreTrue(st) /\ On(st) = On(Store) \cup {s}
    BY <1>3, <1>5, AddTrue
  <2>2. \A t \in On(st) : state'[t] \in {"open", "closing"}
    BY <1>1, <1>5, <2>1
  <2> HIDE DEF st
  <2> QED
    BY <1>1, <2>1, <2>2, StoreSet DEF st
<1>7. TypeOK'
  BY <1>1, <1>3, <1>4, <1>6 DEF TypeOK
<1>8. OrderInv'
  <2>1. Items(timeout_list') = {t \in Stream : state'[t] = "open"}
    BY <1>1, <1>4 DEF OrderInv
  <2> QED
    BY <1>1, <1>4, <2>1, WaitSame, OrderInvOf
<1>9. ClockInv'
  BY <1>1, <1>2, <1>4 DEF ClockInv
<1>10. NothingDueLeft'
  <2>1. Items(timeout_list)' = Items(timeout_list') /\ Items(timewait_list)' = Items(timewait_list')
    BY DEF Items
  <2>2. \A t \in Items(timeout_list) : t \in Stream /\ round.ts - last_active[t] < Timeout
    BY <1>1 DEF NothingDueLeft, OrderInv
  <2>3. \A t \in Items(timeout_list) : round.ts - last_active'[t] < Timeout
    BY <1>2, <1>4, <2>2
  <2> QED
    BY <1>1, <1>4, <2>1, <2>3 DEF NothingDueLeft
<1> QED
  BY <1>6, <1>7, <1>8, <1>9, <1>10

(* user_tcp_send_tcppkt without payload *)
LEMMA SendAckKeeps ==
    ASSUME IInv, NEW s \in Stream, SendAck(s)
    PROVE  IInv'
<1> USE TimersAssumption DEF IInv
<1>1. /\ round.pc = "write" /\ Touch(s, round.ts)
      /\ on_control_list' = [on_control_list EXCEPT ![s] = FALSE]
      /\ UNCHANGED <<now, state, rto, ts_rto, on_rto_idx, timewait_list, ts_tw_expire, round>>
  BY DEF SendAck
<1>2. /\ round.ts \in Ts /\ round.ts \in Nat /\ now \in 0..MaxTs
      /\ \A t \in Stream : round.ts >= last_active[t] /\ last_active[t] \in Int
      /\ round.ts <= now
  BY <1>1 DEF TypeOK, ClockInv, Ts
<1>3. /\ last_active' \in [Stream -> Ts]
      /\ \A t \in Stream : last_active'[t] = IF t = s THEN round.ts ELSE last_active[t]
      /\ timeout_list' \in Seq(Stream) /\ Distinct(timeout_list')
      /\ Items(timeout_list') = Items(timeout_list)
      /\ Ordered(timeout_list', last_active')
  <2>1. \A t \in Stream : last_active[t] <= round.ts
    BY <1>2
  <2> QED
    BY <1>1, <1>2, <2>1, TouchKeeps
<1>4. TypeOK'
  BY <1>1, <1>3 DEF TypeOK
<1>5. StoreInv'
  BY <1>1, StoreSame
<1>6. OrderInv'
  <2>1. Items(timeout_list') = {t \in Stream : state'[t] = "open"}
    BY <1>1, <1>3 DEF OrderInv
  <2> QED
    BY <1>1, <1>3, <2>1, WaitSame, OrderInvOf
<1>7. ClockInv'
  BY <1>1, <1>2, <1>3 DEF ClockInv
<1>8. NothingDueLeft'
  <2>1. Items(timeout_list)' = Items(timeout_list') /\ Items(timewait_list)' = Items(timewait_list')
    BY DEF Items
  <2>2. \A t \in Items(timeout_list) : t \in Stream /\ round.ts - last_active[t] < Timeout
    BY <1>1 DEF NothingDueLeft, OrderInv
  <2>3. \A t \in Items(timeout_list) : round.ts - last_active'[t] < Timeout
    BY <1>2, <1>3, <2>2
  <2> QED
    BY <1>1, <1>3, <2>1, <2>3 DEF NothingDueLeft
<1> QED
  BY <1>4, <1>5, <1>6, <1>7, <1>8

(* user_tcp_process and UpdateRetransmissionTimer *)
LEMMA SegmentKeeps ==
    ASSUME IInv, NEW s \in Stream, NEW acks \in BOOLEAN, NEW inFlight \in BOOLEAN,
           Segment(s, acks, inFlight)
    PROVE  IInv'
<1> USE TimersAssumption DEF IInv
<1> DEFINE removed == RemoveFromRTOList(Store, s)
           st == IF ~acks THEN Store
                 ELSE IF inFlight THEN AddtoRTOList(removed, s, now + Rto) ELSE removed
<1>1. /\ round' = [round EXCEPT !.pc = "received"]
      /\ state[s] \in {"open", "closing"}
      /\ Touch(s, now)
      /\ ts_rto' = IF acks /\ inFlight THEN [ts_rto EXCEPT ![s] = now + Rto] ELSE ts_rto
      /\ SetStore(st)
      /\ UNCHANGED <<now, state, timewait_list, ts_tw_expire, on_control_list>>
  BY DEF Segment, Received
<1>2. /\ now \in Ts /\ now \in Nat /\ now + Rto \in Ts /\ now + Rto \in Nat
      /\ \A t \in Stream : last_active[t] <= now
      /\ round'.pc = "received" /\ round'.ts = round.ts
  <2>1. now \in 0..MaxTs
    BY DEF TypeOK
  <2>2. round \in [pc : {"write", "received", "rtm", "timewait", "timeout"}, ts : Ts, cnt : Nat]
    BY DEF TypeOK
  <2>3. round'.pc = "received" /\ round'.ts = round.ts
    BY <1>1, <2>2
  <2> QED
    BY <2>1, <2>3 DEF ClockInv, Ts
<1>3. /\ last_active' \in [Stream -> Ts]
      /\ \A t \in Stream : last_active'[t] = IF t = s THEN now ELSE last_active[t]
      /\ timeout_list' \in Seq(Stream) /\ Distinct(timeout_list')
      /\ Items(timeout_list') = Items(timeout_list)
      /\ Ordered(timeout_list', last_active')
  BY <1>1, <1>2, TouchKeeps
<1>4. /\ Store \in StoreType /\ StoreTrue(Store)
      /\ \A t \in On(Store) : state[t] \in {"open", "closing"}
  BY StoreOfState
<1>5. st \in StoreType /\ StoreTrue(st) /\ On(st) \subseteq On(Store) \cup {s}
  <2>1. removed \in StoreType /\ StoreTrue(removed) /\ On(removed) = On(Store) \ {s}
    BY <1>4, RemoveTrue
  <2> DEFINE added == AddtoRTOList(removed, s, now + Rto)
  <2> HIDE DEF removed
  <2>2. added \in StoreType /\ StoreTrue(added) /\ On(added) = On(removed) \cup {s}
    BY <1>2, <2>1, AddTrue
  <2>3. st = Store \/ st = removed \/ st = added
    OBVIOUS
  <2> HIDE DEF added, st
  <2>4. CASE st = Store
    BY <1>4, <2>4
  <2>5. CASE st = removed
    BY <2>1, <2>5
  <2>6. CASE st = added
    BY <2>1, <2>2, <2>6
  <2> QED
    BY <2>3, <2>4, <2>5, <2>6
<1> HIDE DEF st
<1>6. /\ rto' \in [list : [0..RTO_HASH -> Seq(Stream)], cnt : Nat,
                   now_idx : 0..(RTO_HASH - 1), now_ts : Nat]
      /\ on_rto_idx' \in [Stream -> -1..RTO_HASH]
      /\ StoreInv'
  <2>1. \A t \in On(st) : state'[t] \in {"open", "closing"}
    BY <1>1, <1>4, <1>5
  <2> QED
    BY <1>1, <1>5, <2>1, StoreSet
<1>7. TypeOK'
  <2>1. ts_rto' \in [Stream -> Ts]
    BY <1>1, <1>2 DEF TypeOK
  <2>2. round' \in [pc : {"write", "received", "rtm", "timewait", "timeout"}, ts : Ts, cnt : Nat]
    BY <1>1 DEF TypeOK
  <2> QED
    BY <1>1, <1>3, <1>6, <2>1, <2>2 DEF TypeOK
<1>8. OrderInv'
  <2>1. Items(timeout_list') = {t \in Stream : state'[t] = "open"}
    BY <1>1, <1>3 DEF OrderInv
  <2> QED
    BY <1>1, <1>3, <2>1, WaitSame, OrderInvOf
<1>9. ClockInv'
  BY <1>1, <1>2, <1>3 DEF ClockInv
<1>10. NothingDueLeft'
  BY <1>2 DEF NothingDueLeft
<1> QED
  BY <1>6, <1>7, <1>8, <1>9, <1>10

(* close() taken up by handle_apicall *)
LEMMA CloseKeeps ==
    ASSUME IInv, NEW s \in Stream, Close(s)
    PROVE  IInv'
<1> USE TimersAssumption DEF IInv
<1>1. /\ round.pc = "write" /\ state[s] = "open"
      /\ state' = [state EXCEPT ![s] = "closing"]
      /\ timeout_list' = Without(timeout_list, {s})
      /\ on_control_list' = [on_control_list EXCEPT ![s] = TRUE]
      /\ UNCHANGED <<now, rto, ts_rto, on_rto_idx, timewait_list, ts_tw_expire,
                     last_active, round>>
  BY DEF Close
<1>2. /\ timeout_list \in Seq(Stream) /\ last_active \in [Stream -> Int]
      /\ state \in [Stream -> {"free", "open", "closing", "time_wait"}]
  <2>1. Ts \subseteq Int
    BY DEF Ts
  <2> QED
    BY <2>1 DEF TypeOK
<1>3. /\ Distinct(timeout_list) /\ Ordered(timeout_list, last_active)
      /\ Items(timeout_list) = {t \in Stream : state[t] = "open"}
  BY DEF OrderInv
<1>4. /\ timeout_list' \in Seq(Stream) /\ Distinct(timeout_list')
      /\ Items(timeout_list') = Items(timeout_list) \ {s}
      /\ Ordered(timeout_list', last_active)
  BY <1>1, <1>2, <1>3, WithoutHolds
<1>5. TypeOK'
  BY <1>1, <1>4 DEF TypeOK
<1>6. StoreInv'
  BY <1>1, <1>2 DEF StoreInv, Distinct, Items
<1>7. OrderInv'
  <2>1. Items(timeout_list') = {t \in Stream : state'[t] = "open"}
    BY <1>1, <1>2, <1>3, <1>4
  <2>2. {t \in Stream : state'[t] = "time_wait"} = {t \in Stream : state[t] = "time_wait"}
    BY <1>1, <1>2
  <2> QED
    BY <1>1, <1>4, <2>1, <2>2, WaitSame, OrderInvOf
<1>8. ClockInv'
  BY <1>1 DEF ClockInv
<1>9. NothingDueLeft'
  <2>1. Items(timeout_list)' = Items(timeout_list') /\ Items(timewait_list)' = Items(timewait_list')
    BY DEF Items
  <2> QED
    BY <1>1, <1>4, <2>1 DEF NothingDueLeft
<1> QED
  BY <1>5, <1>6, <1>7, <1>8, <1>9

(* AddtoTimewaitList: the stream goes to the end of the timewait list, its time
   being the latest, and is not on the store any more. *)
LEMMA TimeWaitKeeps ==
    ASSUME IInv, NEW s \in Stream, TimeWait(s)
    PROVE  IInv'
<1> USE TimersAssumption DEF IInv
<1> DEFINE l == timewait_list
           rest == Without(l, {s})
           new == [ts_tw_expire EXCEPT ![s] = now]
           st == IF s \in Items(l) THEN Store ELSE RemoveFromRTOList(Store, s)
<1>1. /\ round' = [round EXCEPT !.pc = "received"]
      /\ state[s] \in {"closing", "time_wait"} /\ state' = [state EXCEPT ![s] = "time_wait"]
      /\ ts_tw_expire' = [ts_tw_expire EXCEPT ![s] = now + USER_TCP_TIMEWAIT]
      /\ timewait_list' = Append(rest, s)
      /\ SetStore(st)
      /\ Touch(s, now)
      /\ on_control_list' = [on_control_list EXCEPT ![s] = TRUE]
      /\ UNCHANGED <<now, ts_rto>>
  BY DEF TimeWait, Received, AddtoTimewaitList
<1>2. /\ now \in Ts /\ now \in Nat
      /\ \A t \in Stream : last_active[t] <= now /\ ts_tw_expire[t] <= now
      /\ round'.pc = "received" /\ round'.ts = round.ts
      /\ state \in [Stream -> {"free", "open", "closing", "time_wait"}]
      /\ Ts \subseteq Int /\ ts_tw_expire \in [Stream -> Ts] /\ l \in Seq(Stream)
  <2>1. /\ now \in 0..MaxTs /\ ts_tw_expire \in [Stream -> Ts] /\ l \in Seq(Stream)
        /\ state \in [Stream -> {"free", "open", "closing", "time_wait"}]
    BY DEF TypeOK
  <2>2. round \in [pc : {"write", "received", "rtm", "timewait", "timeout"}, ts : Ts, cnt : Nat]
    BY DEF TypeOK
  <2>3. round'.pc = "received" /\ round'.ts = round.ts
    BY <1>1, <2>2
  <2> QED
    BY <2>1, <2>3 DEF ClockInv, Ts
<1>3. ts_tw_expire' = new
  <2>1. now + USER_TCP_TIMEWAIT = now
    BY <1>2 DEF USER_TCP_TIMEWAIT
  <2> QED
    BY <1>1, <2>1
<1>4. /\ new \in [Stream -> Ts] /\ new \in [Stream -> Int] /\ ts_tw_expire \in [Stream -> Int]
      /\ \A t \in Stream : new[t] = IF t = s THEN now ELSE ts_tw_expire[t]
  BY <1>2
<1>5. /\ Distinct(l) /\ Ordered(l, ts_tw_expire)
      /\ Items(l) = {t \in Stream : state[t] = "time_wait"}
      /\ Items(timeout_list) = {t \in Stream : state[t] = "open"}
  BY DEF OrderInv
<1>6. /\ last_active' \in [Stream -> Ts]
      /\ \A t \in Stream : last_active'[t] = IF t = s THEN now ELSE last_active[t]
      /\ timeout_list' \in Seq(Stream) /\ Distinct(timeout_list')
      /\ Items(timeout_list') = Items(timeout_list)
      /\ Ordered(timeout_list', last_active')
  BY <1>1, <1>2, TouchKeeps
<1>7. /\ Store \in StoreType /\ StoreTrue(Store)
      /\ \A t \in On(Store) : t \in Stream /\ state[t] \in {"open", "closing"}
  <2>1. On(Store) \subseteq Stream
    BY DEF On
  <2> QED
    BY <2>1, StoreOfState
<1>8. st \in StoreType /\ StoreTrue(st) /\ On(st) \subseteq On(Store) \ {s}
  <2>1. CASE s \in Items(l)
    <3>1. state[s] = "time_wait"
      BY <1>5, <2>1
    <3>2. s \notin On(Store)
      BY <1>7, <3>1
    <3> QED
      BY <1>7, <2>1, <3>2
  <2>2. CASE s \notin Items(l)
    <3>1. /\ RemoveFromRTOList(Store, s) \in StoreType
          /\ StoreTrue(RemoveFromRTOList(Store, s))
          /\ On(RemoveFromRTOList(Store, s)) = On(Store) \ {s}
      BY <1>7, RemoveTrue
    <3> QED
      BY <2>2, <3>1
  <2> QED
    BY <2>1, <2>2
<1> HIDE DEF st, new, rest, l
<1>9. /\ rto' \in [list : [0..RTO_HASH -> Seq(Stream)], cnt : Nat,
                   now_idx : 0..(RTO_HASH - 1), now_ts : Nat]
      /\ on_rto_idx' \in [Stream -> -1..RTO_HASH]
      /\ StoreInv'
  <2>1. \A t \in On(st) : state'[t] \in {"open", "closing"}
    BY <1>1, <1>2, <1>7, <1>8
  <2> QED
    BY <1>1, <1>8, <2>1, StoreSet
<1>10. /\ timewait_list' \in Seq(Stream) /\ Distinct(timewait_list')
       /\ Items(timewait_list') = Items(l) \cup {s}
       /\ Ordered(timewait_list', new)
  <2>1. /\ rest \in Seq(Stream) /\ Distinct(rest) /\ Items(rest) = Items(l) \ {s}
        /\ Ordered(rest, ts_tw_expire)
    BY <1>2, <1>4, <1>5, WithoutHolds DEF rest
  <2>2. \A y \in Items(rest) : y \in Stream /\ y # s
    BY <1>5, <2>1
  <2>3. Ordered(rest, new)
    <3>1. \A y \in Items(rest) : new[y] = ts_tw_expire[y]
      BY <1>4, <2>2
    <3> QED
      BY <2>1, <3>1, OrderedSame
  <2>4. \A y \in Items(rest) : new[y] <= new[s]
    BY <1>2, <1>4, <2>2
  <2>5. s \notin Items(rest)
    BY <2>1
  <2>6. /\ Append(rest, s) \in Seq(Stream) /\ Items(Append(rest, s)) = Items(rest) \cup {s}
        /\ Distinct(Append(rest, s)) /\ Ordered(Append(rest, s), new)
    BY <1>4, <2>1, <2>3, <2>4, <2>5, AppendHolds
  <2> QED
    BY <1>1, <2>1, <2>6
<1>11. TypeOK'
  <2>1. round' \in [pc : {"write", "received", "rtm", "timewait", "timeout"}, ts : Ts, cnt : Nat]
    BY <1>1 DEF TypeOK
  <2> QED
    BY <1>1, <1>3, <1>4, <1>6, <1>9, <1>10, <2>1 DEF TypeOK
<1>12. OrderInv'
  <2>1. Items(timeout_list') = {t \in Stream : state'[t] = "open"}
    BY <1>1, <1>2, <1>5, <1>6
  <2>2. Items(timewait_list') = {t \in Stream : state'[t] = "time_wait"}
    BY <1>1, <1>2, <1>5, <1>10
  <2> QED
    BY <1>3, <1>6, <1>10, <2>1, <2>2, OrderInvOf
<1>13. ClockInv'
  <2>1. ASSUME NEW t \in Stream
        PROVE  ts_tw_expire'[t] <= now
    <3>1. ts_tw_expire'[t] = IF t = s THEN now ELSE ts_tw_expire[t]
      BY <1>3, <1>4
    <3>2. now \in Nat /\ ts_tw_expire[t] <= now
      BY <1>2
    <3>3. now <= now
      BY <3>2
    <3> QED
      BY <3>1, <3>2, <3>3
  <2>2. \A t \in Stream : last_active'[t] <= now
    BY <1>2, <1>6
  <2> QED
    BY <1>1, <1>2, <2>1, <2>2 DEF ClockInv
<1>14. NothingDueLeft'
  BY <1>2 DEF NothingDueLeft
<1> QED
  BY <1>9, <1>11, <1>12, <1>13, <1>14

(* DestroyTcpStream of one stream *)
LEMMA DestroyStepKeeps ==
    ASSUME IInv, NEW s \in Stream, Destroy(s)
    PROVE  IInv'
<1> USE TimersAssumption DEF IInv
<1>1. /\ round' = [round EXCEPT !.pc = "received"]
      /\ DestroyAll({s}, Store)
      /\ UNCHANGED <<now, ts_rto, ts_tw_expire, last_active>>
  BY DEF Destroy, Received
<1>2. {s} \in SUBSET Stream
  OBVIOUS
<1>3. /\ Store \in StoreType /\ StoreTrue(Store)
      /\ \A t \in On(Store) : state[t] \in {"open", "closing"}
  BY StoreOfState
<1>4. /\ state' \in [Stream -> {"free", "open", "closing", "time_wait"}]
      /\ on_control_list' = [t \in Stream |-> on_control_list[t] /\ t \notin {s}]
      /\ rto' \in [list : [0..RTO_HASH -> Seq(Stream)], cnt : Nat,
                   now_idx : 0..(RTO_HASH - 1), now_ts : Nat]
      /\ on_rto_idx' \in [Stream -> -1..RTO_HASH]
      /\ timewait_list' \in Seq(Stream) /\ timeout_list' \in Seq(Stream)
      /\ StoreInv' /\ OrderInv'
  BY <1>1, <1>2, <1>3, DestroyKeeps
<1>5. /\ round \in [pc : {"write", "received", "rtm", "timewait", "timeout"}, ts : Ts, cnt : Nat]
      /\ on_control_list \in [Stream -> BOOLEAN]
  BY DEF TypeOK
<1>6. /\ round' \in [pc : {"write", "received", "rtm", "timewait", "timeout"}, ts : Ts, cnt : Nat]
      /\ round'.pc = "received" /\ round'.ts = round.ts
  BY <1>1, <1>5
<1>7. on_control_list' \in [Stream -> BOOLEAN]
  BY <1>4
<1>8. TypeOK'
  BY <1>1, <1>4, <1>6, <1>7 DEF TypeOK
<1>9. ClockInv'
  BY <1>1, <1>6 DEF ClockInv
<1>10. NothingDueLeft'
  BY <1>6 DEF NothingDueLeft
<1> QED
  BY <1>4, <1>8, <1>9, <1>10

(* The start of a round: if there is a connection, the checks come first. *)
LEMMA StartRoundKeeps ==
    ASSUME IInv, StartRound
    PROVE  IInv'
<1> USE TimersAssumption DEF IInv
<1> DEFINE pc == IF \A s \in Stream : state[s] = "free" THEN "write"
                 ELSE IF rto.cnt = 0 THEN "timewait" ELSE "rtm"
<1>1. /\ round' = [pc |-> pc, ts |-> now, cnt |-> 0]
      /\ UNCHANGED <<now, state, rto, ts_rto, on_rto_idx, timewait_list, ts_tw_expire,
                     timeout_list, last_active, on_control_list>>
  BY DEF StartRound
<1>2. pc \in {"write", "timewait", "rtm"} /\ (pc = "write" => \A s \in Stream : state[s] = "free")
  OBVIOUS
<1> HIDE DEF pc
<1>3. round'.pc = pc /\ round'.ts = now
  BY <1>1
<1>4. now \in Ts /\ now <= now
  BY DEF TypeOK, Ts
<1>5. TypeOK'
  <2>1. round' \in [pc : {"write", "received", "rtm", "timewait", "timeout"}, ts : Ts, cnt : Nat]
    BY <1>1, <1>2, <1>4
  <2> QED
    BY <1>1, <2>1 DEF TypeOK
<1>6. StoreInv' /\ OrderInv'
  BY <1>1, StoreSame, OrderSame
<1>7. ClockInv'
  BY <1>1, <1>3, <1>4 DEF ClockInv
<1>8. NothingDueLeft'
  <2>1. pc = "write" => Items(timeout_list) = {}
    BY <1>2 DEF OrderInv
  <2>2. Items(timeout_list)' = Items(timeout_list)
    BY <1>1 DEF Items
  <2> QED
    BY <1>2, <1>3, <2>1, <2>2 DEF NothingDueLeft
<1> QED
  BY <1>5, <1>6, <1>7, <1>8

(* No slot is due yet. *)
LEMMA RtmNotYetKeeps ==
    ASSUME IInv, RtmNotYet
    PROVE  IInv'
<1> USE TimersAssumption DEF IInv
<1>1. /\ round.pc = "rtm" /\ round' = [round EXCEPT !.pc = "timewait"]
      /\ UNCHANGED <<now, state, rto, ts_rto, on_rto_idx, timewait_list, ts_tw_expire,
                     timeout_list, last_active, on_control_list>>
  BY DEF RtmNotYet
<1>2. round \in [pc : {"write", "received", "rtm", "timewait", "timeout"}, ts : Ts, cnt : Nat]
  BY DEF TypeOK
<1>3. /\ round' \in [pc : {"write", "received", "rtm", "timewait", "timeout"}, ts : Ts, cnt : Nat]
      /\ round'.pc = "timewait" /\ round'.ts = round.ts
  BY <1>1, <1>2
<1>4. TypeOK'
  BY <1>1, <1>3 DEF TypeOK
<1>5. StoreInv' /\ OrderInv'
  BY <1>1, StoreSame, OrderSame
<1>6. ClockInv'
  BY <1>1, <1>3 DEF ClockInv
<1>7. NothingDueLeft'
  BY <1>3 DEF NothingDueLeft
<1> QED
  BY <1>4, <1>5, <1>6, <1>7

(* One turn of CheckRtmTimeout: the streams handled leave the store with their
   number, the ring turns, the far list is looked through now and then, and the
   streams whose retransmissions are used up are destroyed. *)
LEMMA CheckRtmKeeps ==
    ASSUME IInv, NEW dead \in SUBSET Stream, CheckRtmTimeout(dead)
    PROVE  IInv'
<1> USE TimersAssumption DEF IInv
<1> DEFINE slot == rto.list[rto.now_idx]
           room == IF round.cnt < Thresh THEN Thresh - round.cnt ELSE 0
           n == IF Len(slot) < room THEN Len(slot) ELSE room
           cnt == round.cnt + n + (IF n < Len(slot) THEN 1 ELSE 0)
           handled == TakeFirst(Store, rto.now_idx, n)
           next == Turned(handled)
           turned == IF next.r.now_idx % Every = 0 THEN RearrangeRTOStore(next) ELSE next
           st == IF cnt < Thresh THEN handled ELSE turned
<1>1. /\ rto \in [list : [0..RTO_HASH -> Seq(Stream)], cnt : Nat,
                  now_idx : 0..(RTO_HASH - 1), now_ts : Nat]
      /\ round \in [pc : {"write", "received", "rtm", "timewait", "timeout"}, ts : Ts, cnt : Nat]
      /\ on_control_list \in [Stream -> BOOLEAN] /\ ts_rto \in [Stream -> Ts]
  BY DEF TypeOK
<1>2. rto.now_idx \in 0..RTO_HASH /\ slot \in Seq(Stream) /\ round.cnt \in Nat
  <2>1. rto.now_idx \in 0..(RTO_HASH - 1)
    BY <1>1
  <2>2. rto.now_idx \in 0..RTO_HASH
    BY <2>1
  <2> QED
    BY <1>1, <2>2
<1>3. n \in 0..Len(slot) /\ cnt \in Nat
  <2>1. Len(slot) \in Nat
    BY <1>2
  <2>2. room \in Nat
    BY <1>2
  <2> HIDE DEF slot, room
  <2> QED
    BY <1>2, <2>1, <2>2
<1>4. /\ round.pc = "rtm"
      /\ DestroyAll(dead, st)
      /\ round' = IF cnt < Thresh THEN [round EXCEPT !.pc = "timewait"]
                  ELSE [round EXCEPT !.cnt = cnt]
      /\ UNCHANGED <<now, ts_rto, ts_tw_expire, last_active>>
  <2>1. Store.r = rto /\ Store.idx = on_rto_idx
    BY DEF Store
  <2>2. handled = [r |-> [rto EXCEPT !.list[rto.now_idx] = SubSeq(slot, n + 1, Len(slot)),
                                     !.cnt = @ - n],
                   idx |-> [s \in Stream |-> IF s \in {slot[i] : i \in 1..n} THEN -1
                                             ELSE on_rto_idx[s]]]
    BY <2>1 DEF TakeFirst, First
  <2> QED
    BY <2>2 DEF CheckRtmTimeout, Turned
<1> HIDE DEF n, cnt, st
<1>5. /\ Store \in StoreType /\ StoreTrue(Store)
      /\ \A t \in On(Store) : state[t] \in {"open", "closing"}
  BY StoreOfState
<1>6. handled \in StoreType /\ StoreTrue(handled) /\ On(handled) \subseteq On(Store)
  <2>1. Store.r.list[rto.now_idx] = slot
    BY DEF Store
  <2> HIDE DEF slot
  <2>2. n \in 0..Len(Store.r.list[rto.now_idx])
    BY <1>3, <2>1
  <2>3. /\ handled \in StoreType /\ StoreTrue(handled)
        /\ On(handled) = On(Store) \ First(Store.r.list[rto.now_idx], n)
    BY <1>2, <1>5, <2>2, TakeFirstTrue
  <2> QED
    BY <2>3
<1> HIDE DEF handled
<1>7. next \in StoreType /\ StoreTrue(next) /\ On(next) = On(handled)
  BY <1>6, TurnedTrue
<1> HIDE DEF next
<1>8. turned \in StoreType /\ StoreTrue(turned) /\ On(turned) = On(next)
  <2>1. /\ RearrangeRTOStore(next) \in StoreType /\ StoreTrue(RearrangeRTOStore(next))
        /\ On(RearrangeRTOStore(next)) = On(next)
    BY <1>1, <1>7, RearrangeTrue
  <2> QED
    BY <1>7, <2>1
<1> HIDE DEF turned
<1>9. st \in StoreType /\ StoreTrue(st) /\ On(st) \subseteq On(Store)
  BY <1>6, <1>7, <1>8 DEF st
<1>10. \A t \in On(st) : state[t] \in {"open", "closing"}
  BY <1>5, <1>9
<1>11. /\ state' \in [Stream -> {"free", "open", "closing", "time_wait"}]
       /\ on_control_list' = [t \in Stream |-> on_control_list[t] /\ t \notin dead]
       /\ rto' \in [list : [0..RTO_HASH -> Seq(Stream)], cnt : Nat,
                    now_idx : 0..(RTO_HASH - 1), now_ts : Nat]
       /\ on_rto_idx' \in [Stream -> -1..RTO_HASH]
       /\ timewait_list' \in Seq(Stream) /\ timeout_list' \in Seq(Stream)
       /\ StoreInv' /\ OrderInv'
  BY <1>4, <1>9, <1>10, DestroyKeeps
<1>12. /\ round' \in [pc : {"write", "received", "rtm", "timewait", "timeout"}, ts : Ts, cnt : Nat]
       /\ round'.pc \in {"rtm", "timewait"} /\ round'.ts = round.ts
  BY <1>1, <1>3, <1>4
<1>13. on_control_list' \in [Stream -> BOOLEAN]
  BY <1>11
<1>14. TypeOK'
  BY <1>4, <1>11, <1>12, <1>13 DEF TypeOK
<1>15. ClockInv'
  BY <1>4, <1>12 DEF ClockInv
<1>16. NothingDueLeft'
  BY <1>12 DEF NothingDueLeft
<1> QED
  BY <1>11, <1>14, <1>15, <1>16

(* CheckTimewaitExpire stops at the first stream that is not due; the list being in
   the order of the times, all behind it are not due either. *)
LEMMA CheckTimewaitKeeps ==
    ASSUME IInv, CheckTimewaitExpire
    PROVE  IInv'
<1> USE TimersAssumption DEF IInv
<1> DEFINE due == {s \in Stream : ts_tw_expire[s] <= round.ts}
           prefix == DuePrefix(timewait_list, due)
           gone == {s \in prefix : ~on_control_list[s]}
<1>1. /\ round.pc = "timewait" /\ DestroyAll(gone, Store)
      /\ round' = [round EXCEPT !.pc = "timeout"]
      /\ UNCHANGED <<now, ts_rto, ts_tw_expire, last_active>>
  BY DEF CheckTimewaitExpire
<1>2. /\ round \in [pc : {"write", "received", "rtm", "timewait", "timeout"}, ts : Ts, cnt : Nat]
      /\ on_control_list \in [Stream -> BOOLEAN]
      /\ timewait_list \in Seq(Stream) /\ ts_tw_expire \in [Stream -> Ts]
  BY DEF TypeOK
<1>3. /\ round' \in [pc : {"write", "received", "rtm", "timewait", "timeout"}, ts : Ts, cnt : Nat]
      /\ round'.pc = "timeout" /\ round'.ts = round.ts
  BY <1>1, <1>2
<1>4. ts_tw_expire \in [Stream -> Int] /\ round.ts \in Int
  <2>1. Ts \subseteq Int
    BY DEF Ts
  <2> QED
    BY <1>2, <2>1
<1>5. \A y \in Stream : y \notin due => ts_tw_expire[y] > round.ts
  BY <1>4
<1> HIDE DEF due
<1>6. /\ prefix \subseteq Items(timewait_list)
      /\ \A y \in Items(timewait_list) : y \notin prefix => ts_tw_expire[y] > round.ts
  <2>1. Ordered(timewait_list, ts_tw_expire)
    BY DEF OrderInv
  <2> QED
    BY <1>2, <1>4, <1>5, <2>1, PrefixLeaves
<1> HIDE DEF prefix
<1>7. gone \in SUBSET Stream
  BY <1>6 DEF OrderInv
<1>8. \A y \in Items(timewait_list) : y \notin gone => ts_tw_expire[y] > round.ts \/ on_control_list[y]
  BY <1>6
<1> HIDE DEF gone
<1>9. /\ Store \in StoreType /\ StoreTrue(Store)
      /\ \A t \in On(Store) : state[t] \in {"open", "closing"}
  BY StoreOfState
<1>10. /\ state' \in [Stream -> {"free", "open", "closing", "time_wait"}]
       /\ on_control_list' = [t \in Stream |-> on_control_list[t] /\ t \notin gone]
       /\ rto' \in [list : [0..RTO_HASH -> Seq(Stream)], cnt : Nat,
                    now_idx : 0..(RTO_HASH - 1), now_ts : Nat]
       /\ on_rto_idx' \in [Stream -> -1..RTO_HASH]
       /\ timewait_list' \in Seq(Stream) /\ timeout_list' \in Seq(Stream)
       /\ Items(timewait_list') = Items(timewait_list) \ gone
       /\ StoreInv' /\ OrderInv'
  BY <1>1, <1>7, <1>9, DestroyKeeps
<1>11. on_control_list' \in [Stream -> BOOLEAN]
  BY <1>10
<1>12. TypeOK'
  BY <1>1, <1>3, <1>10, <1>11 DEF TypeOK
<1>13. ClockInv'
  BY <1>1, <1>3 DEF ClockInv
<1>14. NothingDueLeft'
  <2>1. Items(timewait_list)' = Items(timewait_list) \ gone
    BY <1>10 DEF Items
  <2>2. \A y \in Items(timewait_list) \ gone : y \in Stream
    BY DEF OrderInv
  <2>3. ASSUME NEW y \in Items(timewait_list) \ gone
        PROVE  ts_tw_expire'[y] > round'.ts \/ on_control_list'[y]
    <3>1. ts_tw_expire'[y] = ts_tw_expire[y]
      BY <1>1
    <3>2. on_control_list[y] => on_control_list'[y]
      BY <1>10, <2>2
    <3> QED
      BY <1>3, <1>8, <3>1, <3>2
  <2> QED
    BY <1>3, <2>1, <2>3 DEF NothingDueLeft
<1> QED
  BY <1>10, <1>12, <1>13, <1>14

(* CheckConnectionTimeout, likewise. *)
LEMMA CheckTimeoutKeeps ==
    ASSUME IInv, CheckConnectionTimeout
    PROVE  IInv'
<1> USE TimersAssumption DEF IInv
<1> DEFINE due == {s \in Stream : round.ts - last_active[s] >= Timeout}
           gone == DuePrefix(timeout_list, due)
<1>1. /\ round.pc = "timeout" /\ DestroyAll(gone, Store)
      /\ round' = [round EXCEPT !.pc = "write"]
      /\ UNCHANGED <<now, ts_rto, ts_tw_expire, last_active>>
  BY DEF CheckConnectionTimeout
<1>2. /\ round \in [pc : {"write", "received", "rtm", "timewait", "timeout"}, ts : Ts, cnt : Nat]
      /\ on_control_list \in [Stream -> BOOLEAN]
      /\ timeout_list \in Seq(Stream) /\ last_active \in [Stream -> Ts]
  BY DEF TypeOK
<1>3. /\ round' \in [pc : {"write", "received", "rtm", "timewait", "timeout"}, ts : Ts, cnt : Nat]
      /\ round'.pc = "write" /\ round'.ts = round.ts
  BY <1>1, <1>2
<1> DEFINE bound == round.ts - Timeout
<1>4. last_active \in [Stream -> Int] /\ round.ts \in Int /\ bound \in Int
  <2>1. Ts \subseteq Int
    BY DEF Ts
  <2>2. last_active \in [Stream -> Int]
    BY <1>2, <2>1
  <2>3. round.ts \in Int
    BY <1>2, <2>1
  <2> QED
    BY <2>2, <2>3
<1>5. \A y \in Stream : y \notin due => last_active[y] > bound
  BY <1>4
<1> HIDE DEF bound
<1> HIDE DEF due
<1>6. /\ gone \subseteq Items(timeout_list)
      /\ \A y \in Items(timeout_list) : y \notin gone => last_active[y] > bound
  <2>1. Ordered(timeout_list, last_active)
    BY DEF OrderInv
  <2> QED
    BY <1>2, <1>4, <1>5, <2>1, PrefixLeaves
<1> HIDE DEF gone
<1>7. gone \in SUBSET Stream
  BY <1>6 DEF OrderInv
<1>8. /\ Store \in StoreType /\ StoreTrue(Store)
      /\ \A t \in On(Store) : state[t] \in {"open", "closing"}
  BY StoreOfState
<1>9. /\ state' \in [Stream -> {"free", "open", "closing", "time_wait"}]
      /\ on_control_list' = [t \in Stream |-> on_control_list[t] /\ t \notin gone]
      /\ rto' \in [list : [0..RTO_HASH -> Seq(Stream)], cnt : Nat,
                   now_idx : 0..(RTO_HASH - 1), now_ts : Nat]
      /\ on_rto_idx' \in [Stream -> -1..RTO_HASH]
      /\ timewait_list' \in Seq(Stream) /\ timeout_list' \in Seq(Stream)
      /\ Items(timeout_list') = Items(timeout_list) \ gone
      /\ StoreInv' /\ OrderInv'
  BY <1>1, <1>7, <1>8, DestroyKeeps
<1>10. on_control_list' \in [Stream -> BOOLEAN]
  BY <1>9
<1>11. TypeOK'
  BY <1>1, <1>3, <1>9, <1>10 DEF TypeOK
<1>12. ClockInv'
  BY <1>1, <1>3 DEF ClockInv
<1>13. NothingDueLeft'
  <2>1. Items(timeout_list)' = Items(timeout_list) \ gone
    BY <1>9 DEF Items
  <2>2. ASSUME NEW y \in Items(timeout_list) \ gone
        PROVE  round'.ts - last_active'[y] < Timeout
    <3>1. y \in Stream
      BY DEF OrderInv
    <3>2. last_active[y] \in Int /\ last_active[y] > bound
      BY <1>4, <1>6, <3>1
    <3>3. round.ts - last_active[y] < Timeout
      BY <1>4, <3>2 DEF bound
    <3> QED
      BY <1>1, <1>3, <3>3
  <2> QED
    BY <1>3, <2>1, <2>2 DEF NothingDueLeft
<1> QED
  BY <1>9, <1>11, <1>12, <1>13
-----------------------------------------------------------------------------
(* The invariant of the timers: links, indices and counts agree, the lists are in
   the order of their clocks, and no clock a stream carries is ahead. *)
THEOREM TimersInvariant == Spec => []IInv
<1>1. Init => IInv
  BY InitIInv
<1>2. IInv /\ [Next]_vars => IInv'
  <2> SUFFICES ASSUME IInv, [Next]_vars
               PROVE  IInv'
    OBVIOUS
  <2>1. CASE Tick
    BY <2>1, TickKeeps
  <2>2. CASE StartRound
    BY <2>2, StartRoundKeeps
  <2>3. CASE \E dead \in SUBSET Stream : CheckRtmTimeout(dead)
    BY <2>3, CheckRtmKeeps
  <2>4. CASE RtmNotYet
    BY <2>4, RtmNotYetKeeps
  <2>5. CASE CheckTimewaitExpire
    BY <2>5, CheckTimewaitKeeps
  <2>6. CASE CheckConnectionTimeout
    BY <2>6, CheckTimeoutKeeps
  <2>7. ASSUME NEW s \in Stream,
               \/ Establish(s) \/ Send(s) \/ SendAck(s) \/ Close(s) \/ TimeWait(s) \/ Destroy(s)
               \/ \E acks, inFlight \in BOOLEAN : Segment(s, acks, inFlight)
        PROVE  IInv'
    BY <2>7, EstablishKeeps, SendKeeps, SendAckKeeps, CloseKeeps, TimeWaitKeeps,
       DestroyStepKeeps, SegmentKeeps
  <2>8. CASE UNCHANGED vars
    <3>1. StoreInv' /\ OrderInv'
      BY <2>8, StoreSame, OrderSame DEF vars, IInv
    <3>2. TypeOK' /\ ClockInv' /\ NothingDueLeft'
      BY <2>8 DEF vars, IInv, TypeOK, ClockInv, NothingDueLeft, Items
    <3> QED
      BY <3>1, <3>2 DEF IInv
  <2> QED
    BY <2>1, <2>2, <2>3, <2>4, <2>5, <2>6, <2>7, <2>8 DEF Next
<1> QED
  BY <1>1, <1>2, PTL DEF Spec

(* All timer structures keep their types, rto_store's count of streams among them,
   which the code decrements without looking at it. *)
THEOREM TimersTyped == Spec => []TypeOK
<1>1. IInv => TypeOK
  BY DEF IInv
<1> QED
  BY <1>1, TimersInvariant, PTL

(* Every link is used once: on_rto_idx names the list a stream is on, rto_now_cnt
   counts them, no stream is on a list twice or on the store and the timewait list
   at once, and a freed stream is on none. *)
THEOREM LinksTrue == Spec => []ListsTrue
<1>1. IInv => ListsTrue
  <2> SUFFICES ASSUME IInv PROVE ListsTrue
    OBVIOUS
  <2>1. TypeOK /\ StoreInv /\ OrderInv
    BY DEF IInv
  <2>2. ASSUME NEW i \in 0..RTO_HASH
        PROVE  OnceIn(rto.list[i])
    <3>1. rto.list[i] \in Seq(Stream)
      BY <2>1 DEF TypeOK
    <3>2. Distinct(rto.list[i])
      BY <2>1 DEF StoreInv
    <3> QED
      BY <3>1, <3>2, DistinctOnce
  <2>3. OnceIn(timewait_list) /\ OnceIn(timeout_list)
    <3>1. timewait_list \in Seq(Stream) /\ timeout_list \in Seq(Stream)
      BY <2>1 DEF TypeOK
    <3>2. Distinct(timewait_list) /\ Distinct(timeout_list)
      BY <2>1 DEF OrderInv
    <3> QED
      BY <3>1, <3>2, DistinctOnce
  <2> QED
    BY <2>1, <2>2, <2>3 DEF ListsTrue, StoreInv, OrderInv
<1> QED
  BY <1>1, TimersInvariant, PTL

(* Although the checks stop at the first entry that is not due, CheckTimewaitExpire
   leaves no expired stream that owes nothing, and CheckConnectionTimeout no idle
   connection. *)
THEOREM ChecksLeaveNothing == Spec => []NothingDueLeft
<1>1. IInv => NothingDueLeft
  BY DEF IInv
<1> QED
  BY <1>1, TimersInvariant, PTL
=============================================================================
