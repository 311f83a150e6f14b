------------------------- MODULE RecvBufferProofs -------------------------
(***************************************************************************)
(* Proofs about the receive buffer, for any size of the buffer and of the  *)
(* first window and any modulus of the sequence numbers more than twice as *)
(* large.  A fragment is spoken of by its offsets from head_seq, where the *)
(* comparisons of the code are those of the integers.                      *)
(***************************************************************************)
EXTENDS RecvBuffer, SequenceTheorems, WellFoundedInduction, TLAPS

Half == MAXSEQ \div 2
-----------------------------------------------------------------------------
(* Sequence numbers. *)

(* The sizes leave room: less than half of the sequence numbers is in use. *)
LEMMA Room ==
    /\ Modulus \in Nat /\ Size \in Nat /\ InitWnd \in Nat /\ Half \in Nat /\ Size > 0
    /\ Size <= Half /\ Size + Half + 2 <= Modulus
    /\ InitWnd <= Half /\ InitWnd + Half + 2 <= Modulus
BY SizeAssumption, SeqAssumption DEF Half, MAXSEQ

(* What % does to a number that is at most one modulus out of its range. *)
LEMMA ModRange ==
    ASSUME NEW M \in Nat, M > 0, NEW z \in Int, -M <= z, z < 2 * M
    PROVE  z % M = IF z < 0 THEN z + M ELSE IF z < M THEN z ELSE z - M
OBVIOUS

(* A difference of two sequence numbers, and a sequence number taken apart into
   another one and the difference. *)
LEMMA MinusPlus ==
    ASSUME NEW h \in SeqNo
    PROVE  /\ \A a \in SeqNo : /\ Minus(a, h) \in SeqNo
                               /\ Minus(a, h) = IF a < h THEN a - h + Modulus ELSE a - h
                               /\ Plus(h, Minus(a, h)) = a
           /\ \A n \in Int : -Modulus <= n /\ n < Modulus =>
                /\ Plus(h, n) \in SeqNo
                /\ Plus(h, n) = IF h + n < 0 THEN h + n + Modulus
                                ELSE IF h + n < Modulus THEN h + n ELSE h + n - Modulus
                /\ Minus(Plus(h, n), h) = IF n < 0 THEN n + Modulus ELSE n
<1>1. Modulus \in Nat /\ Modulus > 0
  BY Room
<1>2. h \in Int /\ 0 <= h /\ h < Modulus
  BY <1>1 DEF SeqNo
<1>3. ASSUME NEW a \in SeqNo
      PROVE  /\ Minus(a, h) \in SeqNo
             /\ Minus(a, h) = IF a < h THEN a - h + Modulus ELSE a - h
             /\ Plus(h, Minus(a, h)) = a
  <2>1. a \in Int /\ 0 <= a /\ a < Modulus
    BY <1>1 DEF SeqNo
  <2>2. Minus(a, h) = IF a < h THEN a - h + Modulus ELSE a - h
    <3>1. a - h \in Int /\ -Modulus <= a - h /\ a - h < 2 * Modulus /\ a - h < Modulus
      BY <1>1, <1>2, <2>1
    <3>2. (a - h) % Modulus = IF a - h < 0 THEN a - h + Modulus
                              ELSE IF a - h < Modulus THEN a - h ELSE a - h - Modulus
      BY <1>1, <3>1, ModRange
    <3> QED
      BY <1>1, <1>2, <2>1, <3>1, <3>2 DEF Minus
  <2>3. h + Minus(a, h) = IF a < h THEN a + Modulus ELSE a
    BY <1>1, <1>2, <2>1, <2>2
  <2>4. (h + Minus(a, h)) % Modulus = a
    <3> DEFINE z == h + Minus(a, h)
    <3>1. z \in Int /\ -Modulus <= z /\ z < 2 * Modulus
      BY <1>1, <2>1, <2>3
    <3>2. z % Modulus = IF z < 0 THEN z + Modulus ELSE IF z < Modulus THEN z ELSE z - Modulus
      BY <1>1, <3>1, ModRange
    <3> QED
      BY <1>1, <2>1, <2>3, <3>2
  <2> QED
    BY <1>1, <1>2, <2>1, <2>2, <2>4 DEF Plus, SeqNo
<1>4. ASSUME NEW n \in Int, -Modulus <= n, n < Modulus
      PROVE  /\ Plus(h, n) \in SeqNo
             /\ Plus(h, n) = IF h + n < 0 THEN h + n + Modulus
                             ELSE IF h + n < Modulus THEN h + n ELSE h + n - Modulus
             /\ Minus(Plus(h, n), h) = IF n < 0 THEN n + Modulus ELSE n
  <2>1. h + n \in Int /\ -Modulus <= h + n /\ h + n < 2 * Modulus
    BY <1>1, <1>2, <1>4
  <2>2. Plus(h, n) = IF h + n < 0 THEN h + n + Modulus
                     ELSE IF h + n < Modulus THEN h + n ELSE h + n - Modulus
    <3> DEFINE z == h + n
    <3>1. z \in Int /\ -Modulus <= z /\ z < 2 * Modulus
      BY <2>1
    <3> HIDE DEF z
    <3>2. z % Modulus = IF z < 0 THEN z + Modulus ELSE IF z < Modulus THEN z ELSE z - Modulus
      BY <1>1, <3>1, ModRange
    <3> QED
      BY <1>1, <1>2, <3>1, <3>2 DEF z, Plus
  <2>3. Plus(h, n) \in SeqNo
    BY <1>1, <2>1, <2>2 DEF SeqNo
  <2>4. Minus(Plus(h, n), h) = IF n < 0 THEN n + Modulus ELSE n
    BY <1>1, <1>2, <1>3, <1>4, <2>2, <2>3
  <2> QED
    BY <2>2, <2>3, <2>4
<1>5. \A n \in Int : -Modulus <= n /\ n < Modulus =>
                /\ Plus(h, n) \in SeqNo
                /\ Plus(h, n) = IF h + n < 0 THEN h + n + Modulus
                                ELSE IF h + n < Modulus THEN h + n ELSE h + n - Modulus
                /\ Minus(Plus(h, n), h) = IF n < 0 THEN n + Modulus ELSE n
  <2> TAKE n \in Int
  <2> HAVE -Modulus <= n /\ n < Modulus
  <2> QED
    BY <1>4
<1> QED
  BY <1>3, <1>5

(* Additions add up. *)
LEMMA PlusPlus ==
    ASSUME NEW h \in SeqNo, NEW m \in Int, NEW n \in Int,
           -Modulus <= m, m < Modulus, -Modulus <= n, n < Modulus,
           -Modulus <= m + n, m + n < Modulus
    PROVE  Plus(Plus(h, m), n) = Plus(h, m + n)
<1>1. Modulus \in Nat /\ Modulus > 0
  BY Room
<1>2. h \in Int /\ 0 <= h /\ h < Modulus
  BY <1>1 DEF SeqNo
<1> DEFINE a == Plus(h, m)
<1>3. a \in SeqNo /\ a = IF h + m < 0 THEN h + m + Modulus
                         ELSE IF h + m < Modulus THEN h + m ELSE h + m - Modulus
  BY MinusPlus
<1>4. m + n \in Int /\ Plus(h, m + n) = IF h + (m + n) < 0 THEN h + (m + n) + Modulus
                         ELSE IF h + (m + n) < Modulus THEN h + (m + n)
                         ELSE h + (m + n) - Modulus
  BY MinusPlus
<1>5. Plus(a, n) = IF a + n < 0 THEN a + n + Modulus
                   ELSE IF a + n < Modulus THEN a + n ELSE a + n - Modulus
  BY <1>3, MinusPlus
<1> HIDE DEF a
<1>6. Plus(a, n) = Plus(h, m + n)
  BY <1>1, <1>2, <1>3, <1>4, <1>5
<1> QED
  BY <1>6 DEF a

(* Sequence numbers compare as their distances from a common one do, if these
   lie close enough. *)
LEMMA Compare ==
    ASSUME NEW h \in SeqNo, NEW x \in Int, NEW y \in Int,
           -Modulus <= x, x < Modulus, -Modulus <= y, y < Modulus,
           y - x <= Half, x - y + Half < Modulus
    PROVE  /\ Before(Plus(h, x), Plus(h, y)) <=> x <= y
           /\ x <= y => Minus(Plus(h, y), Plus(h, x)) = y - x
<1>1. Modulus \in Nat /\ Modulus > 0 /\ Half \in Nat /\ 2 * Half < Modulus
  BY Room DEF Half, MAXSEQ
<1> DEFINE a == Plus(h, x)
           d == y - x
<1>2. a \in SeqNo
  BY MinusPlus
<1>3. d \in Int /\ -Modulus <= d /\ d < Modulus
  BY <1>1
<1>4. Plus(a, d) = Plus(h, y)
  <2>1. x + d = y
    OBVIOUS
  <2> QED
    BY <1>3, <2>1, PlusPlus
<1>5. Minus(Plus(a, d), a) = IF d < 0 THEN d + Modulus ELSE d
  BY <1>2, <1>3, MinusPlus
<1>6. d <= Half /\ Half - d < Modulus /\ -d + Half < Modulus
  BY <1>1
<1>7. Before(a, Plus(h, y)) <=> Minus(Plus(h, y), a) <= Half
  BY DEF Before, Half
<1>8. d >= 0 <=> x <= y
  OBVIOUS
<1> HIDE DEF a, d
<1>9. /\ Before(a, Plus(h, y)) <=> d >= 0
      /\ d >= 0 => Minus(Plus(h, y), a) = d
  BY <1>1, <1>3, <1>4, <1>5, <1>6, <1>7
<1> QED
  BY <1>8, <1>9 DEF a, d
-----------------------------------------------------------------------------
(* Fragments that lie within the buffer; a byte is named by its offset from h. *)

Covers(h, f, b) == From(h, f) <= b /\ b < End(h, f)

(* A fragment in the buffer starts and ends at its offsets from head_seq. *)
LEMMA Offsets ==
    ASSUME NEW h \in SeqNo, NEW f, InBuffer(h, f)
    PROVE  /\ f.seq \in SeqNo /\ f.len \in 1..Size
           /\ From(h, f) \in Nat /\ End(h, f) \in Nat /\ From(h, f) < End(h, f)
           /\ End(h, f) = From(h, f) + f.len /\ End(h, f) <= Size
           /\ f.seq = Plus(h, From(h, f))
           /\ Plus(f.seq, f.len) = Plus(h, End(h, f))
           /\ Plus(f.seq, f.len + 1) = Plus(h, End(h, f) + 1)
<1>1. f.seq \in SeqNo /\ f.len \in 1..Size /\ f.len \in Nat
  BY Room DEF InBuffer, Fragment
<1>2. From(h, f) \in SeqNo /\ f.seq = Plus(h, From(h, f))
  BY <1>1, MinusPlus DEF From
<1>3. Modulus \in Nat /\ Size \in Nat /\ Size + 1 < Modulus
  BY Room
<1>4. End(h, f) = From(h, f) + f.len /\ End(h, f) <= Size
  BY DEF InBuffer, End
<1>5. From(h, f) \in Nat
  BY <1>2, <1>3 DEF SeqNo
<1> DEFINE x == From(h, f)
           n == f.len
<1> HIDE DEF x, n
<1>6. x \in Nat /\ n \in Nat /\ n > 0 /\ x + n <= Size
  BY <1>1, <1>4, <1>5, Room DEF x, n
<1>7. Plus(Plus(h, x), n) = Plus(h, x + n)
  BY <1>3, <1>6, PlusPlus
<1>8. Plus(Plus(h, x), n + 1) = Plus(h, (x + n) + 1)
  <2>1. n + 1 \in Int /\ -Modulus <= n + 1 /\ n + 1 < Modulus /\ x + (n + 1) < Modulus
        /\ -Modulus <= x + (n + 1) /\ x \in Int /\ -Modulus <= x /\ x < Modulus
    BY <1>3, <1>6
  <2>2. Plus(Plus(h, x), n + 1) = Plus(h, x + (n + 1))
    BY <2>1, PlusPlus
  <2>3. x + (n + 1) = (x + n) + 1
    BY <1>6
  <2> QED
    BY <2>2, <2>3
<1>9. x \in Nat /\ x + n \in Nat /\ x < x + n
  BY <1>6
<1> QED
  BY <1>1, <1>2, <1>4, <1>7, <1>8, <1>9 DEF x, n

(* Within the buffer the comparison of the code is that of the offsets; x is one
   beyond the buffer where CanMerge adds one to an end. *)
LEMMA CompareInBuffer ==
    ASSUME NEW h \in SeqNo, NEW x \in 0..(Size + 1), NEW y \in 0..Size
    PROVE  /\ Before(Plus(h, x), Plus(h, y)) <=> x <= y
           /\ x <= y => Minus(Plus(h, y), Plus(h, x)) = y - x
<1>1. /\ x \in Int /\ y \in Int /\ -Modulus <= x /\ x < Modulus
      /\ -Modulus <= y /\ y < Modulus /\ y - x <= Half /\ x - y + Half < Modulus
  BY Room
<1> QED
  BY <1>1, Compare

(* CanMerge holds of fragments that overlap or touch. *)
LEMMA CanMergeMeans ==
    ASSUME NEW h \in SeqNo, NEW a, NEW b, InBuffer(h, a), InBuffer(h, b)
    PROVE  CanMerge(a, b) <=> From(h, a) <= End(h, b) /\ From(h, b) <= End(h, a)
<1> DEFINE x == From(h, a)
           y == From(h, b)
           u == End(h, a)
           v == End(h, b)
<1>1. /\ x \in Nat /\ y \in Nat /\ u \in Nat /\ v \in Nat /\ x < u /\ y < v /\ u <= Size /\ v <= Size
      /\ a.seq = Plus(h, x) /\ b.seq = Plus(h, y)
      /\ Plus(a.seq, a.len + 1) = Plus(h, u + 1) /\ Plus(b.seq, b.len + 1) = Plus(h, v + 1)
  BY Offsets
<1> HIDE DEF x, y, u, v
<1>2. x \in 0..Size /\ y \in 0..Size /\ u + 1 \in 0..(Size + 1) /\ v + 1 \in 0..(Size + 1)
  BY <1>1, Room
<1>3. Before(Plus(h, u + 1), Plus(h, y)) <=> u + 1 <= y
  BY <1>2, CompareInBuffer
<1>4. Before(Plus(h, v + 1), Plus(h, x)) <=> v + 1 <= x
  BY <1>2, CompareInBuffer
<1>5. CanMerge(a, b) <=> ~(u + 1 <= y) /\ ~(v + 1 <= x)
  BY <1>1, <1>3, <1>4 DEF CanMerge
<1>6. CanMerge(a, b) <=> x <= v /\ y <= u
  BY <1>1, <1>5
<1> QED
  BY <1>6 DEF x, y, u, v

(* MergeFragments makes the fragment from the first start to the last end. *)
LEMMA MergeMeans ==
    ASSUME NEW h \in SeqNo, NEW a, NEW b, InBuffer(h, a), InBuffer(h, b), CanMerge(a, b)
    PROVE  /\ InBuffer(h, MergeFragments(a, b))
           /\ From(h, MergeFragments(a, b)) =
                IF From(h, a) <= From(h, b) THEN From(h, a) ELSE From(h, b)
           /\ End(h, MergeFragments(a, b)) =
                IF End(h, a) <= End(h, b) THEN End(h, b) ELSE End(h, a)
<1> DEFINE x == From(h, a)
           y == From(h, b)
           u == End(h, a)
           v == End(h, b)
           m == MergeFragments(a, b)
           lo == IF x <= y THEN x ELSE y
           hi == IF u <= v THEN v ELSE u
<1>1. /\ x \in Nat /\ y \in Nat /\ u \in Nat /\ v \in Nat /\ x < u /\ y < v /\ u <= Size /\ v <= Size
      /\ a.seq = Plus(h, x) /\ b.seq = Plus(h, y)
      /\ Plus(a.seq, a.len) = Plus(h, u) /\ Plus(b.seq, b.len) = Plus(h, v)
  BY Offsets
<1> HIDE DEF x, y, u, v
<1>2. /\ x \in 0..Size /\ y \in 0..Size /\ u \in 0..Size /\ v \in 0..Size
      /\ x \in 0..(Size + 1) /\ u \in 0..(Size + 1)
  BY <1>1, Room
<1>3. GetMinSeq(a.seq, b.seq) = Plus(h, lo)
  <2>1. Before(Plus(h, x), Plus(h, y)) <=> x <= y
    BY <1>2, CompareInBuffer
  <2> QED
    BY <1>1, <2>1 DEF GetMinSeq
<1>4. GetMaxSeq(Plus(a.seq, a.len), Plus(b.seq, b.len)) = Plus(h, hi)
  <2>1. Before(Plus(h, u), Plus(h, v)) <=> u <= v
    BY <1>2, CompareInBuffer
  <2> QED
    BY <1>1, <2>1 DEF GetMaxSeq
<1>5. lo \in 0..(Size + 1) /\ lo \in Nat /\ hi \in 0..Size /\ lo < hi /\ hi - lo \in 1..Size
  BY <1>1, <1>2, Room
<1> HIDE DEF lo, hi
<1>6. Minus(Plus(h, hi), Plus(h, lo)) = hi - lo
  <2>1. lo <= hi
    BY <1>5
  <2> QED
    BY <1>5, <2>1, CompareInBuffer
<1>7. m = [seq |-> Plus(h, lo), len |-> hi - lo]
  BY <1>3, <1>4, <1>6 DEF MergeFragments
<1>8. lo \in Int /\ -Modulus <= lo /\ lo < Modulus /\ ~(lo < 0)
  BY <1>5, Room
<1>9. Plus(h, lo) \in SeqNo /\ Minus(Plus(h, lo), h) = lo
  BY <1>8, MinusPlus
<1>10. m \in Fragment
  BY <1>5, <1>7, <1>9 DEF Fragment
<1>11. m.seq = Plus(h, lo) /\ m.len = hi - lo
  BY <1>7
<1> HIDE DEF m
<1>12. From(h, m) = lo
  BY <1>9, <1>11 DEF From
<1>13. End(h, m) = hi
  BY <1>5, <1>11, <1>12 DEF End
<1> QED
  BY <1>5, <1>10, <1>12, <1>13, Room DEF m, lo, hi, x, y, u, v, InBuffer
-----------------------------------------------------------------------------
(* Lists of fragments. *)

Has(h, l, b) == \E i \in DOMAIN l : Covers(h, l[i], b)

Behind(h, l, f) == l = <<>> \/ End(h, Last(l)) < From(h, f)

(* What is appended behind the last fragment. *)
LEMMA GappedAppend ==
    ASSUME NEW h \in SeqNo, NEW l, Gapped(h, l), NEW f, InBuffer(h, f), Behind(h, l, f)
    PROVE  /\ Gapped(h, Append(l, f))
           /\ Append(l, f) # <<>> /\ Last(Append(l, f)) = f
           /\ \A b \in Int : Has(h, Append(l, f), b) <=> Has(h, l, b) \/ Covers(h, f, b)
<1> DEFINE m == Append(l, f)
           n == Len(l)
<1>1. l \in Seq(Fragment) /\ f \in Fragment /\ n \in Nat /\ DOMAIN l = 1..n
  BY DEF Gapped, InBuffer
<1>2. /\ m \in Seq(Fragment) /\ Len(m) = n + 1 /\ DOMAIN m = 1..(n + 1)
      /\ m[n + 1] = f /\ \A i \in 1..n : m[i] = l[i]
  BY <1>1
<1>3. l = <<>> \/ (n \in 1..n /\ Last(l) = l[n])
  BY <1>1 DEF Last
<1> HIDE DEF m, n
<1>4. \A i \in 1..n : InBuffer(h, l[i])
  BY <1>1 DEF Gapped
<1>5. \A i \in DOMAIN m : InBuffer(h, m[i])
  <2> TAKE i \in DOMAIN m
  <2>1. i \in 1..n \/ i = n + 1
    BY <1>1, <1>2
  <2> QED
    BY <1>2, <1>4, <2>1
<1>6. ASSUME NEW i \in 1..n
      PROVE  End(h, l[i]) < From(h, f)
  <2>1. l # <<>> /\ n \in 1..n /\ n \in Nat /\ i \in Nat /\ Last(l) = l[n]
    BY <1>1, <1>3 DEF n
  <2>2. End(h, l[n]) < From(h, f)
    BY <2>1 DEF Behind
  <2>3. CASE i = n
    BY <2>2, <2>3
  <2>4. CASE i < n
    <3>1. End(h, l[i]) < From(h, l[n])
      BY <1>1, <2>1, <2>4 DEF Gapped
    <3>2. InBuffer(h, l[i]) /\ InBuffer(h, l[n])
      BY <1>4, <2>1
    <3>3. /\ From(h, l[n]) < End(h, l[n]) /\ From(h, l[n]) \in Nat /\ End(h, l[n]) \in Nat
          /\ End(h, l[i]) \in Nat /\ From(h, f) \in Nat
      BY <3>2, Offsets
    <3> QED
      BY <2>2, <3>1, <3>3
  <2>5. i = n \/ i < n
    BY <2>1
  <2> QED
    BY <2>3, <2>4, <2>5
<1>7. \A i, j \in DOMAIN m : i < j => End(h, m[i]) < From(h, m[j])
  <2> TAKE i, j \in DOMAIN m
  <2> HAVE i < j
  <2>1. i \in 1..n /\ (j \in 1..n \/ j = n + 1)
    BY <1>1, <1>2
  <2>2. CASE j \in 1..n
    BY <1>1, <1>2, <2>1, <2>2 DEF Gapped
  <2>3. CASE j = n + 1
    BY <1>2, <1>6, <2>1, <2>3
  <2> QED
    BY <2>1, <2>2, <2>3
<1>8. \A b \in Int : Has(h, m, b) <=> Has(h, l, b) \/ Covers(h, f, b)
  <2> TAKE b \in Int
  <2>1. ASSUME Has(h, m, b)
        PROVE  Has(h, l, b) \/ Covers(h, f, b)
    <3>1. PICK i \in 1..(n + 1) : Covers(h, m[i], b)
      BY <1>2, <2>1 DEF Has
    <3>2. i \in 1..n \/ i = n + 1
      BY <1>1
    <3>3. CASE i = n + 1
      BY <1>2, <3>1, <3>3
    <3>4. CASE i \in 1..n
      <4>1. Covers(h, l[i], b) /\ i \in DOMAIN l
        BY <1>1, <1>2, <3>1, <3>4
      <4> QED
        BY <4>1 DEF Has
    <3> QED
      BY <3>2, <3>3, <3>4
  <2>2. ASSUME Has(h, l, b)
        PROVE  Has(h, m, b)
    <3>1. PICK i \in 1..n : Covers(h, l[i], b)
      BY <1>1, <2>2 DEF Has
    <3>2. i \in DOMAIN m /\ m[i] = l[i]
      BY <1>1, <1>2
    <3> QED
      BY <3>1, <3>2 DEF Has
  <2>3. ASSUME Covers(h, f, b)
        PROVE  Has(h, m, b)
    <3>1. n + 1 \in DOMAIN m /\ m[n + 1] = f
      BY <1>1, <1>2
    <3> QED
      BY <2>3, <3>1 DEF Has
  <2> QED
    BY <2>1, <2>2, <2>3
<1>9. m # <<>> /\ Last(m) = f
  BY <1>1, <1>2 DEF Last
<1>10. Gapped(h, m)
  BY <1>2, <1>5, <1>7 DEF Gapped
<1> QED
  BY <1>8, <1>9, <1>10 DEF m

(* Without its last fragment. *)
LEMMA GappedFront ==
    ASSUME NEW h \in SeqNo, NEW l, Gapped(h, l), l # <<>>
    PROVE  /\ Gapped(h, Front(l)) /\ InBuffer(h, Last(l))
           /\ Behind(h, Front(l), Last(l))
           /\ \A b \in Int : Has(h, l, b) <=> Has(h, Front(l), b) \/ Covers(h, Last(l), b)
<1> DEFINE m == Front(l)
           n == Len(l)
<1>1. l \in Seq(Fragment) /\ n \in Nat /\ DOMAIN l = 1..n /\ n \in 1..n
  BY DEF Gapped
<1>2. /\ m \in Seq(Fragment) /\ Len(m) = n - 1 /\ DOMAIN m = 1..(n - 1)
      /\ \A i \in 1..(n - 1) : m[i] = l[i]
  BY <1>1 DEF Front
<1>3. Last(l) = l[n] /\ (m # <<>> => Last(m) = l[n - 1] /\ n - 1 \in 1..n)
  <2>1. Last(l) = l[n]
    BY DEF Last
  <2>2. ASSUME m # <<>>
        PROVE  Last(m) = l[n - 1] /\ n - 1 \in 1..n
    <3>1. n - 1 # 0
      BY <1>1, <1>2, <2>2
    <3>2. n - 1 \in 1..(n - 1) /\ n - 1 \in 1..n
      BY <1>1, <3>1
    <3> QED
      BY <1>2, <3>2 DEF Last
  <2> QED
    BY <2>1, <2>2
<1> HIDE DEF m, n
<1>4. \A i \in 1..n : InBuffer(h, l[i])
  BY <1>1 DEF Gapped
<1>5. \A i \in 1..(n - 1) : i \in 1..n
  BY <1>1
<1>6. Gapped(h, m)
  <2>1. \A i \in DOMAIN m : InBuffer(h, m[i])
    BY <1>2, <1>4, <1>5
  <2>2. \A i, j \in DOMAIN m : i < j => End(h, m[i]) < From(h, m[j])
    BY <1>1, <1>2, <1>5 DEF Gapped
  <2> QED
    BY <1>2, <2>1, <2>2 DEF Gapped
<1>7. Behind(h, m, Last(l))
  <2> SUFFICES ASSUME m # <<>>
               PROVE  End(h, l[n - 1]) < From(h, l[n])
    BY <1>3 DEF Behind
  <2>1. n - 1 \in DOMAIN l /\ n \in DOMAIN l /\ n - 1 < n
    BY <1>1, <1>3
  <2> QED
    BY <2>1 DEF Gapped
<1>8. \A b \in Int : Has(h, l, b) <=> Has(h, m, b) \/ Covers(h, Last(l), b)
  <2> TAKE b \in Int
  <2>1. ASSUME Has(h, l, b)
        PROVE  Has(h, m, b) \/ Covers(h, Last(l), b)
    <3>1. PICK i \in 1..n : Covers(h, l[i], b)
      BY <1>1, <2>1 DEF Has
    <3>2. i \in 1..(n - 1) \/ i = n
      BY <1>1
    <3> QED
      BY <1>2, <1>3, <3>1, <3>2 DEF Has
  <2>2. ASSUME Has(h, m, b)
        PROVE  Has(h, l, b)
    <3>1. PICK i \in 1..(n - 1) : Covers(h, m[i], b)
      BY <1>2, <2>2 DEF Has
    <3>2. i \in DOMAIN l /\ m[i] = l[i]
      BY <1>1, <1>2, <1>5
    <3> QED
      BY <3>1, <3>2 DEF Has
  <2>3. ASSUME Covers(h, Last(l), b)
        PROVE  Has(h, l, b)
    BY <1>1, <1>3, <2>3 DEF Has
  <2> QED
    BY <2>1, <2>2, <2>3
<1>9. InBuffer(h, Last(l))
  BY <1>1, <1>3, <1>4
<1> QED
  BY <1>6, <1>7, <1>8, <1>9 DEF m
-----------------------------------------------------------------------------
(* The loop of RBPut over the list. *)

(* Induction up to a bound, on a set. *)
LEMMA BoundedInduction ==
    ASSUME NEW N \in Nat, NEW S, 0 \in S, \A n \in 0..(N - 1) : n \in S => n + 1 \in S
    PROVE  \A n \in 0..N : n \in S
<1> DEFINE T == {n \in 0..N : n \notin S}
<1> SUFFICES ASSUME T # {} PROVE FALSE
  OBVIOUS
<1>1. T \subseteq Nat
  OBVIOUS
<1>2. \E x \in T : \A y \in T : ~ (<<y, x>> \in OpToRel(<, Nat))
  BY <1>1, WFMin, NatLessThanWellFounded
<1>3. \A x, y \in Nat : <<y, x>> \in OpToRel(<, Nat) <=> y < x
  BY DEF OpToRel
<1>4. PICK x \in T : \A y \in T : ~(y < x)
  BY <1>1, <1>2, <1>3
<1>5. x # 0 /\ x - 1 \in 0..N /\ x - 1 \in 0..(N - 1) /\ x - 1 < x /\ (x - 1) + 1 = x
  BY <1>4
<1>6. x - 1 \in S
  BY <1>4, <1>5
<1> QED
  BY <1>4, <1>5, <1>6

Before1st(frag) ==
    [list |-> <<>>, new |-> frag, merged |-> FALSE, stop |-> FALSE, passed |-> 0]

(* Traverse is the last of a series of passes, each made from the one before. *)
LEMMA TraverseSteps ==
    ASSUME NEW fctx, Len(fctx) \in Nat, NEW frag
    PROVE  \E g : /\ g[0] = Before1st(frag)
                  /\ \A n \in 1..Len(fctx) : g[n] = Visit(frag, g[n - 1], fctx[n])
                  /\ Traverse(fctx, frag) = g[Len(fctx)]
<1> DEFINE N == Len(fctx)
           IsPass(g, m) == g = [n \in 0..m |-> IF n = 0 THEN Before1st(frag)
                                               ELSE Visit(frag, g[n - 1], fctx[n])]
           S == {m \in 0..N : \E g : IsPass(g, m)}
           pass == CHOOSE g : IsPass(g, N)
<1>1. 0 \in S
  <2> DEFINE g == [n \in 0..0 |-> Before1st(frag)]
  <2>1. IsPass(g, 0)
    <3>1. \A n \in 0..0 : n = 0
      OBVIOUS
    <3> QED
      BY <3>1
  <2> HIDE DEF IsPass
  <2> QED
    BY <2>1
<1>2. ASSUME NEW m \in 0..(N - 1), m \in S
      PROVE  m + 1 \in S
  <2>1. PICK g : IsPass(g, m)
    BY <1>2
  <2> DEFINE k == [n \in 0..(m + 1) |-> IF n <= m THEN g[n] ELSE Visit(frag, g[m], fctx[m + 1])]
  <2>2. IsPass(k, m + 1)
    <3>1. ASSUME NEW n \in 0..(m + 1)
          PROVE  k[n] = IF n = 0 THEN Before1st(frag) ELSE Visit(frag, k[n - 1], fctx[n])
      <4>1. CASE n = 0
        <5>1. 0 \in 0..m /\ k[0] = g[0]
          OBVIOUS
        <5>2. g[0] = Before1st(frag)
          BY <2>1, <5>1
        <5> QED
          BY <4>1, <5>1, <5>2
      <4>2. CASE n \in 1..m
        <5>1. n - 1 \in 0..m /\ n - 1 \in 0..(m + 1) /\ n - 1 <= m /\ n \in 0..m /\ n <= m /\ n # 0
          BY <4>2
        <5>2. k[n] = g[n] /\ k[n - 1] = g[n - 1]
          BY <5>1
        <5> HIDE DEF k
        <5>3. g[n] = Visit(frag, g[n - 1], fctx[n])
          BY <2>1, <5>1
        <5> QED
          BY <5>1, <5>2, <5>3
      <4>3. CASE n = m + 1
        <5>1. n # 0 /\ ~(n <= m) /\ n - 1 = m /\ m <= m /\ m \in 0..(m + 1)
          BY <4>3
        <5>2. k[n] = Visit(frag, g[m], fctx[m + 1]) /\ k[m] = g[m]
          BY <5>1
        <5> HIDE DEF k
        <5> QED
          BY <4>3, <5>1, <5>2
      <4> QED
        BY <4>1, <4>2, <4>3
    <3>2. k = [n \in 0..(m + 1) |-> k[n]]
      OBVIOUS
    <3> HIDE DEF k
    <3> QED
      BY <3>1, <3>2
  <2> HIDE DEF IsPass, k
  <2>3. m + 1 \in 0..N
    OBVIOUS
  <2> QED
    BY <2>2, <2>3
<1>3. N \in S
  <2> HIDE DEF S
  <2>1. \A n \in 0..N : n \in S
    BY <1>1, <1>2, BoundedInduction
  <2> QED
    BY <2>1
<1>4. IsPass(pass, N)
  <2> HIDE DEF IsPass
  <2> QED
    BY <1>3
<1>5. Traverse(fctx, frag) = pass[N]
  BY DEF Traverse, Before1st
<1>6. pass[0] = Before1st(frag) /\ \A n \in 1..N : pass[n] = Visit(frag, pass[n - 1], fctx[n])
  <2> HIDE DEF pass
  <2>1. 0 \in 0..N /\ \A n \in 1..N : n \in 0..N /\ n # 0
    OBVIOUS
  <2> QED
    BY <1>4, <2>1
<1> HIDE DEF pass
<1> QED
  BY <1>5, <1>6

Pass == [list : Seq(Fragment), new : Fragment, merged : BOOLEAN, stop : BOOLEAN, passed : Nat]

HasUpTo(h, l, n, b) == \E i \in 1..n : Covers(h, l[i], b)

\* nothing was merged: what the place behind which the fragment goes depends on
Apart(h, fctx, frag, n, t) ==
    /\ t.new = frag
    /\ t.passed \in 0..n
    /\ \A i \in 1..t.passed : End(h, fctx[i]) < From(h, frag)
    /\ ~t.stop => t.passed = n
    /\ t.stop => t.passed < n /\ End(h, frag) < From(h, fctx[t.passed + 1])

\* the last item of the list made so far
Edge(h, fctx, n, t) ==
    /\ n = 0 => t.list = <<>> /\ ~t.merged
    /\ n > 0 => t.list # <<>>
    /\ n > 0 /\ (~t.merged \/ t.stop) => Last(t.list) = fctx[n]
    /\ t.merged /\ ~t.stop => Last(t.list) = t.new /\ From(h, t.new) <= End(h, fctx[n])

(* After n items: the list so far has a hole between any two fragments and holds
   what the n items hold, and what the new fragment holds once it was merged. *)
PassInv(h, fctx, frag, n, t) ==
    /\ t \in Pass
    /\ InBuffer(h, t.new)
    /\ Gapped(h, t.list)
    /\ \A b \in Int : Has(h, t.list, b) <=> HasUpTo(h, fctx, n, b) \/ (t.merged /\ Covers(h, frag, b))
    /\ Edge(h, fctx, n, t)
    /\ ~t.merged => Apart(h, fctx, frag, n, t)

(* Before the loop of RBPut nothing was passed. *)
LEMMA PassInit ==
    ASSUME NEW h \in SeqNo, NEW fctx, NEW frag, InBuffer(h, frag)
    PROVE  PassInv(h, fctx, frag, 0, Before1st(frag))
<1> DEFINE t == Before1st(frag)
<1>1. /\ t \in Pass
      /\ t.list = <<>> /\ t.new = frag /\ t.merged = FALSE /\ t.stop = FALSE /\ t.passed = 0
  BY DEF Before1st, InBuffer, Pass
<1> HIDE DEF t
<1>2. Gapped(h, <<>>) /\ \A b \in Int : ~Has(h, <<>>, b)
  BY DEF Gapped, Has
<1>3. \A b : ~HasUpTo(h, fctx, 0, b)
  BY DEF HasUpTo
<1>4. Edge(h, fctx, 0, t) /\ Apart(h, fctx, frag, 0, t)
  BY <1>1 DEF Edge, Apart
<1>5. PassInv(h, fctx, frag, 0, t)
  BY <1>1, <1>2, <1>3, <1>4 DEF PassInv
<1> QED
  BY <1>5 DEF t

(* One more fragment of the list adds its bytes. *)
LEMMA UpToNext ==
    ASSUME NEW h, NEW fctx, NEW n \in Nat, NEW b
    PROVE  HasUpTo(h, fctx, n + 1, b) <=> HasUpTo(h, fctx, n, b) \/ Covers(h, fctx[n + 1], b)
<1>1. \A i : i \in 1..(n + 1) <=> i \in 1..n \/ i = n + 1
  OBVIOUS
<1> QED
  BY <1>1 DEF HasUpTo

(* An item that is not merged goes behind what there is. *)
LEMMA PassAppends ==
    ASSUME NEW h \in SeqNo, NEW fctx, Gapped(h, fctx), NEW frag, InBuffer(h, frag),
           NEW n \in 0..(Len(fctx) - 1), NEW t, PassInv(h, fctx, frag, n, t),
           t.stop \/ ~CanMerge(t.new, fctx[n + 1]),
           NEW list, list = Append(t.list, fctx[n + 1])
    PROVE  /\ Gapped(h, list) /\ list # <<>> /\ Last(list) = fctx[n + 1]
           /\ \A b \in Int : Has(h, list, b) <=>
                  HasUpTo(h, fctx, n + 1, b) \/ (t.merged /\ Covers(h, frag, b))
<1> DEFINE iter == fctx[n + 1]
<1>1. Len(fctx) \in Nat /\ n \in Nat /\ n + 1 \in DOMAIN fctx /\ (n > 0 => n \in DOMAIN fctx) /\ n < n + 1
  BY DEF Gapped
<1>2. InBuffer(h, iter) /\ InBuffer(h, t.new) /\ Gapped(h, t.list) /\ (n > 0 => InBuffer(h, fctx[n]))
  BY <1>1 DEF Gapped, PassInv
<1>3. n > 0 => End(h, fctx[n]) < From(h, iter)
  BY <1>1 DEF Gapped
<1>4. t.merged \in BOOLEAN /\ t.stop \in BOOLEAN /\ Edge(h, fctx, n, t)
  BY DEF PassInv, Pass
<1>5. Behind(h, t.list, iter)
  <2>1. CASE n = 0
    BY <1>4, <2>1 DEF Edge, Behind
  <2>2. CASE n > 0 /\ (~t.merged \/ t.stop)
    BY <1>3, <1>4, <2>2 DEF Edge, Behind
  <2>3. CASE n > 0 /\ t.merged /\ ~t.stop
    <3>1. Last(t.list) = t.new /\ From(h, t.new) <= End(h, fctx[n])
      BY <1>4, <2>3 DEF Edge
    <3>2. ~(From(h, t.new) <= End(h, iter) /\ From(h, iter) <= End(h, t.new))
      BY <1>2, <2>3, CanMergeMeans
    <3>3. /\ From(h, iter) \in Nat /\ End(h, iter) \in Nat /\ From(h, iter) < End(h, iter)
          /\ From(h, t.new) \in Nat /\ End(h, t.new) \in Nat /\ End(h, fctx[n]) \in Nat
      BY <1>2, <2>3, Offsets
    <3>4. End(h, t.new) < From(h, iter)
      BY <1>3, <2>3, <3>1, <3>2, <3>3
    <3> QED
      BY <3>1, <3>4 DEF Behind
  <2> QED
    BY <1>1, <1>4, <2>1, <2>2, <2>3
<1>6. /\ Gapped(h, list) /\ list # <<>> /\ Last(list) = iter
      /\ \A b \in Int : Has(h, list, b) <=> Has(h, t.list, b) \/ Covers(h, iter, b)
  BY <1>2, <1>5, GappedAppend
<1>7. \A b \in Int : Has(h, list, b) <=>
          HasUpTo(h, fctx, n + 1, b) \/ (t.merged /\ Covers(h, frag, b))
  <2> TAKE b \in Int
  <2>1. Has(h, t.list, b) <=> HasUpTo(h, fctx, n, b) \/ (t.merged /\ Covers(h, frag, b))
    BY DEF PassInv, Pass
  <2>2. HasUpTo(h, fctx, n + 1, b) <=> HasUpTo(h, fctx, n, b) \/ Covers(h, iter, b)
    BY <1>1, UpToNext
  <2> QED
    BY <1>6, <2>1, <2>2
<1> QED
  BY <1>6, <1>7

MergedList(t, iter) ==
    Append(IF t.merged THEN Front(t.list) ELSE t.list, MergeFragments(t.new, iter))

(* An item that can be merged with the new fragment takes its place at the end. *)
LEMMA PassMerges ==
    ASSUME NEW h \in SeqNo, NEW fctx, Gapped(h, fctx), NEW frag, InBuffer(h, frag),
           NEW n \in 0..(Len(fctx) - 1), NEW t, PassInv(h, fctx, frag, n, t),
           ~t.stop, CanMerge(t.new, fctx[n + 1])
    PROVE  /\ InBuffer(h, MergeFragments(t.new, fctx[n + 1]))
           /\ From(h, MergeFragments(t.new, fctx[n + 1])) <= End(h, fctx[n + 1])
           /\ Gapped(h, MergedList(t, fctx[n + 1])) /\ MergedList(t, fctx[n + 1]) # <<>>
           /\ Last(MergedList(t, fctx[n + 1])) = MergeFragments(t.new, fctx[n + 1])
           /\ \A b \in Int : Has(h, MergedList(t, fctx[n + 1]), b) <=>
                  HasUpTo(h, fctx, n + 1, b) \/ Covers(h, frag, b)
<1> DEFINE iter == fctx[n + 1]
           one == MergeFragments(t.new, iter)
           list == MergedList(t, iter)
           new == t.new
           rest == IF t.merged THEN Front(t.list) ELSE t.list
<1>1. Len(fctx) \in Nat /\ n \in Nat /\ n + 1 \in DOMAIN fctx /\ (n > 0 => n \in DOMAIN fctx) /\ n < n + 1
  BY DEF Gapped
<1>2. InBuffer(h, iter) /\ InBuffer(h, new) /\ Gapped(h, t.list) /\ (n > 0 => InBuffer(h, fctx[n]))
  BY <1>1 DEF Gapped, PassInv
<1>3. n > 0 => End(h, fctx[n]) < From(h, iter)
  BY <1>1 DEF Gapped
<1>4. t.merged \in BOOLEAN /\ t.stop \in BOOLEAN /\ Edge(h, fctx, n, t)
  BY DEF PassInv, Pass
<1>5. /\ InBuffer(h, one)
      /\ From(h, one) = IF From(h, new) <= From(h, iter) THEN From(h, new) ELSE From(h, iter)
      /\ End(h, one) = IF End(h, new) <= End(h, iter) THEN End(h, iter) ELSE End(h, new)
  BY <1>2, MergeMeans
<1>6. From(h, new) <= End(h, iter) /\ From(h, iter) <= End(h, new)
  BY <1>2, CanMergeMeans
<1>7. /\ From(h, iter) \in Nat /\ End(h, iter) \in Nat /\ From(h, iter) < End(h, iter)
      /\ From(h, new) \in Nat /\ End(h, new) \in Nat /\ From(h, new) < End(h, new)
      /\ n > 0 => End(h, fctx[n]) \in Nat
  BY <1>2, Offsets
<1>8. From(h, one) <= End(h, iter)
  BY <1>5, <1>6, <1>7
<1>9. \A b \in Int : Covers(h, one, b) <=> Covers(h, new, b) \/ Covers(h, iter, b)
  BY <1>5, <1>6, <1>7 DEF Covers
<1>10. /\ Gapped(h, rest) /\ Behind(h, rest, one)
       /\ t.merged => \A b \in Int : Has(h, t.list, b) <=> Has(h, rest, b) \/ Covers(h, new, b)
  <2>1. CASE t.merged
    <3>1. n > 0 /\ t.list # <<>> /\ Last(t.list) = new /\ From(h, new) <= End(h, fctx[n])
      BY <1>1, <1>4, <2>1 DEF Edge
    <3>2. /\ Gapped(h, Front(t.list)) /\ Behind(h, Front(t.list), new)
          /\ \A b \in Int : Has(h, t.list, b) <=> Has(h, Front(t.list), b) \/ Covers(h, new, b)
      BY <1>2, <3>1, GappedFront
    <3>3. From(h, one) = From(h, new)
      BY <1>3, <1>5, <1>7, <3>1
    <3>4. Behind(h, Front(t.list), one)
      BY <3>2, <3>3 DEF Behind
    <3> QED
      BY <2>1, <3>2, <3>4
  <2>2. CASE ~t.merged
    <3>1. t.new = frag /\ t.passed = n /\ \A i \in 1..n : End(h, fctx[i]) < From(h, frag)
      BY <2>2 DEF PassInv, Apart
    <3>2. CASE n = 0
      BY <1>2, <1>4, <2>2, <3>2 DEF Edge, Behind
    <3>3. CASE n > 0
      <4>1. Last(t.list) = fctx[n]
        BY <1>4, <2>2, <3>3 DEF Edge
      <4>2. n \in 1..n
        BY <1>1, <3>3
      <4>3. End(h, fctx[n]) < From(h, new)
        BY <3>1, <4>2
      <4>4. End(h, fctx[n]) < From(h, one)
        BY <1>3, <1>5, <3>3, <4>3
      <4> QED
        BY <1>2, <2>2, <4>1, <4>4 DEF Behind
    <3> QED
      BY <1>1, <3>2, <3>3
  <2> QED
    BY <1>4, <2>1, <2>2
<1>11. ~t.merged => t.list = rest /\ new = frag
  BY DEF PassInv, Apart
<1>12. list = Append(rest, one)
  BY DEF MergedList
<1> HIDE DEF rest, iter, new, one, list
<1>13. /\ Gapped(h, list) /\ list # <<>> /\ Last(list) = one
       /\ \A b \in Int : Has(h, list, b) <=> Has(h, rest, b) \/ Covers(h, one, b)
  BY <1>5, <1>10, <1>12, GappedAppend
<1>14. \A b \in Int : Has(h, list, b) <=> HasUpTo(h, fctx, n + 1, b) \/ Covers(h, frag, b)
  <2> TAKE b \in Int
  <2>1. Has(h, t.list, b) <=> HasUpTo(h, fctx, n, b) \/ (t.merged /\ Covers(h, frag, b))
    BY DEF PassInv, Pass
  <2>2. HasUpTo(h, fctx, n + 1, b) <=> HasUpTo(h, fctx, n, b) \/ Covers(h, iter, b)
    BY <1>1, UpToNext DEF iter
  <2>3. Has(h, list, b) <=> Has(h, rest, b) \/ Covers(h, new, b) \/ Covers(h, iter, b)
    BY <1>9, <1>13
  <2>4. CASE t.merged
    BY <1>10, <2>1, <2>2, <2>3, <2>4
  <2>5. CASE ~t.merged
    BY <1>11, <2>1, <2>2, <2>3, <2>5
  <2> QED
    BY <1>4, <2>4, <2>5
<1> QED
  BY <1>5, <1>8, <1>13, <1>14 DEF iter, one, list

(* A pass of the loop of RBPut over one fragment keeps its invariant. *)
LEMMA PassStep ==
    ASSUME NEW h \in SeqNo, NEW fctx, Gapped(h, fctx), NEW frag, InBuffer(h, frag),
           NEW n \in 0..(Len(fctx) - 1), NEW t, PassInv(h, fctx, frag, n, t)
    PROVE  PassInv(h, fctx, frag, n + 1, Visit(frag, t, fctx[n + 1]))
<1> DEFINE iter == fctx[n + 1]
           u == Visit(frag, t, iter)
<1>1. Len(fctx) \in Nat /\ n \in Nat /\ n + 1 \in DOMAIN fctx /\ n + 1 > 0 /\ n + 1 \in Nat /\ n + 1 # 0
  BY DEF Gapped
<1>2. InBuffer(h, iter) /\ InBuffer(h, t.new)
  BY <1>1 DEF Gapped, PassInv
<1>3. /\ t \in Pass /\ t.merged \in BOOLEAN /\ t.stop \in BOOLEAN /\ t.passed \in Nat
      /\ t.new \in Fragment /\ t.list \in Seq(Fragment) /\ iter \in Fragment
      /\ frag \in Fragment
  BY <1>2 DEF PassInv, InBuffer, Pass
<1>4. ~t.merged => Apart(h, fctx, frag, n, t)
  BY DEF PassInv
<1>5. /\ From(h, iter) \in Nat /\ End(h, iter) \in Nat /\ From(h, iter) < End(h, iter)
      /\ From(h, frag) \in Nat /\ End(h, frag) \in Nat /\ From(h, frag) < End(h, frag)
  BY <1>2, Offsets
<1>6. CASE t.stop
  <2> DEFINE list == Append(t.list, iter)
  <2>1. /\ Gapped(h, list) /\ list # <<>> /\ Last(list) = iter
        /\ \A b \in Int : Has(h, list, b) <=>
               HasUpTo(h, fctx, n + 1, b) \/ (t.merged /\ Covers(h, frag, b))
    <3>1. list = Append(t.list, fctx[n + 1])
      OBVIOUS
    <3> HIDE DEF list
    <3> QED
      BY <1>6, <3>1, PassAppends
  <2>2. list \in Seq(Fragment)
    BY <2>1 DEF Gapped
  <2>3. u = [list |-> list, new |-> t.new, merged |-> t.merged, stop |-> TRUE, passed |-> t.passed]
    BY <1>3, <1>6, Zenon DEF Visit, Pass
  <2> HIDE DEF list, u
  <2>4. /\ u \in Pass /\ u.list = list /\ u.new = t.new /\ u.merged = t.merged
        /\ u.stop = TRUE /\ u.passed = t.passed
    BY <1>3, <2>2, <2>3 DEF Pass
  <2> HIDE DEF iter
  <2>5. Edge(h, fctx, n + 1, u)
    BY <1>1, <2>1, <2>4 DEF Edge, iter
  <2>6. ~u.merged => Apart(h, fctx, frag, n + 1, u)
    BY <1>1, <1>4, <1>6, <2>4 DEF Apart
  <2>7. PassInv(h, fctx, frag, n + 1, u)
    BY <1>2, <2>1, <2>4, <2>5, <2>6 DEF PassInv
  <2> QED
    BY <2>7 DEF u, iter
<1>7. CASE ~t.stop /\ CanMerge(t.new, iter)
  <2> DEFINE one == MergeFragments(t.new, iter)
             list == MergedList(t, iter)
  <2>1. /\ InBuffer(h, one) /\ From(h, one) <= End(h, iter)
        /\ Gapped(h, list) /\ list # <<>> /\ Last(list) = one
        /\ \A b \in Int : Has(h, list, b) <=> HasUpTo(h, fctx, n + 1, b) \/ Covers(h, frag, b)
    <3>1. ~t.stop /\ CanMerge(t.new, fctx[n + 1])
      BY <1>7
    <3> QED
      BY <3>1, PassMerges
  <2>2. list \in Seq(Fragment) /\ one \in Fragment
    BY <2>1 DEF Gapped, InBuffer
  <2>3. u = [list |-> list, new |-> one, merged |-> TRUE, stop |-> FALSE, passed |-> t.passed]
    BY <1>3, <1>7, Zenon DEF Visit, Pass, MergedList
  <2> HIDE DEF list, one, u
  <2>4. /\ u \in Pass /\ u.list = list /\ u.new = one /\ u.merged = TRUE
        /\ u.stop = FALSE /\ u.passed = t.passed
    BY <1>3, <2>2, <2>3 DEF Pass
  <2> HIDE DEF iter
  <2>5. Edge(h, fctx, n + 1, u)
    BY <1>1, <2>1, <2>4 DEF Edge, iter
  <2>6. PassInv(h, fctx, frag, n + 1, u)
    BY <2>1, <2>4, <2>5 DEF PassInv
  <2> QED
    BY <2>6 DEF u, iter
<1>8. CASE ~t.stop /\ ~CanMerge(t.new, iter)
  <2> DEFINE list == Append(t.list, iter)
             stop == t.merged \/ Before(Plus(frag.seq, frag.len), iter.seq)
  <2>1. /\ Gapped(h, list) /\ list # <<>> /\ Last(list) = iter
        /\ \A b \in Int : Has(h, list, b) <=>
               HasUpTo(h, fctx, n + 1, b) \/ (t.merged /\ Covers(h, frag, b))
    <3>1. list = Append(t.list, fctx[n + 1]) /\ iter = fctx[n + 1]
      OBVIOUS
    <3>2. t.stop \/ ~CanMerge(t.new, fctx[n + 1])
      BY <1>8
    <3> HIDE DEF list, iter, stop, u
    <3> QED
      BY <3>1, <3>2, PassAppends
  <2>2. list \in Seq(Fragment)
    BY <2>1 DEF Gapped
  <2>3. u = [list |-> list, new |-> t.new, merged |-> t.merged, stop |-> stop,
             passed |-> IF stop THEN t.passed ELSE t.passed + 1]
    BY <1>3, <1>8, Zenon DEF Visit, Pass
  <2>4. stop \in BOOLEAN
    BY DEF Before
  <2>5. Before(Plus(frag.seq, frag.len), iter.seq) <=> End(h, frag) <= From(h, iter)
    <3>1. /\ Plus(frag.seq, frag.len) = Plus(h, End(h, frag)) /\ iter.seq = Plus(h, From(h, iter))
          /\ End(h, frag) \in 0..(Size + 1) /\ From(h, iter) \in 0..Size
      <4>1. /\ Plus(frag.seq, frag.len) = Plus(h, End(h, frag)) /\ End(h, frag) <= Size
            /\ iter.seq = Plus(h, From(h, iter)) /\ End(h, iter) <= Size
        BY <1>2, Offsets
      <4> QED
        BY <1>5, <4>1, Room
    <3> QED
      BY <3>1, CompareInBuffer
  <2>6. stop <=> t.merged \/ End(h, frag) <= From(h, iter)
    BY <2>5
  <2> HIDE DEF list, u, stop
  <2>7. /\ u \in Pass /\ u.list = list /\ u.new = t.new /\ u.merged = t.merged
        /\ u.stop = stop /\ u.passed = IF stop THEN t.passed ELSE t.passed + 1
    BY <1>3, <2>2, <2>3, <2>4 DEF Pass
  <2> HIDE DEF iter
  <2>8. Edge(h, fctx, n + 1, u)
    BY <1>1, <1>3, <2>1, <2>6, <2>7 DEF Edge, iter
  <2>9. ASSUME ~t.merged
        PROVE  Apart(h, fctx, frag, n + 1, u)
    <3>1. t.new = frag /\ t.passed = n /\ \A i \in 1..n : End(h, fctx[i]) < From(h, frag)
      BY <1>4, <1>8, <2>9 DEF Apart
    <3>2. ~(From(h, frag) <= End(h, iter) /\ From(h, iter) <= End(h, frag))
      BY <1>2, <1>8, <3>1, CanMergeMeans
    <3>3. CASE stop
      <4>1. End(h, frag) < From(h, iter)
        BY <1>5, <2>6, <2>9, <3>2, <3>3
      <4> QED
        BY <1>1, <2>7, <3>1, <3>3, <4>1 DEF Apart, iter
    <3>4. CASE ~stop
      <4>1. End(h, iter) < From(h, frag)
        BY <1>5, <2>6, <2>9, <3>2, <3>4
      <4>2. \A i \in 1..(n + 1) : i \in 1..n \/ i = n + 1
        BY <1>1
      <4>3. \A i \in 1..(n + 1) : End(h, fctx[i]) < From(h, frag)
        BY <3>1, <4>1, <4>2 DEF iter
      <4>4. u.passed = n + 1 /\ ~u.stop /\ u.new = frag
        BY <2>7, <3>1, <3>4
      <4> QED
        BY <1>1, <4>3, <4>4 DEF Apart
    <3> QED
      BY <3>3, <3>4
  <2>10. PassInv(h, fctx, frag, n + 1, u)
    BY <1>2, <2>1, <2>7, <2>8, <2>9 DEF PassInv
  <2> QED
    BY <2>10 DEF u, iter
<1> QED
  BY <1>3, <1>6, <1>7, <1>8

(* What the whole loop has done, by induction on the number of passes. *)
LEMMA TraverseMeans ==
    ASSUME NEW h \in SeqNo, NEW fctx, Gapped(h, fctx), NEW frag, InBuffer(h, frag)
    PROVE  PassInv(h, fctx, frag, Len(fctx), Traverse(fctx, frag))
<1> DEFINE N == Len(fctx)
<1>1. N \in Nat
  BY DEF Gapped
<1>2. PICK g : /\ g[0] = Before1st(frag)
               /\ \A n \in 1..N : g[n] = Visit(frag, g[n - 1], fctx[n])
               /\ Traverse(fctx, frag) = g[N]
  BY <1>1, TraverseSteps
<1> DEFINE S == {n \in 0..N : PassInv(h, fctx, frag, n, g[n])}
<1>3. 0 \in S
  BY <1>1, <1>2, PassInit
<1>4. ASSUME NEW n \in 0..(N - 1), n \in S
      PROVE  n + 1 \in S
  <2>1. n + 1 \in 1..N /\ n + 1 \in 0..N /\ (n + 1) - 1 = n
    BY <1>1
  <2>2. g[n + 1] = Visit(frag, g[n], fctx[n + 1])
    BY <1>2, <2>1
  <2>3. PassInv(h, fctx, frag, n, g[n])
    BY <1>4
  <2>4. PassInv(h, fctx, frag, n + 1, g[n + 1])
    BY <2>2, <2>3, PassStep
  <2> QED
    BY <2>1, <2>4
<1>5. N \in S
  <2> HIDE DEF S
  <2>1. \A n \in 0..N : n \in S
    BY <1>1, <1>3, <1>4, BoundedInduction
  <2> QED
    BY <1>1, <2>1
<1> QED
  BY <1>2, <1>5
-----------------------------------------------------------------------------
(* InsertFragment. *)

\* r is l with f put behind its first p items
Inserted(r, l, p, f) ==
    /\ Len(r) = Len(l) + 1
    /\ \A j \in 1..(Len(l) + 1) :
         r[j] = IF j <= p THEN l[j] ELSE IF j = p + 1 THEN f ELSE l[j - 1]

(* A fragment put into a hole large enough. *)
LEMMA PutBetween ==
    ASSUME NEW h \in SeqNo, NEW l, Gapped(h, l), NEW f, InBuffer(h, f),
           NEW p \in 0..Len(l),
           \A i \in 1..p : End(h, l[i]) < From(h, f),
           p < Len(l) => End(h, f) < From(h, l[p + 1]),
           NEW r, r \in Seq(Fragment), Inserted(r, l, p, f)
    PROVE  /\ Gapped(h, r)
           /\ \A b \in Int : Has(h, r, b) <=> Has(h, l, b) \/ Covers(h, f, b)
<1> DEFINE n == Len(l)
<1>1. /\ n \in Nat /\ DOMAIN l = 1..n /\ DOMAIN r = 1..(n + 1) /\ p \in Nat /\ p <= n
      /\ \A j \in 1..(n + 1) :
           r[j] = IF j <= p THEN l[j] ELSE IF j = p + 1 THEN f ELSE l[j - 1]
  BY DEF Gapped, Inserted
<1>2. \A i \in 1..n : InBuffer(h, l[i])
  BY <1>1 DEF Gapped
<1>3. /\ \A j \in 1..p : j \in 1..n /\ j \in 1..(n + 1) /\ r[j] = l[j]
      /\ p + 1 \in 1..(n + 1) /\ r[p + 1] = f
      /\ \A j \in (p + 1)..n : j \in 1..n /\ j + 1 \in 1..(n + 1) /\ r[j + 1] = l[j]
  <2>1. \A j \in 1..p : j \in 1..n /\ j \in 1..(n + 1) /\ r[j] = l[j]
    BY <1>1
  <2>2. p + 1 \in 1..(n + 1) /\ r[p + 1] = f
    BY <1>1
  <2>3. ASSUME NEW j \in (p + 1)..n
        PROVE  j \in 1..n /\ j + 1 \in 1..(n + 1) /\ r[j + 1] = l[j]
    <3>1. j \in 1..n /\ j + 1 \in 1..(n + 1) /\ ~(j + 1 <= p) /\ j + 1 # p + 1 /\ (j + 1) - 1 = j
      BY <1>1
    <3> QED
      BY <1>1, <3>1
  <2> QED
    BY <2>1, <2>2, <2>3
<1>4. \A j \in 1..(n + 1) : j \in 1..p \/ j = p + 1 \/ (j - 1 \in (p + 1)..n /\ (j - 1) + 1 = j)
  BY <1>1
<1>5. \A i \in (p + 1)..n : End(h, f) < From(h, l[i])
  <2> TAKE i \in (p + 1)..n
  <2>1. p < n /\ p + 1 \in 1..n /\ i \in 1..n /\ (p + 1 = i \/ p + 1 < i)
    BY <1>1
  <2>2. End(h, f) < From(h, l[p + 1])
    BY <2>1
  <2>3. CASE p + 1 < i
    <3>1. End(h, l[p + 1]) < From(h, l[i])
      BY <1>1, <2>1, <2>3 DEF Gapped
    <3>2. /\ From(h, l[p + 1]) \in Nat /\ End(h, l[p + 1]) \in Nat /\ From(h, l[i]) \in Nat
          /\ From(h, l[p + 1]) < End(h, l[p + 1]) /\ End(h, f) \in Nat
      BY <1>2, <2>1, Offsets
    <3> QED
      BY <2>2, <3>1, <3>2
  <2> QED
    BY <2>1, <2>2, <2>3
<1> HIDE DEF n
<1>6. \A j \in 1..(n + 1) : InBuffer(h, r[j])
  <2> TAKE j \in 1..(n + 1)
  <2>1. CASE j \in 1..p
    BY <1>2, <1>3, <2>1
  <2>2. CASE j = p + 1
    BY <1>3, <2>2
  <2>3. CASE j - 1 \in (p + 1)..n /\ (j - 1) + 1 = j
    <3>1. j - 1 \in 1..n /\ r[(j - 1) + 1] = l[j - 1]
      BY <1>3, <2>3
    <3> QED
      BY <1>2, <2>3, <3>1
  <2> QED
    BY <1>4, <2>1, <2>2, <2>3
<1>7. \A i, j \in 1..(n + 1) : i < j => End(h, r[i]) < From(h, r[j])
  <2> TAKE i, j \in 1..(n + 1)
  <2> HAVE i < j
  <2>1. i \in Nat /\ j \in Nat
    OBVIOUS
  <2>2. CASE i \in 1..p /\ j \in 1..p
    BY <1>1, <1>3, <2>2 DEF Gapped
  <2>3. CASE i \in 1..p /\ j = p + 1
    BY <1>3, <2>3
  <2>4. CASE i \in 1..p /\ j - 1 \in (p + 1)..n /\ (j - 1) + 1 = j
    <3>1. j - 1 \in 1..n /\ r[(j - 1) + 1] = l[j - 1] /\ i \in 1..n /\ r[i] = l[i] /\ i < j - 1
      BY <1>1, <1>3, <2>1, <2>4
    <3>2. End(h, l[i]) < From(h, l[j - 1])
      BY <1>1, <3>1 DEF Gapped
    <3> QED
      BY <2>4, <3>1, <3>2
  <2>5. CASE i = p + 1 /\ j - 1 \in (p + 1)..n /\ (j - 1) + 1 = j
    <3>1. r[(j - 1) + 1] = l[j - 1] /\ r[i] = f
      BY <1>3, <2>5
    <3> QED
      BY <1>5, <2>5, <3>1
  <2>6. CASE /\ i - 1 \in (p + 1)..n /\ (i - 1) + 1 = i
             /\ j - 1 \in (p + 1)..n /\ (j - 1) + 1 = j
    <3>1. /\ j - 1 \in 1..n /\ r[(j - 1) + 1] = l[j - 1]
          /\ i - 1 \in 1..n /\ r[(i - 1) + 1] = l[i - 1] /\ i - 1 < j - 1
      BY <1>3, <2>1, <2>6
    <3>2. End(h, l[i - 1]) < From(h, l[j - 1])
      BY <1>1, <3>1 DEF Gapped
    <3> QED
      BY <2>6, <3>1, <3>2
  <2> QED
    BY <1>1, <1>4, <2>1, <2>2, <2>3, <2>4, <2>5, <2>6
<1>8. \A b \in Int : Has(h, r, b) <=> Has(h, l, b) \/ Covers(h, f, b)
  <2> TAKE b \in Int
  <2>1. ASSUME Has(h, r, b)
        PROVE  Has(h, l, b) \/ Covers(h, f, b)
    <3>1. PICK j \in 1..(n + 1) : Covers(h, r[j], b)
      BY <1>1, <2>1 DEF Has
    <3>2. CASE j \in 1..p
      <4>1. j \in DOMAIN l /\ Covers(h, l[j], b)
        BY <1>1, <1>3, <3>1, <3>2
      <4> QED
        BY <4>1 DEF Has
    <3>3. CASE j = p + 1
      BY <1>3, <3>1, <3>3
    <3>4. CASE j - 1 \in (p + 1)..n /\ (j - 1) + 1 = j
      <4>1. j - 1 \in DOMAIN l /\ r[(j - 1) + 1] = l[j - 1]
        BY <1>1, <1>3, <3>4
      <4>2. Covers(h, l[j - 1], b)
        BY <3>1, <3>4, <4>1
      <4> QED
        BY <4>1, <4>2 DEF Has
    <3> QED
      BY <1>4, <3>2, <3>3, <3>4
  <2>2. ASSUME Has(h, l, b)
        PROVE  Has(h, r, b)
    <3>1. PICK i \in 1..n : Covers(h, l[i], b)
      BY <1>1, <2>2 DEF Has
    <3>2. CASE i \in 1..p
      <4>1. i \in DOMAIN r /\ r[i] = l[i]
        BY <1>1, <1>3, <3>2
      <4> QED
        BY <3>1, <4>1 DEF Has
    <3>3. CASE i \in (p + 1)..n
      <4>1. i + 1 \in DOMAIN r /\ r[i + 1] = l[i]
        BY <1>1, <1>3, <3>3
      <4> QED
        BY <3>1, <4>1 DEF Has
    <3>4. i \in 1..p \/ i \in (p + 1)..n
      BY <1>1
    <3> QED
      BY <3>2, <3>3, <3>4
  <2>3. ASSUME Covers(h, f, b)
        PROVE  Has(h, r, b)
    <3>1. p + 1 \in DOMAIN r /\ r[p + 1] = f
      BY <1>1, <1>3
    <3> QED
      BY <2>3, <3>1 DEF Has
  <2> QED
    BY <2>1, <2>2, <2>3
<1>9. Gapped(h, r)
  BY <1>1, <1>6, <1>7 DEF Gapped
<1> QED
  BY <1>8, <1>9

(* A sequence with an element inserted, place by place. *)
LEMMA InsertedPlaces ==
    ASSUME NEW S, NEW l \in Seq(S), NEW f \in S, NEW p \in 0..Len(l)
    PROVE  InsertAt(l, p + 1, f) \in Seq(S) /\ Inserted(InsertAt(l, p + 1, f), l, p, f)
<1> DEFINE n == Len(l)
           a == SubSeq(l, 1, (p + 1) - 1)
           c == SubSeq(l, p + 1, n)
           u == a \o <<f>>
<1>1. n \in Nat /\ p \in Nat /\ p <= n /\ (p + 1) - 1 = p
  OBVIOUS
<1>2. a \in Seq(S) /\ Len(a) = p /\ \A j \in 1..p : a[j] = l[j]
  BY <1>1
<1>3. c \in Seq(S) /\ Len(c) = n - p /\ \A j \in 1..(n - p) : c[j] = l[p + j]
  <2>1. c \in Seq(S) /\ Len(c) = n - p
    BY <1>1
  <2>2. ASSUME NEW j \in 1..(n - p)
        PROVE  c[j] = l[p + j]
    <3>1. c[j] = l[(p + 1) + j - 1] /\ (p + 1) + j - 1 = p + j
      BY <1>1
    <3> QED
      BY <3>1
  <2> QED
    BY <2>1, <2>2
<1>4. InsertAt(l, p + 1, f) = u \o c
  BY DEF InsertAt
<1> HIDE DEF a, c, n
<1>5. u \in Seq(S) /\ Len(u) = p + 1 /\ u[p + 1] = f /\ \A j \in 1..p : u[j] = a[j]
  <2> DEFINE w == <<f>>
  <2>1. w \in Seq(S) /\ Len(w) = 1 /\ w[1] = f
    OBVIOUS
  <2>2. u = a \o w
    OBVIOUS
  <2> HIDE DEF w, u
  <2>3. /\ u \in Seq(S) /\ Len(u) = p + 1
        /\ \A j \in 1..(p + 1) : u[j] = IF j <= p THEN a[j] ELSE w[j - p]
    BY <1>2, <2>1, <2>2, ConcatProperties
  <2>4. p + 1 \in 1..(p + 1) /\ ~(p + 1 <= p) /\ (p + 1) - p = 1
        /\ \A j \in 1..p : j \in 1..(p + 1) /\ j <= p
    BY <1>1
  <2>5. u[p + 1] = w[(p + 1) - p]
    BY <2>3, <2>4
  <2>6. \A j \in 1..p : u[j] = a[j]
    BY <2>3, <2>4
  <2> QED
    BY <2>1, <2>3, <2>4, <2>5, <2>6
<1> HIDE DEF u
<1>6. /\ u \o c \in Seq(S) /\ Len(u \o c) = n + 1
      /\ \A j \in 1..(n + 1) : (u \o c)[j] = IF j <= p + 1 THEN u[j] ELSE c[j - (p + 1)]
  <2>1. (p + 1) + (n - p) = n + 1
    BY <1>1
  <2>2. /\ u \o c \in Seq(S) /\ Len(u \o c) = Len(u) + Len(c)
        /\ \A j \in 1..(Len(u) + Len(c)) :
             (u \o c)[j] = IF j <= Len(u) THEN u[j] ELSE c[j - Len(u)]
    BY <1>3, <1>5, ConcatProperties
  <2>3. Len(u) + Len(c) = n + 1 /\ Len(u) = p + 1
    BY <1>3, <1>5, <2>1
  <2> QED
    BY <2>2, <2>3, Zenon
<1>7. ASSUME NEW j \in 1..(n + 1)
      PROVE  (u \o c)[j] = IF j <= p THEN l[j] ELSE IF j = p + 1 THEN f ELSE l[j - 1]
  <2>1. CASE j <= p
    <3>1. j \in 1..p /\ j <= p + 1
      BY <1>1, <2>1
    <3> QED
      BY <1>2, <1>5, <1>6, <2>1, <3>1
  <2>2. CASE j = p + 1
    <3>1. ~(j <= p) /\ j <= p + 1
      BY <1>1, <2>2
    <3> QED
      BY <1>5, <1>6, <2>2, <3>1
  <2>3. CASE j > p + 1
    <3>1. /\ j - (p + 1) \in 1..(n - p) /\ ~(j <= p) /\ j # p + 1 /\ ~(j <= p + 1)
          /\ p + (j - (p + 1)) = j - 1
      BY <1>1, <2>3
    <3>2. (u \o c)[j] = c[j - (p + 1)]
      BY <1>6, <3>1
    <3>3. c[j - (p + 1)] = l[p + (j - (p + 1))]
      BY <1>3, <3>1
    <3>4. (u \o c)[j] = l[j - 1]
      BY <3>1, <3>2, <3>3
    <3> QED
      BY <3>1, <3>4
  <2>4. j <= p \/ j = p + 1 \/ j > p + 1
    BY <1>1
  <2> QED
    BY <2>1, <2>2, <2>3, <2>4
<1> DEFINE item(j) == IF j <= p THEN l[j] ELSE IF j = p + 1 THEN f ELSE l[j - 1]
           s == InsertAt(l, p + 1, f)
<1>8. s = u \o c
  BY <1>4
<1>9. \A j \in 1..(n + 1) : (u \o c)[j] = item(j)
  BY <1>7
<1> HIDE DEF item, s
<1>10. s \in Seq(S) /\ Len(s) = n + 1 /\ \A j \in 1..(n + 1) : s[j] = item(j)
  BY <1>6, <1>8, <1>9
<1> QED
  BY <1>10, Zenon DEF n, item, s, Inserted

(* The new list has a hole between any two fragments and holds what the old one
   held and the new fragment; and the assert of RBPut holds. *)
LEMMA InsertMeans ==
    ASSUME NEW h \in SeqNo, NEW fctx, Gapped(h, fctx), NEW frag, InBuffer(h, frag)
    PROVE  /\ Gapped(h, InsertFragment(fctx, frag))
           /\ \A b \in Int : Has(h, InsertFragment(fctx, frag), b) <=>
                                Has(h, fctx, b) \/ Covers(h, frag, b)
           /\ InsertAssert(fctx, frag)
<1> DEFINE t == Traverse(fctx, frag)
           n == Len(fctx)
<1>1. n \in Nat /\ DOMAIN fctx = 1..n /\ fctx \in Seq(Fragment) /\ frag \in Fragment
  BY DEF Gapped, InBuffer
<1>2. PassInv(h, fctx, frag, n, t)
  BY TraverseMeans
<1>3. \A b \in Int : HasUpTo(h, fctx, n, b) <=> Has(h, fctx, b)
  BY <1>1 DEF HasUpTo, Has
<1>4. t.merged \in BOOLEAN /\ t.stop \in BOOLEAN
  BY <1>2 DEF PassInv, Pass
<1>5. CASE t.merged
  <2>1. InsertFragment(fctx, frag) = t.list
    BY <1>5 DEF InsertFragment
  <2>2. InsertAssert(fctx, frag)
    BY <1>5 DEF InsertAssert
  <2> HIDE DEF t, n
  <2>3. Gapped(h, t.list) /\ \A b \in Int : Has(h, t.list, b) <=> Has(h, fctx, b) \/ Covers(h, frag, b)
    BY <1>2, <1>3, <1>5 DEF PassInv
  <2> QED
    BY <2>1, <2>2, <2>3
<1>6. CASE ~t.merged
  <2> DEFINE p == t.passed
             r == InsertAt(fctx, p + 1, frag)
  <2>1. /\ p \in 0..n /\ \A i \in 1..p : End(h, fctx[i]) < From(h, frag)
        /\ p < n => End(h, frag) < From(h, fctx[p + 1])
    BY <1>1, <1>2, <1>4, <1>6 DEF PassInv, Apart
  <2> HIDE DEF p
  <2>2. r \in Seq(Fragment) /\ Inserted(r, fctx, p, frag)
    <3>1. p \in 0..Len(fctx) /\ fctx \in Seq(Fragment) /\ frag \in Fragment
      BY <1>1, <2>1
    <3> QED
      BY <3>1, InsertedPlaces
  <2>3. /\ Gapped(h, r)
        /\ \A b \in Int : Has(h, r, b) <=> Has(h, fctx, b) \/ Covers(h, frag, b)
    <3> HIDE DEF r
    <3> QED
      BY <2>1, <2>2, PutBetween
  <2>4. n > 0 => (Before(frag.seq, fctx[1].seq) <=> From(h, frag) <= From(h, fctx[1]))
    <3> SUFFICES ASSUME n > 0
                 PROVE  Before(frag.seq, fctx[1].seq) <=> From(h, frag) <= From(h, fctx[1])
      OBVIOUS
    <3>1. InBuffer(h, fctx[1])
      BY <1>1 DEF Gapped
    <3>2. /\ frag.seq = Plus(h, From(h, frag)) /\ fctx[1].seq = Plus(h, From(h, fctx[1]))
          /\ From(h, frag) \in 0..(Size + 1) /\ From(h, fctx[1]) \in 0..Size
      <4>1. /\ frag.seq = Plus(h, From(h, frag)) /\ fctx[1].seq = Plus(h, From(h, fctx[1]))
            /\ From(h, frag) \in Nat /\ End(h, frag) <= Size /\ From(h, frag) < End(h, frag)
            /\ From(h, fctx[1]) \in Nat /\ End(h, fctx[1]) <= Size
            /\ From(h, fctx[1]) < End(h, fctx[1])
            /\ End(h, frag) \in Nat /\ End(h, fctx[1]) \in Nat
        BY <3>1, Offsets
      <4> QED
        BY <4>1, Room
    <3> QED
      BY <3>2, CompareInBuffer
  <2>5. n > 0 => /\ From(h, frag) \in Nat /\ End(h, frag) \in Nat /\ From(h, frag) < End(h, frag)
                 /\ From(h, fctx[1]) \in Nat /\ End(h, fctx[1]) \in Nat
                 /\ From(h, fctx[1]) < End(h, fctx[1])
    <3>1. n > 0 => InBuffer(h, fctx[1])
      BY <1>1 DEF Gapped
    <3> QED
      BY <3>1, Offsets
  <2>6. fctx = <<>> <=> n = 0
    BY <1>1
  <2>7. AtFront(fctx, frag) <=> p = 0
    <3>1. ASSUME p = 0
          PROVE  AtFront(fctx, frag)
      <4>1. CASE n = 0
        BY <2>6, <4>1 DEF AtFront
      <4>2. CASE n > 0
        <5>1. End(h, frag) < From(h, fctx[1])
          BY <2>1, <3>1, <4>2
        <5> QED
          BY <2>4, <2>5, <4>2, <5>1 DEF AtFront
      <4> QED
        BY <1>1, <4>1, <4>2
    <3>2. ASSUME p # 0
          PROVE  ~AtFront(fctx, frag)
      <4>1. 1 \in 1..p /\ n > 0
        BY <1>1, <2>1, <3>2
      <4>2. End(h, fctx[1]) < From(h, frag)
        BY <2>1, <4>1
      <4> QED
        BY <2>4, <2>5, <2>6, <4>1, <4>2 DEF AtFront
    <3> QED
      BY <3>1, <3>2
  <2>8. InsertFragment(fctx, frag) = r
    <3>1. CASE p = 0
      <4>1. InsertFragment(fctx, frag) = <<frag>> \o fctx
        BY <1>6, <2>7, <3>1 DEF InsertFragment
      <4>2. r = SubSeq(fctx, 1, 0) \o <<frag>> \o SubSeq(fctx, 1, n)
        BY <3>1 DEF InsertAt
      <4>3. SubSeq(fctx, 1, n) = fctx /\ SubSeq(fctx, 1, 0) = <<>>
        BY <1>1
      <4>4. <<>> \o <<frag>> = <<frag>>
        OBVIOUS
      <4> QED
        BY <4>1, <4>2, <4>3, <4>4
    <3>2. CASE p # 0
      BY <1>6, <2>7, <3>2 DEF InsertFragment, p
    <3> QED
      BY <3>1, <3>2
  <2>9. InsertAssert(fctx, frag)
    <3>1. CASE p = 0
      BY <2>7, <3>1 DEF InsertAssert
    <3>2. CASE p # 0
      <4>1. p \in 1..p /\ p \in DOMAIN fctx
        BY <1>1, <2>1, <3>2
      <4>2. End(h, fctx[p]) < From(h, frag) /\ InBuffer(h, fctx[p])
        BY <2>1, <4>1 DEF Gapped
      <4>3. /\ Plus(fctx[p].seq, fctx[p].len) = Plus(h, End(h, fctx[p]))
            /\ frag.seq = Plus(h, From(h, frag))
            /\ End(h, fctx[p]) \in Nat /\ From(h, frag) \in Nat
            /\ End(h, fctx[p]) <= Size /\ From(h, frag) < End(h, frag)
            /\ End(h, frag) <= Size /\ End(h, frag) \in Nat
        BY <4>2, Offsets
      <4>4. End(h, fctx[p]) \in 0..(Size + 1) /\ From(h, frag) \in 0..Size
        BY <4>3, Room
      <4>5. Before(Plus(fctx[p].seq, fctx[p].len), frag.seq)
        BY <4>2, <4>3, <4>4, CompareInBuffer
      <4> QED
        BY <4>5 DEF InsertAssert, p
    <3> QED
      BY <3>1, <3>2
  <2> QED
    BY <2>3, <2>8, <2>9
<1> QED
  BY <1>4, <1>5, <1>6
-----------------------------------------------------------------------------
(* RBPut and RBRemove. *)

(* No byte held lies before head_seq or beyond the size. *)
LEMMA HeldFromZero ==
    ASSUME NEW h \in SeqNo, NEW l, Gapped(h, l)
    PROVE  \A b \in Int : Has(h, l, b) => 0 <= b /\ b < Size
<1> SUFFICES ASSUME NEW b \in Int, NEW i \in DOMAIN l, Covers(h, l[i], b)
             PROVE  0 <= b /\ b < Size
  BY DEF Has
<1>1. InBuffer(h, l[i])
  BY DEF Gapped
<1>2. From(h, l[i]) \in Nat /\ End(h, l[i]) \in Nat /\ End(h, l[i]) <= Size
  BY <1>1, Offsets
<1> QED
  BY <1>2, Room DEF Covers

(* The bytes held from h on, and the first one that is not. *)
LEMMA MergedMeans ==
    ASSUME NEW h \in SeqNo, NEW l, Gapped(h, l)
    PROVE  /\ Merged(h, l) \in 0..Size
           /\ \A b \in Int : 0 <= b /\ b < Merged(h, l) => Has(h, l, b)
           /\ ~Has(h, l, Merged(h, l))
           /\ l # <<>> /\ l[1].seq # h => ~Has(h, l, 0)
           /\ Merged(h, l) > 0 =>
                /\ 1 \in DOMAIN l /\ l[1].seq = h /\ l[1].len = Merged(h, l)
                /\ From(h, l[1]) = 0 /\ End(h, l[1]) = Merged(h, l)
<1> DEFINE n == Len(l)
           m == Merged(h, l)
<1>1. n \in Nat /\ DOMAIN l = 1..n /\ (l = <<>> <=> n = 0)
  BY DEF Gapped
<1>2. \A i \in 1..n : /\ InBuffer(h, l[i]) /\ l[i].seq \in SeqNo /\ l[i].len \in 1..Size
                      /\ From(h, l[i]) \in Nat /\ End(h, l[i]) \in Nat
                      /\ From(h, l[i]) < End(h, l[i])
                      /\ End(h, l[i]) = From(h, l[i]) + l[i].len
  <2> TAKE i \in 1..n
  <2>1. InBuffer(h, l[i])
    BY <1>1 DEF Gapped
  <2> QED
    BY <2>1, Offsets
<1>3. n > 0 => (l[1].seq = h <=> From(h, l[1]) = 0)
  <2> SUFFICES ASSUME n > 0
               PROVE  l[1].seq = h <=> From(h, l[1]) = 0
    OBVIOUS
  <2>1. l[1].seq \in SeqNo
    BY <1>1, <1>2
  <2>2. l[1].seq \in Int /\ h \in Int /\ 0 <= l[1].seq /\ l[1].seq < Modulus
        /\ Modulus \in Nat /\ h < Modulus
    BY <2>1, Room DEF SeqNo
  <2>3. From(h, l[1]) = IF l[1].seq < h THEN l[1].seq - h + Modulus ELSE l[1].seq - h
    BY <2>1, MinusPlus DEF From
  <2> QED
    BY <2>2, <2>3
<1>4. \A i \in 1..n : i > 1 => End(h, l[1]) < From(h, l[i])
  <2> TAKE i \in 1..n
  <2> HAVE i > 1
  <2>1. 1 \in 1..n /\ 1 < i
    BY <1>1
  <2> QED
    BY <1>1, <2>1 DEF Gapped
<1>5. CASE n > 0 /\ l[1].seq = h
  <2>1. 1 \in 1..n /\ 1 \in DOMAIN l /\ l # <<>>
    BY <1>1, <1>5
  <2>2. m = l[1].len
    BY <1>5, <2>1 DEF Merged
  <2>3. From(h, l[1]) = 0 /\ End(h, l[1]) = m /\ m \in 1..Size /\ m \in Nat
    BY <1>2, <1>3, <1>5, <2>1, <2>2, Room
  <2> HIDE DEF m, n
  <2>4. \A b \in Int : 0 <= b /\ b < m => Has(h, l, b)
    BY <2>1, <2>3 DEF Has, Covers
  <2>5. ASSUME Has(h, l, m)
        PROVE  FALSE
    <3>1. PICK i \in 1..n : From(h, l[i]) <= m /\ m < End(h, l[i])
      BY <1>1, <2>5 DEF Has, Covers
    <3>2. i = 1 \/ i > 1
      BY <1>1
    <3>3. i # 1
      BY <2>3, <3>1
    <3>4. m < From(h, l[i])
      BY <1>4, <2>3, <3>2, <3>3
    <3>5. From(h, l[i]) \in Nat
      BY <1>2
    <3> QED
      BY <2>3, <3>1, <3>4, <3>5
  <2> QED
    BY <1>5, <2>1, <2>2, <2>3, <2>4, <2>5 DEF m
<1>6. CASE ~(n > 0 /\ l[1].seq = h)
  <2>1. m = 0
    BY <1>1, <1>6 DEF Merged
  <2>2. ASSUME Has(h, l, 0)
        PROVE  FALSE
    <3>1. PICK i \in 1..n : From(h, l[i]) <= 0 /\ 0 < End(h, l[i])
      BY <1>1, <2>2 DEF Has, Covers
    <3>2. n > 0 /\ 1 \in 1..n /\ (i = 1 \/ i > 1)
      BY <1>1
    <3>3. From(h, l[1]) # 0
      BY <1>3, <1>6, <3>2
    <3>4. i = 1 => FALSE
      BY <1>2, <3>1, <3>2, <3>3
    <3>5. i > 1 => End(h, l[1]) < From(h, l[i])
      BY <1>4
    <3> QED
      BY <1>2, <3>1, <3>2, <3>4, <3>5
  <2> HIDE DEF m
  <2> QED
    BY <2>1, <2>2, Room DEF m
<1> QED
  BY <1>5, <1>6

(* A fragment that RBPut stores lies within the buffer. *)
LEMMA AcceptedMeans ==
    ASSUME NEW rb, RingInv(rb), NEW s \in Fragment
    PROVE  /\ EndOff(rb, s) = End(rb.head_seq, s)
           /\ Accepted(rb, s) => InBuffer(rb.head_seq, s)
BY DEF EndOff, End, From, Accepted, InBuffer

(* The parts of a good ring. *)
LEMMA RingTypes ==
    ASSUME NEW rb, RingInv(rb)
    PROVE  /\ rb.head_offset \in 0..Size /\ rb.tail_offset \in 0..Size
           /\ rb.merged_len \in 0..Size /\ rb.last_len \in 0..Size
           /\ rb.head_seq \in SeqNo /\ rb.fctx \in Seq(Fragment)
           /\ rb.head_offset \in Nat /\ rb.tail_offset \in Nat
           /\ rb.merged_len \in Nat /\ rb.last_len \in Nat
           /\ Gapped(rb.head_seq, rb.fctx)
           /\ rb.merged_len = Merged(rb.head_seq, rb.fctx)
           /\ rb.head_offset + rb.last_len <= rb.tail_offset
<1>1. rb \in Ring
  BY DEF RingInv
<1>2. /\ rb.head_offset \in 0..Size /\ rb.tail_offset \in 0..Size
      /\ rb.merged_len \in 0..Size /\ rb.last_len \in 0..Size
      /\ rb.head_seq \in SeqNo /\ rb.fctx \in Seq(Fragment)
  BY <1>1 DEF Ring
<1> QED
  BY <1>2, Room DEF RingInv

(* The first bytes held are not beyond what data holds. *)
LEMMA MergedInData ==
    ASSUME NEW rb, RingInv(rb)
    PROVE  rb.merged_len <= rb.last_len
<1>1. /\ rb.head_seq \in SeqNo /\ Gapped(rb.head_seq, rb.fctx)
      /\ rb.merged_len = Merged(rb.head_seq, rb.fctx)
      /\ rb.merged_len \in Nat /\ rb.last_len \in Nat
  BY RingTypes
<1>2. CASE rb.merged_len > 0
  <2>1. 1 \in DOMAIN rb.fctx /\ End(rb.head_seq, rb.fctx[1]) = rb.merged_len
    BY <1>1, <1>2, MergedMeans
  <2> QED
    BY <2>1 DEF RingInv
<1>3. CASE ~(rb.merged_len > 0)
  BY <1>1, <1>3
<1> QED
  BY <1>2, <1>3

(* The fields that RBPut changes. *)
LEMMA StoredFields ==
    ASSUME NEW rb, RingInv(rb), NEW s \in Fragment, Accepted(rb, s),
           NEW head, head = IF Moves(rb, EndOff(rb, s)) THEN 0 ELSE rb.head_offset,
           NEW tail, tail =
             IF (IF Moves(rb, EndOff(rb, s)) THEN rb.tail_offset - rb.head_offset
                 ELSE rb.tail_offset) < head + EndOff(rb, s)
             THEN head + EndOff(rb, s)
             ELSE IF Moves(rb, EndOff(rb, s)) THEN rb.tail_offset - rb.head_offset
                  ELSE rb.tail_offset
    PROVE  /\ Stored(rb, s) =
                [head_offset |-> head, tail_offset |-> tail,
                 merged_len |-> IF rb.head_seq = InsertFragment(rb.fctx, s)[1].seq
                                THEN InsertFragment(rb.fctx, s)[1].len ELSE rb.merged_len,
                 last_len |-> tail - head, head_seq |-> rb.head_seq,
                 fctx |-> InsertFragment(rb.fctx, s)]
           /\ MoveToFront(rb, EndOff(rb, s)).head_offset = head
           /\ head \in Nat /\ tail \in 0..Size /\ tail - head \in 0..Size /\ tail - head \in Nat
           /\ head \in 0..Size
           /\ rb.last_len <= tail - head /\ EndOff(rb, s) <= tail - head
           /\ head + EndOff(rb, s) <= Size
<1> DEFINE e == EndOff(rb, s)
           mv == Moves(rb, e)
           to == IF mv THEN rb.tail_offset - rb.head_offset ELSE rb.tail_offset
           fctx == InsertFragment(rb.fctx, s)
<1>1. rb \in Ring
  BY DEF RingInv
<1>2. /\ rb.head_offset \in Nat /\ rb.tail_offset \in Nat /\ rb.last_len \in Nat
      /\ rb.head_offset + rb.last_len <= rb.tail_offset /\ rb.tail_offset \in 0..Size
      /\ rb.tail_offset <= Size /\ Size \in Nat
  BY RingTypes, Room
<1>3. e \in Nat /\ e <= Size
  <2>1. InBuffer(rb.head_seq, s) /\ e = End(rb.head_seq, s) /\ rb.head_seq \in SeqNo
    BY AcceptedMeans, RingTypes
  <2> QED
    BY <2>1, Offsets
<1>4. mv <=> Size <= rb.head_offset + e
  BY DEF Moves
<1>5. head = (IF mv THEN 0 ELSE rb.head_offset) /\ tail = IF to < head + e THEN head + e ELSE to
  OBVIOUS
<1> HIDE DEF e, mv
<1>6. /\ head \in Nat /\ to \in Nat /\ to <= Size /\ head + e <= Size /\ head + rb.last_len <= to
  BY <1>2, <1>3, <1>4, <1>5
<1>7. MoveToFront(rb, e) = [rb EXCEPT !.tail_offset = to, !.head_offset = head]
  <2>1. CASE mv
    BY <1>1, <1>5, <2>1 DEF MoveToFront, mv, e, Ring
  <2>2. CASE ~mv
    <3>1. MoveToFront(rb, e) = rb /\ to = rb.tail_offset /\ head = rb.head_offset
      BY <1>5, <2>2 DEF MoveToFront, mv
    <3> HIDE DEF to
    <3>2. rb = [rb EXCEPT !.tail_offset = to, !.head_offset = head]
      BY <1>1, <3>1 DEF Ring
    <3> QED
      BY <3>1, <3>2
  <2> QED
    BY <2>1, <2>2
<1> HIDE DEF to, fctx
<1>8. /\ MoveToFront(rb, e).head_offset = head /\ MoveToFront(rb, e).tail_offset = to
  BY <1>1, <1>7 DEF Ring
<1>9. Stored(rb, s) =
        [head_offset |-> head, tail_offset |-> tail,
         merged_len |-> IF rb.head_seq = fctx[1].seq THEN fctx[1].len ELSE rb.merged_len,
         last_len |-> tail - head, head_seq |-> rb.head_seq, fctx |-> fctx]
  <2>1. Stored(rb, s) =
          [MoveToFront(rb, e) EXCEPT
             !.tail_offset = tail, !.last_len = tail - head, !.fctx = fctx,
             !.merged_len = IF rb.head_seq = fctx[1].seq THEN fctx[1].len ELSE @]
    BY <1>5, <1>8 DEF Stored, e, fctx
  <2> QED
    BY <1>1, <1>7, <2>1 DEF Ring
<1>10. /\ tail \in 0..Size /\ tail - head \in 0..Size /\ tail - head \in Nat
       /\ rb.last_len <= tail - head /\ e <= tail - head /\ head \in 0..Size
  BY <1>2, <1>3, <1>5, <1>6
<1> QED
  BY <1>6, <1>8, <1>9, <1>10 DEF e, fctx

(* RBPut keeps the invariant, and the ring then holds what it held and the
   segment. *)
LEMMA StoredKeeps ==
    ASSUME NEW rb, RingInv(rb), NEW s \in Fragment, Accepted(rb, s)
    PROVE  /\ RingInv(Stored(rb, s))
           /\ Stored(rb, s).head_seq = rb.head_seq
           /\ \A b \in Int : Has(rb.head_seq, Stored(rb, s).fctx, b) <=>
                                Has(rb.head_seq, rb.fctx, b) \/ Covers(rb.head_seq, s, b)
           /\ InsertAssert(rb.fctx, s)
<1> DEFINE e == EndOff(rb, s)
           head == IF Moves(rb, e) THEN 0 ELSE rb.head_offset
           to == IF Moves(rb, e) THEN rb.tail_offset - rb.head_offset ELSE rb.tail_offset
           tail == IF to < head + e THEN head + e ELSE to
           l == InsertFragment(rb.fctx, s)
           h == rb.head_seq
           merged == IF h = l[1].seq THEN l[1].len ELSE rb.merged_len
           new == Stored(rb, s)
<1>1. /\ h \in SeqNo /\ Gapped(h, rb.fctx) /\ rb.merged_len = Merged(h, rb.fctx)
      /\ rb.merged_len \in Nat /\ rb.last_len \in Nat
  BY RingTypes
<1>2. InBuffer(h, s) /\ e = End(h, s)
  BY AcceptedMeans
<1>3. /\ Gapped(h, l)
      /\ \A b \in Int : Has(h, l, b) <=> Has(h, rb.fctx, b) \/ Covers(h, s, b)
      /\ InsertAssert(rb.fctx, s)
  BY <1>1, <1>2, InsertMeans
<1>4. /\ new = [head_offset |-> head, tail_offset |-> tail, merged_len |-> merged,
                last_len |-> tail - head, head_seq |-> h, fctx |-> l]
      /\ head \in 0..Size /\ tail \in 0..Size /\ tail - head \in 0..Size
      /\ head \in Nat /\ tail - head \in Nat /\ tail \in Nat
      /\ rb.last_len <= tail - head /\ e <= tail - head
  <2>1. /\ head = IF Moves(rb, EndOff(rb, s)) THEN 0 ELSE rb.head_offset
        /\ tail = IF (IF Moves(rb, EndOff(rb, s)) THEN rb.tail_offset - rb.head_offset
                      ELSE rb.tail_offset) < head + EndOff(rb, s)
                  THEN head + EndOff(rb, s)
                  ELSE IF Moves(rb, EndOff(rb, s)) THEN rb.tail_offset - rb.head_offset
                       ELSE rb.tail_offset
    OBVIOUS
  <2> HIDE DEF head, tail
  <2>2. /\ new = [head_offset |-> head, tail_offset |-> tail, merged_len |-> merged,
                  last_len |-> tail - head, head_seq |-> h, fctx |-> l]
        /\ head \in 0..Size /\ tail \in 0..Size /\ tail - head \in 0..Size
        /\ head \in Nat /\ tail - head \in Nat
        /\ rb.last_len <= tail - head /\ e <= tail - head
    BY <2>1, StoredFields
  <2> QED
    BY <2>2, Room
<1> HIDE DEF head, tail, to, e, l, new, merged, h
<1>5. l # <<>> /\ 1 \in DOMAIN l /\ l[1] \in Fragment
  <2>1. From(h, s) \in Int /\ From(h, s) <= From(h, s) /\ From(h, s) < End(h, s)
    BY <1>1, <1>2, Offsets
  <2>2. Covers(h, s, From(h, s))
    BY <2>1 DEF Covers
  <2>3. Has(h, l, From(h, s))
    BY <1>3, <2>1, <2>2
  <2>4. PICK i \in DOMAIN l : TRUE
    BY <2>3 DEF Has
  <2>5. l \in Seq(Fragment)
    BY <1>3 DEF Gapped
  <2> QED
    BY <2>4, <2>5
<1>6. merged = Merged(h, l)
  <2>1. CASE l[1].seq = h
    BY <1>5, <2>1 DEF merged, Merged
  <2>2. CASE l[1].seq # h
    <3>1. ~Has(h, l, 0)
      BY <1>1, <1>3, <1>5, <2>2, MergedMeans
    <3>2. ~Has(h, rb.fctx, 0)
      BY <1>3, <3>1
    <3>3. rb.merged_len = 0
      <4>1. \A b \in Int : 0 <= b /\ b < rb.merged_len => Has(h, rb.fctx, b)
        BY <1>1, MergedMeans
      <4> QED
        BY <1>1, <3>2, <4>1
    <3> QED
      BY <2>2, <3>3 DEF merged, Merged
  <2> QED
    BY <2>1, <2>2
<1>7. \A i \in DOMAIN l : End(h, l[i]) <= tail - head
  <2> TAKE i \in DOMAIN l
  <2> DEFINE b == End(h, l[i]) - 1
  <2>1. InBuffer(h, l[i])
    BY <1>3 DEF Gapped
  <2>2. From(h, l[i]) \in Nat /\ End(h, l[i]) \in Nat /\ From(h, l[i]) < End(h, l[i])
    BY <1>1, <2>1, Offsets
  <2>3. b \in Int /\ From(h, l[i]) <= b /\ b < End(h, l[i]) /\ End(h, l[i]) = b + 1
    BY <2>2
  <2> HIDE DEF b
  <2>4. Has(h, l, b)
    BY <2>3 DEF Has, Covers
  <2>5. CASE Has(h, rb.fctx, b)
    <3>1. PICK k \in DOMAIN rb.fctx : b < End(h, rb.fctx[k])
      BY <2>5 DEF Has, Covers
    <3>2. End(h, rb.fctx[k]) <= rb.last_len
      BY DEF RingInv, h
    <3>3. End(h, rb.fctx[k]) \in Nat
      <4>1. InBuffer(h, rb.fctx[k])
        BY <1>1 DEF Gapped
      <4> QED
        BY <1>1, <4>1, Offsets
    <3> QED
      BY <1>1, <1>4, <2>3, <3>1, <3>2, <3>3
  <2>6. CASE Covers(h, s, b)
    <3>1. b < e
      BY <1>2, <2>6 DEF Covers
    <3>2. e \in Nat
      BY <1>1, <1>2, Offsets
    <3> QED
      BY <1>4, <2>3, <3>1, <3>2
  <2> QED
    BY <1>3, <2>3, <2>4, <2>5, <2>6
<1>8. merged \in 0..Size
  BY <1>1, <1>3, <1>6, MergedMeans
<1>9. l \in Seq(Fragment)
  BY <1>3 DEF Gapped
<1>10. /\ new \in Ring /\ new.head_seq = h /\ new.fctx = l /\ new.merged_len = merged
       /\ new.last_len = tail - head /\ new.head_offset = head /\ new.tail_offset = tail
  BY <1>1, <1>4, <1>8, <1>9 DEF Ring
<1>11. head + (tail - head) <= tail
  BY <1>4
<1>12. RingInv(new)
  BY <1>3, <1>6, <1>7, <1>10, <1>11 DEF RingInv
<1> QED
  BY <1>3, <1>10, <1>12 DEF new, l, h

(* Fragments seen from n bytes further on. *)
LEMMA Shifted ==
    ASSUME NEW h \in SeqNo, NEW f, InBuffer(h, f), NEW n \in Nat, n <= From(h, f)
    PROVE  /\ Plus(h, n) \in SeqNo /\ InBuffer(Plus(h, n), f)
           /\ From(Plus(h, n), f) = From(h, f) - n
           /\ End(Plus(h, n), f) = End(h, f) - n
<1> DEFINE x == From(h, f)
           y == End(h, f)
<1>1. /\ f.seq = Plus(h, x) /\ x \in Nat /\ y \in Nat /\ x < y /\ y <= Size
      /\ y = x + f.len /\ f.len \in 1..Size
  BY Offsets
<1> HIDE DEF x, y
<1>2. n \in Int /\ -Modulus <= n /\ n < Modulus /\ Modulus \in Nat /\ n <= x /\ n \in Nat
      /\ x - n \in Int /\ -Modulus <= x - n /\ x - n < Modulus /\ x < Modulus
      /\ ~(x - n < 0) /\ n + (x - n) = x
  BY <1>1, Room DEF x
<1>3. Plus(h, n) \in SeqNo
  BY <1>2, MinusPlus
<1>4. f.seq = Plus(Plus(h, n), x - n)
  <2>1. -Modulus <= n + (x - n) /\ n + (x - n) < Modulus
    BY <1>1, <1>2
  <2>2. Plus(Plus(h, n), x - n) = Plus(h, n + (x - n))
    BY <1>2, <2>1, PlusPlus
  <2> QED
    BY <1>1, <1>2, <2>2
<1>5. Minus(Plus(Plus(h, n), x - n), Plus(h, n)) = x - n
  BY <1>2, <1>3, MinusPlus
<1>6. From(Plus(h, n), f) = x - n
  BY <1>4, <1>5 DEF From
<1>7. End(Plus(h, n), f) = y - n
  <2>1. (x - n) + f.len = y - n
    BY <1>1, <1>2, Room
  <2> QED
    BY <1>6, <2>1 DEF End
<1>8. y - n <= Size
  BY <1>1, <1>2, Room
<1>9. InBuffer(Plus(h, n), f)
  BY <1>7, <1>8 DEF InBuffer
<1> QED
  BY <1>3, <1>6, <1>7, <1>9 DEF x, y

\* the list when n bytes of the first fragment are taken
Rest(l, n) ==
    IF n = l[1].len THEN Tail(l)
    ELSE <<[seq |-> Plus(l[1].seq, n), len |-> l[1].len - n]>> \o Tail(l)

\* how many fragments that is less
Gone(l, n) == IF n = l[1].len THEN 1 ELSE 0

(* Each fragment of the rest is one of the list, seen from n bytes further on, or
   what is left of the first one. *)
LEMMA RestPlaces ==
    ASSUME NEW h \in SeqNo, NEW l, Gapped(h, l), NEW n \in 1..Merged(h, l)
    PROVE  /\ Plus(h, n) \in SeqNo /\ Rest(l, n) \in Seq(Fragment)
           /\ \A i \in DOMAIN Rest(l, n) :
                /\ i + Gone(l, n) \in DOMAIN l
                /\ InBuffer(Plus(h, n), Rest(l, n)[i])
                /\ End(Plus(h, n), Rest(l, n)[i]) = End(h, l[i + Gone(l, n)]) - n
                /\ From(Plus(h, n), Rest(l, n)[i]) =
                     IF i + Gone(l, n) = 1 THEN 0 ELSE From(h, l[i + Gone(l, n)]) - n
           /\ \A k \in DOMAIN l : k - Gone(l, n) \in DOMAIN Rest(l, n) \/ k = Gone(l, n)
<1> DEFINE m == Merged(h, l)
           N == Len(l)
           q == Plus(h, n)
           r == Rest(l, n)
           d == Gone(l, n)
           g == [seq |-> Plus(l[1].seq, n), len |-> l[1].len - n]
           rest == Tail(l)
<1>1. /\ m \in 0..Size /\ n \in Nat /\ n > 0 /\ n <= m /\ m \in Nat /\ m <= Size /\ Size \in Nat
      /\ 1 \in DOMAIN l /\ l[1].seq = h /\ l[1].len = m
      /\ From(h, l[1]) = 0 /\ End(h, l[1]) = m
  BY MergedMeans, Room
<1>2. N \in Nat /\ DOMAIN l = 1..N /\ l \in Seq(Fragment) /\ N >= 1 /\ l # <<>>
  BY <1>1 DEF Gapped
<1>3. /\ rest \in Seq(Fragment) /\ Len(rest) = N - 1 /\ DOMAIN rest = 1..(N - 1)
      /\ \A i \in 1..(N - 1) : rest[i] = l[i + 1]
  BY <1>2
<1>4. q \in SeqNo /\ Minus(q, h) = n
  <2>1. n \in Int /\ -Modulus <= n /\ n < Modulus /\ ~(n < 0)
    BY <1>1, Room
  <2> QED
    BY <2>1, MinusPlus
<1>5. \A k \in 2..N : k \in DOMAIN l /\ InBuffer(q, l[k]) /\ From(q, l[k]) = From(h, l[k]) - n
                      /\ End(q, l[k]) = End(h, l[k]) - n
  <2> TAKE k \in 2..N
  <2>1. k \in DOMAIN l /\ 1 < k
    BY <1>2
  <2>2. InBuffer(h, l[k]) /\ End(h, l[1]) < From(h, l[k])
    BY <1>1, <2>1 DEF Gapped
  <2>3. From(h, l[k]) \in Nat
    BY <2>2, Offsets
  <2>4. n <= From(h, l[k])
    BY <1>1, <2>2, <2>3
  <2> QED
    BY <1>1, <2>1, <2>2, <2>4, Shifted
<1>6. CASE n = m
  <2>1. r = rest /\ d = 1
    BY <1>1, <1>6 DEF Rest, Gone
  <2> HIDE DEF r, d, rest, q, N, m
  <2>2. \A i \in DOMAIN r : i + 1 \in 2..N /\ i + 1 # 1 /\ r[i] = l[i + 1]
    BY <1>2, <1>3, <2>1
  <2>3. \A k \in DOMAIN l : k - 1 \in DOMAIN r \/ k = 1
    BY <1>2, <1>3, <2>1
  <2>4. \A i \in DOMAIN r : /\ i + 1 \in DOMAIN l /\ InBuffer(q, r[i])
                            /\ End(q, r[i]) = End(h, l[i + 1]) - n
                            /\ From(q, r[i]) = IF i + 1 = 1 THEN 0 ELSE From(h, l[i + 1]) - n
    <3> TAKE i \in DOMAIN r
    <3>1. i + 1 \in 2..N /\ i + 1 # 1 /\ r[i] = l[i + 1]
      BY <2>2
    <3> QED
      BY <1>5, <3>1
  <2>5. r \in Seq(Fragment)
    BY <1>3, <2>1
  <2> QED
    BY <1>4, <2>1, <2>3, <2>4, <2>5 DEF r, d, q
<1>7. CASE n # m
  <2>1. r = <<g>> \o rest /\ d = 0
    BY <1>1, <1>7 DEF Rest, Gone
  <2>2. g \in Fragment /\ g.seq = q /\ g.len = m - n
    BY <1>1, <1>4, <1>7 DEF Fragment
  <2>3. From(q, g) = 0
    <3>1. Minus(Plus(q, 0), q) = 0
      BY <1>4, MinusPlus, Room
    <3>2. Plus(q, 0) = q
      <4>1. q \in Int /\ 0 <= q /\ q < Modulus /\ Modulus \in Nat
        BY <1>4, Room DEF SeqNo
      <4> QED
        BY <1>4, <4>1, MinusPlus
    <3> QED
      BY <2>2, <3>1, <3>2 DEF From
  <2>4. End(q, g) = m - n /\ InBuffer(q, g)
    <3>1. 0 + (m - n) = m - n /\ m - n <= Size
      BY <1>1
    <3> QED
      BY <2>2, <2>3, <3>1 DEF End, InBuffer
  <2> HIDE DEF g, r, d, rest, q, N, m
  <2>5. /\ r \in Seq(Fragment) /\ Len(r) = N /\ DOMAIN r = 1..N /\ r[1] = g
        /\ \A i \in 2..N : r[i] = rest[i - 1]
    <3> DEFINE w == <<g>>
    <3>1. w \in Seq(Fragment) /\ Len(w) = 1 /\ w[1] = g
      BY <2>2
    <3>2. r = w \o rest
      BY <2>1
    <3> HIDE DEF w
    <3>3. /\ r \in Seq(Fragment) /\ Len(r) = 1 + (N - 1)
          /\ \A i \in 1..(1 + (N - 1)) : r[i] = IF i <= 1 THEN w[i] ELSE rest[i - 1]
      <4>1. /\ r \in Seq(Fragment) /\ Len(r) = Len(w) + Len(rest)
            /\ \A i \in 1..(Len(w) + Len(rest)) :
                 r[i] = IF i <= Len(w) THEN w[i] ELSE rest[i - Len(w)]
        BY <1>3, <3>1, <3>2, ConcatProperties
      <4>2. Len(w) = 1 /\ Len(rest) = N - 1
        BY <1>3, <3>1
      <4> QED
        BY <4>1, <4>2, Zenon
    <3>4. 1 + (N - 1) = N /\ 1 \in 1..N /\ \A i \in 2..N : i \in 1..N /\ ~(i <= 1)
      BY <1>2
    <3>5. r[1] = w[1]
      BY <3>3, <3>4
    <3>6. \A i \in 2..N : r[i] = rest[i - 1]
      BY <3>3, <3>4
    <3>7. Len(r) = N /\ DOMAIN r = 1..N
      BY <3>3, <3>4
    <3> QED
      BY <3>1, <3>3, <3>5, <3>6, <3>7
  <2>6. ASSUME NEW i \in DOMAIN r
        PROVE  /\ i + 0 \in DOMAIN l /\ InBuffer(q, r[i])
               /\ End(q, r[i]) = End(h, l[i + 0]) - n
               /\ From(q, r[i]) = IF i + 0 = 1 THEN 0 ELSE From(h, l[i + 0]) - n
    <3>1. i + 0 = i /\ i \in 1..N
      BY <1>2, <2>5
    <3>2. CASE i = 1
      BY <1>1, <1>2, <2>3, <2>4, <2>5, <3>1, <3>2
    <3>3. CASE i # 1
      <4>1. i \in 2..N /\ i - 1 \in 1..(N - 1) /\ (i - 1) + 1 = i
        BY <1>2, <3>1, <3>3
      <4>2. r[i] = l[i]
        BY <1>3, <2>5, <4>1
      <4> QED
        BY <1>5, <3>1, <3>3, <4>1, <4>2
    <3> QED
      BY <3>2, <3>3
  <2>7. \A k \in DOMAIN l : k - 0 \in DOMAIN r
    BY <1>2, <2>5
  <2> QED
    BY <1>4, <2>1, <2>5, <2>6, <2>7 DEF r, d, q
<1> QED
  BY <1>6, <1>7

(* What is left of the list when n of the first bytes are taken: the same bytes,
   n places nearer. *)
LEMMA RestMeans ==
    ASSUME NEW h \in SeqNo, NEW l, Gapped(h, l), NEW n \in 1..Merged(h, l)
    PROVE  /\ Plus(h, n) \in SeqNo
           /\ Gapped(Plus(h, n), Rest(l, n))
           /\ Merged(Plus(h, n), Rest(l, n)) = Merged(h, l) - n
           /\ \A b \in Nat : Has(Plus(h, n), Rest(l, n), b) <=> Has(h, l, b + n)
           /\ \A i \in DOMAIN Rest(l, n) : \E k \in DOMAIN l :
                End(Plus(h, n), Rest(l, n)[i]) = End(h, l[k]) - n
<1> DEFINE m == Merged(h, l)
           q == Plus(h, n)
           r == Rest(l, n)
           d == Gone(l, n)
<1>1. /\ n \in Nat /\ n > 0 /\ n <= m /\ m \in Nat /\ m <= Size /\ Size \in Nat
      /\ 1 \in DOMAIN l /\ l[1].len = m /\ From(h, l[1]) = 0 /\ End(h, l[1]) = m
  BY MergedMeans, Room
<1>2. Len(l) \in Nat /\ DOMAIN l = 1..Len(l) /\ DOMAIN l \subseteq Nat
  BY DEF Gapped
<1>3. d \in {0, 1} /\ (d = 1 => n = m)
  BY <1>1 DEF Gone
<1>4. /\ q \in SeqNo /\ r \in Seq(Fragment)
      /\ \A i \in DOMAIN r : /\ i + d \in DOMAIN l
                             /\ InBuffer(q, r[i])
                             /\ End(q, r[i]) = End(h, l[i + d]) - n
                             /\ From(q, r[i]) = IF i + d = 1 THEN 0 ELSE From(h, l[i + d]) - n
      /\ \A k \in DOMAIN l : k - d \in DOMAIN r \/ k = d
  BY RestPlaces
<1>5. \A k \in DOMAIN l : From(h, l[k]) \in Nat /\ End(h, l[k]) \in Nat
  <2> TAKE k \in DOMAIN l
  <2>1. InBuffer(h, l[k])
    BY DEF Gapped
  <2> QED
    BY <2>1, Offsets
<1> HIDE DEF m, q, r, d
<1>6. DOMAIN r = 1..Len(r) /\ DOMAIN r \subseteq Nat
  BY <1>4
<1>7. Gapped(q, r)
  <2>1. \A i, j \in DOMAIN r : i < j => End(q, r[i]) < From(q, r[j])
    <3> TAKE i, j \in DOMAIN r
    <3> HAVE i < j
    <3>1. i + d \in DOMAIN l /\ j + d \in DOMAIN l /\ i + d < j + d /\ j + d # 1
      BY <1>2, <1>3, <1>4, <1>6
    <3>2. End(h, l[i + d]) < From(h, l[j + d])
      BY <3>1 DEF Gapped
    <3>3. /\ End(q, r[i]) = End(h, l[i + d]) - n /\ From(q, r[j]) = From(h, l[j + d]) - n
      BY <1>4, <3>1
    <3> QED
      BY <1>1, <1>5, <3>1, <3>2, <3>3
  <2> QED
    BY <1>4, <2>1 DEF Gapped
<1>8. ASSUME NEW b \in Nat
      PROVE  Has(q, r, b) <=> Has(h, l, b + n)
  <2>1. ASSUME Has(q, r, b)
        PROVE  Has(h, l, b + n)
    <3>1. PICK i \in DOMAIN r : From(q, r[i]) <= b /\ b < End(q, r[i])
      BY <2>1 DEF Has, Covers
    <3>2. /\ i + d \in DOMAIN l /\ End(q, r[i]) = End(h, l[i + d]) - n
          /\ From(q, r[i]) = IF i + d = 1 THEN 0 ELSE From(h, l[i + d]) - n
      BY <1>4
    <3>3. From(h, l[i + d]) \in Nat /\ End(h, l[i + d]) \in Nat /\ b + n < End(h, l[i + d])
      BY <1>1, <1>5, <3>1, <3>2
    <3>4. From(h, l[i + d]) <= b + n
      BY <1>1, <3>1, <3>2, <3>3
    <3> QED
      BY <3>2, <3>3, <3>4 DEF Has, Covers
  <2>2. ASSUME Has(h, l, b + n)
        PROVE  Has(q, r, b)
    <3>1. PICK k \in DOMAIN l : From(h, l[k]) <= b + n /\ b + n < End(h, l[k])
      BY <2>2 DEF Has, Covers
    <3>2. k # d
      <4> SUFFICES ASSUME k = d PROVE FALSE
        OBVIOUS
      <4>1. k = 1 /\ n = m
        BY <1>2, <1>3
      <4> QED
        BY <1>1, <3>1, <4>1
    <3> DEFINE i == k - d
    <3>3. i \in DOMAIN r /\ i + d = k
      BY <1>2, <1>3, <1>4, <3>2
    <3> HIDE DEF i
    <3>4. /\ End(q, r[i]) = End(h, l[k]) - n
          /\ From(q, r[i]) = IF k = 1 THEN 0 ELSE From(h, l[k]) - n
      BY <1>4, <3>3
    <3>5. From(q, r[i]) <= b /\ b < End(q, r[i])
      BY <1>1, <1>5, <3>1, <3>4
    <3> QED
      BY <3>3, <3>5 DEF Has, Covers
  <2> QED
    BY <2>1, <2>2
<1>9. Merged(q, r) = m - n
  <2> DEFINE u == Merged(q, r)
  <2>1. /\ u \in 0..Size /\ ~Has(q, r, u)
        /\ \A b \in Int : 0 <= b /\ b < u => Has(q, r, b)
    BY <1>4, <1>7, MergedMeans
  <2>2. /\ ~Has(h, l, m)
        /\ \A b \in Int : 0 <= b /\ b < m => Has(h, l, b)
    BY MergedMeans DEF m
  <2> HIDE DEF u
  <2>3. u \in Nat /\ m - n \in Nat /\ (m - n) + n = m
    BY <1>1, <2>1
  <2>4. ASSUME u < m - n
        PROVE  FALSE
    <3>1. u + n \in Int /\ 0 <= u + n /\ u + n < m
      BY <1>1, <2>3, <2>4
    <3> QED
      BY <1>8, <2>1, <2>2, <2>3, <3>1
  <2>5. ASSUME m - n < u
        PROVE  FALSE
    <3>1. Has(q, r, m - n)
      BY <2>1, <2>3, <2>5
    <3>2. Has(h, l, (m - n) + n)
      BY <1>8, <2>3, <3>1
    <3> QED
      BY <2>2, <2>3, <3>2
  <2>6. u = m - n
    BY <1>1, <2>3, <2>4, <2>5
  <2> QED
    BY <2>6 DEF u
<1>10. \A i \in DOMAIN r : \E k \in DOMAIN l : End(q, r[i]) = End(h, l[k]) - n
  BY <1>4
<1> QED
  BY <1>4, <1>7, <1>8, <1>9, <1>10 DEF m, q, r

(* RBRemove keeps the invariant, and takes the first n bytes. *)
LEMMA RemoveKeeps ==
    ASSUME NEW rb, RingInv(rb), NEW n \in 1..rb.merged_len
    PROVE  /\ RingInv(RBRemove(rb, n))
           /\ RBRemove(rb, n).head_seq = Plus(rb.head_seq, n)
           /\ RBRemove(rb, n).merged_len = rb.merged_len - n
           /\ \A b \in Nat : Has(Plus(rb.head_seq, n), RBRemove(rb, n).fctx, b) <=>
                                Has(rb.head_seq, rb.fctx, b + n)
           /\ RemoveAssert(rb, n)
<1> DEFINE h == rb.head_seq
           l == rb.fctx
           r == Rest(l, n)
           q == Plus(h, n)
           new == RBRemove(rb, n)
<1>1. /\ h \in SeqNo /\ Gapped(h, l) /\ rb.merged_len = Merged(h, l)
      /\ rb.merged_len \in Nat /\ rb.merged_len <= Size
      /\ rb.head_offset + rb.last_len <= rb.tail_offset
      /\ rb.last_len \in Nat /\ rb.last_len <= Size /\ rb.tail_offset \in 0..Size
      /\ rb.head_offset \in Nat /\ rb.tail_offset \in Nat /\ Size \in Nat
  BY RingTypes, Room
<1>2. rb.merged_len <= rb.last_len
  BY MergedInData
<1>3. rb \in Ring
  BY DEF RingInv
<1>4. n \in Nat /\ n # 0 /\ n \in 0..Size /\ n <= rb.merged_len /\ rb.merged_len > 0
  BY <1>1
<1>5. /\ q \in SeqNo /\ Gapped(q, r) /\ Merged(q, r) = rb.merged_len - n
      /\ \A b \in Nat : Has(q, r, b) <=> Has(h, l, b + n)
      /\ \A i \in DOMAIN r : \E k \in DOMAIN l : End(q, r[i]) = End(h, l[k]) - n
  BY <1>1, RestMeans
<1>6. new = [rb EXCEPT !.head_offset = n, !.head_seq = q, !.merged_len = rb.merged_len - n,
                       !.last_len = rb.last_len - n, !.fctx = r]
  BY <1>3, <1>4 DEF RBRemove, Rest, Ring
<1> HIDE DEF q, r, new
<1>7. rb.merged_len - n \in 0..Size /\ rb.last_len - n \in 0..Size /\ r \in Seq(Fragment)
  <2>1. r \in Seq(Fragment)
    BY <1>5 DEF Gapped
  <2>2. rb.merged_len - n \in 0..Size /\ rb.last_len - n \in 0..Size
    BY <1>1, <1>2, <1>4
  <2> QED
    BY <2>1, <2>2
<1>8. /\ new \in Ring /\ new.head_offset = n /\ new.head_seq = q /\ new.fctx = r
      /\ new.merged_len = rb.merged_len - n /\ new.last_len = rb.last_len - n
      /\ new.tail_offset = rb.tail_offset
  BY <1>3, <1>4, <1>5, <1>6, <1>7 DEF Ring
<1>9. n + (rb.last_len - n) <= rb.tail_offset
  BY <1>1, <1>4
<1>10. \A i \in DOMAIN r : End(q, r[i]) <= rb.last_len - n
  <2> TAKE i \in DOMAIN r
  <2>1. PICK k \in DOMAIN l : End(q, r[i]) = End(h, l[k]) - n
    BY <1>5
  <2>2. End(h, l[k]) <= rb.last_len /\ InBuffer(h, l[k])
    BY <1>1 DEF RingInv, Gapped
  <2>3. End(h, l[k]) \in Nat
    BY <1>1, <2>2, Offsets
  <2> QED
    BY <1>1, <1>4, <2>1, <2>2, <2>3
<1>11. RingInv(new)
  BY <1>5, <1>8, <1>9, <1>10 DEF RingInv
<1>12. RemoveAssert(rb, n)
  <2>1. l[1].len = rb.merged_len
    BY <1>1, <1>4, MergedMeans
  <2> QED
    BY <1>4, <2>1 DEF RemoveAssert
<1> QED
  BY <1>5, <1>8, <1>11, <1>12 DEF new, q
-----------------------------------------------------------------------------
(* The steps of the two threads. *)

(* Sums are sequence numbers. *)
LEMMA PlusTyped ==
    ASSUME NEW a \in SeqNo, NEW n \in Int
    PROVE  Plus(a, n) \in SeqNo
<1>1. Modulus \in Nat /\ Modulus > 0 /\ a \in Int
  BY Room DEF SeqNo
<1> DEFINE z == a + n
<1>2. z \in Int
  BY <1>1
<1> HIDE DEF z
<1>3. z % Modulus \in 0..(Modulus - 1)
  BY <1>1, <1>2
<1> QED
  BY <1>3 DEF Plus, SeqNo, z

(* A put, whether the segment is stored or not. *)
LEMMA PutKeeps ==
    ASSUME NEW rb, RingInv(rb), NEW s \in Fragment
    PROVE  /\ RingInv(RBPut(rb, s))
           /\ RBPut(rb, s).head_seq = rb.head_seq
           /\ Accepted(rb, s) => InsertAssert(rb.fctx, s)
           /\ \A b \in Int : Has(rb.head_seq, RBPut(rb, s).fctx, b) <=>
                \/ Has(rb.head_seq, rb.fctx, b)
                \/ Accepted(rb, s) /\ Covers(rb.head_seq, s, b)
<1>1. CASE Accepted(rb, s)
  <2>1. RBPut(rb, s) = Stored(rb, s)
    BY <1>1 DEF RBPut
  <2> QED
    BY <1>1, <2>1, StoredKeeps
<1>2. CASE ~Accepted(rb, s)
  <2>1. RBPut(rb, s) = rb
    BY <1>2 DEF RBPut
  <2> QED
    BY <1>2, <2>1
<1> QED
  BY <1>1, <1>2

(* What FIN_WAIT drops is all that could be read. *)
LEMMA DropKeeps ==
    ASSUME NEW rb, RingInv(rb)
    PROVE  /\ RingInv(RBRemove(rb, rb.merged_len))
           /\ RBRemove(rb, rb.merged_len).merged_len = 0
           /\ RBRemove(rb, rb.merged_len).head_seq = Plus(rb.head_seq, rb.merged_len)
           /\ \A b \in Nat :
                Has(Plus(rb.head_seq, rb.merged_len), RBRemove(rb, rb.merged_len).fctx, b) <=>
                Has(rb.head_seq, rb.fctx, b + rb.merged_len)
           /\ RemoveAssert(rb, rb.merged_len)
<1>1. rb.merged_len \in Nat /\ rb.head_seq \in SeqNo
  BY RingTypes
<1>2. CASE rb.merged_len = 0
  <2>1. RBRemove(rb, rb.merged_len) = rb /\ RemoveAssert(rb, rb.merged_len)
    BY <1>2 DEF RBRemove, RemoveAssert
  <2>2. Plus(rb.head_seq, 0) = rb.head_seq
    <3>1. rb.head_seq \in Int /\ 0 <= rb.head_seq /\ rb.head_seq < Modulus /\ Modulus \in Nat
      BY <1>1, Room DEF SeqNo
    <3> QED
      BY <1>1, <3>1, MinusPlus
  <2>3. \A b \in Nat : b + rb.merged_len = b
    BY <1>2
  <2> QED
    BY <1>2, <2>1, <2>2, <2>3
<1>3. CASE rb.merged_len # 0
  <2>1. rb.merged_len \in 1..rb.merged_len /\ rb.merged_len - rb.merged_len = 0
    BY <1>1, <1>3
  <2> QED
    BY <2>1, RemoveKeeps
<1> QED
  BY <1>2, <1>3

(* data stays an array of bytes. *)
LEMMA CopiedTyped ==
    ASSUME RingInv(ring), data \in [0..(Size - 1) -> SeqNo \cup {NoByte}],
           NEW s \in Fragment, Accepted(ring, s)
    PROVE  Copied(ring, s) \in [0..(Size - 1) -> SeqNo \cup {NoByte}]
<1> DEFINE e == EndOff(ring, s)
           first == MoveToFront(ring, e).head_offset + e - s.len
           mv == Moves(ring, e)
           old(i) == IF mv /\ i < ring.last_len THEN data[i + ring.head_offset] ELSE data[i]
           D == SeqNo \cup {NoByte}
<1>1. /\ ring.head_offset \in Nat /\ ring.last_len \in Nat /\ ring.tail_offset \in Nat
      /\ ring.head_offset + ring.last_len <= ring.tail_offset /\ ring.tail_offset <= Size
      /\ Size \in Nat /\ ring.head_seq \in SeqNo
  BY RingTypes, Room
<1>2. first \in Int
  <2>1. MoveToFront(ring, e).head_offset \in Nat
    <3>1. ring \in Ring
      BY DEF RingInv
    <3>2. CASE mv
      BY <3>1, <3>2 DEF MoveToFront, Ring
    <3>3. CASE ~mv
      BY <1>1, <3>3 DEF MoveToFront
    <3> QED
      BY <3>2, <3>3
  <2>2. e \in Nat
    <3>1. InBuffer(ring.head_seq, s) /\ e = End(ring.head_seq, s)
      BY AcceptedMeans
    <3> QED
      BY <1>1, <3>1, Offsets
  <2>3. s.len \in Nat
    BY Room DEF Fragment
  <2> HIDE DEF e
  <2> QED
    BY <2>1, <2>2, <2>3
<1>3. s.seq \in SeqNo
  BY DEF Fragment
<1>4. ASSUME NEW i \in 0..(Size - 1)
      PROVE  old(i) \in D
  <2>1. CASE mv /\ i < ring.last_len
    <3>1. i + ring.head_offset \in 0..(Size - 1)
      BY <1>1, <2>1
    <3> QED
      BY <2>1, <3>1
  <2>2. CASE ~(mv /\ i < ring.last_len)
    BY <2>2
  <2> QED
    BY <2>1, <2>2
<1>5. Copied(ring, s) = [i \in DOMAIN data |->
          IF i \in first..(first + s.len - 1) THEN Plus(s.seq, i - first) ELSE old(i)]
  BY DEF Copied
<1> HIDE DEF first, old
<1>6. ASSUME NEW i \in 0..(Size - 1)
      PROVE  (IF i \in first..(first + s.len - 1) THEN Plus(s.seq, i - first) ELSE old(i)) \in D
  <2>1. i - first \in Int
    BY <1>2
  <2>2. Plus(s.seq, i - first) \in D
    BY <1>3, <2>1, PlusTyped
  <2> QED
    BY <1>4, <2>2
<1>7. DOMAIN data = 0..(Size - 1)
  OBVIOUS
<1> HIDE DEF D
<1> QED
  BY <1>5, <1>6, <1>7 DEF D

(* What the invariant says of the numbers. *)
LEMMA InvFacts ==
    ASSUME IInv
    PROVE  /\ RingInv(ring) /\ ring.head_seq \in SeqNo /\ rcv_nxt \in SeqNo
           /\ ring.merged_len \in Nat /\ ring.merged_len <= Size
           /\ rcv_nxt = Plus(ring.head_seq, ring.merged_len)
           /\ rcv_wnd \in Nat /\ rcv_wnd <= Half
<1>1. RingInv(ring) /\ rcv_nxt \in SeqNo /\ rcv_wnd \in 0..InitWnd \cup 0..Size
      /\ rcv_nxt = Plus(ring.head_seq, ring.merged_len)
  BY DEF IInv, TypeOK
<1>2. ring.head_seq \in SeqNo /\ ring.merged_len \in 0..Size
  BY <1>1, RingTypes
<1> QED
  BY <1>1, <1>2, Room

(* A segment of Segments that passes the window test ends in the window. *)
LEMMA WindowTest ==
    ASSUME IInv, NEW from \in (-Size)..InitWnd, NEW len \in 1..Size,
           NEW s, s = [seq |-> Plus(rcv_nxt, from), len |-> len], InWindow(s)
    PROVE  0 <= from + len /\ from + len <= rcv_wnd
<1> DEFINE d == from + len
<1>1. /\ Modulus \in Nat /\ Size \in Nat /\ InitWnd \in Nat /\ Half \in Nat
      /\ Size <= Half /\ Size + Half + 2 <= Modulus
      /\ InitWnd <= Half /\ InitWnd + Half + 2 <= Modulus /\ Half + Half < Modulus
  BY Room DEF Half, MAXSEQ
<1>2. rcv_nxt \in SeqNo /\ rcv_wnd \in Nat /\ rcv_wnd <= Half
  BY InvFacts
<1>3. /\ from \in Int /\ len \in Int /\ d \in Int /\ -Modulus <= from /\ from < Modulus
      /\ -Modulus <= len /\ len < Modulus /\ -Modulus <= d /\ d < Modulus
      /\ d + Modulus > Half
  BY <1>1
<1>4. s.seq = Plus(rcv_nxt, from) /\ s.len = len
  OBVIOUS
<1>5. Plus(s.seq, s.len) = Plus(rcv_nxt, d)
  BY <1>2, <1>3, <1>4, PlusPlus
<1>6. Before(rcv_nxt, Plus(rcv_nxt, d)) /\ Before(Plus(rcv_nxt, d), Plus(rcv_nxt, rcv_wnd))
  BY <1>5 DEF InWindow
<1> HIDE DEF d
<1>7. Minus(Plus(rcv_nxt, d), rcv_nxt) = IF d < 0 THEN d + Modulus ELSE d
  BY <1>2, <1>3, MinusPlus
<1>8. Minus(Plus(rcv_nxt, d), rcv_nxt) <= Half
  BY <1>6 DEF Before, Half
<1>9. 0 <= d /\ d <= Half
  BY <1>1, <1>3, <1>7, <1>8
<1>10. /\ rcv_wnd \in Int /\ -Modulus <= rcv_wnd /\ rcv_wnd < Modulus
       /\ rcv_wnd - d <= Half /\ d - rcv_wnd + Half < Modulus
  BY <1>1, <1>2, <1>3, <1>9
<1>11. d <= rcv_wnd
  BY <1>2, <1>3, <1>6, <1>10, Compare
<1> QED
  BY <1>9, <1>11 DEF d

(* Where a segment that waits for the lock lies. *)
LEMMA SegPlace ==
    ASSUME IInv, NEW s \in seg
    PROVE  \E k \in Int :
             /\ s.seq = Plus(ring.head_seq, k) /\ s.len \in 1..Size
             /\ ring.merged_len - Size <= k /\ k + s.len <= ring.merged_len + rcv_wnd
             /\ -Size <= k /\ k <= Half
<1>1. PICK from \in (-Size)..InitWnd :
        /\ s \in [seq : {Plus(rcv_nxt, from)}, len : 1..Size]
        /\ 0 <= from + s.len /\ from + s.len <= rcv_wnd
  BY DEF IInv, SegInv
<1>2. s.seq = Plus(rcv_nxt, from) /\ s.len \in 1..Size /\ s.len \in Nat
  BY <1>1, Room
<1>3. /\ ring.head_seq \in SeqNo /\ ring.merged_len \in Nat /\ ring.merged_len <= Size
      /\ rcv_nxt = Plus(ring.head_seq, ring.merged_len) /\ rcv_wnd \in Nat
  BY InvFacts
<1> DEFINE m == ring.merged_len
           k == m + from
<1>4. WindowInv
  BY DEF IInv
<1>5. m + rcv_wnd <= Half /\ m + rcv_wnd \in Nat
  BY <1>3, <1>4, Room DEF WindowInv
<1> HIDE DEF m
<1>6. /\ from \in Int /\ k \in Int /\ m \in Int /\ m \in Nat /\ m <= Size
      /\ -Modulus <= from /\ from < Modulus /\ -Modulus <= m /\ m < Modulus
      /\ -Modulus <= m + from /\ m + from < Modulus
  BY <1>3, Room DEF m
<1>7. s.seq = Plus(ring.head_seq, k)
  <2>1. Plus(Plus(ring.head_seq, m), from) = Plus(ring.head_seq, m + from)
    BY <1>3, <1>6, PlusPlus
  <2> QED
    BY <1>2, <1>3, <2>1 DEF m
<1>8. /\ m - Size <= k /\ k + s.len <= m + rcv_wnd /\ -Size <= k /\ k <= Half
  BY <1>1, <1>2, <1>3, <1>5, <1>6, Room
<1> HIDE DEF k
<1> QED
  BY <1>2, <1>6, <1>7, <1>8 DEF m

(* The first state. *)
LEMMA InitInv ==
    Init => IInv
<1> SUFFICES ASSUME Init PROVE IInv
  OBVIOUS
<1>1. /\ ring = RBInit(0) /\ data = [i \in 0..(Size - 1) |-> NoByte] /\ rcv_nxt = ring.head_seq
      /\ rcv_wnd = InitWnd /\ seg = {} /\ dropping = FALSE /\ err = "none"
  BY DEF Init
<1>2. 0 \in SeqNo /\ Size \in Nat /\ 0 \in 0..Size
  BY Room DEF SeqNo
<1>3. <<>> \in Seq(Fragment)
  OBVIOUS
<1>4. /\ ring \in Ring /\ ring.head_seq = 0 /\ ring.fctx = <<>> /\ ring.merged_len = 0
      /\ ring.last_len = 0 /\ ring.head_offset = 0 /\ ring.tail_offset = 0
  BY <1>1, <1>2, <1>3 DEF RBInit, Ring
<1>5. RingInv(ring)
  <2>1. Gapped(0, <<>>)
    BY <1>3 DEF Gapped
  <2>2. Merged(0, <<>>) = 0
    BY DEF Merged
  <2>3. 0 + 0 <= 0
    OBVIOUS
  <2> QED
    BY <1>4, <2>1, <2>2, <2>3 DEF RingInv
<1>6. rcv_nxt = Plus(ring.head_seq, ring.merged_len)
  <2>1. (0 + 0) % Modulus = 0
    BY Room
  <2> QED
    BY <1>1, <1>4, <2>1 DEF Plus
<1>7. WindowInv /\ SegInv
  BY <1>1, <1>4 DEF WindowInv, SegInv
<1>8. TypeOK
  <2>1. rcv_wnd \in 0..InitWnd \cup 0..Size
    BY <1>1, Room
  <2> QED
    BY <1>1, <1>2, <1>4, <2>1 DEF TypeOK
<1> QED
  BY <1>1, <1>5, <1>6, <1>7, <1>8 DEF IInv

(* A segment comes. *)
LEMMA CheckKeeps ==
    ASSUME IInv, NEW s \in Segments, CheckPayload(s)
    PROVE  IInv'
<1>1. /\ seg' = {s} /\ InWindow(s) /\ err = "none"
      /\ UNCHANGED <<ring, data, rcv_nxt, rcv_wnd, dropping, err>>
  BY DEF CheckPayload
<1>2. PICK from \in (-Size)..InitWnd, len \in 1..Size :
        s = [seq |-> Plus(rcv_nxt, from), len |-> len]
  BY DEF Segments
<1>3. 0 <= from + len /\ from + len <= rcv_wnd
  BY <1>1, <1>2, WindowTest
<1>4. s \in Fragment
  <2>1. from \in Int /\ rcv_nxt \in SeqNo
    BY Room, InvFacts
  <2>2. Plus(rcv_nxt, from) \in SeqNo
    BY <2>1, PlusTyped
  <2> QED
    BY <1>2, <2>2 DEF Fragment
<1>5. TypeOK'
  <2>1. TypeOK
    BY DEF IInv
  <2>2. seg' \subseteq Fragment
    BY <1>1, <1>4
  <2> QED
    BY <1>1, <2>1, <2>2 DEF TypeOK
<1>6. SegInv'
  <2>1. s \in [seq : {Plus(rcv_nxt, from)}, len : 1..Size] /\ s.len = len
    BY <1>2
  <2>2. \A u \in seg' : u = s
    BY <1>1
  <2>3. /\ \A u, v \in seg' : u = v
        /\ \A u \in seg' : \E f \in (-Size)..InitWnd :
             /\ u \in [seq : {Plus(rcv_nxt, f)}, len : 1..Size]
             /\ 0 <= f + u.len /\ f + u.len <= rcv_wnd
    BY <1>3, <2>1, <2>2
  <2> QED
    BY <1>1, <2>3 DEF SegInv
<1>7. RingInv(ring)' /\ (rcv_nxt = Plus(ring.head_seq, ring.merged_len))' /\ WindowInv' /\ (err = "none")'
  BY <1>1 DEF IInv, WindowInv
<1> QED
  BY <1>5, <1>6, <1>7 DEF IInv

(* The segment is put, under read_lock. *)
LEMMA PutPayloadKeeps ==
    ASSUME IInv, PutPayload
    PROVE  IInv'
<1>1. PICK s \in seg :
        LET put == RBPut(ring, s)
            rest == IF dropping THEN RBRemove(put, put.merged_len) ELSE put
        IN  /\ err = "none"
            /\ err' = IF /\ Accepted(ring, s) => InsertAssert(ring.fctx, s)
                         /\ dropping => RemoveAssert(put, put.merged_len)
                      THEN "none" ELSE "assert"
            /\ ring' = rest
            /\ data' = IF Accepted(ring, s) THEN Copied(ring, s) ELSE data
            /\ rcv_nxt' = Plus(rest.head_seq, rest.merged_len)
            /\ rcv_wnd' = Size - rest.merged_len
            /\ seg' = {}
            /\ UNCHANGED dropping
  BY DEF PutPayload
<1> DEFINE put == RBPut(ring, s)
           rest == IF dropping THEN RBRemove(put, put.merged_len) ELSE put
<1>2. TypeOK /\ RingInv(ring) /\ s \in Fragment
  BY DEF IInv, TypeOK
<1>3. /\ RingInv(put) /\ (Accepted(ring, s) => InsertAssert(ring.fctx, s))
  BY <1>2, PutKeeps
<1>4. RemoveAssert(put, put.merged_len) /\ RingInv(RBRemove(put, put.merged_len))
  <2> HIDE DEF put
  <2> QED
    BY <1>3, DropKeeps
<1>5. /\ err' = "none" /\ ring' = rest /\ rcv_nxt' = Plus(rest.head_seq, rest.merged_len)
      /\ data' = IF Accepted(ring, s) THEN Copied(ring, s) ELSE data
      /\ rcv_wnd' = Size - rest.merged_len /\ seg' = {} /\ dropping' = dropping
  BY <1>1, <1>3, <1>4
<1> HIDE DEF put
<1>6. RingInv(rest)
  BY <1>3, <1>4
<1> HIDE DEF rest
<1>7. /\ rest.head_seq \in SeqNo /\ rest.merged_len \in Nat /\ rest.merged_len <= Size
      /\ rest \in Ring
  BY <1>6, RingTypes, Room DEF RingInv
<1>8. rcv_nxt' \in SeqNo
  <2>1. rest.merged_len \in Int
    BY <1>7
  <2> QED
    BY <1>5, <1>7, <2>1, PlusTyped
<1>9. data' \in [0..(Size - 1) -> SeqNo \cup {NoByte}]
  <2>1. data \in [0..(Size - 1) -> SeqNo \cup {NoByte}]
    BY <1>2 DEF TypeOK
  <2>2. CASE Accepted(ring, s)
    BY <1>2, <1>5, <2>1, <2>2, CopiedTyped
  <2>3. CASE ~Accepted(ring, s)
    BY <1>5, <2>1, <2>3
  <2> QED
    BY <2>2, <2>3
<1>10. rcv_wnd' \in 0..InitWnd \cup 0..Size
  BY <1>5, <1>7, Room
<1>11. TypeOK'
  <2>1. dropping' \in BOOLEAN
    BY <1>2, <1>5 DEF TypeOK
  <2> QED
    BY <1>5, <1>7, <1>8, <1>9, <1>10, <2>1 DEF TypeOK
<1>12. WindowInv' /\ SegInv'
  BY <1>5 DEF WindowInv, SegInv
<1>13. RingInv(ring)' /\ (rcv_nxt = Plus(ring.head_seq, ring.merged_len))' /\ (err = "none")'
  BY <1>5, <1>6
<1> QED
  BY <1>11, <1>12, <1>13 DEF IInv

(* The application reads n bytes. *)
LEMMA CopyKeeps ==
    ASSUME IInv, NEW n \in 1..Size, CopyToUser(n)
    PROVE  IInv'
<1> DEFINE new == RBRemove(ring, n)
           m == ring.merged_len
<1>1. /\ n \in 1..m /\ ring' = new /\ rcv_wnd' = Size - ring'.merged_len
      /\ err' = (IF RemoveAssert(ring, n) THEN "none" ELSE "assert")
      /\ data' = data /\ rcv_nxt' = rcv_nxt /\ seg' = seg /\ dropping' = dropping
  BY DEF CopyToUser
<1>2. /\ RingInv(ring) /\ ring.head_seq \in SeqNo /\ rcv_nxt \in SeqNo
      /\ m \in Nat /\ m <= Size /\ rcv_nxt = Plus(ring.head_seq, m)
  BY InvFacts
<1>3. /\ RingInv(new) /\ new.head_seq = Plus(ring.head_seq, n) /\ new.merged_len = m - n
      /\ RemoveAssert(ring, n)
  BY <1>1, <1>2, RemoveKeeps
<1>4. new \in Ring
  BY <1>3 DEF RingInv
<1>5. TypeOK /\ WindowInv /\ SegInv
  BY DEF IInv
<1> HIDE DEF new
<1>6. n \in Nat /\ n > 0 /\ n <= m /\ Size \in Nat /\ m - n \in Nat
  BY <1>1, <1>2, Room
<1>7. rcv_wnd = Size - m
  BY <1>1, <1>2, <1>5 DEF WindowInv
<1> HIDE DEF m
<1>8. rcv_wnd' = Size - (m - n) /\ rcv_wnd' \in 0..Size /\ rcv_wnd <= rcv_wnd'
      /\ rcv_wnd \in Int /\ rcv_wnd' \in Int
  BY <1>1, <1>2, <1>3, <1>6, <1>7
<1>9. TypeOK'
  BY <1>1, <1>3, <1>4, <1>5, <1>8 DEF TypeOK
<1>10. rcv_nxt' = Plus(ring'.head_seq, ring'.merged_len)
  <2>1. /\ n \in Int /\ m - n \in Int /\ -Modulus <= n /\ n < Modulus
        /\ -Modulus <= m - n /\ m - n < Modulus
        /\ -Modulus <= n + (m - n) /\ n + (m - n) < Modulus /\ n + (m - n) = m
    BY <1>2, <1>6, Room
  <2>2. Plus(Plus(ring.head_seq, n), m - n) = Plus(ring.head_seq, n + (m - n))
    BY <1>2, <2>1, PlusPlus
  <2> QED
    BY <1>1, <1>2, <1>3, <2>1, <2>2
<1>11. WindowInv'
  BY <1>1, <1>3, <1>8 DEF WindowInv
<1>12. SegInv'
  <2>1. ASSUME NEW s \in seg
        PROVE  \E from \in (-Size)..InitWnd :
                 /\ s \in [seq : {Plus(rcv_nxt, from)}, len : 1..Size]
                 /\ 0 <= from + s.len /\ from + s.len <= rcv_wnd'
    <3>1. PICK from \in (-Size)..InitWnd :
            /\ s \in [seq : {Plus(rcv_nxt, from)}, len : 1..Size]
            /\ 0 <= from + s.len /\ from + s.len <= rcv_wnd
      BY <1>5 DEF SegInv
    <3>2. s.len \in 1..Size
      BY <3>1
    <3>3. from + s.len <= rcv_wnd'
      BY <1>6, <1>8, <3>1, <3>2, Room
    <3> QED
      BY <3>1, <3>3
  <2>2. \A s, u \in seg : s = u
    BY <1>5 DEF SegInv
  <2> QED
    BY <1>1, <2>1, <2>2 DEF SegInv
<1>13. RingInv(ring)' /\ (err = "none")'
  BY <1>1, <1>3
<1> QED
  BY <1>9, <1>10, <1>11, <1>12, <1>13 DEF IInv

(* Every step keeps the invariant: one case per action. *)
LEMMA StepKeeps ==
    IInv /\ [Next]_vars => IInv'
<1> SUFFICES ASSUME IInv, [Next]_vars PROVE IInv'
  OBVIOUS
<1>1. ASSUME NEW s \in Segments, CheckPayload(s)
      PROVE  IInv'
  BY <1>1, CheckKeeps
<1>2. CASE PutPayload
  BY <1>2, PutPayloadKeeps
<1>3. ASSUME NEW n \in 1..Size, CopyToUser(n)
      PROVE  IInv'
  BY <1>3, CopyKeeps
<1>4. CASE Close
  BY <1>4 DEF Close, IInv, TypeOK, WindowInv, SegInv
<1>5. CASE UNCHANGED vars
  BY <1>5 DEF vars, IInv, TypeOK, WindowInv, SegInv
<1> QED
  BY <1>1, <1>2, <1>3, <1>4, <1>5 DEF Next
-----------------------------------------------------------------------------
(* The theorems. *)

(* The fragments lie in order with holes between them, merged_len is the length
   of the one at head_seq, rcv_nxt its end, and a segment between the window test
   and the lock keeps its place in the window. *)
THEOREM BufferInvariant == Spec => []IInv
BY InitInv, StepKeeps, PTL DEF Spec

(* Every variable of the receive buffer keeps its type: the offsets stay within
   data, and the window is not negative. *)
THEOREM BufferTyped == Spec => []TypeOK
<1>1. IInv => TypeOK
  BY DEF IInv
<1> QED
  BY <1>1, BufferInvariant, PTL

(* Neither assert of RBPut and RBRemove fails. *)
THEOREM AssertsOfRingHold == Spec => []NoAssertFails
<1>1. IInv => NoAssertFails
  BY DEF IInv, NoAssertFails
<1> QED
  BY <1>1, BufferInvariant, PTL

(* What RBPut moves to the front of data lies within data, and so does what can
   be read. *)
THEOREM MoveInBounds == Spec => []MemoryInBounds
<1>1. IInv => MemoryInBounds
  <2> SUFFICES ASSUME IInv PROVE MemoryInBounds
    OBVIOUS
  <2>1. RingInv(ring)
    BY DEF IInv
  <2> QED
    BY <2>1, RingTypes, MergedInData DEF MemoryInBounds
<1> QED
  BY <1>1, BufferInvariant, PTL

(* A segment that passed the window test without the lock still fits when it is
   put, whatever was read in between. *)
THEOREM AcceptedFits == Spec => []WindowFits
<1>1. IInv => WindowFits
  <2> SUFFICES ASSUME IInv, rcv_wnd <= Size, NEW s \in seg, Before(ring.head_seq, s.seq)
               PROVE  EndOff(ring, s) <= Size
    BY DEF WindowFits
  <2>1. PICK k \in Int :
          /\ s.seq = Plus(ring.head_seq, k) /\ s.len \in 1..Size
          /\ ring.merged_len - Size <= k /\ k + s.len <= ring.merged_len + rcv_wnd
          /\ -Size <= k /\ k <= Half
    BY SegPlace
  <2>2. ring.head_seq \in SeqNo /\ ring.merged_len \in Nat /\ rcv_wnd \in Nat
    BY InvFacts
  <2>3. WindowInv
    BY DEF IInv
  <2>4. ring.merged_len + rcv_wnd <= Size
    BY <2>2, <2>3, Room DEF WindowInv
  <2>5. -Modulus <= k /\ k < Modulus /\ k + Modulus > Half /\ s.len \in Nat
    BY <2>1, Room
  <2>6. Minus(s.seq, ring.head_seq) = IF k < 0 THEN k + Modulus ELSE k
    BY <2>1, <2>2, <2>5, MinusPlus
  <2>7. Minus(s.seq, ring.head_seq) <= Half
    BY DEF Before, Half
  <2>8. Minus(s.seq, ring.head_seq) = k
    BY <2>5, <2>6, <2>7, Room
  <2>9. k + s.len <= Size
    BY <2>1, <2>2, <2>4, <2>5, Room
  <2> QED
    BY <2>8, <2>9 DEF EndOff
<1> QED
  BY <1>1, BufferInvariant, PTL
-----------------------------------------------------------------------------
(* The receive buffer implements the reassembly. *)

(* Offset of a number that lies close to head_seq. *)
LEMMA OffsetNear ==
    ASSUME NEW h \in SeqNo, NEW k \in Int, -Size <= k, k <= Half
    PROVE  OffsetFrom(h, Plus(h, k)) = k
<1>1. -Modulus <= k /\ k < Modulus /\ k + Modulus > Half /\ Half \in Nat /\ Modulus \in Nat
  BY Room
<1>2. Minus(Plus(h, k), h) = IF k < 0 THEN k + Modulus ELSE k
  BY <1>1, MinusPlus
<1>3. Before(h, Plus(h, k)) <=> Minus(Plus(h, k), h) <= Half
  BY DEF Before, Half
<1>4. Before(h, Plus(h, k)) <=> k >= 0
  BY <1>1, <1>2, <1>3
<1> QED
  BY <1>1, <1>2, <1>4 DEF OffsetFrom

(* The offset of any number is at least 0 just when it does not lie before
   head_seq, and is then the difference. *)
LEMMA OffsetSign ==
    ASSUME NEW h \in SeqNo, NEW a \in SeqNo
    PROVE  /\ OffsetFrom(h, a) \in Int
           /\ OffsetFrom(h, a) >= 0 <=> Before(h, a)
           /\ Before(h, a) => OffsetFrom(h, a) = Minus(a, h)
<1>1. Minus(a, h) \in SeqNo
  BY MinusPlus
<1>2. Minus(a, h) \in Int /\ 0 <= Minus(a, h) /\ Minus(a, h) < Modulus /\ Modulus \in Nat
  BY <1>1, Room DEF SeqNo
<1> QED
  BY <1>2 DEF OffsetFrom

(* The bytes of the list, as a set of offsets. *)
LEMMA HeldMeans ==
    ASSUME NEW rb, RingInv(rb)
    PROVE  HeldIn(rb) = {b \in Nat : Has(rb.head_seq, rb.fctx, b)}
<1> DEFINE h == rb.head_seq
           l == rb.fctx
           bytes(i) == {OffsetFrom(h, l[i].seq) + k : k \in 0..(l[i].len - 1)}
<1>1. h \in SeqNo /\ Gapped(h, l)
  BY RingTypes
<1> HIDE DEF h, l
<1>2. ASSUME NEW i \in DOMAIN l
      PROVE  bytes(i) = {b \in Nat : Covers(h, l[i], b)}
  <2>1. InBuffer(h, l[i])
    BY <1>1 DEF Gapped
  <2>2. /\ l[i].seq = Plus(h, From(h, l[i])) /\ From(h, l[i]) \in Nat
        /\ End(h, l[i]) = From(h, l[i]) + l[i].len /\ End(h, l[i]) <= Size
        /\ l[i].len \in 1..Size
    BY <1>1, <2>1, Offsets
  <2>3. From(h, l[i]) \in Int /\ -Size <= From(h, l[i]) /\ From(h, l[i]) <= Half /\ l[i].len \in Nat
    BY <2>2, Room
  <2>4. OffsetFrom(h, l[i].seq) = From(h, l[i])
    BY <1>1, <2>2, <2>3, OffsetNear
  <2> DEFINE x == From(h, l[i])
             n == l[i].len
  <2>5. bytes(i) = {x + k : k \in 0..(n - 1)}
    BY <2>4
  <2>6. \A b : Covers(h, l[i], b) <=> x <= b /\ b < x + n
    BY <2>2 DEF Covers
  <2>7. x \in Nat /\ n \in Nat
    BY <2>2, <2>3
  <2> HIDE DEF x, n
  <2>8. {x + k : k \in 0..(n - 1)} = {b \in Nat : x <= b /\ b < x + n}
    <3>1. ASSUME NEW b \in Nat, x <= b, b < x + n
          PROVE  b \in {x + k : k \in 0..(n - 1)}
      <4>1. b - x \in 0..(n - 1) /\ x + (b - x) = b
        BY <2>7, <3>1
      <4> QED
        BY <4>1
    <3>2. \A k \in 0..(n - 1) : x + k \in Nat /\ x <= x + k /\ x + k < x + n
      BY <2>7
    <3> QED
      BY <3>1, <3>2
  <2> QED
    BY <2>5, <2>6, <2>8
<1>3. HeldIn(rb) = UNION {bytes(i) : i \in DOMAIN l}
  BY DEF HeldIn, h, l
<1> HIDE DEF bytes
<1>4. UNION {bytes(i) : i \in DOMAIN l} = {b \in Nat : Has(h, l, b)}
  BY <1>2 DEF Has
<1> QED
  BY <1>3, <1>4 DEF h, l

(* Every acknowledged byte was read or is in the buffer. *)
THEOREM NoHoleAcknowledged == Spec => []AckedIsHeld
<1>1. IInv => AckedIsHeld
  <2> SUFFICES ASSUME IInv PROVE AckedIsHeld
    OBVIOUS
  <2>1. /\ RingInv(ring) /\ ring.head_seq \in SeqNo /\ ring.merged_len \in Nat
        /\ ring.merged_len <= Size /\ rcv_nxt = Plus(ring.head_seq, ring.merged_len)
    BY InvFacts
  <2>2. ring.merged_len \in Int /\ -Size <= ring.merged_len /\ ring.merged_len <= Half
    BY <2>1, Room
  <2>3. Offset(rcv_nxt) = ring.merged_len
    BY <2>1, <2>2, OffsetNear DEF Offset
  <2>4. \A b \in Int : 0 <= b /\ b < ring.merged_len => Has(ring.head_seq, ring.fctx, b)
    BY <2>1, RingTypes, MergedMeans
  <2>5. \A b \in 0..(ring.merged_len - 1) : b \in Nat /\ Has(ring.head_seq, ring.fctx, b)
    BY <2>1, <2>4
  <2>6. Held = {b \in Nat : Has(ring.head_seq, ring.fctx, b)}
    BY <2>1, HeldMeans DEF Held
  <2> QED
    BY <2>3, <2>5, <2>6 DEF AckedIsHeld
<1> QED
  BY <1>1, BufferInvariant, PTL

(* The run of bytes from head_seq on is merged_len long. *)
LEMMA RunOfHeld ==
    ASSUME NEW rb, RingInv(rb)
    PROVE  Reassemble!Run(HeldIn(rb)) = rb.merged_len
<1> DEFINE H == HeldIn(rb)
           m == rb.merged_len
           Fits(n) == 0..(n - 1) \subseteq H /\ n \notin H
<1>1. /\ rb.head_seq \in SeqNo /\ Gapped(rb.head_seq, rb.fctx)
      /\ m = Merged(rb.head_seq, rb.fctx) /\ m \in Nat /\ m \in 0..Size
  BY RingTypes
<1>2. H = {b \in Nat : Has(rb.head_seq, rb.fctx, b)}
  BY HeldMeans
<1>3. /\ ~Has(rb.head_seq, rb.fctx, m)
      /\ \A b \in Int : 0 <= b /\ b < m => Has(rb.head_seq, rb.fctx, b)
  BY <1>1, MergedMeans
<1> HIDE DEF H, m
<1>4. Fits(m)
  <2>1. \A b \in 0..(m - 1) : b \in Int /\ 0 <= b /\ b < m /\ b \in Nat
    BY <1>1
  <2> QED
    BY <1>2, <1>3, <2>1
<1>5. ASSUME NEW n \in 0..Size, Fits(n)
      PROVE  n = m
  <2>1. n \in Nat
    OBVIOUS
  <2>2. n < m => FALSE
    <3>1. n < m => n \in 0..(m - 1)
      BY <1>1, <2>1
    <3> QED
      BY <1>4, <1>5, <3>1
  <2>3. m < n => FALSE
    <3>1. m < n => m \in 0..(n - 1)
      BY <1>1, <2>1
    <3> QED
      BY <1>4, <1>5, <3>1
  <2> QED
    BY <1>1, <2>1, <2>2, <2>3
<1>6. Reassemble!Run(H) = CHOOSE n \in 0..Size : Fits(n)
  BY DEF Reassemble!Run
<1> HIDE DEF Fits
<1>7. (CHOOSE n \in 0..Size : Fits(n)) = m
  BY <1>1, <1>4, <1>5
<1> QED
  BY <1>6, <1>7 DEF H, m

(* The bytes that remain when n are gone. *)
LEMMA BeyondMeans ==
    ASSUME NEW H, H \subseteq Nat, NEW n \in Nat
    PROVE  Reassemble!Beyond(H, n) = {b \in Nat : b + n \in H}
<1>1. ASSUME NEW b \in Nat, b + n \in H
      PROVE  b \in Reassemble!Beyond(H, n)
  <2>1. b + n \in {c \in H : c >= n} /\ (b + n) - n = b
    BY <1>1
  <2> QED
    BY <2>1 DEF Reassemble!Beyond
<1>2. ASSUME NEW b \in Reassemble!Beyond(H, n)
      PROVE  b \in Nat /\ b + n \in H
  <2>1. PICK c \in {d \in H : d >= n} : b = c - n
    BY DEF Reassemble!Beyond
  <2>2. c \in H /\ c \in Nat /\ c >= n
    BY <2>1
  <2>3. b \in Nat /\ b + n = c
    BY <2>1, <2>2
  <2> QED
    BY <2>2, <2>3
<1> QED
  BY <1>1, <1>2

(* A segment that comes. *)
LEMMA CheckArrives ==
    ASSUME IInv, NEW s \in Segments, CheckPayload(s)
    PROVE  Reassemble!Arrive
<1>1. seg = {} /\ seg' = {s} /\ ring' = ring
  BY DEF CheckPayload
<1>2. s \in Fragment
  <2>1. IInv'
    BY CheckKeeps
  <2> QED
    BY <1>1, <2>1 DEF IInv, TypeOK
<1>3. ring.head_seq \in SeqNo /\ s.seq \in SeqNo /\ s.len \in 1..Size
  BY <1>2, InvFacts DEF Fragment
<1> DEFINE c == [lo |-> OffsetFrom(ring.head_seq, s.seq), len |-> s.len]
<1>4. Coming = {} /\ Coming' = {c} /\ Held' = Held /\ ring'.merged_len = ring.merged_len
  BY <1>1 DEF Coming, Offset, Held
<1>5. c.lo \in Int /\ c.len \in 1..Size
  BY <1>3, OffsetSign
<1> HIDE DEF c
<1>6. \E d \in Coming' : Coming' = {d} /\ d.lo \in Int /\ d.len \in 1..Size
  BY <1>4, <1>5
<1> QED
  BY <1>4, <1>6 DEF Reassemble!Arrive

(* What a put adds. *)
LEMMA PutAdds ==
    ASSUME IInv, NEW s \in seg
    PROVE  Reassemble!With([lo |-> Offset(s.seq), len |-> s.len]) = HeldIn(RBPut(ring, s))
<1> DEFINE h == ring.head_seq
           put == RBPut(ring, s)
           lo == Offset(s.seq)
           len == s.len
           c == [lo |-> lo, len |-> len]
           stored == lo >= 0 /\ lo + len <= Size
<1>1. RingInv(ring) /\ h \in SeqNo /\ s \in Fragment
  BY InvFacts DEF IInv, TypeOK
<1>2. /\ RingInv(put) /\ put.head_seq = h
      /\ \A b \in Int : Has(h, put.fctx, b) <=>
           Has(h, ring.fctx, b) \/ (Accepted(ring, s) /\ Covers(h, s, b))
  BY <1>1, PutKeeps
<1>3. s.seq \in SeqNo /\ len \in Nat /\ len > 0
  BY <1>1, Room DEF Fragment
<1>4. /\ lo \in Int /\ (lo >= 0 <=> Before(h, s.seq))
      /\ Before(h, s.seq) => lo = From(h, s)
  BY <1>1, <1>3, OffsetSign DEF Offset, From
<1>5. EndOff(ring, s) = From(h, s) + len
  BY DEF EndOff, From
<1>6. Accepted(ring, s) <=> stored
  BY <1>4, <1>5 DEF Accepted
<1>7. stored => \A b \in Nat : Covers(h, s, b) <=> b \in lo..(lo + len - 1)
  <2> SUFFICES ASSUME stored, NEW b \in Nat
               PROVE  Covers(h, s, b) <=> b \in lo..(lo + len - 1)
    OBVIOUS
  <2>1. From(h, s) = lo /\ End(h, s) = lo + len
    BY <1>4 DEF End
  <2> HIDE DEF lo, len
  <2> QED
    BY <1>3, <1>4, <2>1 DEF Covers
<1>8. Held = {b \in Nat : Has(h, ring.fctx, b)}
  BY <1>1, HeldMeans DEF Held
<1>9. HeldIn(put) = {b \in Nat : Has(h, put.fctx, b)}
  BY <1>2, HeldMeans
<1>10. Reassemble!With(c) = IF stored THEN Held \cup lo..(lo + len - 1) ELSE Held
  BY DEF Reassemble!With
<1> HIDE DEF h, put, lo, len, c
<1>11. stored => lo..(lo + len - 1) \subseteq Nat
  BY <1>3, <1>4
<1> HIDE DEF stored
<1>12. Reassemble!With(c) = HeldIn(put)
  <2>1. CASE stored
    BY <1>2, <1>6, <1>7, <1>8, <1>9, <1>10, <1>11, <2>1
  <2>2. CASE ~stored
    BY <1>2, <1>6, <1>8, <1>9, <1>10, <2>2
  <2> QED
    BY <2>1, <2>2
<1> QED
  BY <1>12 DEF c, lo, len, put

(* A put, without and with the drop of FIN_WAIT. *)
LEMMA PutPuts ==
    ASSUME IInv, PutPayload
    PROVE  Reassemble!Put \/ Reassemble!PutAndDrop
<1>1. PICK s \in seg :
        /\ ring' = IF dropping THEN RBRemove(RBPut(ring, s), RBPut(ring, s).merged_len)
                   ELSE RBPut(ring, s)
        /\ seg' = {}
  BY DEF PutPayload
<1> DEFINE put == RBPut(ring, s)
           m == put.merged_len
           rest == RBRemove(put, m)
           c == [lo |-> Offset(s.seq), len |-> s.len]
<1>2. RingInv(ring) /\ s \in Fragment
  BY DEF IInv, TypeOK
<1>3. RingInv(put)
  BY <1>2, PutKeeps
<1>4. c \in Coming /\ Coming' = {}
  BY <1>1 DEF Coming
<1>5. Reassemble!With(c) = HeldIn(put)
  BY PutAdds
<1>6. ring' = IF dropping THEN rest ELSE put
  BY <1>1
<1> HIDE DEF put
<1>7. Reassemble!Run(HeldIn(put)) = m
  BY <1>3, RunOfHeld
<1>8. /\ RingInv(rest) /\ rest.merged_len = 0 /\ rest.head_seq = Plus(put.head_seq, m)
      /\ \A b \in Nat : Has(Plus(put.head_seq, m), rest.fctx, b) <=>
                           Has(put.head_seq, put.fctx, b + m)
  BY <1>3, DropKeeps
<1>9. HeldIn(rest) = Reassemble!Beyond(HeldIn(put), m)
  <2>1. HeldIn(put) = {b \in Nat : Has(put.head_seq, put.fctx, b)}
    BY <1>3, HeldMeans
  <2>2. HeldIn(rest) = {b \in Nat : Has(put.head_seq, put.fctx, b + m)}
    BY <1>8, HeldMeans
  <2>3. m \in Nat
    BY <1>3, RingTypes
  <2> DEFINE H == HeldIn(put)
  <2>4. H \subseteq Nat
    BY <2>1
  <2>5. Reassemble!Beyond(H, m) = {b \in Nat : b + m \in H}
    BY <2>3, <2>4, BeyondMeans
  <2>6. \A b \in Nat : b + m \in H <=> Has(put.head_seq, put.fctx, b + m)
    BY <2>1, <2>3
  <2> HIDE DEF H, m, rest
  <2> QED
    BY <2>2, <2>5, <2>6 DEF H
<1>10. Held' = HeldIn(ring')
  BY DEF Held
<1> HIDE DEF m, rest, c
<1>11. CASE dropping
  <2>1. ring' = rest
    BY <1>6, <1>11
  <2>2. /\ Held' = Reassemble!Beyond(Reassemble!With(c), Reassemble!Run(Reassemble!With(c)))
        /\ ring'.merged_len = 0
    BY <1>5, <1>7, <1>8, <1>9, <1>10, <2>1
  <2> QED
    BY <1>4, <2>2 DEF Reassemble!PutAndDrop
<1>12. CASE ~dropping
  <2>1. ring' = put
    BY <1>6, <1>12
  <2>2. Held' = Reassemble!With(c) /\ ring'.merged_len = Reassemble!Run(Held')
    BY <1>5, <1>7, <1>10, <2>1 DEF m
  <2> QED
    BY <1>4, <2>2 DEF Reassemble!Put
<1> QED
  BY <1>11, <1>12

(* A read takes bytes, and what waits for the lock comes nearer. *)
LEMMA CopyTakes ==
    ASSUME IInv, NEW n \in 1..Size, CopyToUser(n)
    PROVE  Reassemble!Take(n)
<1> DEFINE new == RBRemove(ring, n)
           h == ring.head_seq
           m == ring.merged_len
<1>1. n \in 1..m /\ ring' = new /\ seg' = seg
  BY DEF CopyToUser
<1>2. RingInv(ring) /\ h \in SeqNo /\ m \in Nat /\ m <= Size
  BY InvFacts
<1>3. /\ RingInv(new) /\ new.head_seq = Plus(h, n) /\ new.merged_len = m - n
      /\ \A b \in Nat : Has(Plus(h, n), new.fctx, b) <=> Has(h, ring.fctx, b + n)
  BY <1>1, <1>2, RemoveKeeps
<1>4. n \in Nat /\ n > 0 /\ n <= m
  BY <1>1, <1>2
<1>5. Held' = Reassemble!Beyond(Held, n)
  <2>1. Held = {b \in Nat : Has(h, ring.fctx, b)}
    BY <1>2, HeldMeans DEF Held
  <2>2. HeldIn(new) = {b \in Nat : Has(h, ring.fctx, b + n)}
    <3> HIDE DEF new
    <3> QED
      BY <1>3, HeldMeans
  <2>3. Held' = HeldIn(new)
    BY <1>1 DEF Held
  <2> DEFINE H == Held
  <2>4. H \subseteq Nat
    BY <2>1
  <2>5. Reassemble!Beyond(H, n) = {b \in Nat : b + n \in H}
    BY <1>4, <2>4, BeyondMeans
  <2>6. \A b \in Nat : b + n \in H <=> Has(h, ring.fctx, b + n)
    BY <1>4, <2>1
  <2> HIDE DEF H, new, h
  <2> QED
    BY <2>2, <2>3, <2>5, <2>6 DEF H
<1>6. ASSUME NEW s \in seg
      PROVE  OffsetFrom(Plus(h, n), s.seq) = OffsetFrom(h, s.seq) - n
  <2>1. PICK k \in Int :
          /\ s.seq = Plus(h, k) /\ s.len \in 1..Size
          /\ m - Size <= k /\ k + s.len <= m + rcv_wnd
          /\ -Size <= k /\ k <= Half
    BY SegPlace
  <2> HIDE DEF h, m, new
  <2>2. /\ n \in Int /\ -Modulus <= n /\ n < Modulus
        /\ k - n \in Int /\ -Modulus <= k - n /\ k - n < Modulus
        /\ n + (k - n) = k /\ -Modulus <= k /\ k < Modulus
        /\ -Size <= k - n /\ k - n <= Half
    BY <1>2, <1>4, <2>1, Room
  <2>3. Plus(Plus(h, n), k - n) = Plus(h, k)
    <3>1. -Modulus <= n + (k - n) /\ n + (k - n) < Modulus
      BY <2>2
    <3>2. Plus(Plus(h, n), k - n) = Plus(h, n + (k - n))
      BY <1>2, <2>2, <3>1, PlusPlus
    <3> QED
      BY <2>2, <3>2
  <2>4. Plus(h, n) \in SeqNo
    BY <1>2, <2>2, PlusTyped
  <2>5. OffsetFrom(Plus(h, n), Plus(Plus(h, n), k - n)) = k - n
    BY <2>2, <2>4, OffsetNear
  <2>6. OffsetFrom(h, Plus(h, k)) = k
    BY <1>2, <2>1, OffsetNear
  <2> QED
    BY <2>1, <2>3, <2>5, <2>6
<1>7. Coming' = {[c EXCEPT !.lo = @ - n] : c \in Coming}
  <2> HIDE DEF m
  <2> DEFINE old(s) == [lo |-> OffsetFrom(h, s.seq), len |-> s.len]
             near(s) == [lo |-> OffsetFrom(Plus(h, n), s.seq), len |-> s.len]
             step(c) == [c EXCEPT !.lo = @ - n]
  <2>1. Coming' = {near(s) : s \in seg}
    BY <1>1, <1>3 DEF Coming, Offset
  <2>2. Coming = {old(s) : s \in seg}
    BY DEF Coming, Offset
  <2>3. ASSUME NEW s \in seg
        PROVE  step(old(s)) = near(s)
    BY <1>6
  <2>4. {step(c) : c \in {old(s) : s \in seg}} = {near(s) : s \in seg}
    <3> HIDE DEF old, near, step
    <3>1. ASSUME NEW y \in {step(c) : c \in {old(s) : s \in seg}}
          PROVE  y \in {near(s) : s \in seg}
      BY <2>3
    <3>2. ASSUME NEW y \in {near(s) : s \in seg}
          PROVE  y \in {step(c) : c \in {old(s) : s \in seg}}
      <4>1. PICK s \in seg : y = near(s)
        OBVIOUS
      <4>2. old(s) \in {old(r) : r \in seg} /\ y = step(old(s))
        BY <2>3, <4>1
      <4> QED
        BY <4>2
    <3> QED
      BY <3>1, <3>2
  <2>5. Coming' = {step(c) : c \in Coming}
    <3> HIDE DEF old, near, step
    <3> QED
      BY <2>1, <2>2, <2>4
  <2> QED
    BY <2>5
<1>8. n <= ring.merged_len /\ ring'.merged_len = ring.merged_len - n
  BY <1>1, <1>3, <1>4
<1> QED
  BY <1>5, <1>7, <1>8 DEF Reassemble!Take

(* However segments overlap, repeat and overtake each other, and wherever the
   sequence numbers wrap, the ring holds the bytes that came and offers those
   before the first hole: it is a reassembly. *)
THEOREM BufferReassembles == Spec => ImplementsReassembly
<1>1. Init => Reassemble!Init
  <2> SUFFICES ASSUME Init PROVE Reassemble!Init
    OBVIOUS
  <2>1. ring = RBInit(0) /\ seg = {}
    BY DEF Init
  <2>2. ring.fctx = <<>> /\ ring.merged_len = 0 /\ DOMAIN ring.fctx = {}
    BY <2>1 DEF RBInit
  <2>3. Held = {}
    BY <2>2 DEF Held, HeldIn
  <2> QED
    BY <2>1, <2>2, <2>3 DEF Reassemble!Init, Coming
<1>2. IInv /\ [Next]_vars => [Reassemble!Next]_<<Coming, Held, ring.merged_len>>
  <2> SUFFICES ASSUME IInv, [Next]_vars
               PROVE  [Reassemble!Next]_<<Coming, Held, ring.merged_len>>
    OBVIOUS
  <2>1. ASSUME NEW s \in Segments, CheckPayload(s)
        PROVE  Reassemble!Next
    BY <2>1, CheckArrives DEF Reassemble!Next
  <2>2. CASE PutPayload
    BY <2>2, PutPuts DEF Reassemble!Next
  <2>3. ASSUME NEW n \in 1..Size, CopyToUser(n)
        PROVE  Reassemble!Next
    BY <2>3, CopyTakes DEF Reassemble!Next
  <2>4. CASE Close
    BY <2>4 DEF Close, Coming, Offset, Held
  <2>5. CASE UNCHANGED vars
    BY <2>5 DEF vars, Coming, Offset, Held
  <2> QED
    BY <2>1, <2>2, <2>3, <2>4, <2>5 DEF Next
<1> QED
  BY <1>1, <1>2, BufferInvariant, PTL DEF Spec, ImplementsReassembly, Reassemble!Spec
=============================================================================
