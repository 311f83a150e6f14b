----------------------------- MODULE Reassembly -----------------------------
(***************************************************************************)
(* What a receive buffer promises: it takes the bytes of a stream in any    *)
(* order, within Size bytes of the first one not yet read, and gives the    *)
(* reader every byte before the first hole.  Offsets count from the first   *)
(* byte not yet read.                                                       *)
(***************************************************************************)
EXTENDS Integers

CONSTANT Size

VARIABLES coming,   \* the segment that came and was not yet put: {} or {[lo, len]}
          bytes,    \* the offsets of the bytes held
          readable  \* how many of them the reader may take

\* the length of the run of bytes that starts at offset 0
Run(held) == CHOOSE n \in 0..Size : 0..(n - 1) \subseteq held /\ n \notin held

Beyond(held, n) == {b - n : b \in {c \in held : c >= n}}

Init == coming = {} /\ bytes = {} /\ readable = 0

Arrive ==
    /\ coming = {}
    /\ \E c \in coming' : coming' = {c} /\ c.lo \in Int /\ c.len \in 1..Size
    /\ UNCHANGED <<bytes, readable>>

\* A segment that does not fit is ignored.
With(c) == IF c.lo >= 0 /\ c.lo + c.len <= Size
           THEN bytes \cup c.lo..(c.lo + c.len - 1) ELSE bytes

Put ==
    \E c \in coming :
        /\ coming' = {}
        /\ bytes' = With(c)
        /\ readable' = Run(bytes')

\* when nobody will read, the run is dropped at once
PutAndDrop ==
    \E c \in coming :
        /\ coming' = {}
        /\ bytes' = Beyond(With(c), Run(With(c)))
        /\ readable' = 0

Take(n) ==
    /\ n <= readable
    /\ coming' = {[c EXCEPT !.lo = @ - n] : c \in coming}
    /\ bytes' = Beyond(bytes, n)
    /\ readable' = readable - n

Next == Arrive \/ Put \/ PutAndDrop \/ \E n \in 1..Size : Take(n)

Spec == Init /\ [][Next]_<<coming, bytes, readable>>
=============================================================================
