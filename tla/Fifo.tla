-------------------------------- MODULE Fifo --------------------------------
(***************************************************************************)
(* What a stream queue promises to its two ends: a bounded first-in        *)
(* first-out queue.  Put is the moment an enqueue takes effect, Take the   *)
(* moment a dequeue does; out is the element the last Take handed over.    *)
(***************************************************************************)
EXTENDS Naturals, Sequences

CONSTANTS Elem, NoElem, Bound

VARIABLES items, out

Init == items = <<>> /\ out = NoElem

Put(e) == /\ Len(items) < Bound
          /\ items' = Append(items, e)
          /\ UNCHANGED out

Take == /\ items # <<>>
        /\ out' = Head(items)
        /\ items' = Tail(items)

Next == Take \/ \E e \in Elem : Put(e)

Spec == Init /\ [][Next]_<<items, out>>
=============================================================================
