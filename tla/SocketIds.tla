------------------------------ MODULE SocketIds ------------------------------
(***************************************************************************)
(* The table of sockets (user_socket.c): a bitmap open_fds of the ids in   *)
(* use, the byte cur_idx at which the next search starts, and the sockets  *)
(* themselves.  Every operation is under the table's spin lock and so an   *)
(* operator on the table as a whole.                                       *)
(***************************************************************************)
EXTENDS Integers

CONSTANTS MaxFds,  \* bytes of open_fds, max_fds of the table
          NOFD     \* a NULL entry of sockfds

ASSUME MaxFdsAssumption == MaxFds \in Nat \ {0}

BitsPerByte == 8
Ids == 0..(BitsPerByte * MaxFds - 1)

InitTable == [open_fds |-> [i \in 0..(MaxFds - 1) |-> 0],
              cur_idx |-> 0,
              sockfds |-> [id \in Ids |-> NOFD]]

\* Two to the power of j.
Pow2(j) == 2^j
InUse(byte, j) == (byte \div Pow2(j)) % 2 = 1

\* "char byte = fds[i]": the bitmap is unsigned, the variable is not.
Signed(byte) == IF byte < 128 THEN byte ELSE byte - 256
\* "byte /= 2" rounds towards zero.
Halve(byte) == IF byte < 0 THEN -((-byte) \div 2) ELSE byte \div 2

(* The loop that counts how often byte can be halved before it is even. *)
CountOdd(byte) ==
    LET halved[k \in 0..BitsPerByte] ==
            IF k = 0 THEN Signed(byte) ELSE Halve(halved[k - 1])
    IN  CHOOSE j \in 0..BitsPerByte :
            /\ halved[j] % 2 = 0
            /\ \A k \in 0..(j - 1) : halved[k] % 2 = 1

\* -1 when every byte from start on is full; the search does not wrap.
FindId(fds, start) ==
    LET room == {i \in start..(MaxFds - 1) : fds[i] # 255}
        first == CHOOSE i \in room : \A k \in room : i <= k
    IN  IF room = {} THEN -1 ELSE first * BitsPerByte + CountOdd(fds[first])

SetStart(id) == id \div BitsPerByte

UseId(fds, id) ==
    LET j == id % BitsPerByte IN
    [fds EXCEPT ![SetStart(id)] = IF InUse(@, j) THEN @ ELSE @ + Pow2(j)]

UnuseId(fds, id) ==
    LET j == id % BitsPerByte IN
    [fds EXCEPT ![SetStart(id)] = IF InUse(@, j) THEN @ - Pow2(j) ELSE @]

\* user_socket_allocate once it has found an id.
Allocate(table, id, s) ==
    [open_fds |-> UseId(table.open_fds, id),
     cur_idx |-> SetStart(id),
     sockfds |-> [table.sockfds EXCEPT ![id] = s]]

\* user_socket_free
MutFree(table, id) ==  \* the bit stays set
    [table EXCEPT !.cur_idx = SetStart(id), !.sockfds = [@ EXCEPT ![id] = NOFD]]
Free(table, id) ==
    [open_fds |-> UnuseId(table.open_fds, id),
     cur_idx |-> SetStart(id),
     sockfds |-> [table.sockfds EXCEPT ![id] = NOFD]]
=============================================================================
