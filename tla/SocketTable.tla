----------------------------- MODULE SocketTable -----------------------------
(***************************************************************************)
(* An application that opens and closes sockets in any order: socket() and *)
(* close() of user_api.c on the table of SocketIds.                        *)
(***************************************************************************)
EXTENDS SocketIds, FiniteSets

VARIABLES table,  \* tcp->fdtable
          held,   \* how many open sockets the application knows by each id
          err     \* "none", or how the program died

vars == <<table, held, err>>

SOCKET == [socktype |-> "stream"]

Init == /\ table = InitTable
        /\ held = [id \in Ids |-> 0]
        /\ err = "none"

\* socket(): ENFILE when the search finds nothing.
Socket ==
    LET id == FindId(table.open_fds, table.cur_idx) IN
    /\ err = "none"
    /\ id # -1
    /\ table' = Allocate(table, id, SOCKET)
    /\ held' = [held EXCEPT ![id] = @ + 1]
    /\ UNCHANGED err

\* close(): reads socktype of the entry before anything else.
Close(id) ==
    /\ err = "none"
    /\ held[id] > 0
    /\ IF table.sockfds[id] = NOFD
       THEN err' = "null_socket" /\ UNCHANGED <<table, held>>
       ELSE /\ table' = Free(table, id)
            /\ held' = [held EXCEPT ![id] = @ - 1]
            /\ UNCHANGED err

Next == Socket \/ \E id \in Ids : Close(id)

Spec == Init /\ [][Next]_vars
-----------------------------------------------------------------------------
TypeOK ==
    /\ table.open_fds \in [0..(MaxFds - 1) -> 0..255]
    /\ table.cur_idx \in 0..(MaxFds - 1)
    /\ held \in [Ids -> Nat]
    /\ err \in {"none", "null_socket"}

(* An id names one open socket: socket() never hands out an id whose socket the
   application has not closed. *)
IdsUnique == \A id \in Ids : held[id] <= 1
=============================================================================
