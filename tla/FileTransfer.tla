---------------------------- MODULE FileTransfer ----------------------------
(***************************************************************************)
(* What the TFTP server promises, without datagrams, sockets or descriptors: *)
(* each client collects the blocks of the file it asked for, in order and    *)
(* each once, and is done with the last of them, which is the one that is    *)
(* not full.  The promise ends when trust does.                              *)
(***************************************************************************)
EXTENDS Naturals, Sequences

CONSTANTS
    Peer, File, wants, blocks,
    lastFull    \* lastFull[f]: the last block of f is full, and never recognised

VARIABLES
    got,        \* got[c]: the blocks c has collected
    done,       \* the clients that have their file
    trusted

vars == <<got, done, trusted>>

Init ==
    /\ got = [c \in Peer |-> <<>>]
    /\ done = {}
    /\ trusted = TRUE

Collect(c) ==
    /\ trusted
    /\ LET n == Len(got[c]) + 1
           f == wants[c]
       IN  /\ n <= blocks[f]
           /\ got' = [got EXCEPT ![c] = Append(@, <<f, n>>)]
           /\ done' = IF n = blocks[f] /\ ~lastFull[f] THEN done \cup {c} ELSE done
    /\ UNCHANGED trusted

Distrust ==
    /\ trusted' = FALSE
    /\ trusted => UNCHANGED <<got, done>>

Next == (\E c \in Peer : Collect(c)) \/ Distrust

Spec == Init /\ [][Next]_vars
=============================================================================
