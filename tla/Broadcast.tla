------------------------------ MODULE Broadcast ------------------------------
(***************************************************************************)
(* What the chat room promises about lines, without packets, descriptors or *)
(* roster: nobody hears a line that was not spoken, its own lines, a line    *)
(* twice, or the lines of one speaker out of order.  Lines may get lost.     *)
(***************************************************************************)
EXTENDS Naturals, Sequences

CONSTANTS Proc

VARIABLES
    spoken,     \* spoken[p]: the number of p's last line
    heard       \* heard[r]: the lines that were shown to r, as <<speaker, number>>

vars == <<spoken, heard>>

Init ==
    /\ spoken = [p \in Proc |-> 0]
    /\ heard = [r \in Proc |-> <<>>]

Speak(p) ==
    /\ spoken' = [spoken EXCEPT ![p] = @ + 1]
    /\ UNCHANGED heard

Hear(r, p, n) ==
    /\ r # p
    /\ n \in 1..spoken[p]
    /\ \A k \in 1..Len(heard[r]) : heard[r][k][1] = p => heard[r][k][2] < n
    /\ heard' = [heard EXCEPT ![r] = Append(@, <<p, n>>)]
    /\ UNCHANGED spoken

Next ==
    \/ \E p \in Proc : Speak(p)
    \/ \E r, p \in Proc : \E n \in 1..spoken[p] : Hear(r, p, n)

Spec == Init /\ [][Next]_vars
=============================================================================
