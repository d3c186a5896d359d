------------------------------ MODULE Admission ------------------------------
(***************************************************************************)
(* What the chat server promises about JOIN, without sockets, roster or     *)
(* messages: each run of the client program is answered at most once; it is *)
(* admitted only while there is room and nobody admitted has its name, and  *)
(* is refused only for one of these two reasons.  An admission is for good. *)
(***************************************************************************)
EXTENDS Naturals, FiniteSets

CONSTANTS Proc, username, max_clients

VARIABLES admitted, refused

vars == <<admitted, refused>>

(* Answers are given to runs of the client program.                         *)
TypeOK == admitted \subseteq Proc /\ refused \subseteq Proc

Init == admitted = {} /\ refused = {}

Unanswered(p) == p \notin admitted \cup refused
NameUsed(p)   == \E q \in admitted : username[q] = username[p]
Full          == Cardinality(admitted) >= max_clients

Admit(p) ==
    /\ Unanswered(p) /\ ~NameUsed(p) /\ ~Full
    /\ admitted' = admitted \cup {p}
    /\ UNCHANGED refused

Refuse(p) ==
    /\ Unanswered(p) /\ (NameUsed(p) \/ Full)
    /\ refused' = refused \cup {p}
    /\ UNCHANGED admitted

Next == \E p \in Proc : Admit(p) \/ Refuse(p)

Spec == Init /\ [][Next]_vars
=============================================================================
