-------------------------------- MODULE Web --------------------------------
(***************************************************************************)
(* What the HTTP proxy promises, without sockets, lists or descriptors:      *)
(* whoever is answered is answered once, with a response that a remote server *)
(* has sent to its end, for the page that was asked for up to the case of    *)
(* letters; and a response that had been kept has not expired.               *)
(***************************************************************************)
EXTENDS Integers, FiniteSets

CONSTANTS Page, User, Response, wants, key, Never, NoReply

VARIABLES
    known,      \* the responses received and not forgotten
    now,
    reply       \* reply[u]: the response u was sent, when, and whether it had been kept

vars == <<known, now, reply>>

Init ==
    /\ known = {}
    /\ now = 0
    /\ reply = [u \in User |-> NoReply]

Learn ==
    /\ known \subseteq known' /\ known' \subseteq Response
    /\ Cardinality(known') <= Cardinality(known) + 1
    /\ UNCHANGED <<now, reply>>

Forget ==
    /\ known' \subseteq known
    /\ UNCHANGED <<now, reply>>

Fresh(r) == r.expires = Never \/ now <= r.expires

Answer(u, r, kept) ==
    /\ reply[u] = NoReply
    /\ key[r.page] = key[wants[u]]
    /\ kept => Fresh(r)
    /\ reply' = [reply EXCEPT ![u] = [response |-> r, at |-> now, hit |-> kept]]
    /\ known' \subseteq known
    /\ UNCHANGED now

Tick ==
    /\ now' = now + 1
    /\ UNCHANGED <<known, reply>>

Next ==
    \/ Learn \/ Forget \/ Tick
    \/ \E u \in User, r \in known, kept \in BOOLEAN : Answer(u, r, kept)

Spec == Init /\ [][Next]_vars
=============================================================================
