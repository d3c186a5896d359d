------------------------------- MODULE MCHttp -------------------------------
(* A small proxy: three users, two of them after one page that they spell      *)
(* differently, and one whose request may arrive in any of the ways of a TCP    *)
(* stream.                                                                      *)
EXTENDS Http, TLC

CONSTANTS u1, u2, u3, home, about, HOME

TwoUsers == {u1, u3}
Users    == {u1, u2, u3}
Pages    == {home, HOME, about}
Keys     == home :> home @@ HOME :> home @@ about :> about
Wants    == [u \in User |-> CASE u = u1 -> home [] u = u2 -> HOME [] u = u3 -> about]
Cuts     == [u \in User |-> IF u = u3 THEN Chunking ELSE {<<"GET">>}]
Lifetime == home :> 0 @@ HOME :> 0 @@ about :> Never
Endings  == home :> {"whole"} @@ HOME :> {"whole"} @@ about :> {"whole", "cut"}
=============================================================================
