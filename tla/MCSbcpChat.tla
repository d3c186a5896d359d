----------------------------- MODULE MCSbcpChat -----------------------------
(* Small chat rooms: three runs of the client, two of them by one user name, *)
(* or two runs of the client by two users.                                   *)
EXTENDS SbcpChat, TLC

CONSTANTS p1, p2, p3, anna, elsa

MCProc      == {p1, p2, p3}
MCName      == {anna, elsa}
MCUsername  == p1 :> anna @@ p2 :> elsa @@ p3 :> anna
TwoLines    == p1 :> 2 @@ p2 :> 0 @@ p3 :> 0
LastLine    == p1 :> 0 @@ p2 :> 0 @@ p3 :> 1

MCPair      == {p1, p2}
PairNames   == p1 :> anna @@ p2 :> elsa
PairLines   == p1 :> 1 @@ p2 :> 1
Typist      == p1 :> 2 @@ p2 :> 0
=============================================================================
