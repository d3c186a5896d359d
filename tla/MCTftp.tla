------------------------------- MODULE MCTftp -------------------------------
(* Small sets of clients and files: two transfers at a time, one of a file    *)
(* that uses every block number once; a transfer beside requests that fail;   *)
(* a single transfer.                                                         *)
EXTENDS Tftp, TLC

CONSTANTS c1, c2, c3, c4, long, short, large, missing, empty

Files      == {long, short, large, missing, empty}
Kinds      == [f \in Files |-> IF f = large THEN "large"
                               ELSE IF f = missing THEN "missing" ELSE "regular"]
Sizes      == long :> BLOCK_MOD @@ short :> 1 @@ large :> 3 @@ missing :> 0 @@ empty :> 0
NoneFull   == [f \in Files |-> FALSE]
AllFull    == [f \in Files |-> TRUE]

TwoPeers   == {c1, c2}
WantBoth   == c1 :> long @@ c2 :> short

FourPeers  == {c1, c2, c3, c4}
WantEach   == c1 :> long @@ c2 :> large @@ c3 :> missing @@ c4 :> empty

OnePeer    == {c1}
WantLong   == c1 :> long
WantShort  == c1 :> short
=============================================================================
