-------------------------------- MODULE Nodes --------------------------------
(***************************************************************************)
(* The linked lists of src/TFTP/list.c, src/HTTP/list.c and src/HTTP/cache.c *)
(* take new nodes at the front.  A list is the set of its nodes, each with   *)
(* an "id" greater than those of the nodes behind it.                        *)
(***************************************************************************)
EXTENDS Integers

(* The node in front of all others.                                          *)
First(list) == CHOOSE n \in list : \A m \in list : m.id <= n.id

(* The id of a node put in front.                                            *)
FrontId(list) == IF list = {} THEN 1 ELSE First(list).id + 1

Behind(list, n) == {m \in list : m.id < n.id}

(* The list with m in place of its node n.                                   *)
Replace(list, n, m) == {IF k = n THEN m ELSE k : k \in list}
=============================================================================
