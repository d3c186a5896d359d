------------------------------ MODULE TftpNet ------------------------------
(***************************************************************************)
(* The datagrams between the TFTP server and the TFTP clients.  The network *)
(* may lose, duplicate, delay and reorder them, and both sides resend:      *)
(* "msgs" is the set of datagrams ever sent, and whoever they are addressed *)
(* to may receive any of them, any number of times, or never.               *)
(*                                                                         *)
(* The clients are not part of the repository; they are modelled after what *)
(* server.c expects of the other end: RRQ, then an ACK per DATA.            *)
(***************************************************************************)
EXTENDS Integers, Sequences, FiniteSets

CONSTANTS
    Peer,       \* the runs of a TFTP client, each with an address of its own
    NoPeer,     \* their_addr before any datagram was received
    File,       \* the names that are requested
    wants,      \* wants[c]: the file that c requests
    kind,       \* kind[f]: "regular", "large" (over MAX_FILE_SIZE) or "missing"
    blocks,     \* blocks[f]: the number of 512-byte blocks f fills, the last perhaps in part
    lastFull,   \* lastFull[f]: its last block has exactly 512 bytes
    BLOCK_MOD,  \* block numbers are unsigned short: 65536 in the code
    NFd,        \* descriptors the server may have open beside the listening one
    NPort,      \* sockets the server opens in a behaviour (bound)
    MaxRetx,    \* blocks it retransmits in a behaviour (bound)
    MaxGot      \* blocks a client accepts (bound)

ASSUME TftpAssumption ==
    /\ NoPeer \notin Peer
    /\ wants \in [Peer -> File]
    /\ kind \in [File -> {"regular", "large", "missing"}]
    /\ blocks \in [File -> Nat]
    /\ lastFull \in [File -> BOOLEAN]
    /\ BLOCK_MOD \in Nat /\ BLOCK_MOD > 1
    /\ NFd \in Nat \ {0}
    /\ NPort \in Nat
    /\ MaxRetx \in Nat
    /\ MaxGot \in Nat

VARIABLES
    msgs,       \* every datagram sent so far
    cst,        \* cst[c]: "idle", "wait", "done" (saw a short block) or "error"
    tid,        \* tid[c]: the server port c is locked to; 0 before the first DATA
    got         \* got[c]: the blocks c has accepted, in order

peerVars == <<cst, tid, got>>

Port     == 1..NPort
BlockNum == 0..(BLOCK_MOD - 1)

(* What read() puts in a packet: block b of file f; b > blocks[f] stands for *)
(* no bytes at all.                                                         *)
Block == File \X (Nat \ {0})
Short(b) == b[2] > blocks[b[1]] \/ (b[2] = blocks[b[1]] /\ ~lastFull[b[1]])

Rrq(c)           == [type |-> "RRQ", from |-> c]
Ack(c, t, n)     == [type |-> "ACK", from |-> c, port |-> t, num |-> n]
Stray(c, t)      == [type |-> "ERR", from |-> c, port |-> t]
Data(t, c, n, b) == [type |-> "DATA", port |-> t, to |-> c, num |-> n, block |-> b]
TooLarge(t, c)   == [type |-> "ERROR", port |-> t, to |-> c]

Msg == [type : {"RRQ"}, from : Peer]
         \cup [type : {"ACK"}, from : Peer, port : Port, num : BlockNum]
         \cup [type : {"ERR"}, from : Peer, port : Port]
         \cup [type : {"DATA"}, port : Port, to : Peer, num : BlockNum, block : Block]
         \cup [type : {"ERROR"}, port : Port, to : Peer]

PeerInit ==
    /\ msgs = {}
    /\ cst = [c \in Peer |-> "idle"]
    /\ tid = [c \in Peer |-> 0]
    /\ got = [c \in Peer |-> <<>>]

PeerTypeOK ==
    /\ \A m \in msgs : m \in Msg
    /\ cst \in [Peer -> {"idle", "wait", "done", "error"}]
    /\ tid \in [Peer -> Port \cup {0}]
    /\ got \in [Peer -> Seq(Block)]

-----------------------------------------------------------------------------
Request(c) ==
    /\ cst[c] = "idle"
    /\ cst' = [cst EXCEPT ![c] = "wait"]
    /\ msgs' = msgs \cup {Rrq(c)}
    /\ UNCHANGED <<tid, got>>

Expected(c) == (Len(got[c]) + 1) % BLOCK_MOD

(* The block c waits for, from the port it is locked to (from any, first):   *)
(* it is kept and acknowledged, and a short one ends the transfer.           *)
Accept(c, m) ==
    /\ m.type = "DATA" /\ m.to = c
    /\ cst[c] = "wait" /\ Len(got[c]) < MaxGot
    /\ tid[c] \in {0, m.port} /\ m.num = Expected(c)
    /\ tid' = [tid EXCEPT ![c] = m.port]
    /\ got' = [got EXCEPT ![c] = Append(@, m.block)]
    /\ msgs' = msgs \cup {Ack(c, m.port, m.num)}
    /\ cst' = [cst EXCEPT ![c] = IF Short(m.block) THEN "done" ELSE @]

(* DATA from another port: the sender is told, the transfer is not touched.  *)
WrongPort(c, m) ==
    /\ m.type = "DATA" /\ m.to = c
    /\ tid[c] \notin {0, m.port}
    /\ msgs' = msgs \cup {Stray(c, m.port)}
    /\ UNCHANGED peerVars

GiveUp(c, m) ==
    /\ m.type = "ERROR" /\ m.to = c
    /\ cst[c] = "wait" /\ tid[c] \in {0, m.port}
    /\ cst' = [cst EXCEPT ![c] = "error"]
    /\ UNCHANGED <<msgs, tid, got>>

PeerStep(c) ==
    \/ Request(c)
    \/ \E m \in msgs : Accept(c, m) \/ WrongPort(c, m) \/ GiveUp(c, m)
=============================================================================
