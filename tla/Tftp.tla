-------------------------------- MODULE Tftp --------------------------------
(* The TFTP server and its clients, over a network that loses, duplicates and *)
(* reorders.                                                                  *)
EXTENDS TftpServer

vars == <<msgs, peerVars, serverVars>>

Init == PeerInit /\ ServerInit

HandleRrq(c) == RrqTooLarge(c) \/ RrqNoFile(c) \/ RrqEmpty(c) \/ RrqData(c)
Handle(i, m) == AckMore(i, m) \/ AckLast(i, m) \/ AckStuck(i, m) \/ Ignored(i, m)

ServerStep ==
    /\ \/ \E c \in Peer : HandleRrq(c)
       \/ \E i \in Fd, m \in msgs : Handle(i, m)
       \/ \E i \in Fd : RecvFails(i)
       \/ Timeout \/ NotYet \/ Retransmit
    /\ UNCHANGED peerVars

Next ==
    \/ ServerStep
    \/ \E c \in Peer : PeerStep(c) /\ UNCHANGED serverVars

Spec == Init /\ [][Next]_vars

(* An ACK that makes the server send a block for the first time, or end a      *)
(* transfer.                                                                  *)
HandleNew ==
    /\ \E i \in Fd, m \in msgs : Handle(i, m)
    /\ msgs' # msgs \/ finished' # finished

(* No datagram is lost for ever: such an ACK, which could be handled again and *)
(* again between the passes after timeouts, is, and these passes end; a client *)
(* takes the block it waits for.                                              *)
Fairness ==
    /\ WF_vars((NotYet \/ Retransmit) /\ UNCHANGED peerVars)
    /\ SF_vars(HandleNew /\ UNCHANGED peerVars)
    /\ \A c \in Peer : WF_vars((\E m \in msgs : Accept(c, m)) /\ UNCHANGED serverVars)

FairSpec == Spec /\ Fairness

-----------------------------------------------------------------------------
(* Type invariant of the server, of its client list and of the clients.       *)
TypeOK == PeerTypeOK /\ ServerTypeOK

(* The counter that arms the timeout of select() never falls behind the list: *)
(* a client in the list can always be retransmitted to, whatever descriptors  *)
(* are reused and whichever entries of one socket are removed together.       *)
TimerArmed == n_clients >= Cardinality(clients)

(* The sockets of transfers are the watched descriptors and each has an entry *)
(* in the list, so an ACK that arrives finds a file, no socket leaks, and     *)
(* closing one transfer never closes the socket of another, although stale    *)
(* file descriptors are looked up and closed too.                             *)
SocketsHaveClients ==
    /\ read_fds = {sockfd} \cup {i \in Fd : fdtab[i].kind = "sock"}
    /\ \A i \in read_fds \ {sockfd} : Entries(i) # {}

(* No retransmission so far.                                                  *)
clean == retx = 0

(* What FileTransfer promises holds until the first retransmission.           *)
Promise == INSTANCE FileTransfer WITH
    done    <- {c \in Peer : cst[c] = "done"},
    trusted <- clean

(* Server and clients implement the promise of FileTransfer: the blocks of the *)
(* file, in order, and done with the last, although ACKs and DATA are lost,    *)
(* duplicated and reordered, descriptors are reused and block numbers wrap.    *)
TransferSpec == Promise!Spec

(* Until the first retransmission, the blocks sent from one socket all go to  *)
(* one client.                                                                *)
PortServesOneClient ==
    clean => \A m, n \in {d \in msgs : d.type = "DATA"} : m.port = n.port => m.to = n.to

(* Until the first retransmission, the server ends a transfer only when its   *)
(* client has every block: a late or repeated ACK does not end it early.      *)
ClosedOnlyWhenSent ==
    clean => \A m \in {d \in msgs : d.type = "DATA" /\ d.port \in finished} :
                 tid[m.to] = m.port => Len(got[m.to]) >= blocks[wants[m.to]]

-----------------------------------------------------------------------------
Down == srv # "up"

Begun(c)  == \E m \in msgs : m.type = "DATA" /\ m.to = c
(* recvfrom() failed on a socket that served c.                                *)
CutOff(c) ==
    \E m \in msgs : /\ m.type = "DATA" /\ m.to = c
                    /\ m.port \notin finished
                    /\ \A i \in Fd : fdtab[i] # SockAt(m.port)

(* A transfer that has begun completes when no datagram is lost for ever and   *)
(* nothing is retransmitted, whatever is repeated, reordered and asked for     *)
(* besides.  A file whose last block is full is excluded: see ClosedMeansDone. *)
TransferCompletes ==
    \A c \in {d \in Peer : kind[wants[d]] = "regular" /\ ~lastFull[wants[d]]} :
        Begun(c) ~> (cst[c] = "done" \/ CutOff(c) \/ Down \/ retx > 0)

-----------------------------------------------------------------------------
(* What the comments say and the code does not do (one run each).             *)

(* server.c, at the end of a transfer: "That was the last block. We are       *)
(* done.": the client knows that it has the whole file.                       *)
ClosedMeansDone ==
    \A m \in {d \in msgs : d.type = "DATA" /\ d.port \in finished} :
        tid[m.to] = m.port => cst[m.to] = "done"

(* server.c, after a timeout: "Retransmit for the client.": what is sent then *)
(* was sent before, the same block under the same number to the same client.  *)
RetransmitRepeats ==
    [][current > 0 => {m \in msgs' : m.type = "DATA"} \subseteq msgs]_vars
=============================================================================
