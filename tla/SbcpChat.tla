------------------------------ MODULE SbcpChat ------------------------------
(***************************************************************************)
(* The chat room: the server of SbcpServer and the clients of SbcpClient    *)
(* joined by the connections of SbcpNet.  Processes interleave.             *)
(***************************************************************************)
EXTENDS SbcpServer, SbcpClient

vars == <<netVars, serverVars, clientVars>>

Init == NetInit /\ ServerInit /\ ClientInit

ServerLoop ==
    \/ Select
    \/ Accept
    \/ \E i \in Fd : Serve(i)
    \/ \E j \in Fd : Forward(j)

ServerStep == (ServerLoop \/ ServerCtrlC) /\ UNCHANGED clientVars

SocketReady(p) == Recv(p) \/ RecvNak(p) \/ ServerHungUp(p)

ClientStep(p) ==
    /\ \/ Connect(p)
       \/ FgetsLine(p)
       \/ WriteLine(p)
       \/ SocketReady(p)
       \/ CtrlC(p)
    /\ UNCHANGED serverVars

Next == ServerStep \/ \E p \in Proc : ClientStep(p)

Spec == Init /\ [][Next]_vars

(* Both programs loop without waiting for anything but their descriptors:   *)
(* the server takes a step while it can, a client reads what has arrived    *)
(* and writes what waits.  Nobody is obliged to start, type or leave.       *)
Fairness ==
    /\ WF_vars(ServerLoop /\ UNCHANGED clientVars)
    /\ \A p \in Proc : /\ WF_vars(SocketReady(p) /\ UNCHANGED serverVars)
                       /\ WF_vars(WriteLine(p) /\ UNCHANGED serverVars)

FairSpec == Spec /\ Fairness

-----------------------------------------------------------------------------
(* Type invariant of both programs and of the network between them.         *)
TypeOK == NetTypeOK /\ ServerTypeOK /\ ClientTypeOK

(* The descriptor set of the select() loop is exact: it watches the          *)
(* listening socket and every open connection and nothing else, a            *)
(* descriptor waiting for its turn in the pass or in the broadcast is still  *)
(* one of them, the packet is kept as long as somebody waits for it, and     *)
(* each connection has one descriptor, although hang-ups close descriptors   *)
(* in the middle of the pass that holds them.                                *)
SocketAccounting ==
    /\ read_fds = {sockfd} \cup {i \in Fd : conn[i] # NoProc}
    /\ read_fds \subseteq 0..fd_max
    /\ ready \subseteq {i \in read_fds : Readable(i)}
    /\ fwd_left \subseteq read_fds \ {sockfd}
    /\ fwd_left = {} <=> tx_buf = Empty
    /\ \A i, j \in Fd : conn[i] = conn[j] /\ conn[i] # NoProc => i = j
    /\ \A k \in 1..Len(backlog) : \A i \in Fd : conn[i] # backlog[k]

Connected(p) == \E i \in Fd : conn[i] = p

(* In the chat room: told "logged in", and neither ended nor, if it has,       *)
(* noticed by the server yet.                                                *)
InRoom(p) == loggedIn[p] /\ (Running(p) \/ Connected(p))

(* Two users in the chat room at a time never have the same username,         *)
(* whatever joins, leaves and reconnects in between.                         *)
OneUserPerName ==
    \A p, q \in Proc :
        InRoom(p) /\ InRoom(q) /\ username[p] = username[q] => p = q

(* The runs of the client that were sent an ACK.                             *)
Admitted == {p \in Proc : answer[p] = "ACK"}

(* The roster is never longer than the client array allocated for it, no     *)
(* two entries carry one name, each entry has the name of somebody who was   *)
(* admitted, and an admitted client has an entry with the descriptor it is   *)
(* connected to and its own name, perhaps beside those of former owners of    *)
(* the descriptor.                                                           *)
RosterSound ==
    /\ n_clients <= max_clients
    /\ \A j, k \in 1..n_clients : clients[j].username = clients[k].username => j = k
    /\ \A k \in 1..n_clients : \E p \in Admitted : username[p] = clients[k].username
    /\ \A i \in Fd : conn[i] \in Admitted =>
          \E k \in 1..n_clients : clients[k] = [sockfd |-> i, username |-> username[conn[i]]]

(* As long as no admitted client has left, a line is shown under the name    *)
(* its author joined with, and lines of clients that were refused, or whose  *)
(* JOIN was not handled yet, are shown to nobody, although they hold open    *)
(* connections the lines of others are forwarded to.                         *)
TrueSenderUntilLeave ==
    (\A p \in Proc : answer[p] = "ACK" => Connected(p))
      => \A r \in Proc : \A k \in 1..Len(shown[r]) :
            LET author == shown[r][k][2][1]
            IN  answer[author] = "ACK" /\ shown[r][k][1] = username[author]

(* "refused" are the runs that were sent a NAK.                               *)
Promise == INSTANCE Admission WITH
    admitted <- Admitted,
    refused  <- {p \in Proc : answer[p] = "NAK"}

(* The server implements the promise of Admission: whom it sends an ACK, and  *)
(* whom it may refuse, however JOINs, hang-ups and broadcasts interleave.     *)
AdmissionSpec == Promise!Spec

Lines == INSTANCE Broadcast WITH
    spoken <- typed,
    heard  <- [r \in Proc |-> [k \in 1..Len(shown[r]) |-> shown[r][k][2]]]

(* The chat room implements the promise of Broadcast: packets and lines are   *)
(* lost, never invented, echoed, repeated or overtaken, although descriptors, *)
(* names and the order of recipients change and recv() takes several packets   *)
(* at once and leaves the tail of the last.  It needs an in_buf that starts    *)
(* empty, and a recv() that returns the first packet whole (Remainders).       *)
BroadcastSpec == Lines!Spec

-----------------------------------------------------------------------------
(* The inductive strengthening of the safety properties: its parts.          *)

(* A JOIN is the first packet of a stream that was not read yet, carries its *)
(* sender's username, and its sender has no answer.                          *)
JoinComesFirst ==
    \A p \in Proc : \A k \in 1..Len(c2s[p]) :
        c2s[p][k].type = "JOIN" =>
            k = 1 /\ c2s[p][k].name = username[p] /\ answer[p] = "none"

(* A client that did not connect has left no trace, and one that did is in   *)
(* the backlog once.                                                         *)
NoTraceBeforeConnect ==
    /\ \A p \in Proc : cstate[p] = "start" =>
          /\ answer[p] = "none" /\ s2c[p] = <<>>
          /\ \A i \in Fd : conn[i] # p
          /\ \A k \in 1..Len(backlog) : backlog[k] # p
    /\ \A j, k \in 1..Len(backlog) : backlog[j] = backlog[k] => j = k

(* Only an admitted client has an ACK, on its way or decoded.                *)
AckMeansAdmitted ==
    \A p \in Proc :
        /\ loggedIn[p] => p \in Admitted
        /\ \A k \in 1..Len(s2c[p]) : s2c[p][k] = AckMsg => p \in Admitted

(* The roster is the admitted clients, one entry each.                       *)
RosterIsAdmitted ==
    /\ \A p, q \in Admitted : username[p] = username[q] => p = q
    /\ Roster = {username[p] : p \in Admitted}
    /\ IsFiniteSet(Admitted)
    /\ Cardinality(Admitted) = n_clients

(* Nobody in the backlog has an answer.                                      *)
BacklogUnanswered == \A k \in 1..Len(backlog) : answer[backlog[k]] = "none"

IInv ==
    /\ TypeOK
    /\ SocketAccounting
    /\ RosterSound
    /\ JoinComesFirst
    /\ NoTraceBeforeConnect
    /\ AckMeansAdmitted
    /\ RosterIsAdmitted
    /\ BacklogUnanswered

-----------------------------------------------------------------------------
Gone(p) == cstate[p] = "exit"
Down    == srv # "up"

(* Every client that connects gets an answer to its JOIN sent, unless it     *)
(* leaves or the server ends first.                                          *)
JoinAnswered == \A p \in Proc : Running(p) ~> (answer[p] # "none" \/ Gone(p) \/ Down)

(* The descriptor of every client that leaves is reclaimed, even when it     *)
(* leaves before accept(), in the middle of a pass or of a broadcast to it.  *)
LeaverReclaimed ==
    \A p \in Proc :
        Gone(p) ~> (Down \/ /\ \A i \in Fd : conn[i] # p
                            /\ \A k \in 1..Len(backlog) : backlog[k] # p)

(* The server comes back to every client that sent something, however long   *)
(* the broadcasts of the others are: the blocking sends do not wedge it as   *)
(* long as the clients read.                                                 *)
EveryoneServed == \A p \in Proc : c2s[p] # <<>> ~> (c2s[p] = <<>> \/ Down)

-----------------------------------------------------------------------------
(* What the documents say and the code does not do (one run each).           *)

(* README.txt: "You can reuse usernames only after they have left the chat   *)
(* room": a JOIN is refused for its name only while another client with that *)
(* name is connected.                                                        *)
NameFreedOnLeaving ==
    [][\A p \in Proc :
         s2c'[p] = Append(s2c[p], NakMsg("used"))
           => \E i \in Fd : /\ conn[i] \notin {p, NoProc}
                            /\ username[conn[i]] = username[p]]_vars

(* README.txt: messages typed are sent "and then forwarded to all other      *)
(* connected clients": between users who are logged in and stay, each line   *)
(* that left the terminal arrives.                                           *)
LinesReachEveryone ==
    \A p, q \in Proc : \A k \in 1..MaxLines[p] :
        (loggedIn[p] /\ loggedIn[q] /\ p # q /\ in_buf[p] = k)
          ~> (\/ \E j \in 1..Len(shown[q]) : shown[q][j][2] = <<p, k>>
              \/ Gone(p) \/ Gone(q) \/ Down)

(* common.c: sendall() returns "-1 on failure": a client that went away is   *)
(* an error the server reports and survives.                                 *)
ServerSurvives == srv # "killed"
=============================================================================
