----------------------------- MODULE SbcpServer -----------------------------
(***************************************************************************)
(* The chat server, src/SBCP/server.c: one thread, one select() loop.       *)
(* A pass of the loop handles the descriptors select() reported in          *)
(* ascending order; each action below is the handling of one of them, and   *)
(* the broadcast of a line is one action per recipient, because the sends   *)
(* block and clients come and go between them.                              *)
(***************************************************************************)
EXTENDS SbcpNet, FiniteSetsExt

VARIABLES
    conn,       \* conn[i]: the client at the other end of descriptor i
    read_fds,   \* the descriptors select() watches
    ready,      \* what is left of read_fds_tmp in the current pass
    fd_max,     \* the highest descriptor ever watched
    clients,    \* the roster: clients[1..n_clients]
    fwd_left,   \* recipients the broadcast in progress has not come to
    tx_buf,     \* the packet being broadcast
    answer      \* auxiliary: the answer the server gave to p's JOIN

serverVars == <<conn, read_fds, ready, fd_max, clients, fwd_left, tx_buf, answer>>

sockfd == 0                     \* the listening socket: below every other
Fd     == 1..NFd
Empty  == [type |-> "EMPTY"]    \* tx_buf[0] = '\0'

Client    == [sockfd : Fd, username : Name]
n_clients == Len(clients)

ServerInit ==
    /\ conn = [i \in Fd |-> NoProc]
    /\ read_fds = {sockfd}
    /\ ready = {}
    /\ fd_max = sockfd
    /\ clients = <<>>
    /\ fwd_left = {}
    /\ tx_buf = Empty
    /\ answer = [p \in Proc |-> "none"]

ServerTypeOK ==
    /\ conn \in [Fd -> Proc \cup {NoProc}]
    /\ read_fds \subseteq {sockfd} \cup Fd
    /\ ready \subseteq {sockfd} \cup Fd
    /\ fd_max \in {sockfd} \cup Fd
    /\ clients \in Seq(Client)
    /\ fwd_left \subseteq Fd
    /\ tx_buf \in {FwdMsg(n, l) : n \in Name, l \in Line} \cup {Empty}
    /\ answer \in [Proc -> {"none", "ACK", "NAK"}]

-----------------------------------------------------------------------------
Readable(i) ==
    IF i = sockfd
    THEN backlog # <<>>
    ELSE conn[i] # NoProc /\ (c2s[conn[i]] # <<>> \/ net[conn[i]] # "open")

(* select() blocks until a watched descriptor is readable.                 *)
Select ==
    /\ srv = "up" /\ ready = {} /\ fwd_left = {}
    /\ ready' = {i \in read_fds : i <= fd_max /\ Readable(i)}
    /\ ready' # {}
    /\ UNCHANGED <<netVars, conn, read_fds, fd_max, clients, fwd_left, tx_buf, answer>>

(* The for loop has come to descriptor i, which select() reported.          *)
Turn(i) ==
    /\ srv = "up" /\ fwd_left = {}
    /\ i \in ready
    /\ \A j \in ready : i <= j
    /\ ready' = ready \ {i}

FreeFd == {i \in Fd : conn[i] = NoProc}

(* Variant: fd_max is not raised for the new descriptor.                    *)
AcceptNoMax ==
    /\ Turn(sockfd)
    /\ FreeFd # {}
    /\ backlog' = Tail(backlog)
    /\ conn' = [conn EXCEPT ![Min(FreeFd)] = Head(backlog)]
    /\ read_fds' = read_fds \cup {Min(FreeFd)}
    /\ UNCHANGED <<c2s, s2c, net, srv, fd_max, clients, fwd_left, tx_buf, answer>>

(* A new connection gets the lowest free descriptor; with none left         *)
(* accept() fails (EMFILE) and the connection stays in the backlog.         *)
Accept ==
    /\ Turn(sockfd)
    /\ IF FreeFd = {}
       THEN UNCHANGED <<backlog, conn, read_fds, fd_max>>
       ELSE LET new_fd == Min(FreeFd) IN
            /\ backlog' = Tail(backlog)
            /\ conn' = [conn EXCEPT ![new_fd] = Head(backlog)]
            /\ read_fds' = read_fds \cup {new_fd}
            /\ fd_max' = IF new_fd > fd_max THEN new_fd ELSE fd_max
    /\ UNCHANGED <<c2s, s2c, net, srv, clients, fwd_left, tx_buf, answer>>

(* Variants: FD_CLR is forgotten; the failed recv() is only reported.       *)
HangupNoClear(i) ==
    /\ Turn(i)
    /\ c2s[conn[i]] = <<>>
    /\ conn' = [conn EXCEPT ![i] = NoProc]
    /\ UNCHANGED <<netVars, read_fds, fd_max, clients, fwd_left, tx_buf, answer>>
HangupIgnored(i) ==
    /\ Turn(i)
    /\ c2s[conn[i]] = <<>>
    /\ UNCHANGED <<netVars, conn, read_fds, fd_max, clients, fwd_left, tx_buf, answer>>

(* recv() returned 0 or -1.  The roster keeps the client that left.         *)
Hangup(i) ==
    /\ Turn(i)
    /\ c2s[conn[i]] = <<>>
    /\ conn' = [conn EXCEPT ![i] = NoProc]
    /\ read_fds' = read_fds \ {i}
    /\ UNCHANGED <<netVars, fd_max, clients, fwd_left, tx_buf, answer>>

(* recv() returned data: buf starts with packet m, the one that is decoded.  *)
Received(i, m) ==
    /\ Turn(i)
    /\ c2s[conn[i]] # <<>>
    /\ m = Head(c2s[conn[i]])
    /\ \E rest \in Remainders(c2s[conn[i]]) : c2s' = [c2s EXCEPT ![conn[i]] = rest]

Roster == {clients[k].username : k \in 1..n_clients}

(* Variants: no test of the name; ">" for ">="; one place kept back.        *)
RefusalsNoName(name) == IF n_clients >= max_clients THEN {"full"} ELSE {}
RefusalsOneMore(name) ==
    IF name \in Roster THEN {"used"}
    ELSE IF n_clients > max_clients THEN {"full"} ELSE {}
RefusalsOneLess(name) ==
    IF name \in Roster THEN {"used"}
    ELSE IF n_clients + 1 >= max_clients THEN {"full"} ELSE {}

(* Why a JOIN is refused; the test for the name comes last and overwrites.  *)
Refusals(name) ==
    IF name \in Roster THEN {"used"}
    ELSE IF n_clients >= max_clients THEN {"full"} ELSE {}

JoinNak(i) ==
    \E m \in ClientMsg :
      /\ Received(i, m) /\ m.type = "JOIN"
      /\ \E r \in Refusals(m.name), ok \in BOOLEAN : SendAll(conn[i], NakMsg(r), ok)
      /\ answer' = [answer EXCEPT ![conn[i]] = "NAK"]
      /\ UNCHANGED <<backlog, conn, read_fds, fd_max, clients, fwd_left, tx_buf>>

(* Variant: the roster entry holds the listening descriptor.                *)
JoinAckListener(i) ==
    \E m \in ClientMsg :
      /\ Received(i, m) /\ m.type = "JOIN"
      /\ Refusals(m.name) = {}
      /\ clients' = Append(clients, [sockfd |-> sockfd, username |-> m.name])
      /\ \E ok \in BOOLEAN : SendAll(conn[i], AckMsg, ok)
      /\ answer' = [answer EXCEPT ![conn[i]] = "ACK"]
      /\ UNCHANGED <<backlog, conn, read_fds, fd_max, fwd_left, tx_buf>>

(* Variant: the roster entry holds the descriptor accepted last.            *)
JoinAckNewFd(i) ==
    \E m \in ClientMsg :
      /\ Received(i, m) /\ m.type = "JOIN"
      /\ Refusals(m.name) = {}
      /\ clients' = Append(clients, [sockfd |-> fd_max, username |-> m.name])
      /\ \E ok \in BOOLEAN : SendAll(conn[i], AckMsg, ok)
      /\ answer' = [answer EXCEPT ![conn[i]] = "ACK"]
      /\ UNCHANGED <<backlog, conn, read_fds, fd_max, fwd_left, tx_buf>>

JoinAck(i) ==
    \E m \in ClientMsg :
      /\ Received(i, m) /\ m.type = "JOIN"
      /\ Refusals(m.name) = {}
      /\ clients' = Append(clients, [sockfd |-> i, username |-> m.name])
      /\ \E ok \in BOOLEAN : SendAll(conn[i], AckMsg, ok)
      /\ answer' = [answer EXCEPT ![conn[i]] = "ACK"]
      /\ UNCHANGED <<backlog, conn, read_fds, fd_max, fwd_left, tx_buf>>

-----------------------------------------------------------------------------
(* Variant: the descriptor is not compared.                                 *)
EntriesOfAny(i) == 1..n_clients

(* The roster entries of descriptor i: the sender is looked up by it.       *)
EntriesOf(i) == {k \in 1..n_clients : clients[k].sockfd = i}
SenderName(i) == clients[Min(EntriesOf(i))].username

(* Variant: the sender's too.                                               *)
OthersAndSelf(i) == {j \in read_fds : j <= fd_max /\ j # sockfd}

(* Every watched descriptor but the listening one and the sender's, the     *)
(* ones that never joined included.                                         *)
Others(i) == {j \in read_fds : j <= fd_max /\ j # sockfd /\ j # i}

SendStart(i) ==
    \E m \in ClientMsg :
      /\ Received(i, m) /\ m.type = "SEND"
      /\ EntriesOf(i) # {}
      /\ fwd_left' = Others(i)
      /\ tx_buf' = IF Others(i) = {} THEN Empty ELSE FwdMsg(SenderName(i), m.line)
      /\ UNCHANGED <<backlog, s2c, net, srv, conn, read_fds, fd_max, clients, answer>>

(* The next recipient.  A failing sendall() leaves 0 in len, and the        *)
(* recipients after it are sent 0 bytes.                                    *)
Forward(j) ==
    /\ srv = "up"
    /\ j \in fwd_left
    /\ \A k \in fwd_left : j <= k
    /\ \E ok \in BOOLEAN :
         /\ SendAll(conn[j], tx_buf, ok)
         /\ fwd_left' = IF ok THEN fwd_left \ {j} ELSE {}
    /\ tx_buf' = IF fwd_left' = {} THEN Empty ELSE tx_buf
    /\ UNCHANGED <<backlog, c2s, conn, read_fds, ready, fd_max, clients, answer>>

(* Variant: the chunk stays in the stream.                                  *)
DiscardKept(i) ==
    \E m \in ClientMsg :
      /\ Turn(i)
      /\ c2s[conn[i]] # <<>> /\ m = Head(c2s[conn[i]])
      /\ m.type = "FRAG" \/ (m.type = "SEND" /\ EntriesOf(i) = {})
      /\ UNCHANGED <<netVars, conn, read_fds, fd_max, clients, fwd_left, tx_buf, answer>>

(* Not an SBCP version 3 packet, or a SEND from a descriptor with no        *)
(* roster entry: the chunk is dropped.                                      *)
Discard(i) ==
    \E m \in ClientMsg :
      /\ Received(i, m)
      /\ m.type = "FRAG" \/ (m.type = "SEND" /\ EntriesOf(i) = {})
      /\ UNCHANGED <<backlog, s2c, net, srv, conn, read_fds, fd_max, clients,
                     fwd_left, tx_buf, answer>>

(* Ctrl+C at the server's terminal.                                         *)
ServerCtrlC ==
    /\ srv = "up"
    /\ srv' = "stopped"
    /\ UNCHANGED <<backlog, c2s, s2c, net, serverVars>>

Serve(i) == Hangup(i) \/ JoinNak(i) \/ JoinAck(i) \/ SendStart(i) \/ Discard(i)
=============================================================================
