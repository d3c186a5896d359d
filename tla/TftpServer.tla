----------------------------- MODULE TftpServer -----------------------------
(***************************************************************************)
(* The TFTP server, src/TFTP/server.c with the client list of list.c: one   *)
(* thread, one select() loop with a timeout, one UDP socket and one open    *)
(* file per transfer.                                                       *)
(*                                                                         *)
(* A pass of the loop handles the readable descriptors one after the other; *)
(* none of the handlers touches another descriptor of the pass, and the     *)
(* network may deliver in any order, so each handler is an action of its    *)
(* own.  The pass after a timeout walks the client list, one client at a    *)
(* time ("current").  Descriptors of files and sockets come from one table, *)
(* the lowest free number first.                                            *)
(***************************************************************************)
EXTENDS TftpNet, Nodes, FiniteSetsExt

VARIABLES
    fdtab,      \* fdtab[i]: what descriptor i is, in the kernel
    ports,      \* how many sockets were opened: the next one gets ports + 1
    read_fds,   \* the descriptors select() watches
    clients,    \* the client list
    n_clients,
    new_fd,     \* the socket created last
    fd,         \* the file opened or looked up last; -1: none
    block_num,  \* the block number used last
    send_data,  \* "Send DATA (1) or ERROR (0) packet"
    st_size,    \* stat_buf.st_size: over MAX_FILE_SIZE or not
    their_addr, \* the sender of the datagram received last
    current,    \* the id of the entry a timeout pass has come to; 0: no such pass
    srv,        \* "up", "exit" (no descriptor for a socket) or "hung" in read()
    finished,   \* auxiliary: the ports closed at the end of a transfer
    retx        \* auxiliary: retransmissions so far, at most MaxRetx (bound)

serverVars == <<fdtab, ports, read_fds, clients, n_clients, new_fd, fd, block_num,
                send_data, st_size, their_addr, current, srv, finished, retx>>

sockfd == 0
Fd     == 1..NFd

Free      == [kind |-> "free"]
FileAt(f) == [kind |-> "file", file |-> f]
SockAt(t) == [kind |-> "sock", port |-> t]

Client == [id : Nat, sockfd : Fd, filefd : Fd \cup {-1}, block_num : BlockNum]

ServerInit ==
    /\ fdtab = [i \in Fd |-> Free]
    /\ ports = 0
    /\ read_fds = {sockfd}
    /\ clients = {}
    /\ n_clients = 0
    /\ new_fd = -1
    /\ fd = -1
    /\ block_num = 0
    /\ send_data = FALSE
    /\ st_size \in {"ok", "large"}          \* stat_buf is not initialised
    /\ their_addr = NoPeer
    /\ current = 0
    /\ srv = "up"
    /\ finished = {}
    /\ retx = 0

ServerTypeOK ==
    /\ fdtab \in [Fd -> {Free} \cup {FileAt(f) : f \in File} \cup {SockAt(t) : t \in Port}]
    /\ ports \in 0..NPort
    /\ read_fds \subseteq {sockfd} \cup Fd
    /\ \A e \in clients : e \in Client
    /\ n_clients \in Nat
    /\ new_fd \in Fd \cup {-1}
    /\ fd \in Fd \cup {-1}
    /\ block_num \in BlockNum
    /\ send_data \in BOOLEAN
    /\ st_size \in {"ok", "large"}
    /\ their_addr \in Peer \cup {NoPeer}
    /\ current \in {0} \cup {e.id : e \in clients}
    /\ srv \in {"up", "exit", "hung"}
    /\ finished \subseteq Port
    /\ retx \in 0..MaxRetx

-----------------------------------------------------------------------------
(* list.c.  add_client leaves block_num unset; the update that follows in    *)
(* server.c sets it.                                                         *)
Entries(s) == {e \in clients : e.sockfd = s}

add_client(s, f, n) ==
    clients \cup {[id |-> FrontId(clients), sockfd |-> s, filefd |-> f, block_num |-> n]}
remove_client(s)    == clients \ Entries(s)
find_client(s)      == IF Entries(s) = {} THEN -1 ELSE First(Entries(s)).filefd
update_client(s, n) ==
    IF Entries(s) = {} THEN clients
    ELSE LET e == First(Entries(s)) IN Replace(clients, e, [e EXCEPT !.block_num = n])

(* Variants: the last block counts as the end; the seek is one block short.   *)
ReadAtEarly(f, n) ==
    IF f = -1 \/ fdtab[f].kind = "free" THEN [res |-> "error"]
    ELSE IF fdtab[f].kind = "sock" THEN [res |-> "hang"]
    ELSE IF n + 1 >= blocks[fdtab[f].file] THEN [res |-> "eof", block |-> <<fdtab[f].file, n + 1>>]
    ELSE [res |-> "data", block |-> <<fdtab[f].file, n + 1>>]
ReadAtBehind(f, n) ==
    IF f = -1 \/ fdtab[f].kind = "free" THEN [res |-> "error"]
    ELSE IF fdtab[f].kind = "sock" THEN [res |-> "hang"]
    ELSE IF n >= blocks[fdtab[f].file] THEN [res |-> "eof", block |-> <<fdtab[f].file, n + 1>>]
    ELSE [res |-> "data", block |-> <<fdtab[f].file, n>>]

(* lseek() to block_num * BLOCK_LEN and read(): block n + 1 of the file.      *)
(* Reading a socket, which fd may have become, blocks.                        *)
ReadAt(f, n) ==
    IF f = -1 \/ fdtab[f].kind = "free" THEN [res |-> "error"]
    ELSE IF fdtab[f].kind = "sock" THEN [res |-> "hang"]
    ELSE IF n >= blocks[fdtab[f].file] THEN [res |-> "eof", block |-> <<fdtab[f].file, n + 1>>]
    ELSE [res |-> "data", block |-> <<fdtab[f].file, n + 1>>]

FreeFd == {i \in Fd : fdtab[i] = Free}
Up     == srv = "up" /\ current = 0

-----------------------------------------------------------------------------
(* A RRQ on the listening socket; what stat() leaves in st_size.              *)
GotRrq(c) ==
    /\ Up
    /\ Rrq(c) \in msgs
    /\ ports < NPort
    /\ their_addr' = c
    /\ st_size' = CASE kind[wants[c]] = "missing" -> st_size
                    [] kind[wants[c]] = "large"   -> "large"
                    [] kind[wants[c]] = "regular" -> "ok"

(* Variants: the socket is not watched; the client is not counted.             *)
NewClientUnwatched(tab, f, n) ==
    /\ read_fds' = read_fds
    /\ clients' = add_client(new_fd', f, n)
    /\ n_clients' = n_clients + 1
    /\ fdtab' = [tab EXCEPT ![new_fd'] = SockAt(ports')]
NewClientUncounted(tab, f, n) ==
    /\ read_fds' = read_fds \cup {new_fd'}
    /\ clients' = add_client(new_fd', f, n)
    /\ n_clients' = n_clients
    /\ fdtab' = [tab EXCEPT ![new_fd'] = SockAt(ports')]
(* The socket of a new transfer, and the client added for it.                  *)
NewClient(tab, f, n) ==
    /\ read_fds' = read_fds \cup {new_fd'}
    /\ clients' = add_client(new_fd', f, n)
    /\ n_clients' = n_clients + 1
    /\ fdtab' = [tab EXCEPT ![new_fd'] = SockAt(ports')]

(* No descriptor is left for a socket: exit(ERR_SOCKET).                       *)
NoSocket ==
    /\ srv' = "exit"
    /\ UNCHANGED <<msgs, ports, read_fds, clients, n_clients, new_fd>>

(* The file is too large, or missing with a stale size that is: an ERROR       *)
(* packet.  send_data still says what an earlier request left in it.           *)
RrqTooLarge(c) ==
    /\ GotRrq(c)
    /\ st_size' = "large"
    /\ IF FreeFd = {}
       THEN NoSocket /\ UNCHANGED fdtab
       ELSE /\ new_fd' = Min(FreeFd)
            /\ ports' = ports + 1
            /\ msgs' = msgs \cup {TooLarge(ports', c)}
            /\ IF send_data
               THEN NewClient(fdtab, fd, block_num)
               ELSE UNCHANGED <<fdtab, read_fds, clients, n_clients>>
            /\ UNCHANGED srv
    /\ UNCHANGED <<fd, block_num, send_data, current, finished, retx>>

(* open() fails: nothing is sent.                                              *)
RrqNoFile(c) ==
    /\ GotRrq(c)
    /\ st_size' = "ok"
    /\ kind[wants[c]] = "missing" \/ FreeFd = {}
    /\ fd' = -1
    /\ UNCHANGED <<msgs, fdtab, ports, read_fds, clients, n_clients, new_fd, block_num,
                   send_data, current, srv, finished, retx>>

(* An empty file or a directory: the descriptor stays open, nothing is sent.   *)
RrqEmpty(c) ==
    /\ GotRrq(c)
    /\ kind[wants[c]] = "regular" /\ FreeFd # {} /\ blocks[wants[c]] = 0
    /\ fd' = Min(FreeFd)
    /\ fdtab' = [fdtab EXCEPT ![fd'] = FileAt(wants[c])]
    /\ block_num' = 1
    /\ UNCHANGED <<msgs, ports, read_fds, clients, n_clients, new_fd, send_data,
                   current, srv, finished, retx>>

(* The first block.                                                            *)
RrqData(c) ==
    /\ GotRrq(c)
    /\ kind[wants[c]] = "regular" /\ FreeFd # {} /\ blocks[wants[c]] > 0
    /\ fd' = Min(FreeFd)
    /\ block_num' = 1
    /\ send_data' = TRUE
    /\ LET tab == [fdtab EXCEPT ![fd'] = FileAt(wants[c])]
       IN  IF FreeFd = {fd'}
           THEN NoSocket /\ fdtab' = tab
           ELSE /\ new_fd' = Min(FreeFd \ {fd'})
                /\ ports' = ports + 1
                /\ msgs' = msgs \cup {Data(ports', c, 1, <<wants[c], 1>>)}
                /\ NewClient(tab, fd', 1)
                /\ UNCHANGED srv
    /\ UNCHANGED <<current, finished, retx>>

-----------------------------------------------------------------------------
(* recvfrom() on the socket of a transfer.                                     *)
GotFrom(i, m) ==
    /\ Up
    /\ i \in read_fds \ {sockfd}
    /\ fdtab[i].kind = "sock"
    /\ m \in msgs /\ m.type \in {"ACK", "ERR"} /\ m.port = fdtab[i].port
    /\ their_addr' = m.from

(* ACK of block n: block n + 1 is sent, to the sender of the ACK.  The list    *)
(* entry updated is the one of the socket created last.                        *)
AckMoreWide(i, m) ==
    /\ GotFrom(i, m) /\ m.type = "ACK"
    /\ fd' = find_client(i)
    /\ ReadAt(fd', m.num).res = "data"
    /\ block_num' = m.num + 1
    /\ msgs' = msgs \cup {Data(fdtab[i].port, m.from, block_num', ReadAt(fd', m.num).block)}
    /\ clients' = update_client(new_fd, block_num')
    /\ UNCHANGED <<fdtab, ports, read_fds, n_clients, new_fd, send_data, st_size,
                   current, srv, finished, retx>>
AckMoreNewFd(i, m) ==
    /\ GotFrom(i, m) /\ m.type = "ACK"
    /\ fd' = find_client(i)
    /\ ReadAt(fd', m.num).res = "data"
    /\ block_num' = (m.num + 1) % BLOCK_MOD
    /\ msgs' = msgs \cup {Data(IF fdtab[new_fd].kind = "sock" THEN fdtab[new_fd].port ELSE m.port, m.from, block_num', ReadAt(fd', m.num).block)}
    /\ clients' = update_client(new_fd, block_num')
    /\ UNCHANGED <<fdtab, ports, read_fds, n_clients, new_fd, send_data, st_size,
                   current, srv, finished, retx>>
AckMore(i, m) ==
    /\ GotFrom(i, m) /\ m.type = "ACK"
    /\ fd' = find_client(i)
    /\ ReadAt(fd', m.num).res = "data"
    /\ block_num' = (m.num + 1) % BLOCK_MOD
    /\ msgs' = msgs \cup {Data(fdtab[i].port, m.from, block_num', ReadAt(fd', m.num).block)}
    /\ clients' = update_client(new_fd, block_num')
    /\ UNCHANGED <<fdtab, ports, read_fds, n_clients, new_fd, send_data, st_size,
                   current, srv, finished, retx>>

(* ACK of the last block.                                                      *)
AckLastWatched(i, m) ==
    /\ GotFrom(i, m) /\ m.type = "ACK"
    /\ fd' = find_client(i)
    /\ ReadAt(fd', m.num).res = "eof"
    /\ block_num' = m.num
    /\ clients' = remove_client(i)
    /\ n_clients' = n_clients - 1
    /\ fdtab' = [fdtab EXCEPT ![fd'] = Free, ![i] = Free]
    /\ read_fds' = read_fds
    /\ finished' = finished \cup {m.port}
    /\ UNCHANGED <<msgs, ports, new_fd, send_data, st_size, current, srv, retx>>
AckLast(i, m) ==
    /\ GotFrom(i, m) /\ m.type = "ACK"
    /\ fd' = find_client(i)
    /\ ReadAt(fd', m.num).res = "eof"
    /\ block_num' = m.num
    /\ clients' = remove_client(i)
    /\ n_clients' = n_clients - 1
    /\ fdtab' = [fdtab EXCEPT ![fd'] = Free, ![i] = Free]
    /\ read_fds' = read_fds \ {i}
    /\ finished' = finished \cup {m.port}
    /\ UNCHANGED <<msgs, ports, new_fd, send_data, st_size, current, srv, retx>>

(* read() fails, or never returns.                                             *)
AckStuck(i, m) ==
    /\ GotFrom(i, m) /\ m.type = "ACK"
    /\ fd' = find_client(i)
    /\ ReadAt(fd', m.num).res \in {"error", "hang"}
    /\ block_num' = m.num
    /\ srv' = IF ReadAt(fd', m.num).res = "hang" THEN "hung" ELSE srv
    /\ UNCHANGED <<msgs, fdtab, ports, read_fds, clients, n_clients, new_fd, send_data,
                   st_size, current, finished, retx>>

(* An ERROR packet or an unknown one: only their_addr keeps a trace of it.     *)
Ignored(i, m) ==
    /\ GotFrom(i, m) /\ m.type = "ERR"
    /\ UNCHANGED <<msgs, fdtab, ports, read_fds, clients, n_clients, new_fd, fd, block_num,
                   send_data, st_size, current, srv, finished, retx>>

(* recvfrom() fails: the socket is closed, the list keeps the client.          *)
RecvFails(i) ==
    /\ Up
    /\ i \in read_fds \ {sockfd}
    /\ fdtab' = [fdtab EXCEPT ![i] = Free]
    /\ read_fds' = read_fds \ {i}
    /\ UNCHANGED <<msgs, ports, clients, n_clients, new_fd, fd, block_num, send_data,
                   st_size, their_addr, current, srv, finished, retx>>

-----------------------------------------------------------------------------
(* select() times out; it has a timeout only while n_clients is not 0.         *)
Timeout ==
    /\ Up
    /\ n_clients > 0 /\ clients # {}
    /\ current' = First(clients).id
    /\ UNCHANGED <<msgs, fdtab, ports, read_fds, clients, n_clients, new_fd, fd, block_num,
                   send_data, st_size, their_addr, srv, finished, retx>>

Entry == CHOOSE e \in clients : e.id = current

NextClient ==
    LET rest == Behind(clients, Entry)
    IN  IF rest = {} THEN 0 ELSE First(rest).id

(* dt is not over the timeout.                                                 *)
NotYet ==
    /\ srv = "up" /\ current > 0
    /\ current' = NextClient
    /\ UNCHANGED <<msgs, fdtab, ports, read_fds, clients, n_clients, new_fd, fd, block_num,
                   send_data, st_size, their_addr, srv, finished, retx>>

(* The retransmission: the block at block_num * BLOCK_LEN, labelled block_num, *)
(* to the sender of the datagram received last.                                *)
Retransmit ==
    /\ srv = "up" /\ current > 0
    /\ retx < MaxRetx
    /\ retx' = retx + 1
    /\ LET e == Entry
           r == ReadAt(e.filefd, e.block_num)
       IN  /\ fd' = e.filefd
           /\ block_num' = e.block_num
           /\ IF r.res = "hang"
              THEN srv' = "hung" /\ UNCHANGED <<msgs, clients, current>>
              ELSE /\ msgs' = IF r.res # "error" /\ fdtab[e.sockfd].kind = "sock"
                              THEN msgs \cup {Data(fdtab[e.sockfd].port, their_addr,
                                                   e.block_num, r.block)}
                              ELSE msgs
                   /\ clients' = IF fdtab[e.sockfd].kind = "sock"
                                 THEN update_client(new_fd, e.block_num)
                                 ELSE clients
                   /\ current' = NextClient
                   /\ UNCHANGED srv
    /\ UNCHANGED <<fdtab, ports, read_fds, n_clients, new_fd, send_data, st_size,
                   their_addr, finished>>
=============================================================================
