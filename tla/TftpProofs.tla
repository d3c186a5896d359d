----------------------------- MODULE TftpProofs -----------------------------
(***************************************************************************)
(* Machine-checked proofs about Tftp, for every set of clients and files,   *)
(* every size of a file, every range of block numbers and every number of   *)
(* descriptors, sockets and retransmissions.                                *)
(***************************************************************************)
EXTENDS Tftp, NodesProofs

-----------------------------------------------------------------------------
(* The invariant.                                                            *)

(* The sender of some datagram is known as long as there is a client.         *)
SenderKnown == clients # {} => their_addr \in Peer

ServerInv ==
    /\ ServerTypeOK
    /\ IsFiniteSet(clients)
    /\ TimerArmed
    /\ SocketsHaveClients
    /\ SenderKnown

TftpInv == PeerTypeOK /\ ServerInv

(* The types of the variables that say nothing of list and descriptors.       *)
ScalarTypeOK ==
    /\ ports \in 0..NPort
    /\ new_fd \in Fd \cup {-1}
    /\ fd \in Fd \cup {-1}
    /\ block_num \in BlockNum
    /\ send_data \in BOOLEAN
    /\ st_size \in {"ok", "large"}
    /\ their_addr \in Peer \cup {NoPeer}
    /\ srv \in {"up", "exit", "hung"}
    /\ finished \subseteq Port
    /\ retx \in 0..MaxRetx

Descriptor == {Free} \cup {FileAt(f) : f \in File} \cup {SockAt(t) : t \in Port}

-----------------------------------------------------------------------------
(* Lemmas about the operators.                                               *)

(* The lowest free descriptor is free.                                        *)
LEMMA MinFree ==
    ASSUME NEW T, T \subseteq Fd, T # {}
    PROVE  Min(T) \in T
<1>1. T \subseteq Nat
  BY TftpAssumption DEF Fd
<1>2. \E x \in T : \A y \in T : x <= y
  BY <1>1, LeastExists
<1> QED
  BY <1>2 DEF Min

(* What a descriptor is, by its kind.                                         *)
LEMMA DescriptorKinds ==
    ASSUME ServerTypeOK, NEW i \in Fd
    PROVE  \/ fdtab[i] = Free /\ fdtab[i].kind = "free"
           \/ fdtab[i].kind = "file" /\ fdtab[i].file \in File /\ fdtab[i] = FileAt(fdtab[i].file)
           \/ fdtab[i].kind = "sock" /\ fdtab[i].port \in Port /\ fdtab[i] = SockAt(fdtab[i].port)
<1>1. fdtab[i] \in {Free} \cup {FileAt(f) : f \in File} \cup {SockAt(t) : t \in Port}
  BY DEF ServerTypeOK
<1> QED
  BY <1>1 DEF Free, FileAt, SockAt

(* The client list with a client added: it has an entry for the socket.       *)
LEMMA AddClientEffect ==
    ASSUME ServerTypeOK, IsFiniteSet(clients),
           NEW s \in Fd, NEW f \in Fd \cup {-1}, NEW n \in BlockNum
    PROVE  /\ IsFiniteSet(add_client(s, f, n))
           /\ Cardinality(add_client(s, f, n)) = Cardinality(clients) + 1
           /\ \A e \in add_client(s, f, n) : e \in Client
           /\ clients \subseteq add_client(s, f, n)
           /\ \E e \in add_client(s, f, n) : e.sockfd = s
<1> DEFINE new == [id |-> FrontId(clients), sockfd |-> s, filefd |-> f, block_num |-> n]
<1>1. \A e \in clients : e.id \in Nat
  BY DEF ServerTypeOK, Client
<1>2. FrontId(clients) \in Nat /\ \A e \in clients : e.id < FrontId(clients)
  BY <1>1, FrontIdProperties
<1>3. new \in Client /\ new.sockfd = s /\ new.id = FrontId(clients)
  BY <1>2 DEF Client
<1>4. add_client(s, f, n) = clients \cup {new}
  BY DEF add_client
<1> HIDE DEF new
<1>5. new \notin clients
  BY <1>1, <1>2, <1>3
<1>6. /\ IsFiniteSet(clients \cup {new})
      /\ Cardinality(clients \cup {new}) = Cardinality(clients) + 1
  BY <1>5, FS_AddElement
<1> QED
  BY <1>3, <1>4, <1>6 DEF ServerTypeOK

(* The client list with a block number noted: the same sockets and ids.       *)
LEMMA UpdateClientEffect ==
    ASSUME ServerTypeOK, IsFiniteSet(clients), NEW s, NEW n \in BlockNum
    PROVE  /\ IsFiniteSet(update_client(s, n))
           /\ Cardinality(update_client(s, n)) <= Cardinality(clients)
           /\ \A e \in update_client(s, n) : e \in Client
           /\ \A e \in clients : \E k \in update_client(s, n) : k.sockfd = e.sockfd /\ k.id = e.id
           /\ update_client(s, n) # {} => clients # {}
<1>1. CASE Entries(s) = {}
  <2>1. update_client(s, n) = clients
    BY <1>1 DEF update_client
  <2>2. Cardinality(clients) <= Cardinality(clients)
    BY FS_CardinalityType
  <2> QED
    BY <2>1, <2>2 DEF ServerTypeOK
<1>2. CASE Entries(s) # {}
  <2> DEFINE old == First(Entries(s))
             new == [old EXCEPT !.block_num = n]
  <2>1. old \in clients
    <3>1. IsFiniteSet(Entries(s)) /\ Entries(s) \subseteq clients
      BY FS_Subset DEF Entries
    <3>2. \A e \in Entries(s) : e.id \in Int
      BY <3>1 DEF ServerTypeOK, Client
    <3> QED
      BY <1>2, <3>1, <3>2, FirstProperties
  <2>2. update_client(s, n) = Replace(clients, old, new)
    BY <1>2 DEF update_client
  <2>3. old \in Client
    BY <2>1 DEF ServerTypeOK
  <2> HIDE DEF old
  <2>4. new \in Client /\ new.sockfd = old.sockfd /\ new.id = old.id
    BY <2>3 DEF Client
  <2> HIDE DEF new
  <2>5. /\ IsFiniteSet(Replace(clients, old, new))
        /\ Cardinality(Replace(clients, old, new)) <= Cardinality(clients)
        /\ \A k \in Replace(clients, old, new) : k \in clients \/ k = new
        /\ \A k \in clients : (IF k = old THEN new ELSE k) \in Replace(clients, old, new)
    BY ReplaceProperties
  <2> QED
    BY <2>1, <2>2, <2>4, <2>5 DEF ServerTypeOK
<1> QED
  BY <1>1, <1>2

(* What the client list finds for a socket is a descriptor, or none.          *)
LEMMA FindClientType ==
    ASSUME ServerTypeOK, IsFiniteSet(clients), NEW s
    PROVE  find_client(s) \in Fd \cup {-1}
<1>1. CASE Entries(s) = {}
  BY <1>1 DEF find_client
<1>2. CASE Entries(s) # {}
  <2>1. IsFiniteSet(Entries(s)) /\ Entries(s) \subseteq clients
    BY FS_Subset DEF Entries
  <2>2. \A e \in Entries(s) : e \in Client /\ e.id \in Int /\ e.filefd \in Fd \cup {-1}
    BY <2>1 DEF ServerTypeOK, Client
  <2>3. First(Entries(s)) \in Entries(s)
    BY <1>2, <2>1, <2>2, FirstProperties
  <2> QED
    BY <1>2, <2>2, <2>3 DEF find_client
<1> QED
  BY <1>1, <1>2

(* What is read is a block of an open file.                                   *)
LEMMA ReadAtEffect ==
    ASSUME ServerTypeOK, NEW f \in Fd \cup {-1}, NEW n \in BlockNum
    PROVE  /\ ReadAt(f, n).res \in {"error", "hang", "eof", "data"}
           /\ ReadAt(f, n).res \in {"eof", "data"} =>
                f \in Fd /\ fdtab[f].kind = "file" /\ ReadAt(f, n).block \in Block
<1>1. n + 1 \in Nat \ {0}
  BY TftpAssumption DEF BlockNum
<1>2. CASE f = -1
  <2>1. ReadAt(f, n) = [res |-> "error"]
    BY <1>2 DEF ReadAt
  <2> QED
    BY <2>1
<1>3. CASE f # -1
  <2>1. f \in Fd
    BY <1>3
  <2>2. CASE fdtab[f].kind = "free"
    <3>1. ReadAt(f, n) = [res |-> "error"]
      BY <2>2 DEF ReadAt
    <3> QED
      BY <3>1
  <2>3. CASE fdtab[f].kind = "sock"
    <3>1. ReadAt(f, n) = [res |-> "hang"]
      BY <1>3, <2>3 DEF ReadAt
    <3> QED
      BY <3>1
  <2>4. CASE fdtab[f].kind = "file" /\ fdtab[f].file \in File
    <3>1. PICK r \in {"eof", "data"} : ReadAt(f, n) = [res |-> r, block |-> <<fdtab[f].file, n + 1>>]
      BY <1>3, <2>4 DEF ReadAt
    <3>2. ReadAt(f, n).res = r /\ ReadAt(f, n).block = <<fdtab[f].file, n + 1>>
      BY <3>1
    <3> QED
      BY <1>1, <2>1, <2>4, <3>2 DEF Block
  <2> QED
    BY <2>1, <2>2, <2>3, <2>4, DescriptorKinds
<1> QED
  BY <1>2, <1>3

(* The fields of a datagram.                                                  *)
LEMMA DatagramFields ==
    ASSUME NEW m \in Msg
    PROVE  /\ m.type \in {"ACK", "ERR"} => m.from \in Peer /\ m.port \in Port
           /\ m.type = "ACK" => m.num \in BlockNum
           /\ m.type = "DATA" =>
                m.to \in Peer /\ m.port \in Port /\ m.num \in BlockNum /\ m.block \in Block
           /\ m.type = "ERROR" => m.to \in Peer /\ m.port \in Port
  BY DEF Msg

(* The datagrams that are sent have the types they should.                    *)
LEMMA DatagramTypes ==
    ASSUME NEW c \in Peer
    PROVE  /\ Rrq(c) \in Msg
           /\ \A t \in Port : Stray(c, t) \in Msg /\ TooLarge(t, c) \in Msg
           /\ \A t \in Port, n \in BlockNum : Ack(c, t, n) \in Msg
           /\ \A t \in Port, n \in BlockNum, b \in Block : Data(t, c, n, b) \in Msg
  BY DEF Msg, Rrq, Stray, TooLarge, Ack, Data

-----------------------------------------------------------------------------
(* What the steps of the server do to list and descriptors.                   *)

(* The types of the server are those of the other variables, of the list and  *)
(* of the descriptors.                                                        *)
LEMMA TypeParts ==
    ServerTypeOK <=> /\ ScalarTypeOK
                     /\ fdtab \in [Fd -> Descriptor]
                     /\ read_fds \subseteq {sockfd} \cup Fd
                     /\ \A e \in clients : e \in Client
                     /\ n_clients \in Nat
                     /\ current \in {0} \cup {e.id : e \in clients}
  BY DEF ServerTypeOK, ScalarTypeOK, Descriptor

(* The same after a step.                                                    *)
LEMMA TypePartsNext ==
    ASSUME ScalarTypeOK', fdtab' \in [Fd -> Descriptor],
           read_fds' \subseteq {sockfd} \cup Fd,
           \A e \in clients' : e \in Client,
           n_clients' \in Nat,
           current' \in {0} \cup {e.id : e \in clients'}
    PROVE  ServerTypeOK'
  BY DEF ServerTypeOK, ScalarTypeOK, Descriptor

(* A step that touches neither.                                               *)
LEMMA QuietStep ==
    ASSUME ServerInv, ScalarTypeOK',
           UNCHANGED <<fdtab, read_fds, clients, n_clients>>,
           their_addr' = their_addr \/ their_addr' \in Peer,
           current' \in {0} \cup {e.id : e \in clients}
    PROVE  ServerInv'
<1>1. ServerTypeOK'
  BY TypeParts, TypePartsNext DEF ServerInv
<1>2. IsFiniteSet(clients)'
  BY DEF ServerInv
<1>3. TimerArmed' /\ SenderKnown'
  BY DEF ServerInv, TimerArmed, SenderKnown
<1>4. SocketsHaveClients'
  BY DEF ServerInv, SocketsHaveClients, Entries
<1> QED
  BY <1>1, <1>2, <1>3, <1>4 DEF ServerInv

(* A step that adds a client, whose socket takes a free descriptor; another   *)
(* free one may have become a file.                                           *)
LEMMA NewClientStep ==
    ASSUME ServerInv, ScalarTypeOK', NEW tab \in [Fd -> Descriptor],
           \A i \in Fd : tab[i].kind = "sock" <=> fdtab[i].kind = "sock",
           NEW f \in Fd \cup {-1}, NEW n \in BlockNum, NewClient(tab, f, n),
           new_fd' \in Fd, ports' \in Port, their_addr' \in Peer, current' = 0
    PROVE  ServerInv'
<1>0. ServerTypeOK /\ IsFiniteSet(clients) /\ TimerArmed /\ SocketsHaveClients
  BY DEF ServerInv
<1>1. /\ IsFiniteSet(clients') /\ Cardinality(clients') = Cardinality(clients) + 1
      /\ \A e \in clients' : e \in Client
      /\ clients \subseteq clients'
      /\ \E e \in clients' : e.sockfd = new_fd'
  BY <1>0, AddClientEffect DEF NewClient
<1>2. /\ read_fds' = read_fds \cup {new_fd'}
      /\ n_clients' = n_clients + 1
      /\ fdtab' = [tab EXCEPT ![new_fd'] = SockAt(ports')]
  BY DEF NewClient
<1>3. SockAt(ports').kind = "sock" /\ SockAt(ports') \in Descriptor
  BY DEF SockAt, Descriptor
<1>4. ServerTypeOK'
  <2>1. n_clients \in Nat /\ read_fds \subseteq {sockfd} \cup Fd
    BY <1>0, TypeParts
  <2>2. fdtab' \in [Fd -> Descriptor]
    BY <1>2, <1>3
  <2> QED
    BY <1>1, <1>2, <2>1, <2>2, TypePartsNext
<1>5. TimerArmed'
  <2>1. Cardinality(clients) \in Nat /\ n_clients \in Nat
    BY <1>0, FS_CardinalityType, TypeParts
  <2> QED
    BY <1>0, <1>1, <1>2, <2>1 DEF TimerArmed
<1>6. SocketsHaveClients'
  <2>1. \A i \in Fd : fdtab'[i].kind = "sock" <=> (i = new_fd' \/ fdtab[i].kind = "sock")
    BY <1>2, <1>3
  <2>2. read_fds' = {sockfd} \cup {i \in Fd : fdtab'[i].kind = "sock"}
    BY <1>0, <1>2, <2>1 DEF SocketsHaveClients
  <2>3. \A i \in read_fds' \ {sockfd} : \E e \in clients' : e.sockfd = i
    BY <1>0, <1>1, <1>2 DEF SocketsHaveClients, Entries
  <2> QED
    BY <2>2, <2>3 DEF SocketsHaveClients, Entries, sockfd, Fd
<1> QED
  BY <1>1, <1>4, <1>5, <1>6 DEF ServerInv, SenderKnown

(* A step that notes a block number in the list.                              *)
LEMMA UpdateStep ==
    ASSUME ServerInv, ScalarTypeOK', NEW s, NEW n \in BlockNum,
           clients' = update_client(s, n),
           UNCHANGED <<fdtab, read_fds, n_clients>>,
           their_addr' = their_addr \/ their_addr' \in Peer,
           current' \in {0} \cup {e.id : e \in clients}
    PROVE  ServerInv'
<1>0. ServerTypeOK /\ IsFiniteSet(clients) /\ TimerArmed /\ SocketsHaveClients /\ SenderKnown
  BY DEF ServerInv
<1>1. /\ IsFiniteSet(clients') /\ Cardinality(clients') <= Cardinality(clients)
      /\ \A e \in clients' : e \in Client
      /\ \A e \in clients : \E k \in clients' : k.sockfd = e.sockfd /\ k.id = e.id
      /\ clients' # {} => clients # {}
  BY <1>0, UpdateClientEffect
<1>2. ServerTypeOK'
  <2>1. current' \in {0} \cup {e.id : e \in clients'}
    BY <1>1
  <2> QED
    BY <1>0, <1>1, <2>1, TypeParts, TypePartsNext
<1>3. TimerArmed'
  <2>1. /\ Cardinality(clients) \in Nat /\ Cardinality(clients') \in Nat
        /\ n_clients \in Nat
    BY <1>0, <1>1, FS_CardinalityType, TypeParts
  <2> QED
    BY <1>0, <1>1, <2>1 DEF TimerArmed
<1>4. SocketsHaveClients'
  BY <1>0, <1>1 DEF SocketsHaveClients, Entries
<1>5. SenderKnown'
  BY <1>0, <1>1 DEF SenderKnown
<1> QED
  BY <1>1, <1>2, <1>3, <1>4, <1>5 DEF ServerInv

-----------------------------------------------------------------------------
(* One lemma per handler.                                                    *)

(* What every request leaves: a sender, and a size.                           *)
LEMMA GotRrqEffect ==
    ASSUME TftpInv, NEW c \in Peer, GotRrq(c)
    PROVE  /\ their_addr' = c /\ st_size' \in {"ok", "large"}
           /\ current = 0 /\ srv = "up"
           /\ ports \in 0..NPort /\ ports + 1 \in Port
           /\ ScalarTypeOK
           /\ fdtab \in [Fd -> Descriptor]
<1>1. ScalarTypeOK /\ fdtab \in [Fd -> Descriptor]
  BY TypeParts DEF TftpInv, ServerInv
<1>2. ports \in 0..NPort /\ ports < NPort
  BY <1>1 DEF ScalarTypeOK, GotRrq
<1>3. ports + 1 \in Port
  BY <1>2, TftpAssumption DEF Port
<1>4. kind[wants[c]] \in {"regular", "large", "missing"} /\ st_size \in {"ok", "large"}
  BY <1>1, TftpAssumption DEF ScalarTypeOK
<1>5. st_size' \in {"ok", "large"}
  BY <1>4 DEF GotRrq
<1> QED
  BY <1>1, <1>2, <1>3, <1>5 DEF GotRrq, Up

(* The clients' part of the invariant after a datagram was sent, or none.     *)
LEMMA SendKeepsPeers ==
    ASSUME PeerTypeOK, UNCHANGED peerVars,
           NEW d \in Msg, msgs' = msgs \/ msgs' = msgs \cup {d}
    PROVE  PeerTypeOK'
  BY DEF PeerTypeOK, peerVars

(* A request for a file that is too large, or that stale state says is.       *)
LEMMA RrqTooLargeStep ==
    ASSUME TftpInv, NEW c \in Peer, RrqTooLarge(c), UNCHANGED peerVars
    PROVE  TftpInv'
<1> USE DEF TftpInv
<1>0. GotRrq(c) /\ UNCHANGED <<fd, block_num, send_data, current, finished, retx>>
  BY DEF RrqTooLarge
<1>1. /\ their_addr' = c /\ st_size' \in {"ok", "large"}
      /\ current = 0 /\ srv = "up"
      /\ ports \in 0..NPort /\ ports + 1 \in Port
      /\ ScalarTypeOK /\ fdtab \in [Fd -> Descriptor]
  BY <1>0, GotRrqEffect
<1>2. CASE FreeFd = {}
  <2>1. NoSocket /\ UNCHANGED fdtab
    BY <1>2 DEF RrqTooLarge
  <2>2. ScalarTypeOK'
    BY <1>0, <1>1, <2>1 DEF ScalarTypeOK, NoSocket
  <2>3. ServerInv'
    BY <1>0, <1>1, <2>1, <2>2, QuietStep DEF NoSocket
  <2>4. PeerTypeOK'
    BY <2>1 DEF NoSocket, PeerTypeOK, peerVars
  <2> QED
    BY <2>3, <2>4
<1>3. CASE FreeFd # {}
  <2>1. /\ new_fd' = Min(FreeFd)
        /\ ports' = ports + 1
        /\ msgs' = msgs \cup {TooLarge(ports', c)}
        /\ IF send_data
           THEN NewClient(fdtab, fd, block_num)
           ELSE UNCHANGED <<fdtab, read_fds, clients, n_clients>>
        /\ UNCHANGED srv
    BY <1>3 DEF RrqTooLarge
  <2>2. new_fd' \in Fd
    <3>1. FreeFd \subseteq Fd
      BY DEF FreeFd
    <3> QED
      BY <1>3, <2>1, <3>1, MinFree
  <2>3. ports' \in Port /\ ports' \in 0..NPort
    BY <1>1, <2>1 DEF Port
  <2>4. ScalarTypeOK'
    BY <1>0, <1>1, <2>1, <2>2, <2>3 DEF ScalarTypeOK
  <2>5. ServerInv'
    <3>1. CASE send_data
      <4>1. fd \in Fd \cup {-1} /\ block_num \in BlockNum
        BY <1>1 DEF ScalarTypeOK
      <4> QED
        BY <1>0, <1>1, <2>1, <2>2, <2>3, <2>4, <3>1, <4>1, NewClientStep
    <3>2. CASE ~ send_data
      BY <1>0, <1>1, <2>1, <2>4, <3>2, QuietStep
    <3> QED
      BY <3>1, <3>2
  <2>6. PeerTypeOK'
    BY <2>1, <2>3, SendKeepsPeers, DatagramTypes
  <2> QED
    BY <2>5, <2>6
<1> QED
  BY <1>2, <1>3

(* A request whose file cannot be opened.                                     *)
LEMMA RrqNoFileStep ==
    ASSUME TftpInv, NEW c \in Peer, RrqNoFile(c), UNCHANGED peerVars
    PROVE  TftpInv'
<1> USE DEF TftpInv
<1>1. GotRrq(c) /\ fd' = -1
      /\ UNCHANGED <<msgs, fdtab, ports, read_fds, clients, n_clients, new_fd, block_num,
                     send_data, current, srv, finished, retx>>
  BY DEF RrqNoFile
<1>2. their_addr' = c /\ st_size' \in {"ok", "large"} /\ current = 0 /\ ScalarTypeOK
  BY <1>1, GotRrqEffect
<1>3. ScalarTypeOK'
  BY <1>1, <1>2 DEF ScalarTypeOK
<1>4. ServerInv'
  BY <1>1, <1>2, <1>3, QuietStep
<1>5. PeerTypeOK'
  BY <1>1 DEF PeerTypeOK, peerVars
<1> QED
  BY <1>4, <1>5

(* A table in which a free descriptor has become a file.                      *)
LEMMA OpenFile ==
    ASSUME TftpInv, FreeFd # {}, NEW f \in File
    PROVE  /\ Min(FreeFd) \in Fd
           /\ fdtab[Min(FreeFd)].kind = "free"
           /\ [fdtab EXCEPT ![Min(FreeFd)] = FileAt(f)] \in [Fd -> Descriptor]
           /\ \A i \in Fd :
                [fdtab EXCEPT ![Min(FreeFd)] = FileAt(f)][i].kind = "sock" <=> fdtab[i].kind = "sock"
<1>1. FreeFd \subseteq Fd
  BY DEF FreeFd
<1>2. Min(FreeFd) \in FreeFd
  BY <1>1, MinFree
<1> DEFINE k == Min(FreeFd)
<1> HIDE DEF k
<1>3. k \in Fd /\ fdtab[k] = Free
  BY <1>1, <1>2 DEF FreeFd, k
<1>4. fdtab \in [Fd -> Descriptor]
  BY TypeParts DEF TftpInv, ServerInv
<1>5. FileAt(f) \in Descriptor /\ FileAt(f).kind = "file" /\ Free.kind = "free"
  BY DEF Descriptor, FileAt, Free
<1>6. /\ [fdtab EXCEPT ![k] = FileAt(f)] \in [Fd -> Descriptor]
      /\ \A i \in Fd : [fdtab EXCEPT ![k] = FileAt(f)][i].kind = "sock" <=> fdtab[i].kind = "sock"
  BY <1>3, <1>4, <1>5
<1> QED
  BY <1>3, <1>5, <1>6 DEF k

(* A request for an empty file, which stays open.                             *)
LEMMA RrqEmptyStep ==
    ASSUME TftpInv, NEW c \in Peer, RrqEmpty(c), UNCHANGED peerVars
    PROVE  TftpInv'
<1> USE DEF TftpInv
<1>1. /\ GotRrq(c) /\ FreeFd # {} /\ fd' = Min(FreeFd)
      /\ fdtab' = [fdtab EXCEPT ![fd'] = FileAt(wants[c])]
      /\ block_num' = 1
      /\ UNCHANGED <<msgs, ports, read_fds, clients, n_clients, new_fd, send_data,
                     current, srv, finished, retx>>
  BY DEF RrqEmpty
<1>2. their_addr' = c /\ st_size' \in {"ok", "large"} /\ current = 0 /\ ScalarTypeOK
  BY <1>1, GotRrqEffect
<1>3. wants[c] \in File /\ 1 \in BlockNum
  BY TftpAssumption DEF BlockNum
<1>4. /\ fd' \in Fd /\ fdtab' \in [Fd -> Descriptor]
      /\ \A i \in Fd : fdtab'[i].kind = "sock" <=> fdtab[i].kind = "sock"
  BY <1>1, <1>3, OpenFile
<1>5. ScalarTypeOK'
  BY <1>1, <1>2, <1>3, <1>4 DEF ScalarTypeOK
<1>6. ServerInv'
  <2>1. ServerTypeOK'
    BY <1>1, <1>2, <1>4, <1>5, TypeParts, TypePartsNext DEF ServerInv
  <2>2. IsFiniteSet(clients)' /\ TimerArmed' /\ SenderKnown'
    BY <1>1, <1>2 DEF ServerInv, TimerArmed, SenderKnown
  <2>3. SocketsHaveClients'
    <3>1. {i \in Fd : fdtab'[i].kind = "sock"} = {i \in Fd : fdtab[i].kind = "sock"}
      BY <1>4
    <3> QED
      BY <1>1, <3>1 DEF ServerInv, SocketsHaveClients, Entries
  <2> QED
    BY <2>1, <2>2, <2>3 DEF ServerInv
<1>7. PeerTypeOK'
  BY <1>1 DEF PeerTypeOK, peerVars
<1> QED
  BY <1>6, <1>7

(* A request that is served: its file, its socket and its first block.        *)
LEMMA RrqDataStep ==
    ASSUME TftpInv, NEW c \in Peer, RrqData(c), UNCHANGED peerVars
    PROVE  TftpInv'
<1> USE DEF TftpInv
<1> DEFINE tab == [fdtab EXCEPT ![fd'] = FileAt(wants[c])]
<1>1. /\ GotRrq(c) /\ FreeFd # {} /\ fd' = Min(FreeFd)
      /\ block_num' = 1 /\ send_data' = TRUE
      /\ UNCHANGED <<current, finished, retx>>
      /\ IF FreeFd = {fd'}
         THEN NoSocket /\ fdtab' = tab
         ELSE /\ new_fd' = Min(FreeFd \ {fd'})
              /\ ports' = ports + 1
              /\ msgs' = msgs \cup {Data(ports', c, 1, <<wants[c], 1>>)}
              /\ NewClient(tab, fd', 1)
              /\ UNCHANGED srv
  BY DEF RrqData
<1>2. /\ their_addr' = c /\ st_size' \in {"ok", "large"} /\ current = 0 /\ ScalarTypeOK
      /\ ports \in 0..NPort /\ ports + 1 \in Port
  BY <1>1, GotRrqEffect
<1>3. wants[c] \in File /\ 1 \in BlockNum /\ <<wants[c], 1>> \in Block
  BY TftpAssumption DEF BlockNum, Block
<1>4. /\ fd' \in Fd /\ tab \in [Fd -> Descriptor]
      /\ \A i \in Fd : tab[i].kind = "sock" <=> fdtab[i].kind = "sock"
  BY <1>1, <1>3, OpenFile
<1> HIDE DEF tab
<1>5. CASE FreeFd = {fd'}
  <2>1. NoSocket /\ fdtab' = tab
    BY <1>1, <1>5
  <2>2. ScalarTypeOK'
    BY <1>1, <1>2, <1>3, <1>4, <2>1 DEF ScalarTypeOK, NoSocket
  <2>3. ServerTypeOK'
    BY <1>1, <1>2, <1>4, <2>1, <2>2, TypeParts, TypePartsNext DEF ServerInv, NoSocket
  <2>4. IsFiniteSet(clients)' /\ TimerArmed' /\ SenderKnown'
    BY <1>2, <2>1 DEF ServerInv, TimerArmed, SenderKnown, NoSocket
  <2>5. SocketsHaveClients'
    <3>1. {i \in Fd : fdtab'[i].kind = "sock"} = {i \in Fd : fdtab[i].kind = "sock"}
      BY <1>4, <2>1
    <3> QED
      BY <2>1, <3>1 DEF ServerInv, SocketsHaveClients, Entries, NoSocket
  <2>6. PeerTypeOK'
    BY <2>1 DEF PeerTypeOK, peerVars, NoSocket
  <2> QED
    BY <2>3, <2>4, <2>5, <2>6 DEF ServerInv
<1>6. CASE FreeFd # {fd'}
  <2>1. /\ new_fd' = Min(FreeFd \ {fd'})
        /\ ports' = ports + 1
        /\ msgs' = msgs \cup {Data(ports', c, 1, <<wants[c], 1>>)}
        /\ NewClient(tab, fd', 1)
        /\ UNCHANGED srv
    BY <1>1, <1>6
  <2>2. new_fd' \in Fd
    <3>1. FreeFd \ {fd'} \subseteq Fd /\ FreeFd \ {fd'} # {}
      BY <1>1, <1>6 DEF FreeFd
    <3>2. Min(FreeFd \ {fd'}) \in FreeFd \ {fd'}
      BY <3>1, MinFree
    <3> QED
      BY <2>1, <3>1, <3>2
  <2>3. ports' \in Port /\ ports' \in 0..NPort
    BY <1>2, <2>1 DEF Port
  <2>4. ScalarTypeOK'
    BY <1>1, <1>2, <1>3, <1>4, <2>1, <2>2, <2>3 DEF ScalarTypeOK
  <2>5. ServerInv'
    BY <1>1, <1>2, <1>3, <1>4, <2>1, <2>2, <2>3, <2>4, NewClientStep
  <2>6. PeerTypeOK'
    BY <1>3, <2>1, <2>3, SendKeepsPeers, DatagramTypes
  <2> QED
    BY <2>5, <2>6
<1> QED
  BY <1>5, <1>6

(* What every datagram on the socket of a transfer leaves: a sender, and what *)
(* the list finds for the socket.                                             *)
LEMMA GotFromEffect ==
    ASSUME TftpInv, NEW i \in Fd, NEW m \in msgs, GotFrom(i, m)
    PROVE  /\ their_addr' = m.from /\ m.from \in Peer
           /\ m.port \in Port /\ fdtab[i].port = m.port /\ fdtab[i].kind = "sock"
           /\ m.type = "ACK" => m.num \in BlockNum
           /\ i \in read_fds /\ i # sockfd
           /\ current = 0
           /\ find_client(i) \in Fd \cup {-1}
           /\ ScalarTypeOK
<1>1. m \in Msg
  BY DEF TftpInv, PeerTypeOK
<1>2. m.type \in {"ACK", "ERR"} /\ m.port = fdtab[i].port /\ their_addr' = m.from
  BY DEF GotFrom
<1>3. /\ m.from \in Peer /\ m.port \in Port
      /\ m.type = "ACK" => m.num \in BlockNum
  BY <1>1, <1>2, DatagramFields
<1>4. find_client(i) \in Fd \cup {-1} /\ ScalarTypeOK
  BY FindClientType, TypeParts DEF TftpInv, ServerInv
<1> QED
  BY <1>2, <1>3, <1>4 DEF GotFrom, Up

(* An ACK that is answered with a block.                                      *)
LEMMA AckMoreStep ==
    ASSUME TftpInv, NEW i \in Fd, NEW m \in msgs, AckMore(i, m), UNCHANGED peerVars
    PROVE  TftpInv'
<1> USE DEF TftpInv
<1>1. /\ GotFrom(i, m) /\ m.type = "ACK"
      /\ fd' = find_client(i)
      /\ ReadAt(fd', m.num).res = "data"
      /\ block_num' = (m.num + 1) % BLOCK_MOD
      /\ msgs' = msgs \cup {Data(fdtab[i].port, m.from, block_num', ReadAt(fd', m.num).block)}
      /\ clients' = update_client(new_fd, block_num')
      /\ UNCHANGED <<fdtab, ports, read_fds, n_clients, new_fd, send_data, st_size,
                     current, srv, finished, retx>>
  BY DEF AckMore
<1>2. /\ their_addr' = m.from /\ m.from \in Peer /\ m.num \in BlockNum
      /\ fdtab[i].port \in Port /\ current = 0 /\ fd' \in Fd \cup {-1} /\ ScalarTypeOK
  BY <1>1, GotFromEffect
<1>3. block_num' \in BlockNum
  BY <1>1, <1>2, TftpAssumption DEF BlockNum
<1>4. ReadAt(fd', m.num).block \in Block
  BY <1>1, <1>2, ReadAtEffect DEF ServerInv
<1>5. ScalarTypeOK'
  BY <1>1, <1>2, <1>3 DEF ScalarTypeOK
<1>6. ServerInv'
  BY <1>1, <1>2, <1>3, <1>5, UpdateStep
<1>7. PeerTypeOK'
  BY <1>1, <1>2, <1>3, <1>4, SendKeepsPeers, DatagramTypes
<1> QED
  BY <1>6, <1>7

(* The ACK of the last block.  The file that is closed is one: reading a       *)
(* socket in its place would not have returned.                               *)
LEMMA AckLastStep ==
    ASSUME TftpInv, NEW i \in Fd, NEW m \in msgs, AckLast(i, m), UNCHANGED peerVars
    PROVE  TftpInv'
<1> USE DEF TftpInv
<1>1. /\ GotFrom(i, m) /\ m.type = "ACK"
      /\ fd' = find_client(i)
      /\ ReadAt(fd', m.num).res = "eof"
      /\ block_num' = m.num
      /\ clients' = remove_client(i)
      /\ n_clients' = n_clients - 1
      /\ fdtab' = [fdtab EXCEPT ![fd'] = Free, ![i] = Free]
      /\ read_fds' = read_fds \ {i}
      /\ finished' = finished \cup {m.port}
      /\ UNCHANGED <<msgs, ports, new_fd, send_data, st_size, current, srv, retx>>
  BY DEF AckLast
<1>2. /\ their_addr' = m.from /\ m.from \in Peer /\ m.num \in BlockNum /\ m.port \in Port
      /\ fdtab[i].kind = "sock" /\ i \in read_fds /\ i # sockfd
      /\ current = 0 /\ fd' \in Fd \cup {-1} /\ ScalarTypeOK
  BY <1>1, GotFromEffect
<1>3. fd' \in Fd /\ fdtab[fd'].kind = "file"
  BY <1>1, <1>2, ReadAtEffect DEF ServerInv
<1>4. /\ ServerTypeOK /\ IsFiniteSet(clients) /\ TimerArmed /\ SocketsHaveClients
      /\ fdtab \in [Fd -> Descriptor] /\ n_clients \in Nat
      /\ read_fds \subseteq {sockfd} \cup Fd /\ \A e \in clients : e \in Client
  BY TypeParts DEF ServerInv
<1>5. clients' = clients \ Entries(i) /\ Entries(i) \subseteq clients /\ Entries(i) # {}
  BY <1>1, <1>2, <1>4 DEF remove_client, SocketsHaveClients, Entries
<1>6. /\ IsFiniteSet(clients') /\ Cardinality(clients') < Cardinality(clients)
      /\ Cardinality(clients) \in Nat /\ Cardinality(clients') \in Nat
  BY <1>4, <1>5, FS_Subset, FS_CardinalityType
<1>7. TimerArmed' /\ n_clients' \in Nat
  BY <1>1, <1>4, <1>6 DEF TimerArmed
<1>8. Free \in Descriptor /\ Free.kind = "free"
  BY DEF Free, Descriptor
<1>9. /\ fdtab' \in [Fd -> Descriptor]
      /\ \A j \in Fd : fdtab'[j].kind = "sock" <=> (fdtab[j].kind = "sock" /\ j # i)
  BY <1>1, <1>3, <1>4, <1>8
<1>10. ScalarTypeOK'
  BY <1>1, <1>2, <1>3 DEF ScalarTypeOK
<1>11. ServerTypeOK'
  BY <1>1, <1>2, <1>4, <1>5, <1>7, <1>9, <1>10, TypePartsNext
<1>12. SocketsHaveClients'
  <2>1. read_fds' = {sockfd} \cup {j \in Fd : fdtab'[j].kind = "sock"}
    BY <1>1, <1>2, <1>4, <1>9 DEF SocketsHaveClients
  <2>2. \A j \in read_fds' \ {sockfd} : \E e \in clients' : e.sockfd = j
    BY <1>1, <1>4, <1>5 DEF SocketsHaveClients, Entries
  <2> QED
    BY <2>1, <2>2 DEF SocketsHaveClients, Entries
<1>13. SenderKnown'
  BY <1>2 DEF SenderKnown
<1>14. PeerTypeOK'
  BY <1>1 DEF PeerTypeOK, peerVars
<1> QED
  BY <1>6, <1>7, <1>11, <1>12, <1>13, <1>14 DEF ServerInv

(* An ACK after which read() fails or does not return.                        *)
LEMMA AckStuckStep ==
    ASSUME TftpInv, NEW i \in Fd, NEW m \in msgs, AckStuck(i, m), UNCHANGED peerVars
    PROVE  TftpInv'
<1> USE DEF TftpInv
<1>1. /\ GotFrom(i, m) /\ m.type = "ACK"
      /\ fd' = find_client(i) /\ block_num' = m.num
      /\ srv' \in {"hung", srv}
      /\ UNCHANGED <<msgs, fdtab, ports, read_fds, clients, n_clients, new_fd, send_data,
                     st_size, current, finished, retx>>
  BY DEF AckStuck
<1>2. /\ their_addr' = m.from /\ m.from \in Peer /\ m.num \in BlockNum
      /\ current = 0 /\ fd' \in Fd \cup {-1} /\ ScalarTypeOK
  BY <1>1, GotFromEffect
<1>3. ScalarTypeOK'
  BY <1>1, <1>2 DEF ScalarTypeOK
<1>4. ServerInv'
  BY <1>1, <1>2, <1>3, QuietStep
<1>5. PeerTypeOK'
  BY <1>1 DEF PeerTypeOK, peerVars
<1> QED
  BY <1>4, <1>5

(* A datagram that is ignored.                                                *)
LEMMA IgnoredStep ==
    ASSUME TftpInv, NEW i \in Fd, NEW m \in msgs, Ignored(i, m), UNCHANGED peerVars
    PROVE  TftpInv'
<1> USE DEF TftpInv
<1>1. /\ GotFrom(i, m)
      /\ UNCHANGED <<msgs, fdtab, ports, read_fds, clients, n_clients, new_fd, fd, block_num,
                     send_data, st_size, current, srv, finished, retx>>
  BY DEF Ignored
<1>2. their_addr' = m.from /\ m.from \in Peer /\ current = 0 /\ ScalarTypeOK
  BY <1>1, GotFromEffect
<1>3. ScalarTypeOK'
  BY <1>1, <1>2 DEF ScalarTypeOK
<1>4. ServerInv'
  BY <1>1, <1>2, <1>3, QuietStep
<1>5. PeerTypeOK'
  BY <1>1 DEF PeerTypeOK, peerVars
<1> QED
  BY <1>4, <1>5

(* A socket closed because recvfrom() failed: its entry stays in the list.     *)
LEMMA RecvFailsStep ==
    ASSUME TftpInv, NEW i \in Fd, RecvFails(i), UNCHANGED peerVars
    PROVE  TftpInv'
<1> USE DEF TftpInv
<1>1. /\ Up /\ i \in read_fds \ {sockfd}
      /\ fdtab' = [fdtab EXCEPT ![i] = Free]
      /\ read_fds' = read_fds \ {i}
      /\ UNCHANGED <<msgs, ports, clients, n_clients, new_fd, fd, block_num, send_data,
                     st_size, their_addr, current, srv, finished, retx>>
  BY DEF RecvFails
<1>2. /\ ScalarTypeOK /\ fdtab \in [Fd -> Descriptor] /\ SocketsHaveClients
      /\ read_fds \subseteq {sockfd} \cup Fd
      /\ \A e \in clients : e \in Client
      /\ n_clients \in Nat /\ current \in {0} \cup {e.id : e \in clients}
  BY TypeParts DEF ServerInv
<1>3. Free \in Descriptor /\ Free.kind = "free"
  BY DEF Free, Descriptor
<1>4. /\ fdtab' \in [Fd -> Descriptor]
      /\ \A j \in Fd : fdtab'[j].kind = "sock" <=> (fdtab[j].kind = "sock" /\ j # i)
  BY <1>1, <1>2, <1>3
<1>5. ScalarTypeOK'
  BY <1>1, <1>2 DEF ScalarTypeOK
<1>6. ServerTypeOK'
  BY <1>1, <1>2, <1>4, <1>5, TypePartsNext
<1>7. SocketsHaveClients'
  BY <1>1, <1>2, <1>4 DEF SocketsHaveClients, Entries
<1>8. IsFiniteSet(clients)' /\ TimerArmed' /\ SenderKnown'
  BY <1>1 DEF ServerInv, TimerArmed, SenderKnown
<1>9. PeerTypeOK'
  BY <1>1 DEF PeerTypeOK, peerVars
<1> QED
  BY <1>6, <1>7, <1>8, <1>9 DEF ServerInv

-----------------------------------------------------------------------------
(* The pass after a timeout.                                                  *)

(* The entry the pass has come to is in the list, and the next one as well.    *)
LEMMA PassEffect ==
    ASSUME TftpInv, current > 0
    PROVE  Entry \in clients /\ NextClient \in {0} \cup {e.id : e \in clients}
<1>1. /\ current \in {0} \cup {e.id : e \in clients} /\ IsFiniteSet(clients)
      /\ \A e \in clients : e \in Client
  BY TypeParts DEF TftpInv, ServerInv
<1>2. \E e \in clients : e.id = current
  BY <1>1
<1>3. Entry \in clients
  BY <1>2 DEF Entry
<1> DEFINE rest == Behind(clients, Entry)
<1>4. rest \subseteq clients /\ IsFiniteSet(rest) /\ \A e \in rest : e.id \in Int
  <2>1. rest \subseteq clients
    BY DEF Behind
  <2> QED
    BY <1>1, <2>1, FS_Subset DEF Client
<1>5. NextClient = IF rest = {} THEN 0 ELSE First(rest).id
  BY DEF NextClient
<1> HIDE DEF rest
<1>6. rest # {} => First(rest) \in rest
  BY <1>4, FirstProperties
<1> QED
  BY <1>3, <1>4, <1>5, <1>6

(* A pass begins.                                                             *)
LEMMA TimeoutStep ==
    ASSUME TftpInv, Timeout, UNCHANGED peerVars
    PROVE  TftpInv'
<1> USE DEF TftpInv
<1>1. /\ clients # {} /\ current' = First(clients).id
      /\ UNCHANGED <<msgs, fdtab, ports, read_fds, clients, n_clients, new_fd, fd, block_num,
                     send_data, st_size, their_addr, srv, finished, retx>>
  BY DEF Timeout
<1>2. ScalarTypeOK /\ IsFiniteSet(clients) /\ \A e \in clients : e.id \in Int
  BY TypeParts DEF ServerInv, Client
<1>3. First(clients) \in clients
  BY <1>1, <1>2, FirstProperties
<1>4. ScalarTypeOK'
  BY <1>1, <1>2 DEF ScalarTypeOK
<1>5. ServerInv'
  BY <1>1, <1>3, <1>4, QuietStep
<1>6. PeerTypeOK'
  BY <1>1 DEF PeerTypeOK, peerVars
<1> QED
  BY <1>5, <1>6

(* A client is passed by.                                                     *)
LEMMA NotYetStep ==
    ASSUME TftpInv, NotYet, UNCHANGED peerVars
    PROVE  TftpInv'
<1> USE DEF TftpInv
<1>1. /\ current > 0 /\ current' = NextClient
      /\ UNCHANGED <<msgs, fdtab, ports, read_fds, clients, n_clients, new_fd, fd, block_num,
                     send_data, st_size, their_addr, srv, finished, retx>>
  BY DEF NotYet
<1>2. ScalarTypeOK'
  BY <1>1, TypeParts DEF ServerInv, ScalarTypeOK
<1>3. current' \in {0} \cup {e.id : e \in clients}
  BY <1>1, PassEffect
<1>4. ServerInv'
  BY <1>1, <1>2, <1>3, QuietStep
<1>5. PeerTypeOK'
  BY <1>1 DEF PeerTypeOK, peerVars
<1> QED
  BY <1>4, <1>5

(* A client is retransmitted to, as far as its descriptors allow.             *)
LEMMA RetransmitStep ==
    ASSUME TftpInv, Retransmit, UNCHANGED peerVars
    PROVE  TftpInv'
<1> USE DEF TftpInv
<1> DEFINE e == Entry
           r == ReadAt(e.filefd, e.block_num)
<1>1. /\ current > 0 /\ retx < MaxRetx /\ retx' = retx + 1
      /\ fd' = e.filefd /\ block_num' = e.block_num
      /\ UNCHANGED <<fdtab, ports, read_fds, n_clients, new_fd, send_data, st_size,
                     their_addr, finished>>
      /\ IF r.res = "hang"
         THEN srv' = "hung" /\ UNCHANGED <<msgs, clients, current>>
         ELSE /\ msgs' = IF r.res # "error" /\ fdtab[e.sockfd].kind = "sock"
                         THEN msgs \cup {Data(fdtab[e.sockfd].port, their_addr,
                                              e.block_num, r.block)}
                         ELSE msgs
              /\ clients' = IF fdtab[e.sockfd].kind = "sock"
                            THEN update_client(new_fd, e.block_num)
                            ELSE clients
              /\ current' = NextClient
              /\ UNCHANGED srv
  BY DEF Retransmit
<1>2. e \in clients /\ NextClient \in {0} \cup {k.id : k \in clients}
  BY <1>1, PassEffect
<1>3. /\ ScalarTypeOK /\ ServerTypeOK
      /\ current \in {0} \cup {k.id : k \in clients}
      /\ e.sockfd \in Fd /\ e.filefd \in Fd \cup {-1} /\ e.block_num \in BlockNum
  BY <1>2, TypeParts DEF ServerInv, Client
<1>4. their_addr \in Peer
  BY <1>2 DEF ServerInv, SenderKnown
<1> HIDE DEF e
<1>5. /\ r.res \in {"error", "hang", "eof", "data"}
      /\ r.res \in {"eof", "data"} => r.block \in Block
  BY <1>3, ReadAtEffect
<1> HIDE DEF r
<1>6. ScalarTypeOK'
  BY <1>1, <1>3, TftpAssumption DEF ScalarTypeOK
<1>7. CASE r.res = "hang"
  <2>1. UNCHANGED <<msgs, clients, current>>
    BY <1>1, <1>7
  <2>2. ServerInv'
    BY <1>1, <1>3, <1>6, <2>1, QuietStep
  <2>3. PeerTypeOK'
    BY <2>1 DEF PeerTypeOK, peerVars
  <2> QED
    BY <2>2, <2>3
<1>8. CASE r.res # "hang" /\ fdtab[e.sockfd].kind = "sock"
  <2>1. clients' = update_client(new_fd, e.block_num) /\ current' = NextClient
    BY <1>1, <1>8
  <2>2. ServerInv'
    BY <1>1, <1>2, <1>3, <1>6, <2>1, UpdateStep
  <2>3. PeerTypeOK'
    <3>1. CASE r.res = "error"
      <4>1. msgs' = msgs
        BY <1>1, <1>8, <3>1
      <4> QED
        BY <4>1 DEF PeerTypeOK, peerVars
    <3>2. CASE r.res # "error"
      <4>1. msgs' = msgs \cup {Data(fdtab[e.sockfd].port, their_addr, e.block_num, r.block)}
        BY <1>1, <1>8, <3>2
      <4>2. fdtab[e.sockfd].port \in Port
        BY <1>3, <1>8, DescriptorKinds
      <4>3. r.block \in Block
        BY <1>5, <1>8, <3>2
      <4> QED
        BY <1>3, <1>4, <4>1, <4>2, <4>3, SendKeepsPeers, DatagramTypes
    <3> QED
      BY <3>1, <3>2
  <2> QED
    BY <2>2, <2>3
<1>9. CASE r.res # "hang" /\ fdtab[e.sockfd].kind # "sock"
  <2>1. msgs' = msgs /\ clients' = clients /\ current' = NextClient
    BY <1>1, <1>9
  <2>2. ServerInv'
    BY <1>1, <1>2, <1>6, <2>1, QuietStep
  <2>3. PeerTypeOK'
    BY <2>1 DEF PeerTypeOK, peerVars
  <2> QED
    BY <2>2, <2>3
<1> QED
  BY <1>7, <1>8, <1>9

-----------------------------------------------------------------------------
(* Clients and network.                                                       *)

(* A step of a client.                                                        *)
LEMMA PeerStepInv ==
    ASSUME TftpInv, NEW c \in Peer, PeerStep(c), UNCHANGED serverVars
    PROVE  TftpInv'
<1> USE DEF TftpInv
<1>1. ServerInv'
  <2>1. UNCHANGED <<fdtab, ports, read_fds, clients, n_clients, new_fd, fd, block_num,
                    send_data, st_size, their_addr, current, srv, finished, retx>>
    BY DEF serverVars
  <2>2. ScalarTypeOK'
    BY <2>1, TypeParts DEF ServerInv, ScalarTypeOK
  <2>3. current' \in {0} \cup {e.id : e \in clients}
    BY <2>1, TypeParts DEF ServerInv
  <2> QED
    BY <2>1, <2>2, <2>3, QuietStep
<1>2. /\ \A m \in msgs : m \in Msg
      /\ cst \in [Peer -> {"idle", "wait", "done", "error"}]
      /\ tid \in [Peer -> Port \cup {0}]
      /\ got \in [Peer -> Seq(Block)]
  BY DEF PeerTypeOK
<1>3. ASSUME Request(c)
      PROVE  PeerTypeOK'
  <2>1. Rrq(c) \in Msg
    BY DatagramTypes
  <2> QED
    BY <1>2, <1>3, <2>1 DEF Request, PeerTypeOK
<1>4. ASSUME NEW m \in msgs, Accept(c, m)
      PROVE  PeerTypeOK'
  <2>1. m.port \in Port /\ m.num \in BlockNum /\ m.block \in Block
    BY <1>2, <1>4, DatagramFields DEF Accept
  <2>2. Ack(c, m.port, m.num) \in Msg
    BY <2>1, DatagramTypes
  <2>3. tid' \in [Peer -> Port \cup {0}]
    BY <1>2, <1>4, <2>1 DEF Accept
  <2>4. Append(got[c], m.block) \in Seq(Block)
    BY <1>2, <2>1
  <2>5. got' \in [Peer -> Seq(Block)]
    BY <1>2, <1>4, <2>4 DEF Accept
  <2>6. cst' \in [Peer -> {"idle", "wait", "done", "error"}]
    BY <1>2, <1>4 DEF Accept
  <2>7. \A d \in msgs' : d \in Msg
    BY <1>2, <1>4, <2>2 DEF Accept
  <2> QED
    BY <2>3, <2>5, <2>6, <2>7 DEF PeerTypeOK
<1>5. ASSUME NEW m \in msgs, WrongPort(c, m)
      PROVE  PeerTypeOK'
  <2>1. m.port \in Port
    BY <1>2, <1>5, DatagramFields DEF WrongPort
  <2> QED
    BY <1>5, <2>1, SendKeepsPeers, DatagramTypes DEF WrongPort
<1>6. ASSUME NEW m \in msgs, GiveUp(c, m)
      PROVE  PeerTypeOK'
  BY <1>2, <1>6 DEF GiveUp, PeerTypeOK
<1>7. PeerTypeOK'
  <2>1. Request(c) \/ \E m \in msgs : Accept(c, m) \/ WrongPort(c, m) \/ GiveUp(c, m)
    BY DEF PeerStep
  <2> QED
    BY <1>3, <1>4, <1>5, <1>6, <2>1
<1> QED
  BY <1>1, <1>7

(* The beginning.                                                             *)
LEMMA InitTftpInv == Init => TftpInv
<1> SUFFICES ASSUME Init
             PROVE  TftpInv
  OBVIOUS
<1>1. PeerTypeOK
  BY DEF Init, PeerInit, PeerTypeOK
<1>2. /\ fdtab = [i \in Fd |-> Free] /\ clients = {} /\ n_clients = 0 /\ read_fds = {sockfd}
      /\ current = 0
  BY DEF Init, ServerInit
<1>3. ScalarTypeOK
  <2>1. /\ ports = 0 /\ new_fd = -1 /\ fd = -1 /\ block_num = 0 /\ retx = 0
        /\ send_data = FALSE /\ st_size \in {"ok", "large"} /\ their_addr = NoPeer
        /\ srv = "up" /\ finished = {}
    BY DEF Init, ServerInit
  <2>2. 0 \in 0..NPort /\ 0 \in BlockNum /\ 0 \in 0..MaxRetx
    BY TftpAssumption DEF BlockNum
  <2> QED
    BY <2>1, <2>2 DEF ScalarTypeOK
<1>4. ServerTypeOK
  BY <1>2, <1>3, TypeParts DEF Descriptor
<1>5. IsFiniteSet(clients) /\ Cardinality(clients) = 0
  BY <1>2, FS_EmptySet
<1>6. TimerArmed /\ SenderKnown
  BY <1>2, <1>5 DEF TimerArmed, SenderKnown
<1>7. SocketsHaveClients
  <2>1. \A i \in Fd : fdtab[i].kind = "free"
    BY <1>2 DEF Free
  <2> QED
    BY <1>2, <2>1 DEF SocketsHaveClients
<1> QED
  BY <1>1, <1>4, <1>5, <1>6, <1>7 DEF TftpInv, ServerInv

(* Every step keeps the invariant.                                            *)
LEMMA NextTftpInv == TftpInv /\ [Next]_vars => TftpInv'
<1> SUFFICES ASSUME TftpInv, [Next]_vars
             PROVE  TftpInv'
  OBVIOUS
<1>1. CASE UNCHANGED peerVars /\ \E c \in Peer : HandleRrq(c)
  BY <1>1, RrqTooLargeStep, RrqNoFileStep, RrqEmptyStep, RrqDataStep DEF HandleRrq
<1>2. CASE UNCHANGED peerVars /\ \E i \in Fd, m \in msgs : Handle(i, m)
  BY <1>2, AckMoreStep, AckLastStep, AckStuckStep, IgnoredStep DEF Handle
<1>3. CASE UNCHANGED peerVars /\ \E i \in Fd : RecvFails(i)
  BY <1>3, RecvFailsStep
<1>4. CASE UNCHANGED peerVars /\ (Timeout \/ NotYet \/ Retransmit)
  BY <1>4, TimeoutStep, NotYetStep, RetransmitStep
<1>5. CASE \E c \in Peer : PeerStep(c) /\ UNCHANGED serverVars
  BY <1>5, PeerStepInv
<1>6. CASE UNCHANGED vars
  <2>1. UNCHANGED <<fdtab, ports, read_fds, clients, n_clients, new_fd, fd, block_num,
                    send_data, st_size, their_addr, current, srv, finished, retx>>
    BY <1>6 DEF vars, serverVars
  <2>2. ScalarTypeOK'
    BY <2>1, TypeParts DEF TftpInv, ServerInv, ScalarTypeOK
  <2>3. current' \in {0} \cup {e.id : e \in clients}
    BY <2>1, TypeParts DEF TftpInv, ServerInv
  <2>4. ServerInv'
    BY <2>1, <2>2, <2>3, QuietStep DEF TftpInv
  <2>5. PeerTypeOK'
    BY <1>6 DEF vars, peerVars, TftpInv, PeerTypeOK
  <2> QED
    BY <2>4, <2>5 DEF TftpInv
<1> QED
  BY <1>1, <1>2, <1>3, <1>4, <1>5, <1>6 DEF Next, ServerStep

-----------------------------------------------------------------------------
(* The strengthening is an invariant.                                         *)
THEOREM TftpInvariant == Spec => []TftpInv
<1>1. Init => TftpInv
  BY InitTftpInv
<1>2. TftpInv /\ [Next]_vars => TftpInv'
  BY NextTftpInv
<1> QED
  BY <1>1, <1>2, PTL DEF Spec

(* Type correctness of the server, its client list and the clients.           *)
THEOREM TftpTypeOK == Spec => []TypeOK
<1>1. TftpInv => TypeOK
  BY DEF TftpInv, ServerInv, TypeOK
<1> QED
  BY <1>1, TftpInvariant, PTL

(* As long as there is a client, select() has a timeout.                      *)
THEOREM TftpTimerArmed == Spec => []TimerArmed
<1>1. TftpInv => TimerArmed
  BY DEF TftpInv, ServerInv
<1> QED
  BY <1>1, TftpInvariant, PTL

(* Every watched socket is open and has a client; every open one is watched.   *)
THEOREM TftpSocketsHaveClients == Spec => []SocketsHaveClients
<1>1. TftpInv => SocketsHaveClients
  BY DEF TftpInv, ServerInv
<1> QED
  BY <1>1, TftpInvariant, PTL
=============================================================================
