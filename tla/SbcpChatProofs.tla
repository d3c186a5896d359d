--------------------------- MODULE SbcpChatProofs ---------------------------
(***************************************************************************)
(* Machine-checked proofs about SbcpChat, for every set of client runs,     *)
(* every assignment of usernames, every number of descriptors, every buffer *)
(* capacity and every max_clients.                                          *)
(***************************************************************************)
EXTENDS SbcpChat, FiniteSetTheorems, SequenceTheorems, WellFoundedInduction, TLAPS

-----------------------------------------------------------------------------
(* Lemmas about the operators.                                              *)

(* A nonempty set of naturals has its minimum among its elements.            *)
LEMMA MinInSet ==
    ASSUME NEW T, T \subseteq Nat, T # {}
    PROVE  Min(T) \in T
<1> DEFINE R == OpToRel(<, Nat)
<1>1. IsWellFoundedOn(R, Nat)
  BY NatLessThanWellFounded
<1>2. PICK x \in T : \A y \in T : <<y, x>> \notin R
  BY <1>1, WFMin
<1>3. \A y \in T : x <= y
  <2> TAKE y \in T
  <2>1. ~ (y < x)
    BY <1>2 DEF OpToRel
  <2> QED
    BY <2>1
<1> QED
  BY <1>3 DEF Min

(* What recv() leaves of a stream: the tail of a packet first, perhaps, and  *)
(* then packets that were not at the head of the stream.                     *)
LEMMA RemaindersProperties ==
    ASSUME NEW T, FragMsg \in T, NEW q \in Seq(T), NEW rest \in Remainders(q)
    PROVE  /\ rest \in Seq(T)
           /\ \A k \in 1..Len(rest) :
                 rest[k] = FragMsg \/ \E j \in 2..Len(q) : rest[k] = q[j]
<1>1. \A k \in 1..Len(q) :
        LET t == SubSeq(q, k + 1, Len(q))
        IN  t \in Seq(T) /\ \A n \in 1..Len(t) : \E j \in 2..Len(q) : t[n] = q[j]
  <2> TAKE k \in 1..Len(q)
  <2> DEFINE t == SubSeq(q, k + 1, Len(q))
  <2>0. k \in Nat /\ Len(q) \in Nat
    BY LenProperties
  <2>1. \A i \in (k + 1)..Len(q) : q[i] \in T
    BY <2>0, ElementOfSeq
  <2>2. /\ t \in Seq(T)
        /\ Len(t) = IF k + 1 <= Len(q) THEN Len(q) - (k + 1) + 1 ELSE 0
        /\ \A i \in 1..(Len(q) - (k + 1) + 1) : t[i] = q[(k + 1) + i - 1]
    BY <2>0, <2>1, SubSeqProperties
  <2>3. ASSUME NEW n \in 1..Len(t)
        PROVE  \E j \in 2..Len(q) : t[n] = q[j]
    <3> HIDE DEF t
    <3>1. n \in 1..(Len(q) - (k + 1) + 1)
      BY <2>0, <2>2
    <3>2. k + n \in 2..Len(q) /\ (k + 1) + n - 1 = k + n
      BY <2>0, <3>1
    <3> QED
      BY <2>2, <3>1, <3>2
  <2> QED
    BY <2>2, <2>3
<1>2. CASE rest \in {SubSeq(q, k + 1, Len(q)) : k \in 1..Len(q)}
  <2>1. PICK k \in 1..Len(q) : rest = SubSeq(q, k + 1, Len(q))
    BY <1>2
  <2> QED
    BY <1>1, <2>1
<1>3. CASE rest \in {<<FragMsg>> \o SubSeq(q, k + 1, Len(q)) : k \in 2..Len(q)}
  <2>1. PICK k \in 2..Len(q) : rest = <<FragMsg>> \o SubSeq(q, k + 1, Len(q))
    BY <1>3
  <2> DEFINE t == SubSeq(q, k + 1, Len(q))
  <2>2. t \in Seq(T) /\ \A n \in 1..Len(t) : \E j \in 2..Len(q) : t[n] = q[j]
    BY <1>1, LenProperties
  <2> HIDE DEF t
  <2>3. <<FragMsg>> \in Seq(T) /\ Len(<<FragMsg>>) = 1 /\ <<FragMsg>>[1] = FragMsg
    OBVIOUS
  <2>4. /\ rest \in Seq(T)
        /\ Len(rest) = 1 + Len(t)
        /\ \A i \in 1..(1 + Len(t)) :
              rest[i] = IF i <= 1 THEN <<FragMsg>>[i] ELSE t[i - 1]
    <3>1. rest = <<FragMsg>> \o t
      BY <2>1 DEF t
    <3> QED
      BY <3>1, <2>2, <2>3, ConcatProperties
  <2>5. ASSUME NEW i \in 1..Len(rest)
        PROVE  rest[i] = FragMsg \/ \E j \in 2..Len(q) : rest[i] = q[j]
    <3>1. Len(t) \in Nat
      BY <2>2, LenProperties
    <3>2. CASE i = 1
      BY <2>3, <2>4, <3>1, <3>2
    <3>3. CASE i # 1
      BY <2>2, <2>4, <3>1, <3>3
    <3> QED
      BY <3>2, <3>3
  <2> QED
    BY <2>4, <2>5
<1> QED
  BY <1>2, <1>3 DEF Remainders

(* The packets and their fields.                                             *)
LEMMA ClientMsgFields ==
    /\ FragMsg \in ClientMsg /\ FragMsg \in ServerMsg
    /\ \A n \in Name : JoinMsg(n) \in ClientMsg
    /\ \A l \in Line : SendMsg(l) \in ClientMsg
    /\ \A m \in ClientMsg : m.type = "JOIN" => m.name \in Name
    /\ \A m \in ClientMsg : m.type = "SEND" => m.line \in Line
    /\ FragMsg.type # "JOIN" /\ \A l \in Line : SendMsg(l).type # "JOIN"
<1>1. FragMsg \in ClientMsg /\ FragMsg \in ServerMsg
  BY DEF ClientMsg, ServerMsg
<1>2. /\ \A n \in Name : JoinMsg(n) \in ClientMsg
      /\ \A l \in Line : SendMsg(l) \in ClientMsg
  BY DEF ClientMsg
<1>3. /\ FragMsg.type = "FRAG"
      /\ \A l : SendMsg(l).type = "SEND" /\ SendMsg(l).line = l
      /\ \A n : JoinMsg(n).type = "JOIN" /\ JoinMsg(n).name = n
  BY DEF FragMsg, SendMsg, JoinMsg
<1>4. ASSUME NEW m \in ClientMsg
      PROVE  \/ \E n \in Name : m = JoinMsg(n)
             \/ \E l \in Line : m = SendMsg(l)
             \/ m = FragMsg
  BY DEF ClientMsg
<1> QED
  BY <1>1, <1>2, <1>3, <1>4

(* The packets of the server: only an ACK is the ACK, and a FWD carries a name *)
(* and a line.                                                               *)
LEMMA ServerMsgFields ==
    /\ AckMsg \in ServerMsg
    /\ \A r \in Reason : NakMsg(r) \in ServerMsg /\ NakMsg(r) # AckMsg
    /\ \A n \in Name, l \in Line : FwdMsg(n, l) \in ServerMsg /\ FwdMsg(n, l) # AckMsg
    /\ \A m \in ServerMsg : m.type = "FWD" => m.name \in Name /\ m.line \in Line
    /\ \A m \in ServerMsg : m.type = "ACK" => m = AckMsg
    /\ FragMsg # AckMsg
<1>1. /\ AckMsg \in ServerMsg
      /\ \A r \in Reason : NakMsg(r) \in ServerMsg
      /\ \A n \in Name, l \in Line : FwdMsg(n, l) \in ServerMsg
  BY DEF ServerMsg
<1>2. /\ FragMsg.type = "FRAG"
      /\ AckMsg.type = "ACK"
      /\ \A r : NakMsg(r).type = "NAK"
      /\ \A n, l : /\ FwdMsg(n, l).type = "FWD"
                   /\ FwdMsg(n, l).name = n
                   /\ FwdMsg(n, l).line = l
  BY DEF FragMsg, AckMsg, NakMsg, FwdMsg
<1>3. ASSUME NEW m \in ServerMsg
      PROVE  \/ m = AckMsg
             \/ \E r \in Reason : m = NakMsg(r)
             \/ \E n \in Name, l \in Line : m = FwdMsg(n, l)
             \/ m = FragMsg
  BY DEF ServerMsg
<1> QED
  BY <1>1, <1>2, <1>3

-----------------------------------------------------------------------------
(* What the helper actions do.                                               *)

(* sendall() appends at most one packet to one stream, opens no connection and *)
(* leaves the server up or killed.                                           *)
LEMMA SendAllEffect ==
    ASSUME NetTypeOK, NEW p \in Proc, NEW m \in ServerMsg, NEW ok \in BOOLEAN,
           SendAll(p, m, ok)
    PROVE  /\ s2c' \in [Proc -> Seq(ServerMsg)]
           /\ net' \in [Proc -> NetState]
           /\ srv' \in {"up", "stopped", "killed"}
           /\ \A q \in Proc : net[q] # "open" => net'[q] # "open"
           /\ s2c' = s2c \/ s2c' = [s2c EXCEPT ![p] = Append(@, m)]
<1>1. Append(s2c[p], m) \in Seq(ServerMsg)
  BY AppendProperties DEF NetTypeOK
<1> QED
  BY <1>1 DEF SendAll, NetTypeOK, NetState

(* recv() of a packet: a JOIN has its sender's username and its sender has no *)
(* answer, and what is left of the stream has no JOIN.                       *)
LEMMA ReceivedEffect ==
    ASSUME IInv, NEW i \in Fd, NEW m, Received(i, m)
    PROVE  /\ srv = "up" /\ fwd_left = {}
           /\ i \in ready /\ ready' = ready \ {i}
           /\ conn[i] \in Proc
           /\ m \in ClientMsg
           /\ m.type = "JOIN" => m.name = username[conn[i]] /\ answer[conn[i]] = "none"
           /\ c2s' \in [Proc -> Seq(ClientMsg)]
           /\ \A q \in Proc \ {conn[i]} : c2s'[q] = c2s[q]
           /\ \A k \in 1..Len(c2s'[conn[i]]) : c2s'[conn[i]][k].type # "JOIN"
<1> DEFINE p == conn[i]
<1>1. srv = "up" /\ fwd_left = {} /\ i \in ready /\ ready' = ready \ {i}
  BY DEF Received, Turn
<1>2. i # sockfd
  BY NetAssumption DEF Fd, sockfd
<1>3. p \in Proc
  BY <1>1, <1>2 DEF IInv, TypeOK, ServerTypeOK, SocketAccounting, Readable
<1>4. c2s \in [Proc -> Seq(ClientMsg)] /\ c2s[p] \in Seq(ClientMsg)
  BY <1>3 DEF IInv, TypeOK, NetTypeOK
<1>5. PICK rest \in Remainders(c2s[p]) : c2s' = [c2s EXCEPT ![p] = rest]
  BY DEF Received
<1>6. c2s[p] # <<>> /\ m = Head(c2s[p])
  BY DEF Received
<1>7. m \in ClientMsg /\ m = c2s[p][1] /\ 1 \in 1..Len(c2s[p])
  BY <1>4, <1>6, HeadTailProperties, EmptySeq
<1>8. m.type = "JOIN" => m.name = username[p] /\ answer[p] = "none"
  BY <1>3, <1>7 DEF IInv, JoinComesFirst
<1>9. /\ rest \in Seq(ClientMsg)
      /\ \A k \in 1..Len(rest) :
            rest[k] = FragMsg \/ \E j \in 2..Len(c2s[p]) : rest[k] = c2s[p][j]
  <2>1. FragMsg \in ClientMsg
    BY ClientMsgFields
  <2>2. c2s[p] \in Seq(ClientMsg) /\ rest \in Remainders(c2s[p])
    BY <1>4, <1>5
  <2> HIDE DEF p
  <2> QED
    BY <2>1, <2>2, RemaindersProperties
<1>10. ASSUME NEW k \in 1..Len(rest)
       PROVE  rest[k].type # "JOIN"
  <2>1. CASE rest[k] = FragMsg
    BY <2>1, ClientMsgFields
  <2>2. CASE \E j \in 2..Len(c2s[p]) : rest[k] = c2s[p][j]
    <3>1. PICK j \in 2..Len(c2s[p]) : rest[k] = c2s[p][j]
      BY <2>2
    <3>2. j \in 1..Len(c2s[p]) /\ j # 1
      BY <1>4, LenProperties
    <3> QED
      BY <1>3, <3>1, <3>2 DEF IInv, JoinComesFirst
  <2> QED
    BY <1>9, <2>1, <2>2
<1>11. c2s'[p] = rest
  BY <1>3, <1>4, <1>5
<1> QED
  BY <1>1, <1>3, <1>4, <1>5, <1>7, <1>8, <1>9, <1>10, <1>11

(* accept(): nothing but the turn is gone, or the head of the backlog is     *)
(* connected to a free descriptor.                                           *)
LEMMA AcceptEffect ==
    ASSUME IInv, Accept
    PROVE  /\ srv = "up" /\ fwd_left = {}
           /\ ready' = ready \ {sockfd}
           /\ \/ UNCHANGED <<backlog, conn, read_fds, fd_max>>
              \/ \E i \in FreeFd :
                    /\ backlog # <<>>
                    /\ backlog' = Tail(backlog)
                    /\ conn' = [conn EXCEPT ![i] = Head(backlog)]
                    /\ read_fds' = read_fds \cup {i}
                    /\ fd_max' = IF i > fd_max THEN i ELSE fd_max
<1>1. srv = "up" /\ fwd_left = {} /\ sockfd \in ready /\ ready' = ready \ {sockfd}
  BY DEF Accept, Turn
<1>2. backlog # <<>>
  BY <1>1 DEF IInv, SocketAccounting, Readable
<1>3. CASE FreeFd # {}
  <2>1. FreeFd \subseteq Nat
    BY NetAssumption DEF FreeFd, Fd
  <2>2. Min(FreeFd) \in FreeFd
    BY <1>3, <2>1, MinInSet
  <2> QED
    BY <1>1, <1>2, <1>3, <2>2 DEF Accept
<1> QED
  BY <1>1, <1>3 DEF Accept

(* The recipient of the next forward is a connected client.                  *)
LEMMA ForwardEffect ==
    ASSUME IInv, NEW j \in Fd, Forward(j)
    PROVE  /\ conn[j] \in Proc
           /\ tx_buf \in ServerMsg /\ tx_buf # AckMsg
           /\ fwd_left' \subseteq fwd_left
           /\ tx_buf' = IF fwd_left' = {} THEN Empty ELSE tx_buf
           /\ \E ok \in BOOLEAN : SendAll(conn[j], tx_buf, ok)
<1>1. j \in fwd_left
  BY DEF Forward
<1>2. conn[j] \in Proc
  BY <1>1 DEF IInv, TypeOK, ServerTypeOK, SocketAccounting
<1>3. tx_buf \in {FwdMsg(n, l) : n \in Name, l \in Line}
  BY <1>1 DEF IInv, TypeOK, ServerTypeOK, SocketAccounting
<1>4. tx_buf \in ServerMsg /\ tx_buf # AckMsg
  BY <1>3, ServerMsgFields
<1> QED
  BY <1>2, <1>4 DEF Forward

-----------------------------------------------------------------------------
(* One step of the system keeps the parts of IInv; the cases are the actions. *)

(* The name a line is forwarded under is a username.                         *)
LEMMA SenderNameType ==
    ASSUME IInv, NEW i \in Fd, EntriesOf(i) # {}
    PROVE  SenderName(i) \in Name
<1>1. clients \in Seq(Client)
  BY DEF IInv, TypeOK, ServerTypeOK
<1>2. EntriesOf(i) \subseteq 1..Len(clients) /\ Len(clients) \in Nat
  BY <1>1, LenProperties DEF EntriesOf, n_clients
<1>3. Min(EntriesOf(i)) \in EntriesOf(i)
  BY <1>2, MinInSet
<1>4. clients[Min(EntriesOf(i))] \in Client
  BY <1>1, <1>2, <1>3, ElementOfSeq
<1> QED
  BY <1>4 DEF SenderName, Client

(* Every step of the server and of the clients keeps the types.              *)
LEMMA TypeStep == IInv /\ [Next]_vars => TypeOK'
<1> SUFFICES ASSUME IInv, [Next]_vars PROVE TypeOK'
  OBVIOUS
<1> USE NetAssumption, ClientAssumption
<1>0. TypeOK /\ NetTypeOK /\ ServerTypeOK /\ ClientTypeOK
  BY DEF IInv, TypeOK
<1>1. CASE UNCHANGED vars
  BY <1>0, <1>1 DEF vars, netVars, serverVars, clientVars, TypeOK, NetTypeOK,
                    ServerTypeOK, ClientTypeOK
<1>2. CASE Select /\ UNCHANGED clientVars
  <2>1. NetTypeOK' /\ ClientTypeOK'
    BY <1>0, <1>2 DEF Select, netVars, clientVars, NetTypeOK, ClientTypeOK
  <2>2. ServerTypeOK'
    BY <1>0, <1>2 DEF Select, ServerTypeOK
  <2> QED
    BY <2>1, <2>2 DEF TypeOK
<1>3. CASE Accept /\ UNCHANGED clientVars
  <2>1. UNCHANGED <<c2s, s2c, net, srv, clients, fwd_left, tx_buf, answer>>
    BY <1>3 DEF Accept
  <2>2. NetTypeOK' /\ ServerTypeOK'
    <3>1. CASE UNCHANGED <<backlog, conn, read_fds, fd_max>>
      BY <1>0, <1>3, <2>1, <3>1, AcceptEffect DEF NetTypeOK, ServerTypeOK
    <3>2. CASE \E i \in FreeFd :
                 /\ backlog # <<>>
                 /\ backlog' = Tail(backlog)
                 /\ conn' = [conn EXCEPT ![i] = Head(backlog)]
                 /\ read_fds' = read_fds \cup {i}
                 /\ fd_max' = IF i > fd_max THEN i ELSE fd_max
      <4>1. PICK i \in Fd :
              /\ backlog # <<>>
              /\ backlog' = Tail(backlog)
              /\ conn' = [conn EXCEPT ![i] = Head(backlog)]
              /\ read_fds' = read_fds \cup {i}
              /\ fd_max' = IF i > fd_max THEN i ELSE fd_max
        BY <3>2 DEF FreeFd
      <4>2. backlog' \in Seq(Proc) /\ Head(backlog) \in Proc
        BY <1>0, <4>1, HeadTailProperties DEF NetTypeOK
      <4> QED
        BY <1>0, <1>3, <2>1, <4>1, <4>2, AcceptEffect DEF NetTypeOK, ServerTypeOK
    <3> QED
      BY <1>3, <3>1, <3>2, AcceptEffect
  <2>3. ClientTypeOK'
    BY <1>0, <1>3 DEF clientVars, ClientTypeOK
  <2> QED
    BY <2>2, <2>3 DEF TypeOK
<1>4. CASE (\E i \in Fd : Hangup(i)) /\ UNCHANGED clientVars
  <2>1. NetTypeOK' /\ ClientTypeOK'
    BY <1>0, <1>4 DEF Hangup, netVars, clientVars, NetTypeOK, ClientTypeOK
  <2>2. ServerTypeOK'
    BY <1>0, <1>4 DEF Hangup, Turn, ServerTypeOK
  <2> QED
    BY <2>1, <2>2 DEF TypeOK
<1>5. CASE (\E i \in Fd : JoinNak(i)) /\ UNCHANGED clientVars
  <2>1. PICK i \in Fd, m \in ClientMsg, r \in Reason, ok \in BOOLEAN :
          /\ Received(i, m) /\ m.type = "JOIN"
          /\ SendAll(conn[i], NakMsg(r), ok)
          /\ answer' = [answer EXCEPT ![conn[i]] = "NAK"]
          /\ UNCHANGED <<backlog, conn, read_fds, fd_max, clients, fwd_left, tx_buf>>
    BY <1>5 DEF JoinNak, Refusals, Reason
  <2>2. NakMsg(r) \in ServerMsg
    BY ServerMsgFields
  <2>3. NetTypeOK'
    BY <1>0, <2>1, <2>2, ReceivedEffect, SendAllEffect DEF NetTypeOK
  <2>4. ServerTypeOK'
    BY <1>0, <2>1, ReceivedEffect DEF ServerTypeOK
  <2>5. ClientTypeOK'
    BY <1>0, <1>5 DEF clientVars, ClientTypeOK
  <2> QED
    BY <2>3, <2>4, <2>5 DEF TypeOK
<1>6. CASE (\E i \in Fd : JoinAck(i)) /\ UNCHANGED clientVars
  <2>1. PICK i \in Fd, m \in ClientMsg, ok \in BOOLEAN :
          /\ Received(i, m) /\ m.type = "JOIN"
          /\ clients' = Append(clients, [sockfd |-> i, username |-> m.name])
          /\ SendAll(conn[i], AckMsg, ok)
          /\ answer' = [answer EXCEPT ![conn[i]] = "ACK"]
          /\ UNCHANGED <<backlog, conn, read_fds, fd_max, fwd_left, tx_buf>>
    BY <1>6 DEF JoinAck
  <2>2. NetTypeOK'
    BY <1>0, <2>1, ServerMsgFields, ReceivedEffect, SendAllEffect DEF NetTypeOK
  <2>3. [sockfd |-> i, username |-> m.name] \in Client
    BY <2>1, ClientMsgFields DEF Client
  <2>4. clients' \in Seq(Client)
    BY <1>0, <2>1, <2>3, AppendProperties DEF ServerTypeOK
  <2>5. ServerTypeOK'
    BY <1>0, <2>1, <2>4, ReceivedEffect DEF ServerTypeOK
  <2>6. ClientTypeOK'
    BY <1>0, <1>6 DEF clientVars, ClientTypeOK
  <2> QED
    BY <2>2, <2>5, <2>6 DEF TypeOK
<1>7. CASE (\E i \in Fd : SendStart(i)) /\ UNCHANGED clientVars
  <2>1. PICK i \in Fd, m \in ClientMsg :
          /\ Received(i, m) /\ m.type = "SEND"
          /\ EntriesOf(i) # {}
          /\ fwd_left' = Others(i)
          /\ tx_buf' = IF Others(i) = {} THEN Empty ELSE FwdMsg(SenderName(i), m.line)
          /\ UNCHANGED <<backlog, s2c, net, srv, conn, read_fds, fd_max, clients, answer>>
    BY <1>7 DEF SendStart
  <2>2. NetTypeOK'
    BY <1>0, <2>1, ReceivedEffect DEF NetTypeOK
  <2>3. tx_buf' \in {FwdMsg(n, l) : n \in Name, l \in Line} \cup {Empty}
    BY <2>1, SenderNameType, ClientMsgFields
  <2>4. fwd_left' \subseteq Fd
    BY <1>0, <2>1 DEF Others, ServerTypeOK
  <2>5. ServerTypeOK'
    BY <1>0, <2>1, <2>3, <2>4, ReceivedEffect DEF ServerTypeOK
  <2>6. ClientTypeOK'
    BY <1>0, <1>7 DEF clientVars, ClientTypeOK
  <2> QED
    BY <2>2, <2>5, <2>6 DEF TypeOK
<1>8. CASE (\E j \in Fd : Forward(j)) /\ UNCHANGED clientVars
  <2>1. PICK j \in Fd : Forward(j)
    BY <1>8
  <2>2. UNCHANGED <<backlog, c2s, conn, read_fds, ready, fd_max, clients, answer>>
    BY <2>1 DEF Forward
  <2>3. NetTypeOK'
    <3>1. PICK ok \in BOOLEAN : SendAll(conn[j], tx_buf, ok)
      BY <2>1, ForwardEffect
    <3>2. conn[j] \in Proc /\ tx_buf \in ServerMsg
      BY <2>1, ForwardEffect
    <3> QED
      BY <1>0, <2>2, <3>1, <3>2, SendAllEffect DEF NetTypeOK
  <2>4. ServerTypeOK'
    BY <1>0, <2>1, <2>2, ForwardEffect DEF ServerTypeOK
  <2>5. ClientTypeOK'
    BY <1>0, <1>8 DEF clientVars, ClientTypeOK
  <2> QED
    BY <2>3, <2>4, <2>5 DEF TypeOK
<1>9. CASE (\E i \in Fd : Discard(i)) /\ UNCHANGED clientVars
  <2>1. PICK i \in Fd, m \in ClientMsg :
          /\ Received(i, m)
          /\ UNCHANGED <<backlog, s2c, net, srv, conn, read_fds, fd_max, clients,
                         fwd_left, tx_buf, answer>>
    BY <1>9 DEF Discard
  <2>2. NetTypeOK' /\ ServerTypeOK'
    BY <1>0, <2>1, ReceivedEffect DEF NetTypeOK, ServerTypeOK
  <2>3. ClientTypeOK'
    BY <1>0, <1>9 DEF clientVars, ClientTypeOK
  <2> QED
    BY <2>2, <2>3 DEF TypeOK
<1>10. CASE ServerCtrlC /\ UNCHANGED clientVars
  BY <1>0, <1>10 DEF ServerCtrlC, serverVars, clientVars, TypeOK, NetTypeOK,
                     ServerTypeOK, ClientTypeOK
<1>11. ASSUME NEW p \in Proc, ClientStep(p) PROVE TypeOK'
  <2>1. ServerTypeOK'
    BY <1>0, <1>11 DEF ClientStep, serverVars, ServerTypeOK
  <2>2. CASE Connect(p)
    <3>1. Append(backlog, p) \in Seq(Proc) /\ <<JoinMsg(username[p])>> \in Seq(ClientMsg)
      BY <1>0, ClientMsgFields, AppendProperties DEF NetTypeOK
    <3>2. NetTypeOK'
      <4>1. CASE srv = "up"
        BY <1>0, <2>2, <3>1, <4>1 DEF Connect, NetTypeOK, NetState
      <4>2. CASE srv # "up"
        BY <1>0, <2>2, <4>2 DEF Connect, NetTypeOK
      <4> QED
        BY <4>1, <4>2
    <3>3. cstate' \in [Proc -> {"start", "run", "exit"}]
      BY <1>0, <2>2 DEF Connect, ClientTypeOK
    <3>4. ClientTypeOK'
      BY <1>0, <2>2, <3>3 DEF Connect, ClientTypeOK
    <3> QED
      BY <2>1, <3>2, <3>4 DEF TypeOK
  <2>3. CASE FgetsLine(p)
    <3>1. NetTypeOK'
      BY <1>0, <2>3 DEF FgetsLine, netVars, NetTypeOK
    <3>2. Writable(p) \in BOOLEAN
      BY DEF Writable
    <3>3. UNCHANGED <<cstate, loggedIn, shown>>
      BY <2>3 DEF FgetsLine
    <3>4. ASSUME /\ typed[p] < MaxLines[p]
                 /\ typed' = [typed EXCEPT ![p] = @ + 1]
                 /\ in_buf' = [in_buf EXCEPT ![p] = typed'[p]]
                 /\ due' = [due EXCEPT ![p] = Writable(p)]
          PROVE  ClientTypeOK'
      <4>1. typed' \in [Proc -> Nat] /\ typed'[p] = typed[p] + 1 /\ typed'[p] <= MaxLines[p]
        BY <1>0, <3>4 DEF ClientTypeOK
      <4>2. in_buf' \in [Proc -> Nat \cup {NoLine}] /\ due' \in [Proc -> BOOLEAN]
        BY <1>0, <3>2, <3>4, <4>1 DEF ClientTypeOK
      <4>3. \A q \in Proc :
               /\ typed'[q] <= MaxLines[q]
               /\ in_buf'[q] # NoLine => in_buf'[q] \in LineNo(q) /\ in_buf'[q] <= typed'[q]
        BY <1>0, <3>4, <4>1 DEF ClientTypeOK, LineNo
      <4> QED
        BY <1>0, <3>3, <4>1, <4>2, <4>3 DEF ClientTypeOK
    <3>5. ASSUME in_buf' = [in_buf EXCEPT ![p] = NoLine], UNCHANGED <<typed, due>>
          PROVE  ClientTypeOK'
      BY <1>0, <3>3, <3>5 DEF ClientTypeOK
    <3> QED
      BY <2>1, <2>3, <3>1, <3>4, <3>5 DEF TypeOK, FgetsLine
  <2>4. CASE WriteLine(p)
    <3>1. <<p, in_buf[p]>> \in Line
      BY <1>0, <2>4 DEF WriteLine, ClientTypeOK, Line
    <3>2. Append(c2s[p], SendMsg(<<p, in_buf[p]>>)) \in Seq(ClientMsg)
      BY <1>0, <3>1, ClientMsgFields, AppendProperties DEF NetTypeOK
    <3>3. NetTypeOK'
      <4>1. c2s' = c2s \/ c2s' = [c2s EXCEPT ![p] = Append(@, SendMsg(<<p, in_buf[p]>>))]
        BY <2>4 DEF WriteLine
      <4>2. UNCHANGED <<backlog, s2c, net, srv>>
        BY <2>4 DEF WriteLine
      <4>3. c2s' \in [Proc -> Seq(ClientMsg)]
        BY <1>0, <3>2, <4>1 DEF NetTypeOK
      <4> QED
        BY <1>0, <4>2, <4>3 DEF NetTypeOK
    <3>4. ClientTypeOK'
      BY <1>0, <2>4 DEF WriteLine, ClientTypeOK
    <3> QED
      BY <2>1, <3>3, <3>4 DEF TypeOK
  <2>5. CASE Recv(p)
    <3>1. PICK m \in ServerMsg, rest \in Remainders(s2c[p]) :
            /\ s2c' = [s2c EXCEPT ![p] = rest]
            /\ loggedIn' = [loggedIn EXCEPT ![p] = @ \/ m.type = "ACK"]
            /\ shown' = [shown EXCEPT ![p] =
                           IF m.type = "FWD" THEN Append(@, <<m.name, m.line>>) ELSE @]
            /\ due' = [due EXCEPT ![p] = @ \/ (in_buf[p] # NoLine /\ Writable(p))]
            /\ UNCHANGED <<backlog, c2s, net, srv, cstate, in_buf, typed>>
      BY <2>5 DEF Recv
    <3>2. rest \in Seq(ServerMsg)
      BY <1>0, ClientMsgFields, RemaindersProperties DEF NetTypeOK
    <3>3. NetTypeOK'
      BY <1>0, <3>1, <3>2 DEF NetTypeOK
    <3>4. m.type = "FWD" => Append(shown[p], <<m.name, m.line>>) \in Seq(Name \X Line)
      BY <1>0, ServerMsgFields, AppendProperties DEF ClientTypeOK
    <3>5. shown' \in [Proc -> Seq(Name \X Line)]
      BY <1>0, <3>1, <3>4 DEF ClientTypeOK
    <3>6. ClientTypeOK'
      BY <1>0, <3>1, <3>5 DEF ClientTypeOK
    <3> QED
      BY <2>1, <3>3, <3>6 DEF TypeOK
  <2>6. ASSUME NEW unread, Exit(p, unread) PROVE TypeOK'
    <3>1. NetTypeOK'
      BY <1>0, <2>6 DEF Exit, CloseBy, NetTypeOK, NetState
    <3>2. ClientTypeOK'
      BY <1>0, <2>6 DEF Exit, ClientTypeOK
    <3> QED
      BY <2>1, <3>1, <3>2 DEF TypeOK
  <2> QED
    BY <1>11, <2>2, <2>3, <2>4, <2>5, <2>6
       DEF ClientStep, SocketReady, RecvNak, ServerHungUp, CtrlC
<1> QED
  BY <1>1, <1>2, <1>3, <1>4, <1>5, <1>6, <1>7, <1>8, <1>9, <1>10, <1>11
     DEF Next, ServerStep, ServerLoop, Serve

(* A recv() on descriptor i, whatever is sent on the same connection, leaves  *)
(* the descriptors after it in the pass readable.                             *)
LEMMA ReadyAfterReceived ==
    ASSUME IInv, NEW i \in Fd, NEW m, Received(i, m),
           UNCHANGED <<backlog, conn, read_fds>>,
           \A q \in Proc : net[q] # "open" => net'[q] # "open"
    PROVE  ready' \subseteq {j \in read_fds' : Readable(j)'}
<1> SUFFICES ASSUME NEW j \in ready' PROVE j \in read_fds' /\ Readable(j)'
  OBVIOUS
<1>1. /\ ready' = ready \ {i} /\ conn[i] \in Proc
      /\ \A q \in Proc \ {conn[i]} : c2s'[q] = c2s[q]
  BY ReceivedEffect
<1>2. j \in ready /\ j # i /\ j \in read_fds /\ Readable(j)
  BY <1>1 DEF IInv, SocketAccounting
<1>3. CASE j = sockfd
  BY <1>2, <1>3 DEF Readable
<1>4. CASE j # sockfd
  <2>1. j \in Fd /\ conn[j] \in Proc
    BY <1>2, <1>4 DEF IInv, TypeOK, ServerTypeOK, Readable
  <2>2. conn[j] # conn[i]
    BY <1>1, <1>2, <2>1, NetAssumption DEF IInv, SocketAccounting
  <2> QED
    BY <1>1, <1>2, <1>4, <2>1, <2>2 DEF Readable
<1> QED
  BY <1>3, <1>4

(* Descriptors stay readable when nothing but more data and hang-ups happen.  *)
LEMMA ReadyFrame ==
    ASSUME SocketAccounting, ServerTypeOK, NetAssumption,
           UNCHANGED <<conn, read_fds, ready>>,
           backlog # <<>> => backlog' # <<>>,
           \A j \in Fd : conn[j] \in Proc =>
              /\ net[conn[j]] # "open" => net'[conn[j]] # "open"
              /\ c2s[conn[j]] # <<>> => c2s'[conn[j]] # <<>>
    PROVE  ready' \subseteq {j \in read_fds' : Readable(j)'}
<1> SUFFICES ASSUME NEW j \in ready PROVE j \in read_fds /\ Readable(j)'
  OBVIOUS
<1>1. j \in read_fds /\ Readable(j)
  BY DEF SocketAccounting
<1>2. CASE j = sockfd
  BY <1>1, <1>2 DEF Readable
<1>3. CASE j # sockfd
  <2>1. j \in Fd /\ conn[j] \in Proc
    BY <1>1, <1>3 DEF ServerTypeOK, Readable
  <2> QED
    BY <1>1, <1>3, <2>1 DEF Readable
<1> QED
  BY <1>1, <1>2, <1>3

(* Every step keeps the open connections and read_fds in agreement: accept() and *)
(* a hang-up in the middle of a pass, and a client that leaves.              *)
LEMMA SocketStep == IInv /\ [Next]_vars => SocketAccounting'
<1> SUFFICES ASSUME IInv, [Next]_vars PROVE SocketAccounting'
  OBVIOUS
<1> USE NetAssumption
<1>0. SocketAccounting /\ NetTypeOK /\ ServerTypeOK
  BY DEF IInv, TypeOK
<1>1. CASE UNCHANGED vars
  BY <1>0, <1>1 DEF vars, netVars, serverVars, SocketAccounting, Readable
<1>2. CASE Select /\ UNCHANGED clientVars
  BY <1>0, <1>2 DEF Select, netVars, SocketAccounting, Readable
<1>3. CASE Accept /\ UNCHANGED clientVars
  <2>1. UNCHANGED <<c2s, net, fwd_left, tx_buf>> /\ fwd_left = {} /\ ready' = ready \ {sockfd}
    BY <1>3, AcceptEffect DEF Accept
  <2>2. CASE UNCHANGED <<backlog, conn, read_fds, fd_max>>
    BY <1>0, <2>1, <2>2 DEF SocketAccounting, Readable
  <2>3. CASE \E i \in FreeFd :
                 /\ backlog # <<>>
                 /\ backlog' = Tail(backlog)
                 /\ conn' = [conn EXCEPT ![i] = Head(backlog)]
                 /\ read_fds' = read_fds \cup {i}
                 /\ fd_max' = IF i > fd_max THEN i ELSE fd_max
    <3>1. PICK i \in Fd :
            /\ conn[i] = NoProc
            /\ backlog # <<>>
            /\ backlog' = Tail(backlog)
            /\ conn' = [conn EXCEPT ![i] = Head(backlog)]
            /\ read_fds' = read_fds \cup {i}
            /\ fd_max' = IF i > fd_max THEN i ELSE fd_max
      BY <2>3 DEF FreeFd
    <3> DEFINE h == Head(backlog)
    <3>2. /\ h \in Proc /\ h = backlog[1] /\ Len(backlog) \in Nat \ {0}
          /\ Len(backlog') = Len(backlog) - 1
          /\ \A k \in 1..Len(backlog') : backlog'[k] = backlog[k + 1]
      BY <1>0, <3>1, HeadTailProperties, EmptySeq DEF NetTypeOK
    <3>3. conn' \in [Fd -> Proc \cup {NoProc}] /\ conn'[i] = h
          /\ \A j \in Fd \ {i} : conn'[j] = conn[j]
      BY <1>0, <3>1, <3>2 DEF ServerTypeOK
    <3>4. \A j \in Fd : conn[j] # h
      BY <1>0, <3>2 DEF SocketAccounting
    <3>5. read_fds' = {sockfd} \cup {j \in Fd : conn'[j] # NoProc}
      BY <1>0, <3>1, <3>2, <3>3 DEF SocketAccounting
    <3>6. read_fds' \subseteq 0..fd_max'
      BY <1>0, <3>1 DEF SocketAccounting, ServerTypeOK, Fd, sockfd
    <3>7. ready' \subseteq {j \in read_fds' : Readable(j)'}
      BY <1>0, <2>1, <3>1, <3>3 DEF SocketAccounting, Readable
    <3>8. \A j, k \in Fd : conn'[j] = conn'[k] /\ conn'[j] # NoProc => j = k
      BY <1>0, <3>3, <3>4 DEF SocketAccounting
    <3>9. \A k \in 1..Len(backlog') : \A j \in Fd : conn'[j] # backlog'[k]
      <4> TAKE k \in 1..Len(backlog')
      <4> TAKE j \in Fd
      <4>1. k + 1 \in 1..Len(backlog) /\ 1 \in 1..Len(backlog) /\ k + 1 # 1
        BY <3>2
      <4>2. backlog'[k] = backlog[k + 1] /\ backlog[k + 1] # backlog[1]
        BY <3>2, <4>1 DEF IInv, NoTraceBeforeConnect
      <4> QED
        BY <1>0, <3>2, <3>3, <4>1, <4>2 DEF SocketAccounting
    <3>10. fwd_left' \subseteq read_fds' \ {sockfd} /\ (fwd_left' = {} <=> tx_buf' = Empty)
      BY <1>0, <2>1 DEF SocketAccounting
    <3> QED
      BY <3>5, <3>6, <3>7, <3>8, <3>9, <3>10 DEF SocketAccounting
  <2> QED
    BY <1>3, <2>2, <2>3, AcceptEffect
<1>4. CASE (\E i \in Fd : Hangup(i)) /\ UNCHANGED clientVars
  <2>1. PICK i \in Fd : Hangup(i)
    BY <1>4
  <2>2. /\ fwd_left = {} /\ ready' = ready \ {i}
        /\ conn' = [conn EXCEPT ![i] = NoProc]
        /\ read_fds' = read_fds \ {i}
        /\ UNCHANGED <<backlog, c2s, net, fd_max, fwd_left, tx_buf>>
    BY <2>1 DEF Hangup, Turn, netVars
  <2>3. i # sockfd
    BY DEF Fd, sockfd
  <2>4. conn'[i] = NoProc /\ \A j \in Fd \ {i} : conn'[j] = conn[j]
    BY <1>0, <2>2 DEF ServerTypeOK
  <2>5. read_fds' = {sockfd} \cup {j \in Fd : conn'[j] # NoProc}
    BY <1>0, <2>2, <2>3, <2>4 DEF SocketAccounting
  <2>6. ready' \subseteq {j \in read_fds' : Readable(j)'}
    BY <1>0, <2>2, <2>4 DEF SocketAccounting, Readable, ServerTypeOK
  <2>7. \A j, k \in Fd : conn'[j] = conn'[k] /\ conn'[j] # NoProc => j = k
    BY <1>0, <2>4 DEF SocketAccounting
  <2>8. \A k \in 1..Len(backlog') : \A j \in Fd : conn'[j] # backlog'[k]
    BY <1>0, <2>2, <2>4, ElementOfSeq DEF SocketAccounting, NetTypeOK
  <2> QED
    BY <1>0, <2>2, <2>5, <2>6, <2>7, <2>8 DEF SocketAccounting
<1>5. ASSUME NEW i \in Fd, JoinNak(i) \/ JoinAck(i) \/ Discard(i) PROVE SocketAccounting'
  <2>1. PICK m \in ClientMsg : Received(i, m)
    BY <1>5 DEF JoinNak, JoinAck, Discard
  <2>2. UNCHANGED <<backlog, conn, read_fds, fd_max, fwd_left, tx_buf>>
    BY <1>5 DEF JoinNak, JoinAck, Discard
  <2>3. conn[i] \in Proc
    BY <2>1, ReceivedEffect
  <2>4. \A q \in Proc : net[q] # "open" => net'[q] # "open"
    <3>1. \/ UNCHANGED net
          \/ \E x \in ServerMsg, ok \in BOOLEAN : SendAll(conn[i], x, ok)
      BY <1>5, ServerMsgFields DEF JoinNak, JoinAck, Discard, Refusals, Reason
    <3> QED
      BY <1>0, <2>3, <3>1, SendAllEffect
  <2>5. ready' \subseteq {j \in read_fds' : Readable(j)'}
    BY <2>1, <2>2, <2>4, ReadyAfterReceived
  <2> QED
    BY <1>0, <2>2, <2>5 DEF SocketAccounting
<1>6. ASSUME NEW i \in Fd, SendStart(i) PROVE SocketAccounting'
  <2>1. PICK m \in ClientMsg :
          /\ Received(i, m) /\ m.type = "SEND"
          /\ fwd_left' = Others(i)
          /\ tx_buf' = IF Others(i) = {} THEN Empty ELSE FwdMsg(SenderName(i), m.line)
          /\ UNCHANGED <<backlog, net, conn, read_fds, fd_max>>
    BY <1>6 DEF SendStart
  <2>2. ready' \subseteq {j \in read_fds' : Readable(j)'}
    BY <2>1, ReadyAfterReceived
  <2>3. FwdMsg(SenderName(i), m.line) # Empty
    BY DEF FwdMsg, Empty
  <2>4. fwd_left' \subseteq read_fds' \ {sockfd} /\ (fwd_left' = {} <=> tx_buf' = Empty)
    BY <2>1, <2>3 DEF Others
  <2> QED
    BY <1>0, <2>1, <2>2, <2>4 DEF SocketAccounting
<1>7. ASSUME NEW j \in Fd, Forward(j) PROVE SocketAccounting'
  <2>1. UNCHANGED <<backlog, c2s, conn, read_fds, ready, fd_max>>
    BY <1>7 DEF Forward
  <2>2. PICK ok \in BOOLEAN : SendAll(conn[j], tx_buf, ok)
    BY <1>7, ForwardEffect
  <2>3. \A q \in Proc : net[q] # "open" => net'[q] # "open"
    BY <1>0, <1>7, <2>2, ForwardEffect, SendAllEffect
  <2>4. ready' \subseteq {i \in read_fds' : Readable(i)'}
    BY <1>0, <2>1, <2>3 DEF SocketAccounting, Readable, ServerTypeOK
  <2>5. /\ fwd_left' \subseteq fwd_left
        /\ tx_buf' = IF fwd_left' = {} THEN Empty ELSE tx_buf
        /\ fwd_left # {}
    BY <1>7, ForwardEffect DEF Forward
  <2>6. fwd_left' \subseteq read_fds' \ {sockfd} /\ (fwd_left' = {} <=> tx_buf' = Empty)
    BY <1>0, <2>1, <2>5 DEF SocketAccounting
  <2> QED
    BY <1>0, <2>1, <2>4, <2>6 DEF SocketAccounting
<1>8. CASE ServerCtrlC /\ UNCHANGED clientVars
  BY <1>0, <1>8 DEF ServerCtrlC, serverVars, SocketAccounting, Readable
<1>9. ASSUME NEW p \in Proc, ClientStep(p) PROVE SocketAccounting'
  <2>1. UNCHANGED <<conn, read_fds, ready, fd_max, fwd_left, tx_buf>>
    BY <1>9 DEF ClientStep, serverVars
  <2>2. CASE Connect(p) /\ srv = "up"
    <3>1. \A i \in Fd : conn[i] # p
      BY <2>2 DEF Connect, IInv, NoTraceBeforeConnect
    <3>2. /\ backlog' = Append(backlog, p)
          /\ \A q \in Proc \ {p} : net'[q] = net[q] /\ c2s'[q] = c2s[q]
      BY <1>0, <2>2 DEF Connect, NetTypeOK
    <3>3. /\ Len(backlog) \in Nat /\ Len(backlog') = Len(backlog) + 1
          /\ \A k \in 1..Len(backlog) : backlog'[k] = backlog[k]
          /\ backlog'[Len(backlog) + 1] = p
          /\ backlog' # <<>>
      <4>1. backlog \in Seq(Proc) /\ backlog' = Append(backlog, p)
        BY <1>0, <3>2 DEF NetTypeOK
      <4> QED
        BY <4>1, AppendProperties, LenProperties
    <3>4. ready' \subseteq {i \in read_fds' : Readable(i)'}
      BY <1>0, <2>1, <3>1, <3>2, <3>3, ReadyFrame
    <3>5. \A k \in 1..Len(backlog') : \A i \in Fd : conn'[i] # backlog'[k]
      BY <1>0, <2>1, <3>1, <3>3 DEF SocketAccounting
    <3> QED
      BY <1>0, <2>1, <3>4, <3>5 DEF SocketAccounting
  <2>3. CASE ~(Connect(p) /\ srv = "up")
    <3>1. /\ backlog' = backlog
          /\ \A q \in Proc : /\ net[q] # "open" => net'[q] # "open"
                             /\ c2s[q] # <<>> => c2s'[q] # <<>>
      <4>1. CASE Connect(p)
        BY <2>3, <4>1 DEF Connect
      <4>2. CASE FgetsLine(p)
        BY <4>2 DEF FgetsLine, netVars
      <4>3. CASE WriteLine(p)
        <5>1. ASSUME NEW l PROVE Append(c2s[p], SendMsg(l)) # <<>>
          <6> DEFINE T == ClientMsg \cup {SendMsg(l)}
          <6>1. c2s[p] \in Seq(T)
            BY <1>0, SeqMonotonic DEF NetTypeOK
          <6> QED
            BY <6>1, AppendProperties
        <5> QED
          BY <1>0, <4>3, <5>1 DEF WriteLine, NetTypeOK
      <4>4. CASE Recv(p)
        BY <4>4 DEF Recv
      <4>5. ASSUME NEW unread, Exit(p, unread)
            PROVE  /\ backlog' = backlog
                   /\ \A q \in Proc : /\ net[q] # "open" => net'[q] # "open"
                                      /\ c2s[q] # <<>> => c2s'[q] # <<>>
        BY <1>0, <4>5 DEF Exit, CloseBy, NetTypeOK
      <4> QED
        BY <1>9, <4>1, <4>2, <4>3, <4>4, <4>5
           DEF ClientStep, SocketReady, RecvNak, ServerHungUp, CtrlC
    <3>2. ready' \subseteq {i \in read_fds' : Readable(i)'}
      BY <1>0, <2>1, <3>1, ReadyFrame
    <3> QED
      BY <1>0, <2>1, <3>1, <3>2 DEF SocketAccounting
  <2> QED
    BY <2>2, <2>3
<1> QED
  BY <1>1, <1>2, <1>3, <1>4, <1>5, <1>6, <1>7, <1>8, <1>9
     DEF Next, ServerStep, ServerLoop, Serve

(* Which steps connect, disconnect and answer.                               *)
LEMMA ConnectionSteps ==
    ASSUME IInv, [Next]_vars
    PROVE  \/ UNCHANGED <<backlog, conn, answer, clients>>
           \/ /\ \E p \in Proc : backlog' = Append(backlog, p) /\ cstate[p] = "start"
              /\ UNCHANGED <<conn, answer, clients>>
           \/ /\ \E i \in FreeFd : /\ backlog # <<>>
                                  /\ backlog' = Tail(backlog)
                                  /\ conn' = [conn EXCEPT ![i] = Head(backlog)]
              /\ UNCHANGED <<answer, clients>>
           \/ /\ \E i \in ready \ {sockfd} : conn' = [conn EXCEPT ![i] = NoProc]
              /\ UNCHANGED <<backlog, answer, clients>>
           \/ \E i \in Fd :
                 /\ conn[i] \in Proc /\ answer[conn[i]] = "none"
                 /\ \/ /\ answer' = [answer EXCEPT ![conn[i]] = "NAK"]
                       /\ clients' = clients
                    \/ /\ answer' = [answer EXCEPT ![conn[i]] = "ACK"]
                       /\ clients' = Append(clients, [sockfd |-> i, username |-> username[conn[i]]])
                 /\ UNCHANGED <<backlog, conn>>
<1>1. CASE UNCHANGED vars
  BY <1>1 DEF vars, netVars, serverVars
<1>2. ASSUME Accept
      PROVE  \/ UNCHANGED <<backlog, conn, answer, clients>>
             \/ /\ \E i \in FreeFd : /\ backlog # <<>>
                                    /\ backlog' = Tail(backlog)
                                    /\ conn' = [conn EXCEPT ![i] = Head(backlog)]
                /\ UNCHANGED <<answer, clients>>
  <2>1. UNCHANGED <<answer, clients>>
    BY <1>2 DEF Accept
  <2> QED
    BY <1>2, <2>1, AcceptEffect
<1>3. ASSUME NEW i \in Fd, Hangup(i)
      PROVE  /\ \E j \in ready \ {sockfd} : conn' = [conn EXCEPT ![j] = NoProc]
             /\ UNCHANGED <<backlog, answer, clients>>
  <2>1. i # sockfd
    BY NetAssumption DEF Fd, sockfd
  <2> QED
    BY <1>3, <2>1 DEF Hangup, Turn, netVars
<1>4. ASSUME NEW i \in Fd, JoinNak(i) \/ JoinAck(i)
      PROVE  /\ conn[i] \in Proc /\ answer[conn[i]] = "none"
             /\ \/ /\ answer' = [answer EXCEPT ![conn[i]] = "NAK"]
                   /\ clients' = clients
                \/ /\ answer' = [answer EXCEPT ![conn[i]] = "ACK"]
                   /\ clients' = Append(clients, [sockfd |-> i, username |-> username[conn[i]]])
             /\ UNCHANGED <<backlog, conn>>
  <2>1. ASSUME NEW m, Received(i, m), m.type = "JOIN"
        PROVE  conn[i] \in Proc /\ m.name = username[conn[i]] /\ answer[conn[i]] = "none"
    BY <2>1, ReceivedEffect
  <2>2. CASE JoinNak(i)
    BY <2>1, <2>2 DEF JoinNak
  <2>3. CASE JoinAck(i)
    BY <2>1, <2>3 DEF JoinAck
  <2> QED
    BY <1>4, <2>2, <2>3
<1>5. CASE ServerStep
  <2>1. \/ UNCHANGED <<backlog, conn, answer, clients>>
        \/ Accept
        \/ \E i \in Fd : Hangup(i) \/ JoinNak(i) \/ JoinAck(i)
    BY <1>5 DEF ServerStep, ServerLoop, Serve, netVars, serverVars, Select, SendStart,
                Forward, Discard, ServerCtrlC, SendAll
  <2> QED
    BY <1>2, <1>3, <1>4, <2>1
<1>6. ASSUME NEW p \in Proc, ClientStep(p)
      PROVE  /\ \/ UNCHANGED backlog
                \/ backlog' = Append(backlog, p) /\ cstate[p] = "start"
             /\ UNCHANGED <<conn, answer, clients>>
  BY <1>6 DEF ClientStep, SocketReady, Connect, FgetsLine, WriteLine, Recv, RecvNak,
              ServerHungUp, CtrlC, Exit, netVars, serverVars
<1> QED
  BY <1>1, <1>5, <1>6 DEF Next

(* Every step keeps those in the backlog without an answer.                  *)
LEMMA BacklogStep ==
    ASSUME IInv, [Next]_vars
    PROVE  BacklogUnanswered'
<1>0. /\ backlog \in Seq(Proc) /\ Len(backlog) \in Nat
      /\ \A k \in 1..Len(backlog) : backlog[k] \in Proc
      /\ answer \in [Proc -> {"none", "ACK", "NAK"}]
  BY LenProperties, ElementOfSeq DEF IInv, TypeOK, NetTypeOK, ServerTypeOK
<1>1. CASE UNCHANGED <<backlog, answer>>
  BY <1>1 DEF IInv, BacklogUnanswered
<1>2. ASSUME NEW p \in Proc, backlog' = Append(backlog, p), cstate[p] = "start", answer' = answer
      PROVE  BacklogUnanswered'
  <2>1. answer[p] = "none"
    BY <1>2 DEF IInv, NoTraceBeforeConnect
  <2>2. /\ Len(backlog') = Len(backlog) + 1
        /\ \A k \in 1..Len(backlog) : backlog'[k] = backlog[k]
        /\ backlog'[Len(backlog) + 1] = p
    BY <1>0, <1>2, AppendProperties
  <2>3. \A k \in 1..Len(backlog') : k \in 1..Len(backlog) \/ k = Len(backlog) + 1
    BY <1>0, <2>2
  <2> QED
    BY <1>2, <2>1, <2>2, <2>3 DEF IInv, BacklogUnanswered
<1>3. ASSUME backlog # <<>>, backlog' = Tail(backlog), answer' = answer
      PROVE  BacklogUnanswered'
  <2>1. /\ Len(backlog') = Len(backlog) - 1
        /\ \A k \in 1..Len(backlog') : backlog'[k] = backlog[k + 1]
    BY <1>0, <1>3, HeadTailProperties
  <2>2. \A k \in 1..Len(backlog') : k + 1 \in 1..Len(backlog)
    BY <1>0, <2>1
  <2> QED
    BY <1>3, <2>1, <2>2 DEF IInv, BacklogUnanswered
<1>4. ASSUME NEW i \in Fd, NEW a, conn[i] \in Proc, answer' = [answer EXCEPT ![conn[i]] = a],
             backlog' = backlog
      PROVE  BacklogUnanswered'
  <2>1. \A k \in 1..Len(backlog) : backlog[k] # conn[i]
    BY DEF IInv, SocketAccounting
  <2> QED
    BY <1>0, <1>4, <2>1 DEF IInv, BacklogUnanswered
<1> QED
  BY <1>1, <1>2, <1>3, <1>4, ConnectionSteps

(* Every step keeps the entry of a connected client that was admitted, with   *)
(* its descriptor: entries stay, and who is connected newly has no answer.    *)
LEMMA FoundStep ==
    ASSUME IInv, [Next]_vars, NEW i \in Fd, conn'[i] \in Admitted'
    PROVE  \E k \in 1..n_clients' :
              clients'[k] = [sockfd |-> i, username |-> username[conn'[i]]]
<1> USE NetAssumption
<1>0. /\ conn \in [Fd -> Proc \cup {NoProc}]
      /\ answer \in [Proc -> {"none", "ACK", "NAK"}]
      /\ clients \in Seq(Client) /\ Len(clients) \in Nat
      /\ backlog \in Seq(Proc)
  BY LenProperties DEF IInv, TypeOK, ServerTypeOK, NetTypeOK
<1>1. conn[i] \in Admitted =>
        \E k \in 1..n_clients : clients[k] = [sockfd |-> i, username |-> username[conn[i]]]
  BY DEF IInv, RosterSound
<1>2. CASE UNCHANGED <<conn, answer, clients>>
  BY <1>1, <1>2 DEF Admitted, n_clients
<1>3. ASSUME NEW j \in FreeFd, backlog # <<>>, conn' = [conn EXCEPT ![j] = Head(backlog)],
             UNCHANGED <<answer, clients>>
      PROVE  conn'[i] = conn[i]
  <2>1. Head(backlog) = backlog[1] /\ 1 \in 1..Len(backlog)
    BY <1>0, <1>3, HeadTailProperties, EmptySeq
  <2>2. Head(backlog) \notin Admitted'
    BY <1>3, <2>1 DEF IInv, BacklogUnanswered, Admitted
  <2> QED
    BY <1>0, <1>3, <2>2 DEF FreeFd
<1>4. ASSUME NEW j, conn' = [conn EXCEPT ![j] = NoProc], UNCHANGED <<answer, clients>>
      PROVE  conn'[i] = conn[i]
  BY <1>0, <1>4 DEF Admitted
<1>5. ASSUME NEW j \in Fd, conn[j] \in Proc, answer[conn[j]] = "none",
             answer' = [answer EXCEPT ![conn[j]] = "NAK"], UNCHANGED <<conn, clients>>
      PROVE  conn'[i] \in Admitted
  BY <1>0, <1>5 DEF Admitted
<1>6. ASSUME NEW j \in Fd, conn[j] \in Proc, answer[conn[j]] = "none",
             answer' = [answer EXCEPT ![conn[j]] = "ACK"], conn' = conn,
             clients' = Append(clients, [sockfd |-> j, username |-> username[conn[j]]])
      PROVE  \E k \in 1..n_clients' :
                clients'[k] = [sockfd |-> i, username |-> username[conn'[i]]]
  <2> DEFINE e == [sockfd |-> j, username |-> username[conn[j]]]
  <2>1. e \in Client
    BY <1>6 DEF Client
  <2> HIDE DEF e
  <2>2. /\ Len(clients') = Len(clients) + 1
        /\ \A k \in 1..Len(clients) : clients'[k] = clients[k]
        /\ clients'[Len(clients) + 1] = e
    BY <1>0, <1>6, <2>1, AppendProperties DEF e
  <2>3. CASE conn[i] = conn[j]
    <3>1. i = j
      BY <1>0, <1>6, <2>3 DEF IInv, SocketAccounting
    <3> QED
      BY <1>0, <1>6, <2>2, <3>1 DEF e, n_clients
  <2>4. CASE conn[i] # conn[j]
    <3>1. conn[i] \in Admitted
      BY <1>0, <1>6, <2>4 DEF Admitted
    <3> QED
      BY <1>0, <1>1, <1>6, <2>2, <3>1 DEF n_clients
  <2> QED
    BY <2>3, <2>4
<1>7. CASE conn'[i] = conn[i] /\ UNCHANGED <<answer, clients>>
  BY <1>1, <1>7 DEF Admitted, n_clients
<1>8. CASE conn'[i] \in Admitted /\ UNCHANGED <<conn, clients>>
  BY <1>1, <1>8 DEF n_clients
<1> QED
  BY <1>2, <1>3, <1>4, <1>5, <1>6, <1>7, <1>8, ConnectionSteps

(* Every step keeps the roster the list of the admitted clients: only a JOIN that *)
(* is acknowledged changes either.                                           *)
LEMMA RosterStep == IInv /\ [Next]_vars => RosterSound' /\ RosterIsAdmitted'
<1> SUFFICES ASSUME IInv, [Next]_vars PROVE RosterSound' /\ RosterIsAdmitted'
  OBVIOUS
<1> USE NetAssumption
<1>0. /\ clients \in Seq(Client) /\ Len(clients) \in Nat
      /\ answer \in [Proc -> {"none", "ACK", "NAK"}]
      /\ RosterSound /\ RosterIsAdmitted
  BY LenProperties DEF IInv, TypeOK, ServerTypeOK
<1>1. ASSUME UNCHANGED <<clients, answer>> PROVE RosterSound' /\ RosterIsAdmitted'
  <2>1. Admitted' = Admitted /\ Roster' = Roster /\ n_clients' = n_clients
    BY <1>1 DEF Admitted, Roster, n_clients
  <2> QED
    BY <1>0, <1>1, <2>1, FoundStep DEF RosterSound, RosterIsAdmitted
<1>2. ASSUME NEW i \in Fd, JoinNak(i) PROVE RosterSound' /\ RosterIsAdmitted'
  <2>1. PICK m : Received(i, m) /\ m.type = "JOIN"
    BY <1>2 DEF JoinNak
  <2>2. answer' = [answer EXCEPT ![conn[i]] = "NAK"] /\ clients' = clients
    BY <1>2 DEF JoinNak
  <2>3. conn[i] \in Proc /\ answer[conn[i]] = "none"
    BY <2>1, ReceivedEffect
  <2>4. Admitted' = Admitted /\ Roster' = Roster /\ n_clients' = n_clients
    BY <1>0, <2>2, <2>3 DEF Admitted, Roster, n_clients
  <2> QED
    BY <1>0, <2>2, <2>3, <2>4, FoundStep DEF RosterSound, RosterIsAdmitted
<1>3. ASSUME NEW i \in Fd, JoinAck(i) PROVE RosterSound' /\ RosterIsAdmitted'
  <2> DEFINE p == conn[i]
             e == [sockfd |-> i, username |-> username[p]]
  <2>1. PICK m : /\ Received(i, m) /\ m.type = "JOIN"
                 /\ Refusals(m.name) = {}
                 /\ clients' = Append(clients, [sockfd |-> i, username |-> m.name])
                 /\ answer' = [answer EXCEPT ![conn[i]] = "ACK"]
    BY <1>3 DEF JoinAck
  <2>2. p \in Proc /\ m.name = username[p] /\ answer[p] = "none"
    BY <2>1, ReceivedEffect
  <2>3. username[p] \notin Roster /\ n_clients < max_clients
    <3>1. Refusals(username[p]) = {}
      BY <2>1, <2>2
    <3>2. username[p] \notin Roster
      BY <3>1 DEF Refusals
    <3>3. ~(n_clients >= max_clients)
      BY <3>1, <3>2 DEF Refusals
    <3> QED
      BY <1>0, <3>2, <3>3 DEF n_clients
  <2>4. e \in Client /\ e.username = username[p]
    BY <2>2 DEF Client
  <2>5. /\ Len(clients') = Len(clients) + 1
        /\ \A k \in 1..Len(clients) : clients'[k] = clients[k]
        /\ clients'[Len(clients) + 1] = e
    BY <1>0, <2>1, <2>2, <2>4, AppendProperties
  <2>6. Admitted' = Admitted \cup {p} /\ p \notin Admitted
    BY <1>0, <2>1, <2>2 DEF Admitted
  <2>7. Roster' = Roster \cup {username[p]}
    <3>1. \A k \in 1..Len(clients) : clients'[k].username = clients[k].username
      BY <2>5
    <3>2. clients'[Len(clients) + 1].username = username[p]
      BY <2>4, <2>5
    <3>3. 1..Len(clients') = 1..Len(clients) \cup {Len(clients) + 1}
      BY <1>0, <2>5
    <3> QED
      BY <3>1, <3>2, <3>3 DEF Roster, n_clients
  <2>8. RosterIsAdmitted'
    <3>1. ASSUME NEW q \in Admitted', NEW r \in Admitted', username[q] = username[r]
          PROVE  q = r
      <4>1. \A x \in Admitted : username[x] # username[p]
        BY <1>0, <2>3 DEF RosterIsAdmitted
      <4> QED
        BY <1>0, <2>6, <3>1, <4>1 DEF RosterIsAdmitted
    <3>2. Roster' = {username[q] : q \in Admitted'}
      BY <1>0, <2>6, <2>7 DEF RosterIsAdmitted
    <3>3. IsFiniteSet(Admitted') /\ Cardinality(Admitted') = n_clients'
      <4>1. IsFiniteSet(Admitted) /\ Cardinality(Admitted) = Len(clients)
        BY <1>0 DEF RosterIsAdmitted, n_clients
      <4>2. /\ IsFiniteSet(Admitted \cup {p})
            /\ Cardinality(Admitted \cup {p}) = Cardinality(Admitted) + 1
        BY <2>6, <4>1, FS_AddElement
      <4> QED
        BY <2>5, <2>6, <4>1, <4>2 DEF n_clients
    <3> QED
      BY <3>1, <3>2, <3>3 DEF RosterIsAdmitted
  <2>9. RosterSound'
    <3>1. n_clients' <= max_clients
      BY <1>0, <2>3, <2>5 DEF n_clients
    <3>2. ASSUME NEW j \in 1..n_clients', NEW k \in 1..n_clients',
                 clients'[j].username = clients'[k].username
          PROVE  j = k
      <4>1. \A n \in 1..Len(clients) : /\ clients'[n].username = clients[n].username
                                       /\ clients[n].username # username[p]
        BY <2>3, <2>5 DEF Roster, n_clients
      <4>2. clients'[Len(clients) + 1].username = username[p]
        BY <2>4, <2>5
      <4>3. /\ j \in 1..Len(clients) \/ j = Len(clients) + 1
            /\ k \in 1..Len(clients) \/ k = Len(clients) + 1
        BY <1>0, <2>5 DEF n_clients
      <4> QED
        BY <1>0, <3>2, <4>1, <4>2, <4>3 DEF RosterSound, n_clients
    <3>3. \A k \in 1..n_clients' : \E q \in Admitted' : username[q] = clients'[k].username
      BY <2>8 DEF RosterIsAdmitted, Roster
    <3> QED
      BY <3>1, <3>2, <3>3, FoundStep DEF RosterSound
  <2> QED
    BY <2>8, <2>9
<1>4. \/ UNCHANGED <<clients, answer>>
      \/ \E i \in Fd : JoinNak(i) \/ JoinAck(i)
  BY DEF Next, ServerStep, ServerLoop, Serve, ClientStep, serverVars, vars,
         Select, Accept, Hangup, SendStart, Forward, Discard, ServerCtrlC
<1> QED
  BY <1>1, <1>2, <1>3, <1>4

(* Every step keeps a JOIN at the head of its stream and unanswered: clients send *)
(* it first, and recv() drops or takes from the head.                        *)
LEMMA JoinStep == IInv /\ [Next]_vars => JoinComesFirst'
<1> SUFFICES ASSUME IInv, [Next]_vars PROVE JoinComesFirst'
  OBVIOUS
<1> USE NetAssumption
<1>0. JoinComesFirst /\ c2s \in [Proc -> Seq(ClientMsg)]
      /\ answer \in [Proc -> {"none", "ACK", "NAK"}]
  BY DEF IInv, TypeOK, NetTypeOK, ServerTypeOK
<1>1. ASSUME UNCHANGED <<c2s, answer>> PROVE JoinComesFirst'
  BY <1>0, <1>1 DEF JoinComesFirst
<1>2. ASSUME NEW i \in Fd, Serve(i), ~Hangup(i) PROVE JoinComesFirst'
  <2>1. PICK m \in ClientMsg : Received(i, m)
    BY <1>2 DEF Serve, JoinNak, JoinAck, SendStart, Discard
  <2>2. \A q \in Proc \ {conn[i]} : answer'[q] = answer[q]
    BY <1>0, <1>2 DEF Serve, JoinNak, JoinAck, SendStart, Discard
  <2>3. /\ \A q \in Proc \ {conn[i]} : c2s'[q] = c2s[q]
        /\ \A k \in 1..Len(c2s'[conn[i]]) : c2s'[conn[i]][k].type # "JOIN"
    BY <2>1, ReceivedEffect
  <2>4. ASSUME NEW q \in Proc, NEW k \in 1..Len(c2s'[q]), c2s'[q][k].type = "JOIN"
        PROVE  k = 1 /\ c2s'[q][k].name = username[q] /\ answer'[q] = "none"
    <3>1. q # conn[i]
      BY <2>3, <2>4
    <3>2. c2s'[q] = c2s[q] /\ answer'[q] = answer[q]
      BY <2>2, <2>3, <3>1
    <3> QED
      BY <1>0, <2>4, <3>2 DEF JoinComesFirst
  <2> QED
    BY <2>4 DEF JoinComesFirst
<1>3. ASSUME NEW p \in Proc, Connect(p), UNCHANGED serverVars, srv = "up"
      PROVE  JoinComesFirst'
  <2>1. answer[p] = "none" /\ answer' = answer
    BY <1>3 DEF Connect, IInv, NoTraceBeforeConnect, serverVars
  <2>2. c2s' = [c2s EXCEPT ![p] = <<JoinMsg(username[p])>>]
    BY <1>3 DEF Connect
  <2>3. /\ c2s'[p] = <<JoinMsg(username[p])>>
        /\ \A q \in Proc \ {p} : c2s'[q] = c2s[q]
    BY <1>0, <2>2
  <2>4. Len(c2s'[p]) = 1 /\ c2s'[p][1].name = username[p]
    BY <2>3 DEF JoinMsg
  <2>5. ASSUME NEW q \in Proc, NEW k \in 1..Len(c2s'[q]), c2s'[q][k].type = "JOIN"
        PROVE  k = 1 /\ c2s'[q][k].name = username[q] /\ answer'[q] = "none"
    <3>1. CASE q = p
      <4>1. k = 1
        BY <2>4, <2>5, <3>1
      <4> QED
        BY <2>1, <2>4, <3>1, <4>1
    <3>2. CASE q # p
      BY <1>0, <2>1, <2>3, <2>5, <3>2 DEF JoinComesFirst
    <3> QED
      BY <3>1, <3>2
  <2> QED
    BY <2>5 DEF JoinComesFirst
<1>4. ASSUME NEW p \in Proc, WriteLine(p), UNCHANGED serverVars
      PROVE  JoinComesFirst'
  <2>1. answer' = answer
    BY <1>4 DEF serverVars
  <2>2. <<p, in_buf[p]>> \in Line
    BY <1>4 DEF WriteLine, IInv, TypeOK, ClientTypeOK, Line
  <2> DEFINE m == SendMsg(<<p, in_buf[p]>>)
  <2>3. m \in ClientMsg /\ m.type # "JOIN"
    BY <2>2, ClientMsgFields
  <2> HIDE DEF m
  <2>4. CASE c2s' = [c2s EXCEPT ![p] = Append(@, m)]
    <3>1. /\ c2s'[p] = Append(c2s[p], m)
          /\ \A q \in Proc \ {p} : c2s'[q] = c2s[q]
      BY <1>0, <2>4
    <3>2. /\ Len(c2s[p]) \in Nat /\ Len(c2s'[p]) = Len(c2s[p]) + 1
          /\ \A k \in 1..Len(c2s[p]) : c2s'[p][k] = c2s[p][k]
          /\ c2s'[p][Len(c2s[p]) + 1] = m
      BY <1>0, <2>3, <3>1, AppendProperties, LenProperties
    <3>3. ASSUME NEW k \in 1..Len(c2s'[p]), c2s'[p][k].type = "JOIN"
          PROVE  k = 1 /\ c2s'[p][k].name = username[p] /\ answer'[p] = "none"
      <4>1. k \in 1..Len(c2s[p])
        BY <2>3, <3>2, <3>3
      <4> QED
        BY <1>0, <2>1, <3>2, <3>3, <4>1 DEF JoinComesFirst
    <3>4. ASSUME NEW q \in Proc \ {p}, NEW k \in 1..Len(c2s'[q]), c2s'[q][k].type = "JOIN"
          PROVE  k = 1 /\ c2s'[q][k].name = username[q] /\ answer'[q] = "none"
      BY <1>0, <2>1, <3>1, <3>4 DEF JoinComesFirst
    <3> QED
      BY <3>3, <3>4 DEF JoinComesFirst
  <2>5. CASE c2s' = c2s
    BY <1>1, <2>1, <2>5
  <2> QED
    BY <1>4, <2>4, <2>5 DEF WriteLine, m
<1>5. \/ UNCHANGED <<c2s, answer>>
      \/ \E i \in Fd : Serve(i) /\ ~Hangup(i)
      \/ \E p \in Proc : Connect(p) /\ srv = "up" /\ UNCHANGED serverVars
      \/ \E p \in Proc : WriteLine(p) /\ UNCHANGED serverVars
  <2>1. CASE ServerStep \/ UNCHANGED vars
    BY <2>1 DEF ServerStep, ServerLoop, Serve, serverVars, netVars, vars,
                Select, Accept, Hangup, Forward, ServerCtrlC
  <2>2. CASE \E p \in Proc : ClientStep(p)
    BY <2>2 DEF ClientStep, SocketReady, serverVars, netVars, Connect, FgetsLine,
                Recv, RecvNak, ServerHungUp, CtrlC, Exit
  <2> QED
    BY <2>1, <2>2 DEF Next
<1> QED
  BY <1>1, <1>2, <1>3, <1>4, <1>5

(* Answers are for good, and what an answered client is not yet is given only  *)
(* to a connected client.                                                      *)
LEMMA AnswerStep ==
    ASSUME IInv, [Next]_vars, NEW p \in Proc, answer'[p] # answer[p]
    PROVE  answer[p] = "none" /\ \E i \in Fd : conn[i] = p
<1>1. \/ UNCHANGED answer
      \/ \E i \in Fd : JoinNak(i) \/ JoinAck(i)
  BY DEF Next, ServerStep, ServerLoop, Serve, ClientStep, serverVars, vars,
         Select, Accept, Hangup, SendStart, Forward, Discard, ServerCtrlC
<1>2. PICK i \in Fd : JoinNak(i) \/ JoinAck(i)
  BY <1>1
<1>3. PICK m : Received(i, m) /\ m.type = "JOIN"
  BY <1>2 DEF JoinNak, JoinAck
<1>4. conn[i] \in Proc /\ answer[conn[i]] = "none"
  BY <1>3, ReceivedEffect
<1>5. \A q \in Proc \ {conn[i]} : answer'[q] = answer[q]
  <2>1. \E a \in {"ACK", "NAK"} : answer' = [answer EXCEPT ![conn[i]] = a]
    BY <1>2 DEF JoinNak, JoinAck
  <2>2. answer \in [Proc -> {"none", "ACK", "NAK"}]
    BY DEF IInv, TypeOK, ServerTypeOK
  <2> QED
    BY <2>1, <2>2
<1> QED
  BY <1>4, <1>5

(* What a server step sends goes to a connected client, and an ACK goes only   *)
(* to a client being admitted.                                                 *)
LEMMA ServerSends ==
    ASSUME IInv, ServerStep
    PROVE  \/ s2c' = s2c
           \/ \E i \in Fd, m \in ServerMsg :
                 /\ conn[i] \in Proc
                 /\ s2c' = [s2c EXCEPT ![conn[i]] = Append(@, m)]
                 /\ m = AckMsg => conn[i] \in Admitted'
<1>0. NetTypeOK /\ ServerTypeOK
  BY DEF IInv, TypeOK
<1>1. CASE UNCHANGED s2c
  BY <1>1
<1>2. ASSUME NEW i \in Fd, JoinNak(i)
      PROVE  \/ s2c' = s2c
             \/ \E m \in ServerMsg :
                   /\ conn[i] \in Proc
                   /\ s2c' = [s2c EXCEPT ![conn[i]] = Append(@, m)]
                   /\ m = AckMsg => conn[i] \in Admitted'
  <2>1. PICK m \in ClientMsg, r \in Reason, ok \in BOOLEAN :
          Received(i, m) /\ SendAll(conn[i], NakMsg(r), ok)
    BY <1>2 DEF JoinNak, Refusals, Reason
  <2>2. conn[i] \in Proc
    BY <2>1, ReceivedEffect
  <2> QED
    BY <1>0, <2>1, <2>2, SendAllEffect, ServerMsgFields
<1>3. ASSUME NEW i \in Fd, JoinAck(i)
      PROVE  \/ s2c' = s2c
             \/ \E m \in ServerMsg :
                   /\ conn[i] \in Proc
                   /\ s2c' = [s2c EXCEPT ![conn[i]] = Append(@, m)]
                   /\ m = AckMsg => conn[i] \in Admitted'
  <2>1. PICK m \in ClientMsg, ok \in BOOLEAN :
          Received(i, m) /\ SendAll(conn[i], AckMsg, ok)
    BY <1>3 DEF JoinAck
  <2>2. conn[i] \in Proc
    BY <2>1, ReceivedEffect
  <2>3. answer' = [answer EXCEPT ![conn[i]] = "ACK"]
    BY <1>3 DEF JoinAck
  <2>4. conn[i] \in Admitted'
    BY <1>0, <2>2, <2>3 DEF Admitted, ServerTypeOK
  <2> QED
    BY <1>0, <2>1, <2>2, <2>4, SendAllEffect, ServerMsgFields
<1>4. ASSUME NEW j \in Fd, Forward(j)
      PROVE  \/ s2c' = s2c
             \/ \E m \in ServerMsg :
                   /\ conn[j] \in Proc
                   /\ s2c' = [s2c EXCEPT ![conn[j]] = Append(@, m)]
                   /\ m = AckMsg => conn[j] \in Admitted'
  <2>1. conn[j] \in Proc /\ tx_buf \in ServerMsg /\ tx_buf # AckMsg
    BY <1>4, ForwardEffect
  <2>2. PICK ok \in BOOLEAN : SendAll(conn[j], tx_buf, ok)
    BY <1>4, ForwardEffect
  <2> QED
    BY <1>0, <2>1, <2>2, SendAllEffect
<1>5. \/ UNCHANGED s2c
      \/ \E i \in Fd : JoinNak(i) \/ JoinAck(i)
      \/ \E j \in Fd : Forward(j)
  BY DEF ServerStep, ServerLoop, Serve, netVars, Select, Accept, Hangup, SendStart,
         Discard, ServerCtrlC
<1> QED
  BY <1>1, <1>2, <1>3, <1>4, <1>5

(* Every step keeps a client that did not connect without an answer, packets or *)
(* a connection, and one that did in the backlog at most once.               *)
LEMMA TraceStep == IInv /\ [Next]_vars => NoTraceBeforeConnect'
<1> SUFFICES ASSUME IInv, [Next]_vars PROVE NoTraceBeforeConnect'
  OBVIOUS
<1> USE NetAssumption
<1>0. NetTypeOK /\ ServerTypeOK /\ ClientTypeOK /\ NoTraceBeforeConnect
  BY DEF IInv, TypeOK
<1>1. CASE UNCHANGED vars
  BY <1>0, <1>1 DEF vars, netVars, serverVars, clientVars, NoTraceBeforeConnect
<1>2. CASE ServerStep
  <2>1. cstate' = cstate
    BY <1>2 DEF ServerStep, clientVars
  <2>2. ASSUME NEW p \in Proc, cstate'[p] = "start"
        PROVE  answer'[p] = "none" /\ s2c'[p] = <<>>
    <3>1. answer[p] = "none" /\ s2c[p] = <<>> /\ \A i \in Fd : conn[i] # p
      BY <1>0, <2>1, <2>2 DEF NoTraceBeforeConnect
    <3>2. answer'[p] = "none"
      BY <3>1, AnswerStep
    <3>3. s2c'[p] = <<>>
      BY <1>0, <1>2, <3>1, ServerSends DEF NetTypeOK
    <3> QED
      BY <3>2, <3>3
  <2>3. CASE UNCHANGED <<backlog, conn>>
    BY <1>0, <2>1, <2>2, <2>3 DEF NoTraceBeforeConnect
  <2>4. CASE \E i \in Fd : Hangup(i)
    <3>1. backlog' = backlog /\ \A i \in Fd : conn'[i] \in {conn[i], NoProc}
      BY <1>0, <2>4 DEF Hangup, netVars, ServerTypeOK
    <3> QED
      BY <1>0, <2>1, <2>2, <3>1 DEF NoTraceBeforeConnect
  <2>5. ASSUME Accept, ~UNCHANGED <<backlog, conn>> PROVE NoTraceBeforeConnect'
    <3>1. PICK i \in Fd :
            /\ backlog # <<>>
            /\ backlog' = Tail(backlog)
            /\ conn' = [conn EXCEPT ![i] = Head(backlog)]
      BY <2>5, AcceptEffect DEF FreeFd
    <3>2. /\ Head(backlog) \in Proc /\ Head(backlog) = backlog[1]
          /\ Len(backlog) \in Nat \ {0}
          /\ Len(backlog') = Len(backlog) - 1
          /\ \A k \in 1..Len(backlog') : backlog'[k] = backlog[k + 1]
      BY <1>0, <3>1, HeadTailProperties, EmptySeq DEF NetTypeOK
    <3>3. /\ 1 \in 1..Len(backlog)
          /\ \A k \in 1..Len(backlog') : k + 1 \in 1..Len(backlog)
      BY <3>2
    <3>4. ASSUME NEW p \in Proc, cstate'[p] = "start"
          PROVE  /\ \A j \in Fd : conn'[j] # p
                 /\ \A k \in 1..Len(backlog') : backlog'[k] # p
      BY <1>0, <2>1, <3>1, <3>2, <3>3, <3>4 DEF NoTraceBeforeConnect, ServerTypeOK
    <3>5. \A j, k \in 1..Len(backlog') : backlog'[j] = backlog'[k] => j = k
      <4> SUFFICES ASSUME NEW j \in 1..Len(backlog'), NEW k \in 1..Len(backlog'),
                          backlog'[j] = backlog'[k]
                   PROVE  j = k
        OBVIOUS
      <4>1. j + 1 = k + 1
        BY <1>0, <3>2, <3>3 DEF NoTraceBeforeConnect
      <4> QED
        BY <3>2, <4>1
    <3> QED
      BY <2>2, <3>4, <3>5 DEF NoTraceBeforeConnect
  <2>6. \/ UNCHANGED <<backlog, conn>> \/ Accept \/ \E i \in Fd : Hangup(i)
    BY <1>2 DEF ServerStep, ServerLoop, Serve, Select, JoinNak, JoinAck, SendStart,
                Forward, Discard, ServerCtrlC, netVars, serverVars
  <2> QED
    BY <2>3, <2>4, <2>5, <2>6
<1>3. ASSUME NEW p \in Proc, ClientStep(p) PROVE NoTraceBeforeConnect'
  <2>1. UNCHANGED <<conn, answer>>
    BY <1>3 DEF ClientStep, serverVars
  <2>2. CASE Connect(p) /\ srv = "up"
    <3>1. backlog' = Append(backlog, p) /\ UNCHANGED s2c /\ cstate[p] = "start"
          /\ cstate' = [cstate EXCEPT ![p] = "run"]
      BY <2>2 DEF Connect
    <3>2. /\ Len(backlog) \in Nat /\ Len(backlog') = Len(backlog) + 1
          /\ \A k \in 1..Len(backlog) : backlog'[k] = backlog[k]
          /\ backlog'[Len(backlog) + 1] = p
      <4>1. backlog \in Seq(Proc)
        BY <1>0 DEF NetTypeOK
      <4> QED
        BY <3>1, <4>1, AppendProperties, LenProperties
    <3>3. \A k \in 1..Len(backlog) : backlog[k] # p
      BY <1>0, <3>1 DEF NoTraceBeforeConnect
    <3>4. ASSUME NEW q \in Proc, cstate'[q] = "start"
          PROVE  /\ answer'[q] = "none" /\ s2c'[q] = <<>>
                 /\ \A i \in Fd : conn'[i] # q
                 /\ \A k \in 1..Len(backlog') : backlog'[k] # q
      <4>1. q # p /\ cstate[q] = "start"
        BY <1>0, <3>1, <3>4 DEF ClientTypeOK
      <4> QED
        BY <1>0, <2>1, <3>1, <3>2, <4>1 DEF NoTraceBeforeConnect
    <3>5. \A j, k \in 1..Len(backlog') : backlog'[j] = backlog'[k] => j = k
      BY <1>0, <3>2, <3>3 DEF NoTraceBeforeConnect
    <3> QED
      BY <3>4, <3>5 DEF NoTraceBeforeConnect
  <2>3. CASE ~(Connect(p) /\ srv = "up")
    <3>1. /\ backlog' = backlog
          /\ \A q \in Proc : cstate'[q] = "start" =>
                cstate[q] = "start" /\ (s2c[q] = <<>> => s2c'[q] = <<>>)
      <4>1. CASE Connect(p)
        BY <1>0, <2>3, <4>1 DEF Connect, ClientTypeOK
      <4>2. CASE FgetsLine(p) \/ WriteLine(p)
        BY <4>2 DEF FgetsLine, WriteLine, netVars
      <4>3. CASE Recv(p)
        BY <1>0, <4>3 DEF Recv, Got, Running, NetTypeOK
      <4>4. ASSUME NEW unread, Exit(p, unread)
            PROVE  /\ backlog' = backlog
                   /\ \A q \in Proc : cstate'[q] = "start" =>
                         cstate[q] = "start" /\ (s2c[q] = <<>> => s2c'[q] = <<>>)
        BY <1>0, <4>4 DEF Exit, CloseBy, NetTypeOK, ClientTypeOK
      <4> QED
        BY <1>3, <4>1, <4>2, <4>3, <4>4
           DEF ClientStep, SocketReady, RecvNak, ServerHungUp, CtrlC
    <3> QED
      BY <1>0, <2>1, <3>1 DEF NoTraceBeforeConnect
  <2> QED
    BY <2>2, <2>3
<1> QED
  BY <1>1, <1>2, <1>3 DEF Next

(* Every step keeps ACKs to admitted clients: those on their way and those a *)
(* client has decoded.                                                       *)
LEMMA AckStep == IInv /\ [Next]_vars => AckMeansAdmitted'
<1> SUFFICES ASSUME IInv, [Next]_vars PROVE AckMeansAdmitted'
  OBVIOUS
<1>0. NetTypeOK /\ ServerTypeOK /\ ClientTypeOK /\ AckMeansAdmitted
  BY DEF IInv, TypeOK
<1>1. Admitted \subseteq Admitted'
  BY AnswerStep DEF Admitted
<1>2. ASSUME UNCHANGED <<loggedIn, s2c>> PROVE AckMeansAdmitted'
  BY <1>0, <1>1, <1>2 DEF AckMeansAdmitted
<1>3. CASE ServerStep
  <2>1. loggedIn' = loggedIn
    BY <1>3 DEF ServerStep, clientVars
  <2>2. ASSUME NEW i \in Fd, NEW m \in ServerMsg, conn[i] \in Proc,
               s2c' = [s2c EXCEPT ![conn[i]] = Append(@, m)],
               m = AckMsg => conn[i] \in Admitted'
        PROVE  AckMeansAdmitted'
    <3> DEFINE p == conn[i]
    <3>1. s2c'[p] = Append(s2c[p], m) /\ \A q \in Proc \ {p} : s2c'[q] = s2c[q]
      BY <1>0, <2>2 DEF NetTypeOK
    <3>2. /\ Len(s2c[p]) \in Nat /\ Len(s2c'[p]) = Len(s2c[p]) + 1
          /\ \A k \in 1..Len(s2c[p]) : s2c'[p][k] = s2c[p][k]
          /\ s2c'[p][Len(s2c[p]) + 1] = m
      <4>1. s2c[p] \in Seq(ServerMsg)
        BY <1>0, <2>2 DEF NetTypeOK
      <4> QED
        BY <3>1, <4>1, AppendProperties, LenProperties
    <3>3. ASSUME NEW k \in 1..Len(s2c'[p]), s2c'[p][k] = AckMsg PROVE p \in Admitted'
      <4>1. CASE k \in 1..Len(s2c[p])
        BY <1>0, <1>1, <2>2, <3>2, <3>3, <4>1 DEF AckMeansAdmitted
      <4>2. CASE k = Len(s2c[p]) + 1
        BY <2>2, <3>2, <3>3, <4>2
      <4> QED
        BY <3>2, <4>1, <4>2
    <3> QED
      BY <1>0, <1>1, <2>1, <3>1, <3>3 DEF AckMeansAdmitted
  <2> QED
    BY <1>2, <1>3, <2>1, <2>2, ServerSends
<1>4. ASSUME NEW p \in Proc, Recv(p) PROVE AckMeansAdmitted'
  <2>1. PICK m \in ServerMsg, rest \in Remainders(s2c[p]) :
          /\ s2c[p] # <<>> /\ m = Head(s2c[p])
          /\ s2c' = [s2c EXCEPT ![p] = rest]
          /\ loggedIn' = [loggedIn EXCEPT ![p] = @ \/ m.type = "ACK"]
    BY <1>4 DEF Recv, Got
  <2>2. s2c[p] \in Seq(ServerMsg)
    BY <1>0 DEF NetTypeOK
  <2>3. m = s2c[p][1] /\ 1 \in 1..Len(s2c[p])
    BY <2>1, <2>2, EmptySeq
  <2>4. m.type = "ACK" => p \in Admitted
    BY <1>0, <2>3, ServerMsgFields DEF AckMeansAdmitted
  <2>5. \A q \in Proc : loggedIn'[q] => q \in Admitted
    BY <1>0, <2>1, <2>4 DEF AckMeansAdmitted, ClientTypeOK
  <2>6. s2c'[p] = rest /\ \A q \in Proc \ {p} : s2c'[q] = s2c[q]
    BY <1>0, <2>1 DEF NetTypeOK
  <2>7. \A k \in 1..Len(rest) :
            rest[k] = FragMsg \/ \E j \in 2..Len(s2c[p]) : rest[k] = s2c[p][j]
    BY <2>2, ClientMsgFields, RemaindersProperties
  <2>8. ASSUME NEW k \in 1..Len(rest), rest[k] = AckMsg PROVE p \in Admitted
    <3>1. PICK j \in 2..Len(s2c[p]) : rest[k] = s2c[p][j]
      BY <2>7, <2>8, ServerMsgFields
    <3>2. j \in 1..Len(s2c[p])
      BY <2>2, LenProperties
    <3> QED
      BY <1>0, <2>8, <3>1, <3>2 DEF AckMeansAdmitted
  <2> QED
    BY <1>0, <1>1, <2>5, <2>6, <2>8 DEF AckMeansAdmitted
<1>5. ASSUME NEW p \in Proc, NEW unread, Exit(p, unread) PROVE AckMeansAdmitted'
  <2>1. loggedIn' = loggedIn
    BY <1>5 DEF Exit
  <2>2. s2c'[p] = <<>> /\ \A q \in Proc \ {p} : s2c'[q] = s2c[q]
    BY <1>0, <1>5 DEF Exit, CloseBy, NetTypeOK
  <2> QED
    BY <1>0, <1>1, <2>1, <2>2, EmptySeq DEF AckMeansAdmitted
<1>6. \/ ServerStep
      \/ UNCHANGED <<loggedIn, s2c>>
      \/ \E p \in Proc : Recv(p) \/ \E unread : Exit(p, unread)
  BY DEF Next, ClientStep, SocketReady, Connect, FgetsLine, WriteLine, RecvNak,
         ServerHungUp, CtrlC, vars, netVars, clientVars
<1> QED
  BY <1>2, <1>3, <1>4, <1>5, <1>6

-----------------------------------------------------------------------------
(* When the server has started and no client has, IInv holds.                *)
LEMMA InitIInv == Init => IInv
<1> SUFFICES ASSUME Init PROVE IInv
  OBVIOUS
<1> USE NetAssumption, ClientAssumption
<1>1. NetTypeOK
  BY DEF Init, NetInit, NetTypeOK, NetState
<1>2. ServerTypeOK
  BY DEF Init, ServerInit, ServerTypeOK
<1>3. ClientTypeOK
  BY DEF Init, ClientInit, ClientTypeOK, LineNo
<1>4. SocketAccounting
  BY EmptySeq DEF Init, NetInit, ServerInit, SocketAccounting, sockfd
<1>5. Admitted = {} /\ Roster = {} /\ n_clients = 0
  BY DEF Init, ServerInit, Admitted, Roster, n_clients
<1>6. RosterSound /\ RosterIsAdmitted
  BY <1>5, FS_EmptySet DEF Init, ServerInit, RosterSound, RosterIsAdmitted
<1>7. JoinComesFirst /\ NoTraceBeforeConnect /\ AckMeansAdmitted /\ BacklogUnanswered
  BY DEF Init, NetInit, ServerInit, ClientInit, JoinComesFirst, NoTraceBeforeConnect,
         AckMeansAdmitted, BacklogUnanswered
<1> QED
  BY <1>1, <1>2, <1>3, <1>4, <1>6, <1>7 DEF IInv, TypeOK

(* Every step keeps IInv.                                                     *)
LEMMA InvStep == IInv /\ [Next]_vars => IInv'
BY TypeStep, SocketStep, RosterStep, JoinStep, TraceStep, AckStep, BacklogStep DEF IInv

(* IInv is an inductive invariant of the chat room.                            *)
THEOREM ChatInvariant == Spec => []IInv
<1>1. Init => IInv
  BY InitIInv
<1>2. IInv /\ [Next]_vars => IInv'
  BY InvStep
<1> QED
  BY <1>1, <1>2, PTL DEF Spec

(* Type correctness of the server, the clients and the connections, for every  *)
(* number of clients, descriptors and lines.                                   *)
THEOREM ChatTypeOK == Spec => []TypeOK
<1>1. IInv => TypeOK
  BY DEF IInv
<1> QED
  BY <1>1, ChatInvariant, PTL

(* The descriptor set of the server's select() loop is exact (server.c 94-136).*)
THEOREM ChatSocketAccounting == Spec => []SocketAccounting
<1>1. IInv => SocketAccounting
  BY DEF IInv
<1> QED
  BY <1>1, ChatInvariant, PTL

(* The client array never overflows, holds no name twice and only names of     *)
(* admitted clients, and the ones still connected are found in it by their     *)
(* descriptor (server.c 170-221).                                              *)
THEOREM ChatRosterSound == Spec => []RosterSound
<1>1. IInv => RosterSound
  BY DEF IInv
<1> QED
  BY <1>1, ChatInvariant, PTL

(* No two users in the chat room have one username.                            *)
THEOREM ChatOneUserPerName == Spec => []OneUserPerName
<1>1. IInv => OneUserPerName
  BY DEF IInv, AckMeansAdmitted, RosterIsAdmitted, OneUserPerName, InRoom
<1> QED
  BY <1>1, ChatInvariant, PTL

(* The chat server implements Admission: every step answers at most one JOIN,   *)
(* with an ACK exactly when there is room and the name is free.                 *)
THEOREM ChatImplementsAdmission == Spec => AdmissionSpec
<1> USE NetAssumption
<1>1. Init => Promise!Init
  BY DEF Init, ServerInit, Promise!Init, Admitted
<1>2. IInv /\ [Next]_vars => [Promise!Next]_(Promise!vars)
  <2> SUFFICES ASSUME IInv, [Next]_vars PROVE [Promise!Next]_(Promise!vars)
    OBVIOUS
  <2>0. /\ answer \in [Proc -> {"none", "ACK", "NAK"}] /\ RosterIsAdmitted
        /\ Len(clients) \in Nat
    BY LenProperties DEF IInv, TypeOK, ServerTypeOK
  <2>1. CASE UNCHANGED answer
    BY <2>1 DEF Promise!vars, Admitted
  <2>2. ASSUME NEW i \in Fd, JoinNak(i) \/ JoinAck(i) PROVE Promise!Next
    <3>1. ASSUME NEW m, Received(i, m), m.type = "JOIN"
          PROVE  conn[i] \in Proc /\ m.name = username[conn[i]] /\ answer[conn[i]] = "none"
      BY <3>1, ReceivedEffect
    <3>2. PICK p \in Proc : p = conn[i] /\ answer[p] = "none"
      BY <2>2, <3>1 DEF JoinNak, JoinAck
    <3>3. username[p] \in Roster <=> Promise!NameUsed(p)
      BY <2>0, <3>2 DEF RosterIsAdmitted, Promise!NameUsed
    <3>4. n_clients >= max_clients <=> Promise!Full
      <4>1. Cardinality(Admitted) = n_clients
        BY <2>0 DEF RosterIsAdmitted
      <4> QED
        <5>1. Promise!Cardinality(Admitted) = Cardinality(Admitted)
          BY DEF Promise!Cardinality, Cardinality
        <5> QED
          BY <4>1, <5>1 DEF Promise!Full
    <3>5. Promise!Unanswered(p)
      BY <3>2 DEF Promise!Unanswered, Admitted
    <3>6. CASE JoinNak(i)
      <4>1. Refusals(username[p]) # {} /\ answer' = [answer EXCEPT ![p] = "NAK"]
        BY <3>1, <3>2, <3>6 DEF JoinNak
      <4>2. Promise!NameUsed(p) \/ Promise!Full
        BY <3>3, <3>4, <4>1 DEF Refusals
      <4>3. Promise!Refuse(p)
        BY <2>0, <3>2, <3>5, <4>1, <4>2 DEF Promise!Refuse, Admitted
      <4> QED
        BY <3>2, <4>3 DEF Promise!Next
    <3>7. CASE JoinAck(i)
      <4>1. Refusals(username[p]) = {} /\ answer' = [answer EXCEPT ![p] = "ACK"]
        BY <3>1, <3>2, <3>7 DEF JoinAck
      <4>2. ~Promise!NameUsed(p) /\ ~Promise!Full
        BY <3>3, <3>4, <4>1 DEF Refusals
      <4>3. Promise!Admit(p)
        BY <2>0, <3>2, <3>5, <4>1, <4>2 DEF Promise!Admit, Admitted
      <4> QED
        BY <3>2, <4>3 DEF Promise!Next
    <3> QED
      BY <2>2, <3>6, <3>7
  <2>3. \/ UNCHANGED answer
        \/ \E i \in Fd : JoinNak(i) \/ JoinAck(i)
    BY DEF Next, ServerStep, ServerLoop, Serve, ClientStep, serverVars, vars,
           Select, Accept, Hangup, SendStart, Forward, Discard, ServerCtrlC
  <2> QED
    BY <2>1, <2>2, <2>3
<1> QED
  BY <1>1, <1>2, ChatInvariant, PTL DEF Spec, AdmissionSpec, Promise!Spec
=============================================================================
