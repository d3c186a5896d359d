-------------------------- MODULE SbcpLinesProofs --------------------------
(***************************************************************************)
(* Machine-checked proofs about the lines of the chat room: whose name they  *)
(* carry, and that SbcpChat implements Broadcast.                            *)
(***************************************************************************)
EXTENDS SbcpChatProofs

-----------------------------------------------------------------------------
(* The inductive invariant.                                                  *)

(* l was said before m, if one client said both.                             *)
Before(l, m) == l[1] = m[1] => l[2] < m[2]

(* The lines the server has read from their author's stream, or could have:  *)
(* they come before all that waits in the stream, in in_buf or at the        *)
(* terminal.                                                                 *)
PastLines ==
    {l \in Line :
        /\ l[2] <= typed[l[1]]
        /\ in_buf[l[1]] # NoLine => l[2] < typed[l[1]]
        /\ \A k \in 1..Len(c2s[l[1]]) :
              c2s[l[1]][k].type = "SEND" => l[2] < c2s[l[1]][k].line[2]}

(* The lines in p's stream are its own, each once and in the order typed.    *)
OwnLines(p) ==
    /\ in_buf[p] # NoLine => in_buf[p] = typed[p]
    /\ \A k \in 1..Len(c2s[p]) : c2s[p][k].type = "SEND" =>
          /\ c2s[p][k].line[1] = p
          /\ c2s[p][k].line[2] <= typed[p]
          /\ in_buf[p] # NoLine => c2s[p][k].line[2] < typed[p]
    /\ \A j, k \in 1..Len(c2s[p]) :
          j < k /\ c2s[p][j].type = "SEND" /\ c2s[p][k].type = "SEND"
            => c2s[p][j].line[2] < c2s[p][k].line[2]

OwnLinesInOrder == \A p \in Proc : OwnLines(p)

(* What was forwarded to r, shown or not, with the name it goes under.        *)
Forwarded(r) ==
    {shown[r][k] : k \in 1..Len(shown[r])}
      \cup {<<s2c[r][k].name, s2c[r][k].line>> :
               k \in {n \in 1..Len(s2c[r]) : s2c[r][n].type = "FWD"}}

(* The lines forwarded to r are lines of others, read by the server.         *)
ForwardedArePast ==
    \A r \in Proc : \A x \in Forwarded(r) : x[2][1] # r /\ x[2] \in PastLines

(* What was forwarded to r keeps the order of each author's lines.           *)
InOrder(r) ==
    /\ \A j, k \in 1..Len(shown[r]) :
          j < k => Before(shown[r][j][2], shown[r][k][2])
    /\ \A j \in 1..Len(shown[r]) : \A k \in 1..Len(s2c[r]) :
          s2c[r][k].type = "FWD" => Before(shown[r][j][2], s2c[r][k].line)
    /\ \A j, k \in 1..Len(s2c[r]) :
          j < k /\ s2c[r][j].type = "FWD" /\ s2c[r][k].type = "FWD"
            => Before(s2c[r][j].line, s2c[r][k].line)

ForwardedInOrder == \A r \in Proc : InOrder(r)

(* The line being broadcast is new to everybody the broadcast has yet to     *)
(* come to, and they are not its author.                                     *)
BroadcastIsNew ==
    tx_buf # Empty =>
        /\ tx_buf.line \in PastLines
        /\ \A i \in fwd_left :
              /\ conn[i] # tx_buf.line[1]
              /\ \A x \in Forwarded(conn[i]) : Before(x[2], tx_buf.line)

(* No admitted client has left.                                              *)
NobodyLeft == \A p \in Proc : answer[p] = "ACK" => Connected(p)

(* The names and lines that go together: the author was admitted by the name. *)
Truthful ==
    {x \in Name \X Line : answer[x[2][1]] = "ACK" /\ x[1] = username[x[2][1]]}

(* The descriptor of a roster entry leads to the client admitted by its name. *)
RosterTruthful ==
    \A k \in 1..n_clients :
        /\ conn[clients[k].sockfd] \in Admitted
        /\ clients[k].username = username[conn[clients[k].sockfd]]

(* Every line has its author's name: the one being broadcast, those on their *)
(* way and those shown.                                                      *)
LinesTruthful ==
    /\ tx_buf # Empty => <<tx_buf.name, tx_buf.line>> \in Truthful
    /\ \A r \in Proc : Forwarded(r) \subseteq Truthful

LInv ==
    /\ IInv
    /\ OwnLinesInOrder
    /\ ForwardedArePast
    /\ ForwardedInOrder
    /\ BroadcastIsNew
    /\ NobodyLeft => RosterTruthful /\ LinesTruthful

-----------------------------------------------------------------------------
(* Lemmas about the operators.                                               *)

(* The packets that carry a line, and those that carry none.                 *)
LEMMA LinePackets ==
    /\ \A l : SendMsg(l).type = "SEND" /\ SendMsg(l).line = l
    /\ \A n, l : /\ FwdMsg(n, l).type = "FWD"
                 /\ FwdMsg(n, l).name = n /\ FwdMsg(n, l).line = l
                 /\ FwdMsg(n, l) # Empty
    /\ \A n : JoinMsg(n).type # "SEND"
    /\ \A r : NakMsg(r).type # "FWD"
    /\ AckMsg.type # "FWD"
    /\ FragMsg.type # "SEND" /\ FragMsg.type # "FWD"
BY DEF SendMsg, FwdMsg, JoinMsg, NakMsg, AckMsg, FragMsg, Empty

(* A line is a pair of its author and a number, which is not 0 unless in_buf  *)
(* may start with text.                                                      *)
LEMMA LineFields ==
    \A l \in Line : /\ l[1] \in Proc /\ l[2] \in Nat /\ l = <<l[1], l[2]>>
                    /\ BufStart = {NoLine} => l[2] # 0
<1> SUFFICES ASSUME NEW l \in Line
             PROVE  /\ l[1] \in Proc /\ l[2] \in Nat /\ l = <<l[1], l[2]>>
                    /\ BufStart = {NoLine} => l[2] # 0
  OBVIOUS
<1>1. PICK p \in Proc : l \in {p} \X LineNo(p)
  BY DEF Line
<1>2. MaxLines[p] \in Nat
  BY NetAssumption
<1>3. LineNo(p) \subseteq Nat /\ (BufStart = {NoLine} => 0 \notin LineNo(p))
  BY <1>2, ClientAssumption DEF LineNo
<1> QED
  BY <1>1, <1>3

(* What recv() leaves of a stream keeps its order: apart from the tail of a  *)
(* packet, it is the stream moved down, without its head.                    *)
LEMMA RemaindersShift ==
    ASSUME NEW T, FragMsg \in T, NEW q \in Seq(T), NEW rest \in Remainders(q)
    PROVE  \E d \in Nat : \A k \in 1..Len(rest) :
              rest[k] = FragMsg \/ (k + d \in 2..Len(q) /\ rest[k] = q[k + d])
<1>0. Len(q) \in Nat
  BY LenProperties
<1>1. ASSUME NEW k \in 1..Len(q)
      PROVE  /\ SubSeq(q, k + 1, Len(q)) \in Seq(T)
             /\ \A n \in 1..Len(SubSeq(q, k + 1, Len(q))) :
                   n + k \in 2..Len(q) /\ SubSeq(q, k + 1, Len(q))[n] = q[n + k]
  <2> DEFINE t == SubSeq(q, k + 1, Len(q))
  <2>1. \A i \in (k + 1)..Len(q) : q[i] \in T
    BY <1>0, ElementOfSeq
  <2>2. /\ t \in Seq(T)
        /\ Len(t) = IF k + 1 <= Len(q) THEN Len(q) - (k + 1) + 1 ELSE 0
        /\ \A i \in 1..(Len(q) - (k + 1) + 1) : t[i] = q[(k + 1) + i - 1]
    BY <1>0, <2>1, SubSeqProperties
  <2> HIDE DEF t
  <2>3. ASSUME NEW n \in 1..Len(t) PROVE n + k \in 2..Len(q) /\ t[n] = q[n + k]
    <3>1. n \in 1..(Len(q) - (k + 1) + 1)
      BY <1>0, <2>2
    <3>2. n + k \in 2..Len(q) /\ (k + 1) + n - 1 = n + k
      BY <1>0, <3>1
    <3> QED
      BY <2>2, <3>1, <3>2
  <2> QED
    BY <2>2, <2>3 DEF t
<1>2. CASE rest \in {SubSeq(q, k + 1, Len(q)) : k \in 1..Len(q)}
  <2>1. PICK k \in 1..Len(q) : rest = SubSeq(q, k + 1, Len(q))
    BY <1>2
  <2>2. k \in Nat /\ \A n \in 1..Len(rest) : n + k \in 2..Len(q) /\ rest[n] = q[n + k]
    BY <1>1, <2>1
  <2> QED
    BY <2>2
<1>3. CASE rest \in {<<FragMsg>> \o SubSeq(q, k + 1, Len(q)) : k \in 2..Len(q)}
  <2>1. PICK k \in 2..Len(q) : rest = <<FragMsg>> \o SubSeq(q, k + 1, Len(q))
    BY <1>3
  <2> DEFINE t == SubSeq(q, k + 1, Len(q))
  <2>2. t \in Seq(T) /\ \A n \in 1..Len(t) : n + k \in 2..Len(q) /\ t[n] = q[n + k]
    BY <1>0, <1>1
  <2>3. rest = <<FragMsg>> \o t
    BY <2>1
  <2> HIDE DEF t
  <2>4. <<FragMsg>> \in Seq(T) /\ Len(<<FragMsg>>) = 1 /\ <<FragMsg>>[1] = FragMsg
    OBVIOUS
  <2>5. /\ Len(rest) = 1 + Len(t)
        /\ \A i \in 1..(1 + Len(t)) :
              rest[i] = IF i <= 1 THEN <<FragMsg>>[i] ELSE t[i - 1]
    BY <2>2, <2>3, <2>4, ConcatProperties
  <2>6. Len(t) \in Nat /\ k - 1 \in Nat
    BY <2>2, LenProperties
  <2>7. ASSUME NEW i \in 1..Len(rest)
        PROVE  rest[i] = FragMsg \/ (i + (k - 1) \in 2..Len(q) /\ rest[i] = q[i + (k - 1)])
    <3>1. CASE i = 1
      BY <2>4, <2>5, <2>6, <3>1
    <3>2. CASE i # 1
      <4>1. i \in 1..(1 + Len(t)) /\ ~(i <= 1)
        BY <2>5, <2>6, <3>2
      <4>2. i - 1 \in 1..Len(t) /\ (i - 1) + k = i + (k - 1)
        BY <2>6, <4>1
      <4>3. rest[i] = t[i - 1]
        BY <2>5, <4>1
      <4> QED
        BY <2>2, <4>2, <4>3
    <3> QED
      BY <3>1, <3>2
  <2> QED
    BY <2>6, <2>7
<1> QED
  BY <1>2, <1>3 DEF Remainders

(* The stream of a client after recv(): the rest of it in order, and all of  *)
(* it was behind the packet m.                                               *)
LEMMA ReceivedRest ==
    ASSUME IInv, NEW i \in Fd, NEW m, Received(i, m)
    PROVE  /\ Len(c2s[conn[i]]) \in Nat /\ 1 \in 1..Len(c2s[conn[i]])
           /\ m = c2s[conn[i]][1]
           /\ \E d \in Nat : \A k \in 1..Len(c2s'[conn[i]]) :
                 \/ c2s'[conn[i]][k] = FragMsg
                 \/ /\ k + d \in 2..Len(c2s[conn[i]])
                    /\ c2s'[conn[i]][k] = c2s[conn[i]][k + d]
<1> DEFINE p == conn[i]
<1>1. p \in Proc
  BY ReceivedEffect
<1>2. c2s \in [Proc -> Seq(ClientMsg)] /\ c2s[p] \in Seq(ClientMsg)
  BY <1>1 DEF IInv, TypeOK, NetTypeOK
<1>3. PICK rest \in Remainders(c2s[p]) : c2s' = [c2s EXCEPT ![p] = rest]
  BY DEF Received
<1>4. c2s[p] # <<>> /\ m = Head(c2s[p])
  BY DEF Received
<1>5. m = c2s[p][1] /\ 1 \in 1..Len(c2s[p]) /\ Len(c2s[p]) \in Nat
  BY <1>2, <1>4, HeadTailProperties, EmptySeq
<1>6. \E d \in Nat : \A k \in 1..Len(rest) :
         rest[k] = FragMsg \/ (k + d \in 2..Len(c2s[p]) /\ rest[k] = c2s[p][k + d])
  BY <1>2, <1>3, RemaindersShift, ClientMsgFields
<1>7. c2s'[p] = rest
  BY <1>1, <1>2, <1>3
<1> QED
  BY <1>5, <1>6, <1>7

(* Which steps touch the streams to the server, in_buf and typed.            *)
LEMMA StreamSteps ==
    ASSUME IInv, [Next]_vars
    PROVE  \/ UNCHANGED <<c2s, in_buf, typed>>
           \/ /\ \E i \in Fd, m \in ClientMsg : Received(i, m)
              /\ UNCHANGED <<in_buf, typed>>
           \/ \E p \in Proc : Connect(p) \/ FgetsLine(p) \/ WriteLine(p)
           \/ \E p \in Proc : /\ in_buf' = [in_buf EXCEPT ![p] = NoLine]
                              /\ UNCHANGED <<c2s, typed>>
<1>1. CASE UNCHANGED vars
  BY <1>1 DEF vars, netVars, clientVars
<1>2. CASE ServerStep
  BY <1>2 DEF ServerStep, ServerLoop, Serve, clientVars, netVars, Select, Accept, Hangup,
              JoinNak, JoinAck, SendStart, Forward, Discard, ServerCtrlC, SendAll
<1>3. ASSUME NEW p \in Proc, ClientStep(p)
      PROVE  \/ UNCHANGED <<c2s, in_buf, typed>>
             \/ Connect(p) \/ FgetsLine(p) \/ WriteLine(p)
             \/ in_buf' = [in_buf EXCEPT ![p] = NoLine] /\ UNCHANGED <<c2s, typed>>
  BY <1>3 DEF ClientStep, SocketReady, Recv, RecvNak, ServerHungUp, CtrlC, Exit
<1> QED
  BY <1>1, <1>2, <1>3 DEF Next

(* The packets of the streams to the server.                                 *)
LEMMA StreamPackets ==
    ASSUME IInv, NEW p \in Proc
    PROVE  /\ c2s[p] \in Seq(ClientMsg) /\ Len(c2s[p]) \in Nat
           /\ \A k \in 1..Len(c2s[p]) : c2s[p][k].type = "SEND" =>
                 c2s[p][k].line \in Line /\ c2s[p][k].line[2] \in Nat
<1>1. c2s[p] \in Seq(ClientMsg) /\ Len(c2s[p]) \in Nat
  BY LenProperties DEF IInv, TypeOK, NetTypeOK
<1>2. \A k \in 1..Len(c2s[p]) : c2s[p][k] \in ClientMsg
  BY <1>1, ElementOfSeq
<1> QED
  BY <1>1, <1>2, ClientMsgFields, LineFields

-----------------------------------------------------------------------------
(* One step of the system keeps the parts of LInv.                           *)

(* A step of recv() leaves streams in order.                                 *)
LEMMA OwnLinesReceived ==
    ASSUME IInv, OwnLinesInOrder, NEW i \in Fd, NEW m, Received(i, m),
           UNCHANGED <<in_buf, typed>>
    PROVE  OwnLinesInOrder'
<1> DEFINE p == conn[i]
<1>1. p \in Proc /\ \A q \in Proc \ {p} : c2s'[q] = c2s[q]
  BY ReceivedEffect
<1>2. PICK d \in Nat : \A k \in 1..Len(c2s'[p]) :
         \/ c2s'[p][k] = FragMsg
         \/ /\ k + d \in 2..Len(c2s[p])
            /\ c2s'[p][k] = c2s[p][k + d]
  BY ReceivedRest
<1>3. Len(c2s[p]) \in Nat
  BY ReceivedRest
<1>4. \A k \in 1..Len(c2s'[p]) : c2s'[p][k].type = "SEND" =>
          k + d \in 1..Len(c2s[p]) /\ c2s'[p][k] = c2s[p][k + d]
  BY <1>2, <1>3, LinePackets
<1>5. \A j, k \in 1..Len(c2s'[p]) : j < k => j + d < k + d
  OBVIOUS
<1>6. ASSUME NEW q \in Proc, q # p PROVE OwnLines(q)'
  <2>1. UNCHANGED <<c2s[q], in_buf[q], typed[q]>>
    BY <1>1, <1>6
  <2> QED
    BY <2>1 DEF OwnLinesInOrder, OwnLines
<1>7. /\ in_buf'[p] # NoLine => in_buf'[p] = typed'[p]
      /\ \A k \in 1..Len(c2s'[p]) : c2s'[p][k].type = "SEND" =>
            /\ c2s'[p][k].line[1] = p
            /\ c2s'[p][k].line[2] <= typed'[p]
            /\ in_buf'[p] # NoLine => c2s'[p][k].line[2] < typed'[p]
  <2> HIDE DEF p
  <2> QED
    BY <1>1, <1>4 DEF OwnLinesInOrder, OwnLines
<1>8. ASSUME NEW j \in 1..Len(c2s'[p]), NEW k \in 1..Len(c2s'[p]), j < k,
             c2s'[p][j].type = "SEND", c2s'[p][k].type = "SEND"
      PROVE  c2s'[p][j].line[2] < c2s'[p][k].line[2]
  <2> HIDE DEF p
  <2>1. j + d \in 1..Len(c2s[p]) /\ k + d \in 1..Len(c2s[p]) /\ j + d < k + d
    BY <1>4, <1>5, <1>8
  <2>2. c2s'[p][j] = c2s[p][j + d] /\ c2s'[p][k] = c2s[p][k + d]
    BY <1>4, <1>8
  <2>3. OwnLines(p)
    BY <1>1 DEF OwnLinesInOrder
  <2>4. c2s[p][j + d].type = "SEND" /\ c2s[p][k + d].type = "SEND"
    BY <1>8, <2>2
  <2>5. c2s[p][j + d].line[2] < c2s[p][k + d].line[2]
    BY <2>1, <2>3, <2>4 DEF OwnLines
  <2> QED
    BY <2>2, <2>5
<1>9. ASSUME NEW q \in Proc, q = p PROVE OwnLines(q)'
  <2> HIDE DEF p
  <2> QED
    BY <1>7, <1>8, <1>9 DEF OwnLines
<1> HIDE DEF p
<1> QED
  BY <1>6, <1>9 DEF OwnLinesInOrder

(* Every step keeps the streams of the clients to their own lines, in order.  *)
LEMMA OwnLinesStep ==
    ASSUME IInv, OwnLinesInOrder, [Next]_vars
    PROVE  OwnLinesInOrder'
<1> USE NetAssumption, ClientAssumption
<1>0. /\ in_buf \in [Proc -> Nat \cup {NoLine}] /\ typed \in [Proc -> Nat]
      /\ c2s \in [Proc -> Seq(ClientMsg)]
  BY DEF IInv, TypeOK, ClientTypeOK, NetTypeOK
<1>a. ASSUME NEW p \in Proc, UNCHANGED <<c2s[p], in_buf[p], typed[p]>> PROVE OwnLines(p)'
  BY <1>a DEF OwnLinesInOrder, OwnLines
<1>1. CASE UNCHANGED <<c2s, in_buf, typed>>
  BY <1>1, <1>a DEF OwnLinesInOrder
<1>2. CASE (\E i \in Fd, m \in ClientMsg : Received(i, m)) /\ UNCHANGED <<in_buf, typed>>
  BY <1>2, OwnLinesReceived
<1>3. ASSUME NEW p \in Proc, Connect(p) PROVE OwnLinesInOrder'
  <2>1. UNCHANGED <<in_buf, typed>>
    BY <1>3 DEF Connect
  <2>2. CASE UNCHANGED c2s
    BY <1>a, <2>1, <2>2 DEF OwnLinesInOrder
  <2>3. CASE c2s' = [c2s EXCEPT ![p] = <<JoinMsg(username[p])>>]
    <3>1. /\ \A q \in Proc \ {p} : c2s'[q] = c2s[q]
          /\ \A k \in 1..Len(c2s'[p]) : c2s'[p][k].type # "SEND"
      BY <1>0, <2>3, LinePackets
    <3>2. OwnLines(p)'
      BY <2>1, <3>1 DEF OwnLinesInOrder, OwnLines
    <3> QED
      BY <1>a, <2>1, <3>1, <3>2 DEF OwnLinesInOrder
  <2> QED
    BY <1>3, <2>2, <2>3 DEF Connect
<1>4. ASSUME NEW p \in Proc, FgetsLine(p) PROVE OwnLinesInOrder'
  <2>1. c2s' = c2s
    BY <1>4 DEF FgetsLine, netVars
  <2>2. \A k \in 1..Len(c2s[p]) : c2s[p][k].type = "SEND" => c2s[p][k].line[2] \in Nat
    BY StreamPackets
  <2>3. /\ in_buf'[p] = NoLine \/ in_buf'[p] = typed'[p]
        /\ typed'[p] = typed[p] \/ typed'[p] = typed[p] + 1
        /\ in_buf'[p] # NoLine => typed'[p] = typed[p] + 1
        /\ \A q \in Proc \ {p} : in_buf'[q] = in_buf[q] /\ typed'[q] = typed[q]
    BY <1>0, <1>4 DEF FgetsLine
  <2>4. \A k \in 1..Len(c2s[p]) : c2s[p][k].type = "SEND" =>
           /\ c2s[p][k].line[2] <= typed'[p]
           /\ in_buf'[p] # NoLine => c2s[p][k].line[2] < typed'[p]
    <3> SUFFICES ASSUME NEW k \in 1..Len(c2s[p]), c2s[p][k].type = "SEND"
                 PROVE  /\ c2s[p][k].line[2] <= typed'[p]
                        /\ in_buf'[p] # NoLine => c2s[p][k].line[2] < typed'[p]
      OBVIOUS
    <3>1. c2s[p][k].line[2] <= typed[p] /\ c2s[p][k].line[2] \in Nat /\ typed[p] \in Nat
      BY <1>0, <2>2 DEF OwnLinesInOrder, OwnLines
    <3> QED
      BY <2>3, <3>1
  <2>5. OwnLines(p)'
    BY <2>1, <2>3, <2>4 DEF OwnLinesInOrder, OwnLines
  <2> QED
    BY <1>a, <2>1, <2>3, <2>5 DEF OwnLinesInOrder
<1>5. ASSUME NEW p \in Proc, WriteLine(p) PROVE OwnLinesInOrder'
  <2>1. typed' = typed /\ in_buf[p] = typed[p] /\ in_buf[p] # NoLine
        /\ in_buf' \in {in_buf, [in_buf EXCEPT ![p] = NoLine]}
    BY <1>5 DEF WriteLine, OwnLinesInOrder, OwnLines
  <2>2. CASE UNCHANGED c2s
    <3> SUFFICES ASSUME NEW q \in Proc PROVE OwnLines(q)'
      BY DEF OwnLinesInOrder
    <3>1. in_buf'[q] = in_buf[q] \/ in_buf'[q] = NoLine
      BY <1>0, <2>1
    <3>2. OwnLines(q)
      BY DEF OwnLinesInOrder
    <3> QED
      BY <2>1, <2>2, <3>1, <3>2 DEF OwnLines
  <2>3. CASE c2s' = [c2s EXCEPT ![p] = Append(@, SendMsg(<<p, in_buf[p]>>))]
             /\ in_buf' = [in_buf EXCEPT ![p] = NoLine]
    <3>1. /\ Len(c2s[p]) \in Nat /\ Len(c2s'[p]) = Len(c2s[p]) + 1
          /\ \A k \in 1..Len(c2s[p]) : c2s'[p][k] = c2s[p][k]
          /\ c2s'[p][Len(c2s[p]) + 1] = SendMsg(<<p, in_buf[p]>>)
          /\ \A q \in Proc \ {p} : c2s'[q] = c2s[q]
      BY <1>0, <2>3, AppendProperties, LenProperties
    <3>2. c2s'[p][Len(c2s[p]) + 1].line[1] = p /\ c2s'[p][Len(c2s[p]) + 1].line[2] = typed[p]
      BY <2>1, <3>1, LinePackets
    <3>3. in_buf'[p] = NoLine /\ \A q \in Proc \ {p} : in_buf'[q] = in_buf[q]
      BY <1>0, <2>3
    <3>4. \A k \in 1..Len(c2s'[p]) : k \in 1..Len(c2s[p]) \/ k = Len(c2s[p]) + 1
      BY <3>1
    <3>5. ASSUME NEW k \in 1..Len(c2s'[p]), c2s'[p][k].type = "SEND"
          PROVE  c2s'[p][k].line[1] = p /\ c2s'[p][k].line[2] <= typed'[p]
      <4>1. CASE k \in 1..Len(c2s[p])
        BY <2>1, <3>1, <3>5, <4>1 DEF OwnLinesInOrder, OwnLines
      <4>2. CASE k = Len(c2s[p]) + 1
        BY <1>0, <2>1, <3>2, <4>2
      <4> QED
        BY <3>4, <4>1, <4>2
    <3>6. ASSUME NEW j \in 1..Len(c2s'[p]), NEW k \in 1..Len(c2s'[p]), j < k,
                 c2s'[p][j].type = "SEND", c2s'[p][k].type = "SEND"
          PROVE  c2s'[p][j].line[2] < c2s'[p][k].line[2]
      <4>1. j \in 1..Len(c2s[p])
        BY <3>1, <3>6
      <4> QED
        BY <2>1, <3>1, <3>2, <3>4, <3>6, <4>1 DEF OwnLinesInOrder, OwnLines
    <3>7. OwnLines(p)'
      BY <3>3, <3>5, <3>6 DEF OwnLines
    <3> QED
      BY <1>a, <2>1, <3>1, <3>3, <3>7 DEF OwnLinesInOrder
  <2> QED
    BY <1>5, <2>2, <2>3 DEF WriteLine
<1>6. ASSUME NEW p \in Proc, in_buf' = [in_buf EXCEPT ![p] = NoLine], UNCHANGED <<c2s, typed>>
      PROVE  OwnLinesInOrder'
  BY <1>0, <1>6 DEF OwnLinesInOrder, OwnLines
<1> QED
  BY <1>1, <1>2, <1>3, <1>4, <1>5, <1>6, StreamSteps

(* What the server has read stays read and comes before all that is to come.  *)
LEMMA PastStep ==
    ASSUME IInv, OwnLinesInOrder, [Next]_vars
    PROVE  PastLines \subseteq PastLines'
<1> USE NetAssumption, ClientAssumption
<1> SUFFICES ASSUME NEW l \in PastLines PROVE l \in PastLines'
  OBVIOUS
<1> DEFINE a == l[1]
<1>0. /\ in_buf \in [Proc -> Nat \cup {NoLine}] /\ typed \in [Proc -> Nat]
      /\ c2s \in [Proc -> Seq(ClientMsg)]
  BY DEF IInv, TypeOK, ClientTypeOK, NetTypeOK
<1>1. l \in Line /\ a \in Proc /\ l[2] \in Nat
  BY LineFields DEF PastLines
<1>2. /\ l[2] <= typed[a]
      /\ in_buf[a] # NoLine => l[2] < typed[a]
      /\ \A k \in 1..Len(c2s[a]) : c2s[a][k].type = "SEND" => l[2] < c2s[a][k].line[2]
  BY DEF PastLines
<1> SUFFICES /\ l[2] <= typed'[a]
             /\ in_buf'[a] # NoLine => l[2] < typed'[a]
             /\ \A k \in 1..Len(c2s'[a]) : c2s'[a][k].type = "SEND" => l[2] < c2s'[a][k].line[2]
  BY <1>1 DEF PastLines
<1> HIDE DEF a
<1>3. CASE UNCHANGED <<c2s, in_buf, typed>>
  BY <1>2, <1>3
<1>4. CASE (\E i \in Fd, m \in ClientMsg : Received(i, m)) /\ UNCHANGED <<in_buf, typed>>
  <2>1. PICK i \in Fd, m \in ClientMsg : Received(i, m)
    BY <1>4
  <2>2. conn[i] \in Proc /\ \A q \in Proc \ {conn[i]} : c2s'[q] = c2s[q]
    BY <2>1, ReceivedEffect
  <2>3. \A k \in 1..Len(c2s'[conn[i]]) : c2s'[conn[i]][k].type = "SEND" =>
          \E j \in 1..Len(c2s[conn[i]]) : c2s'[conn[i]][k] = c2s[conn[i]][j]
    <3>1. Len(c2s[conn[i]]) \in Nat
      BY <2>1, ReceivedRest
    <3>2. PICK d \in Nat : \A k \in 1..Len(c2s'[conn[i]]) :
             \/ c2s'[conn[i]][k] = FragMsg
             \/ /\ k + d \in 2..Len(c2s[conn[i]])
                /\ c2s'[conn[i]][k] = c2s[conn[i]][k + d]
      BY <2>1, ReceivedRest
    <3>3. ASSUME NEW k \in 1..Len(c2s'[conn[i]]), c2s'[conn[i]][k].type = "SEND"
          PROVE  k + d \in 1..Len(c2s[conn[i]]) /\ c2s'[conn[i]][k] = c2s[conn[i]][k + d]
      BY <3>1, <3>2, <3>3, LinePackets
    <3> QED
      BY <3>3
  <2>4. ASSUME NEW k \in 1..Len(c2s'[a]), c2s'[a][k].type = "SEND"
        PROVE  l[2] < c2s'[a][k].line[2]
    <3>1. CASE a = conn[i]
      BY <1>2, <2>3, <2>4, <3>1
    <3>2. CASE a # conn[i]
      BY <1>1, <1>2, <2>2, <2>4, <3>2
    <3> QED
      BY <3>1, <3>2
  <2> QED
    BY <1>2, <1>4, <2>4
<1>5. ASSUME NEW p \in Proc, Connect(p)
      PROVE  /\ UNCHANGED <<in_buf, typed>>
             /\ \A k \in 1..Len(c2s'[a]) : c2s'[a][k].type = "SEND" => l[2] < c2s'[a][k].line[2]
  <2>1. UNCHANGED <<in_buf, typed>>
    BY <1>5 DEF Connect
  <2>2. CASE c2s'[a] = c2s[a]
    BY <1>2, <2>1, <2>2
  <2>3. CASE c2s'[a] # c2s[a]
    <3>1. c2s'[a] = <<JoinMsg(username[p])>>
      BY <1>0, <1>1, <1>5, <2>3 DEF Connect
    <3> QED
      BY <2>1, <3>1, LinePackets
  <2> QED
    BY <2>2, <2>3
<1>6. ASSUME NEW p \in Proc, FgetsLine(p)
      PROVE  /\ c2s' = c2s
             /\ l[2] <= typed'[a]
             /\ in_buf'[a] # NoLine => l[2] < typed'[a]
  <2>1. c2s' = c2s
    BY <1>6 DEF FgetsLine, netVars
  <2>2. CASE a # p
    BY <1>0, <1>1, <1>2, <1>6, <2>1, <2>2 DEF FgetsLine
  <2>3. CASE a = p
    <3>1. /\ typed'[a] = typed[a] \/ typed'[a] = typed[a] + 1
          /\ in_buf'[a] # NoLine => typed'[a] = typed[a] + 1
          /\ typed[a] \in Nat
      BY <1>0, <1>1, <1>6, <2>3 DEF FgetsLine
    <3> QED
      BY <1>1, <1>2, <2>1, <3>1
  <2> QED
    BY <2>2, <2>3
<1>7. ASSUME NEW p \in Proc, WriteLine(p)
      PROVE  /\ typed' = typed
             /\ in_buf'[a] # NoLine => l[2] < typed'[a]
             /\ \A k \in 1..Len(c2s'[a]) : c2s'[a][k].type = "SEND" => l[2] < c2s'[a][k].line[2]
  <2>1. /\ typed' = typed /\ in_buf[p] # NoLine /\ in_buf[p] = typed[p]
        /\ in_buf' \in {in_buf, [in_buf EXCEPT ![p] = NoLine]}
    BY <1>7 DEF WriteLine, OwnLinesInOrder, OwnLines
  <2>2. CASE c2s' = c2s \/ a # p
    <3>1. c2s'[a] = c2s[a]
      BY <1>0, <1>1, <1>7, <2>2 DEF WriteLine
    <3> QED
      BY <1>0, <1>1, <1>2, <2>1, <3>1
  <2>3. CASE c2s' = [c2s EXCEPT ![p] = Append(@, SendMsg(<<p, in_buf[p]>>))] /\ a = p
    <3>1. /\ Len(c2s[p]) \in Nat /\ Len(c2s'[p]) = Len(c2s[p]) + 1
          /\ \A k \in 1..Len(c2s[p]) : c2s'[p][k] = c2s[p][k]
          /\ c2s'[p][Len(c2s[p]) + 1] = SendMsg(<<p, in_buf[p]>>)
      BY <1>0, <2>3, AppendProperties, LenProperties
    <3>2. \A k \in 1..Len(c2s'[p]) : k \in 1..Len(c2s[p]) \/ k = Len(c2s[p]) + 1
      BY <3>1
    <3>3. c2s'[p][Len(c2s[p]) + 1].line[2] = typed[p] /\ l[2] < typed[p]
      BY <1>2, <2>1, <2>3, <3>1, LinePackets
    <3> QED
      BY <1>0, <1>1, <1>2, <2>1, <2>3, <3>1, <3>2, <3>3
  <2> QED
    BY <1>7, <2>2, <2>3 DEF WriteLine
<1>8. ASSUME NEW p \in Proc, in_buf' = [in_buf EXCEPT ![p] = NoLine], UNCHANGED <<c2s, typed>>
      PROVE  in_buf'[a] # NoLine => l[2] < typed'[a]
  BY <1>0, <1>1, <1>2, <1>8
<1>9. \/ UNCHANGED <<c2s, in_buf, typed>>
      \/ /\ \E i \in Fd, m \in ClientMsg : Received(i, m)
         /\ UNCHANGED <<in_buf, typed>>
      \/ \E p \in Proc : Connect(p) \/ FgetsLine(p) \/ WriteLine(p)
      \/ \E p \in Proc : /\ in_buf' = [in_buf EXCEPT ![p] = NoLine]
                         /\ UNCHANGED <<c2s, typed>>
  BY StreamSteps
<1> QED
  BY <1>2, <1>3, <1>4, <1>5, <1>6, <1>7, <1>8, <1>9

-----------------------------------------------------------------------------
(* What is forwarded, and to whom.                                           *)

(* What was forwarded are lines under names.                                 *)
LEMMA ForwardedType ==
    ASSUME IInv, NEW r \in Proc
    PROVE  /\ shown[r] \in Seq(Name \X Line) /\ Len(shown[r]) \in Nat
           /\ s2c[r] \in Seq(ServerMsg) /\ Len(s2c[r]) \in Nat
           /\ \A k \in 1..Len(s2c[r]) : s2c[r][k].type = "FWD" =>
                 s2c[r][k].name \in Name /\ s2c[r][k].line \in Line
           /\ Forwarded(r) \subseteq Name \X Line
<1>1. /\ shown[r] \in Seq(Name \X Line) /\ Len(shown[r]) \in Nat
      /\ s2c[r] \in Seq(ServerMsg) /\ Len(s2c[r]) \in Nat
  BY LenProperties DEF IInv, TypeOK, NetTypeOK, ClientTypeOK
<1>2. /\ \A k \in 1..Len(shown[r]) : shown[r][k] \in Name \X Line
      /\ \A k \in 1..Len(s2c[r]) : s2c[r][k] \in ServerMsg
  BY <1>1, ElementOfSeq
<1>3. \A k \in 1..Len(s2c[r]) : s2c[r][k].type = "FWD" =>
         s2c[r][k].name \in Name /\ s2c[r][k].line \in Line
  BY <1>2, ServerMsgFields
<1> QED
  BY <1>1, <1>2, <1>3 DEF Forwarded

(* A client decodes the first packet, prints a FWD, and keeps the rest in     *)
(* order.                                                                    *)
LEMMA RecvEffect ==
    ASSUME IInv, NEW p \in Proc, Recv(p)
    PROVE  /\ 1 \in 1..Len(s2c[p])
           /\ \A q \in Proc \ {p} : s2c'[q] = s2c[q] /\ shown'[q] = shown[q]
           /\ \/ shown'[p] = shown[p]
              \/ /\ s2c[p][1].type = "FWD"
                 /\ Len(shown'[p]) = Len(shown[p]) + 1
                 /\ \A k \in 1..Len(shown[p]) : shown'[p][k] = shown[p][k]
                 /\ shown'[p][Len(shown[p]) + 1] = <<s2c[p][1].name, s2c[p][1].line>>
           /\ \E d \in Nat : \A k \in 1..Len(s2c'[p]) : s2c'[p][k].type = "FWD" =>
                 k + d \in 2..Len(s2c[p]) /\ s2c'[p][k] = s2c[p][k + d]
<1>0. /\ s2c \in [Proc -> Seq(ServerMsg)] /\ s2c[p] \in Seq(ServerMsg)
      /\ shown \in [Proc -> Seq(Name \X Line)] /\ shown[p] \in Seq(Name \X Line)
  BY DEF IInv, TypeOK, NetTypeOK, ClientTypeOK
<1>1. PICK m \in ServerMsg, rest \in Remainders(s2c[p]) :
        /\ s2c[p] # <<>> /\ m = Head(s2c[p])
        /\ s2c' = [s2c EXCEPT ![p] = rest]
        /\ shown' = [shown EXCEPT ![p] =
                       IF m.type = "FWD" THEN Append(@, <<m.name, m.line>>) ELSE @]
  BY DEF Recv, Got
<1>2. m = s2c[p][1] /\ 1 \in 1..Len(s2c[p])
  BY <1>0, <1>1, HeadTailProperties, EmptySeq
<1>3. s2c'[p] = rest /\ \A q \in Proc \ {p} : s2c'[q] = s2c[q] /\ shown'[q] = shown[q]
  BY <1>0, <1>1
<1>4. \E d \in Nat : \A k \in 1..Len(rest) :
         rest[k] = FragMsg \/ (k + d \in 2..Len(s2c[p]) /\ rest[k] = s2c[p][k + d])
  BY <1>0, RemaindersShift, ClientMsgFields
<1>5. CASE m.type = "FWD"
  <2>1. <<m.name, m.line>> \in Name \X Line
    BY <1>5, ServerMsgFields
  <2>2. shown'[p] = Append(shown[p], <<m.name, m.line>>)
    BY <1>0, <1>1, <1>5
  <2>3. /\ Len(shown'[p]) = Len(shown[p]) + 1
        /\ \A k \in 1..Len(shown[p]) : shown'[p][k] = shown[p][k]
        /\ shown'[p][Len(shown[p]) + 1] = <<m.name, m.line>>
    BY <1>0, <2>1, <2>2, AppendProperties
  <2>4. \E d \in Nat : \A k \in 1..Len(s2c'[p]) : s2c'[p][k].type = "FWD" =>
           k + d \in 2..Len(s2c[p]) /\ s2c'[p][k] = s2c[p][k + d]
    BY <1>3, <1>4, LinePackets
  <2> QED
    BY <1>2, <1>3, <1>5, <2>3, <2>4
<1>6. CASE m.type # "FWD"
  <2>1. shown'[p] = shown[p]
    BY <1>0, <1>1, <1>6
  <2> QED
    BY <1>2, <1>3, <1>4, <2>1, LinePackets
<1> QED
  BY <1>5, <1>6

(* The steps that change what was forwarded to somebody.                     *)
LEMMA ForwardSteps ==
    ASSUME IInv, [Next]_vars
    PROVE  \/ UNCHANGED <<s2c, shown>>
           \/ \E i \in Fd, m \in ServerMsg :
                 /\ conn[i] \in Proc /\ m.type # "FWD"
                 /\ s2c' = [s2c EXCEPT ![conn[i]] = Append(@, m)]
                 /\ shown' = shown
           \/ \E j \in fwd_left :
                 /\ conn[j] \in Proc /\ tx_buf \in ServerMsg /\ tx_buf.type = "FWD"
                 /\ s2c' = [s2c EXCEPT ![conn[j]] = Append(@, tx_buf)]
                 /\ fwd_left' = fwd_left \ {j}
                 /\ UNCHANGED <<conn, shown>>
           \/ \E p \in Proc : Recv(p)
           \/ \E p \in Proc : s2c' = [s2c EXCEPT ![p] = <<>>] /\ shown' = shown
<1>1. CASE UNCHANGED vars
  BY <1>1 DEF vars, netVars, clientVars
<1>2. ASSUME NEW i \in Fd, NEW m \in ServerMsg, NEW ok \in BOOLEAN, NEW n,
             Received(i, n), SendAll(conn[i], m, ok), UNCHANGED clientVars, m.type # "FWD"
      PROVE  \/ UNCHANGED <<s2c, shown>>
             \/ /\ conn[i] \in Proc
                /\ s2c' = [s2c EXCEPT ![conn[i]] = Append(@, m)]
                /\ shown' = shown
  BY <1>2, ReceivedEffect DEF SendAll, clientVars
<1>3. ASSUME NEW i \in Fd, JoinNak(i), UNCHANGED clientVars
      PROVE  \/ UNCHANGED <<s2c, shown>>
             \/ \E m \in ServerMsg :
                   /\ conn[i] \in Proc /\ m.type # "FWD"
                   /\ s2c' = [s2c EXCEPT ![conn[i]] = Append(@, m)]
                   /\ shown' = shown
  <2>1. PICK n \in ClientMsg, r \in Reason, ok \in BOOLEAN :
          Received(i, n) /\ SendAll(conn[i], NakMsg(r), ok)
    BY <1>3 DEF JoinNak, Refusals, Reason
  <2>2. NakMsg(r) \in ServerMsg /\ NakMsg(r).type # "FWD"
    BY ServerMsgFields, LinePackets
  <2> QED
    BY <1>2, <1>3, <2>1, <2>2
<1>4. ASSUME NEW i \in Fd, JoinAck(i), UNCHANGED clientVars
      PROVE  \/ UNCHANGED <<s2c, shown>>
             \/ \E m \in ServerMsg :
                   /\ conn[i] \in Proc /\ m.type # "FWD"
                   /\ s2c' = [s2c EXCEPT ![conn[i]] = Append(@, m)]
                   /\ shown' = shown
  <2>1. PICK n \in ClientMsg, ok \in BOOLEAN :
          Received(i, n) /\ SendAll(conn[i], AckMsg, ok)
    BY <1>4 DEF JoinAck
  <2>2. AckMsg \in ServerMsg /\ AckMsg.type # "FWD"
    BY ServerMsgFields, LinePackets
  <2> QED
    BY <1>2, <1>4, <2>1, <2>2
<1>5. ASSUME NEW j \in Fd, Forward(j), UNCHANGED clientVars
      PROVE  \/ UNCHANGED <<s2c, shown>>
             \/ /\ j \in fwd_left
                /\ conn[j] \in Proc /\ tx_buf \in ServerMsg /\ tx_buf.type = "FWD"
                /\ s2c' = [s2c EXCEPT ![conn[j]] = Append(@, tx_buf)]
                /\ fwd_left' = fwd_left \ {j}
                /\ UNCHANGED <<conn, shown>>
  <2>1. j \in fwd_left /\ conn' = conn /\ shown' = shown
    BY <1>5 DEF Forward, clientVars
  <2>2. conn[j] \in Proc /\ tx_buf \in ServerMsg
    BY <1>5, ForwardEffect
  <2>3. tx_buf.type = "FWD"
    BY <2>1, LinePackets DEF IInv, TypeOK, ServerTypeOK, SocketAccounting
  <2>4. PICK ok \in BOOLEAN : /\ SendAll(conn[j], tx_buf, ok)
                              /\ fwd_left' = IF ok THEN fwd_left \ {j} ELSE {}
    BY <1>5 DEF Forward
  <2>5. s2c' = s2c \/ (ok /\ s2c' = [s2c EXCEPT ![conn[j]] = Append(@, tx_buf)])
    BY <2>4 DEF SendAll
  <2> QED
    BY <2>1, <2>2, <2>3, <2>4, <2>5
<1>6. CASE ServerStep
  <2>1. UNCHANGED clientVars /\ shown' = shown
    BY <1>6 DEF ServerStep, clientVars
  <2>2. \/ UNCHANGED s2c
        \/ \E i \in Fd : JoinNak(i) \/ JoinAck(i)
        \/ \E j \in Fd : Forward(j)
    BY <1>6 DEF ServerStep, ServerLoop, Serve, netVars, Select, Accept, Hangup, SendStart,
         Discard, ServerCtrlC
  <2> QED
    BY <1>3, <1>4, <1>5, <2>1, <2>2
<1>7. ASSUME NEW p \in Proc, ClientStep(p)
      PROVE  \/ UNCHANGED <<s2c, shown>>
             \/ Recv(p)
             \/ s2c' = [s2c EXCEPT ![p] = <<>>] /\ shown' = shown
  BY <1>7 DEF ClientStep, SocketReady, Connect, FgetsLine, WriteLine, RecvNak, ServerHungUp,
              CtrlC, Exit, CloseBy, netVars
<1> QED
  BY <1>1, <1>6, <1>7 DEF Next

(* A step forwards nothing to r but the line being broadcast, and that once.  *)
LEMMA ForwardedStep ==
    ASSUME IInv, [Next]_vars, NEW r \in Proc
    PROVE  \/ Forwarded(r)' \subseteq Forwarded(r)
           \/ \E j \in fwd_left :
                 /\ conn[j] = r /\ j \notin fwd_left'
                 /\ tx_buf.type = "FWD"
                 /\ Forwarded(r)' \subseteq
                       Forwarded(r) \cup {<<tx_buf.name, tx_buf.line>>}
<1>0. /\ s2c \in [Proc -> Seq(ServerMsg)] /\ s2c[r] \in Seq(ServerMsg)
      /\ Len(s2c[r]) \in Nat
  BY LenProperties DEF IInv, TypeOK, NetTypeOK
<1>1. ASSUME shown'[r] = shown[r], s2c'[r] = s2c[r]
      PROVE  Forwarded(r)' \subseteq Forwarded(r)
  BY <1>1 DEF Forwarded
<1>2. ASSUME NEW m \in ServerMsg, s2c'[r] = Append(s2c[r], m), shown'[r] = shown[r]
      PROVE  Forwarded(r)' \subseteq
                Forwarded(r) \cup {x \in {<<m.name, m.line>>} : m.type = "FWD"}
  <2>1. /\ Len(s2c'[r]) = Len(s2c[r]) + 1
        /\ \A k \in 1..Len(s2c[r]) : s2c'[r][k] = s2c[r][k]
        /\ s2c'[r][Len(s2c[r]) + 1] = m
    BY <1>0, <1>2, AppendProperties
  <2>2. \A k \in 1..Len(s2c'[r]) : k \in 1..Len(s2c[r]) \/ s2c'[r][k] = m
    BY <1>0, <2>1
  <2> QED
    BY <1>2, <2>1, <2>2 DEF Forwarded
<1>3. ASSUME NEW i \in Fd, NEW m \in ServerMsg, conn[i] \in Proc, m.type # "FWD",
             s2c' = [s2c EXCEPT ![conn[i]] = Append(@, m)], shown' = shown
      PROVE  Forwarded(r)' \subseteq Forwarded(r)
  <2>1. CASE conn[i] # r
    BY <1>0, <1>1, <1>3, <2>1
  <2>2. CASE conn[i] = r
    <3>1. s2c'[r] = Append(s2c[r], m)
      BY <1>0, <1>3, <2>2
    <3> QED
      BY <1>2, <1>3, <3>1
  <2> QED
    BY <2>1, <2>2
<1>4. ASSUME NEW j \in fwd_left, conn[j] \in Proc, tx_buf \in ServerMsg,
             s2c' = [s2c EXCEPT ![conn[j]] = Append(@, tx_buf)], shown' = shown
      PROVE  \/ Forwarded(r)' \subseteq Forwarded(r)
             \/ /\ conn[j] = r
                /\ Forwarded(r)' \subseteq Forwarded(r) \cup {<<tx_buf.name, tx_buf.line>>}
  <2>1. CASE conn[j] # r
    BY <1>0, <1>1, <1>4, <2>1
  <2>2. CASE conn[j] = r
    <3>1. s2c'[r] = Append(s2c[r], tx_buf) /\ shown'[r] = shown[r]
      BY <1>0, <1>4, <2>2
    <3> QED
      BY <1>2, <1>4, <2>2, <3>1
  <2> QED
    BY <2>1, <2>2
<1>5. ASSUME Recv(r) PROVE Forwarded(r)' \subseteq Forwarded(r)
  <2>1. \A k \in 1..Len(s2c'[r]) : s2c'[r][k].type = "FWD" =>
           <<s2c'[r][k].name, s2c'[r][k].line>> \in Forwarded(r)
    <3>1. PICK d \in Nat : \A k \in 1..Len(s2c'[r]) : s2c'[r][k].type = "FWD" =>
             k + d \in 2..Len(s2c[r]) /\ s2c'[r][k] = s2c[r][k + d]
      BY <1>5, RecvEffect
    <3>2. ASSUME NEW k \in 1..Len(s2c'[r]), s2c'[r][k].type = "FWD"
          PROVE  k + d \in 1..Len(s2c[r]) /\ s2c'[r][k] = s2c[r][k + d]
      BY <1>0, <3>1, <3>2
    <3> QED
      BY <3>2 DEF Forwarded
  <2>2. \A k \in 1..Len(shown'[r]) : shown'[r][k] \in Forwarded(r)
    <3>1. CASE shown'[r] = shown[r]
      BY <3>1 DEF Forwarded
    <3>2. CASE /\ s2c[r][1].type = "FWD"
               /\ Len(shown'[r]) = Len(shown[r]) + 1
               /\ \A k \in 1..Len(shown[r]) : shown'[r][k] = shown[r][k]
               /\ shown'[r][Len(shown[r]) + 1] = <<s2c[r][1].name, s2c[r][1].line>>
      <4>1. 1 \in 1..Len(s2c[r]) /\ Len(shown[r]) \in Nat
        BY <1>5, RecvEffect, ForwardedType
      <4>2. <<s2c[r][1].name, s2c[r][1].line>> \in Forwarded(r)
        BY <3>2, <4>1 DEF Forwarded
      <4>3. \A k \in 1..Len(shown'[r]) : k \in 1..Len(shown[r]) \/ k = Len(shown[r]) + 1
        BY <3>2, <4>1
      <4>4. \A k \in 1..Len(shown[r]) : shown[r][k] \in Forwarded(r)
        BY DEF Forwarded
      <4> QED
        BY <3>2, <4>2, <4>3, <4>4
    <3> QED
      BY <1>5, <3>1, <3>2, RecvEffect
  <2>3. Forwarded(r)' =
          {shown'[r][k] : k \in 1..Len(shown'[r])}
            \cup {<<s2c'[r][k].name, s2c'[r][k].line>> :
                     k \in {n \in 1..Len(s2c'[r]) : s2c'[r][n].type = "FWD"}}
    BY DEF Forwarded
  <2> QED
    BY <2>1, <2>2, <2>3
<1>6. ASSUME NEW p \in Proc, Recv(p), p # r
      PROVE  Forwarded(r)' \subseteq Forwarded(r)
  BY <1>1, <1>6, RecvEffect
<1>7. ASSUME NEW p \in Proc, s2c' = [s2c EXCEPT ![p] = <<>>], shown' = shown
      PROVE  Forwarded(r)' \subseteq Forwarded(r)
  <2>1. CASE p # r
    BY <1>0, <1>1, <1>7, <2>1
  <2>2. CASE p = r
    <3>1. shown'[r] = shown[r] /\ s2c'[r] = <<>> /\ 1..Len(s2c'[r]) = {}
      BY <1>0, <1>7, <2>2
    <3> QED
      BY <3>1 DEF Forwarded
  <2> QED
    BY <2>1, <2>2
<1> QED
  BY <1>1, <1>3, <1>4, <1>5, <1>6, <1>7, ForwardSteps

-----------------------------------------------------------------------------
(* The parts of LInv about what is forwarded.                                *)

(* The steps that change the packet being broadcast: the next SEND of a      *)
(* client with a roster entry takes the place of none.                       *)
LEMMA BroadcastSteps ==
    ASSUME IInv, [Next]_vars
    PROVE  \/ tx_buf' = Empty
           \/ /\ tx_buf # Empty /\ tx_buf' = tx_buf
              /\ fwd_left' \subseteq fwd_left /\ conn' = conn
           \/ \E i \in Fd, m \in ClientMsg :
                 /\ Received(i, m) /\ m.type = "SEND" /\ EntriesOf(i) # {}
                 /\ fwd_left' = Others(i)
                 /\ tx_buf' = FwdMsg(SenderName(i), m.line)
                 /\ UNCHANGED <<s2c, shown, conn, read_fds, in_buf, typed, answer>>
<1>1. CASE tx_buf # Empty
  <2>1. fwd_left # {}
    BY <1>1 DEF IInv, SocketAccounting
  <2>2. ~ \E i \in Fd \cup {sockfd} : Turn(i)
    BY <2>1 DEF Turn
  <2>3. \/ UNCHANGED <<tx_buf, fwd_left, conn>>
        \/ \E j \in Fd : Forward(j)
    BY <2>1, <2>2 DEF Next, ServerStep, ServerLoop, Serve, ClientStep, serverVars, vars,
         Select, Accept, Hangup, JoinNak, JoinAck, SendStart, Discard, Received, ServerCtrlC
  <2>4. ASSUME NEW j \in Fd, Forward(j)
        PROVE  /\ tx_buf' = Empty \/ tx_buf' = tx_buf
               /\ fwd_left' \subseteq fwd_left /\ conn' = conn
    BY <2>4 DEF Forward
  <2> QED
    BY <1>1, <2>3, <2>4
<1>2. CASE tx_buf = Empty
  <2>1. fwd_left = {}
    BY <1>2 DEF IInv, SocketAccounting
  <2>2. UNCHANGED tx_buf \/ \E i \in Fd : SendStart(i) /\ UNCHANGED clientVars
    BY <2>1 DEF Next, ServerStep, ServerLoop, Serve, ClientStep, serverVars, vars,
         Select, Accept, Hangup, JoinNak, JoinAck, Forward, Discard, ServerCtrlC
  <2>3. ASSUME NEW i \in Fd, SendStart(i), UNCHANGED clientVars
        PROVE  \/ tx_buf' = Empty
               \/ \E m \in ClientMsg :
                     /\ Received(i, m) /\ m.type = "SEND" /\ EntriesOf(i) # {}
                     /\ fwd_left' = Others(i)
                     /\ tx_buf' = FwdMsg(SenderName(i), m.line)
                     /\ UNCHANGED <<s2c, shown, conn, read_fds, in_buf, typed, answer>>
    BY <2>3 DEF SendStart, clientVars
  <2> QED
    BY <1>2, <2>2, <2>3
<1> QED
  BY <1>1, <1>2

(* A SEND that is read: its line is its sender's, and the first after those   *)
(* read before.                                                              *)
LEMMA SendRead ==
    ASSUME IInv, OwnLinesInOrder, NEW i \in Fd, NEW m, Received(i, m), m.type = "SEND",
           UNCHANGED <<in_buf, typed>>
    PROVE  /\ conn[i] \in Proc
           /\ m.line \in Line /\ m.line[1] = conn[i]
           /\ m.line \in PastLines'
           /\ \A l \in PastLines : Before(l, m.line)
<1> DEFINE p == conn[i]
<1>1. p \in Proc
  BY ReceivedEffect
<1>2. m = c2s[p][1] /\ 1 \in 1..Len(c2s[p]) /\ Len(c2s[p]) \in Nat
  BY ReceivedRest
<1>3. m.line \in Line /\ m.line[2] \in Nat
  BY <1>1, <1>2, StreamPackets
<1>4. OwnLines(p)
  BY <1>1 DEF OwnLinesInOrder
<1>5. /\ m.line[1] = p /\ m.line[2] <= typed[p]
      /\ in_buf[p] # NoLine => m.line[2] < typed[p]
  BY <1>2, <1>4 DEF OwnLines
<1>6. ASSUME NEW k \in 1..Len(c2s'[p]), c2s'[p][k].type = "SEND"
      PROVE  m.line[2] < c2s'[p][k].line[2]
  <2>1. PICK d \in Nat : \A n \in 1..Len(c2s'[p]) :
           \/ c2s'[p][n] = FragMsg
           \/ n + d \in 2..Len(c2s[p]) /\ c2s'[p][n] = c2s[p][n + d]
    BY ReceivedRest
  <2>2. k + d \in 2..Len(c2s[p]) /\ c2s'[p][k] = c2s[p][k + d]
    BY <1>6, <2>1, LinePackets
  <2>3. k + d \in 1..Len(c2s[p]) /\ 1 < k + d
    BY <1>2, <2>2
  <2> HIDE DEF p
  <2> QED
    BY <1>2, <1>4, <1>6, <2>2, <2>3 DEF OwnLines
<1>7. m.line \in PastLines'
  BY <1>3, <1>5, <1>6 DEF PastLines
<1>8. \A l \in PastLines : Before(l, m.line)
  BY <1>2, <1>5 DEF PastLines, Before
<1> QED
  BY <1>1, <1>3, <1>5, <1>7, <1>8

(* Every step forwards only lines of others that the server has read.        *)
LEMMA ForwardedPastStep ==
    ASSUME IInv, OwnLinesInOrder, ForwardedArePast, BroadcastIsNew, [Next]_vars
    PROVE  ForwardedArePast'
<1> SUFFICES ASSUME NEW r \in Proc, NEW x \in Forwarded(r)'
             PROVE  x[2][1] # r /\ x[2] \in PastLines'
  BY DEF ForwardedArePast
<1>1. CASE x \in Forwarded(r)
  BY <1>1, PastStep DEF ForwardedArePast
<1>2. CASE x \notin Forwarded(r)
  <2>1. PICK j \in fwd_left : conn[j] = r /\ x = <<tx_buf.name, tx_buf.line>>
    BY <1>2, ForwardedStep
  <2>2. tx_buf # Empty
    BY <2>1 DEF IInv, SocketAccounting
  <2>3. tx_buf.line \in PastLines /\ conn[j] # tx_buf.line[1]
    BY <2>1, <2>2 DEF BroadcastIsNew
  <2> QED
    BY <2>1, <2>3, PastStep
<1> QED
  BY <1>1, <1>2

(* Every step leaves the line being broadcast new to those it has to come to. *)
LEMMA BroadcastNewStep ==
    ASSUME IInv, OwnLinesInOrder, ForwardedArePast, BroadcastIsNew, [Next]_vars
    PROVE  BroadcastIsNew'
<1> SUFFICES ASSUME tx_buf' # Empty
             PROVE  /\ tx_buf'.line \in PastLines'
                    /\ \A i \in fwd_left' :
                          /\ conn'[i] # tx_buf'.line[1]
                          /\ \A x \in Forwarded(conn[i])' : Before(x[2], tx_buf'.line)
  BY DEF BroadcastIsNew, Before
<1>0. /\ fwd_left \subseteq Fd /\ read_fds = {sockfd} \cup {i \in Fd : conn[i] # NoProc}
      /\ conn \in [Fd -> Proc \cup {NoProc}]
      /\ fwd_left \subseteq read_fds \ {sockfd}
      /\ \A i, j \in Fd : conn[i] = conn[j] /\ conn[i] # NoProc => i = j
  BY DEF IInv, TypeOK, ServerTypeOK, SocketAccounting
<1>1. CASE /\ tx_buf # Empty /\ tx_buf' = tx_buf
           /\ fwd_left' \subseteq fwd_left /\ conn' = conn
  <2>1. tx_buf'.line \in PastLines'
    BY <1>1, PastStep DEF BroadcastIsNew
  <2>2. ASSUME NEW i \in fwd_left'
        PROVE  /\ conn'[i] # tx_buf'.line[1]
               /\ \A x \in Forwarded(conn[i])' : Before(x[2], tx_buf'.line)
    <3>1. PICK r \in Proc : r = conn[i] /\ conn'[i] = r /\ i \in fwd_left
      BY <1>0, <1>1, <2>2
    <3>2. ASSUME NEW j \in fwd_left, conn[j] = r PROVE j = i
      BY <1>0, <3>1, <3>2, NetAssumption
    <3>3. Forwarded(r)' \subseteq Forwarded(r)
      BY <2>2, <3>1, <3>2, ForwardedStep
    <3>4. Forwarded(conn[i])' = Forwarded(r)'
      BY <3>1 DEF Forwarded
    <3> QED
      BY <1>1, <3>1, <3>3, <3>4 DEF BroadcastIsNew
  <2> QED
    BY <2>1, <2>2
<1>2. ASSUME NEW i \in Fd, NEW m \in ClientMsg, Received(i, m), m.type = "SEND",
             EntriesOf(i) # {}, fwd_left' = Others(i),
             tx_buf' = FwdMsg(SenderName(i), m.line),
             UNCHANGED <<s2c, shown, conn, read_fds, in_buf, typed, answer>>
      PROVE  /\ tx_buf'.line \in PastLines'
             /\ \A j \in fwd_left' :
                   /\ conn'[j] # tx_buf'.line[1]
                   /\ \A x \in Forwarded(conn[j])' : Before(x[2], tx_buf'.line)
  <2>1. tx_buf'.line = m.line
    BY <1>2, LinePackets
  <2>2. /\ conn[i] \in Proc /\ m.line[1] = conn[i] /\ m.line \in PastLines'
        /\ \A l \in PastLines : Before(l, m.line)
    BY <1>2, SendRead
  <2>3. ASSUME NEW j \in Others(i)
        PROVE  /\ conn'[j] # m.line[1]
               /\ \A x \in Forwarded(conn[j])' : Before(x[2], m.line)
    <3>1. j \in Fd /\ j # i /\ conn[j] \in Proc /\ conn' = conn
      BY <1>0, <1>2 DEF Others
    <3>2. conn[j] # conn[i]
      BY <1>0, <2>2, <3>1, NetAssumption
    <3>3. Forwarded(conn[j])' = Forwarded(conn[j])
      BY <1>2 DEF Forwarded
    <3> QED
      BY <2>2, <3>1, <3>2, <3>3 DEF ForwardedArePast
  <2> QED
    BY <1>2, <2>1, <2>2, <2>3
<1> QED
  BY <1>1, <1>2, BroadcastSteps

(* Every step keeps what was forwarded to a client in order, shown or not.    *)
LEMMA ForwardedOrderStep ==
    ASSUME IInv, ForwardedInOrder, BroadcastIsNew, [Next]_vars
    PROVE  ForwardedInOrder'
<1> SUFFICES ASSUME NEW r \in Proc PROVE InOrder(r)'
  BY DEF ForwardedInOrder
<1>0. /\ s2c \in [Proc -> Seq(ServerMsg)] /\ s2c[r] \in Seq(ServerMsg)
      /\ Len(s2c[r]) \in Nat /\ Len(shown[r]) \in Nat
      /\ InOrder(r)
  BY LenProperties DEF IInv, TypeOK, NetTypeOK, ClientTypeOK, ForwardedInOrder
<1>1. ASSUME shown'[r] = shown[r], s2c'[r] = s2c[r] PROVE InOrder(r)'
  BY <1>0, <1>1 DEF InOrder
<1>2. ASSUME NEW m \in ServerMsg, s2c'[r] = Append(s2c[r], m), shown'[r] = shown[r],
             m.type = "FWD" => \A x \in Forwarded(r) : Before(x[2], m.line)
      PROVE  InOrder(r)'
  <2>1. /\ Len(s2c'[r]) = Len(s2c[r]) + 1
        /\ \A k \in 1..Len(s2c[r]) : s2c'[r][k] = s2c[r][k]
        /\ s2c'[r][Len(s2c[r]) + 1] = m
    BY <1>0, <1>2, AppendProperties
  <2>2. \A k \in 1..Len(s2c'[r]) : k \in 1..Len(s2c[r]) \/ k = Len(s2c[r]) + 1
    BY <1>0, <2>1
  <2>3. ASSUME NEW j \in 1..Len(shown[r]), NEW k \in 1..Len(s2c'[r]), s2c'[r][k].type = "FWD"
        PROVE  Before(shown[r][j][2], s2c'[r][k].line)
    <3>1. CASE k \in 1..Len(s2c[r])
      BY <1>0, <2>1, <2>3, <3>1 DEF InOrder
    <3>2. CASE k = Len(s2c[r]) + 1
      <4>1. shown[r][j] \in Forwarded(r)
        BY DEF Forwarded
      <4> QED
        BY <1>2, <2>1, <2>3, <3>2, <4>1
    <3> QED
      BY <2>2, <3>1, <3>2
  <2>4. ASSUME NEW j \in 1..Len(s2c'[r]), NEW k \in 1..Len(s2c'[r]), j < k,
               s2c'[r][j].type = "FWD", s2c'[r][k].type = "FWD"
        PROVE  Before(s2c'[r][j].line, s2c'[r][k].line)
    <3>0. j \in 1..Len(s2c[r]) /\ s2c'[r][j] = s2c[r][j]
      BY <1>0, <2>1, <2>4
    <3>1. CASE k \in 1..Len(s2c[r])
      BY <1>0, <2>1, <2>4, <3>0, <3>1 DEF InOrder
    <3>2. CASE k = Len(s2c[r]) + 1
      <4>1. <<s2c[r][j].name, s2c[r][j].line>> \in Forwarded(r)
        BY <2>4, <3>0 DEF Forwarded
      <4> QED
        BY <1>2, <2>1, <2>4, <3>0, <3>2, <4>1
    <3> QED
      BY <2>2, <3>1, <3>2
  <2>5. \A j, k \in 1..Len(shown[r]) : j < k => Before(shown[r][j][2], shown[r][k][2])
    BY <1>0 DEF InOrder
  <2> QED
    BY <1>2, <2>3, <2>4, <2>5 DEF InOrder
<1>3. ASSUME NEW i \in Fd, NEW m \in ServerMsg, conn[i] \in Proc, m.type # "FWD",
             s2c' = [s2c EXCEPT ![conn[i]] = Append(@, m)], shown' = shown
      PROVE  InOrder(r)'
  <2>1. CASE conn[i] # r
    BY <1>0, <1>1, <1>3, <2>1
  <2>2. CASE conn[i] = r
    <3>1. s2c'[r] = Append(s2c[r], m)
      BY <1>0, <1>3, <2>2
    <3> QED
      BY <1>2, <1>3, <3>1
  <2> QED
    BY <2>1, <2>2
<1>4. ASSUME NEW j \in fwd_left, conn[j] \in Proc, tx_buf \in ServerMsg,
             s2c' = [s2c EXCEPT ![conn[j]] = Append(@, tx_buf)], shown' = shown
      PROVE  InOrder(r)'
  <2>1. CASE conn[j] # r
    BY <1>0, <1>1, <1>4, <2>1
  <2>2. CASE conn[j] = r
    <3>1. s2c'[r] = Append(s2c[r], tx_buf) /\ shown'[r] = shown[r]
      BY <1>0, <1>4, <2>2
    <3>2. tx_buf # Empty
      BY <1>4 DEF IInv, SocketAccounting
    <3>3. \A x \in Forwarded(r) : Before(x[2], tx_buf.line)
      BY <2>2, <3>2 DEF BroadcastIsNew
    <3> QED
      BY <1>2, <1>4, <3>1, <3>3
  <2> QED
    BY <2>1, <2>2
<1>5. ASSUME Recv(r) PROVE InOrder(r)'
  <2>1. PICK d \in Nat : \A k \in 1..Len(s2c'[r]) : s2c'[r][k].type = "FWD" =>
           k + d \in 2..Len(s2c[r]) /\ s2c'[r][k] = s2c[r][k + d]
    BY <1>5, RecvEffect
  <2>2. ASSUME NEW k \in 1..Len(s2c'[r]), s2c'[r][k].type = "FWD"
        PROVE  /\ k + d \in 1..Len(s2c[r]) /\ 1 < k + d
               /\ s2c'[r][k] = s2c[r][k + d]
    BY <1>0, <2>1, <2>2
  <2>3. ASSUME NEW j \in 1..Len(s2c'[r]), NEW k \in 1..Len(s2c'[r]), j < k,
               s2c'[r][j].type = "FWD", s2c'[r][k].type = "FWD"
        PROVE  Before(s2c'[r][j].line, s2c'[r][k].line)
    <3>1. /\ j + d \in 1..Len(s2c[r]) /\ k + d \in 1..Len(s2c[r])
          /\ s2c'[r][j] = s2c[r][j + d] /\ s2c'[r][k] = s2c[r][k + d]
      BY <2>2, <2>3
    <3>2. j + d < k + d
      BY <2>3
    <3> QED
      BY <1>0, <2>3, <3>1, <3>2 DEF InOrder
  <2>4. CASE shown'[r] = shown[r]
    BY <1>0, <2>2, <2>3, <2>4 DEF InOrder
  <2>5. CASE /\ s2c[r][1].type = "FWD"
             /\ Len(shown'[r]) = Len(shown[r]) + 1
             /\ \A k \in 1..Len(shown[r]) : shown'[r][k] = shown[r][k]
             /\ shown'[r][Len(shown[r]) + 1] = <<s2c[r][1].name, s2c[r][1].line>>
    <3>1. 1 \in 1..Len(s2c[r])
      BY <1>5, RecvEffect
    <3>2. \A k \in 1..Len(shown'[r]) : k \in 1..Len(shown[r]) \/ k = Len(shown[r]) + 1
      BY <1>0, <2>5
    <3>3. shown'[r][Len(shown[r]) + 1][2] = s2c[r][1].line
      BY <2>5
    <3>4. ASSUME NEW j \in 1..Len(shown'[r]), NEW k \in 1..Len(shown'[r]), j < k
          PROVE  Before(shown'[r][j][2], shown'[r][k][2])
      <4>1. j \in 1..Len(shown[r]) /\ shown'[r][j] = shown[r][j]
        BY <1>0, <2>5, <3>4
      <4>2. CASE k \in 1..Len(shown[r])
        BY <1>0, <2>5, <3>4, <4>1, <4>2 DEF InOrder
      <4>3. CASE k = Len(shown[r]) + 1
        BY <1>0, <2>5, <3>1, <3>3, <4>1, <4>3 DEF InOrder
      <4> QED
        BY <3>2, <4>2, <4>3
    <3>5. ASSUME NEW j \in 1..Len(shown'[r]), NEW k \in 1..Len(s2c'[r]), s2c'[r][k].type = "FWD"
          PROVE  Before(shown'[r][j][2], s2c'[r][k].line)
      <4>1. k + d \in 1..Len(s2c[r]) /\ 1 < k + d /\ s2c'[r][k] = s2c[r][k + d]
        BY <2>2, <3>5
      <4>2. CASE j \in 1..Len(shown[r])
        BY <1>0, <2>5, <3>5, <4>1, <4>2 DEF InOrder
      <4>3. CASE j = Len(shown[r]) + 1
        BY <1>0, <2>5, <3>1, <3>3, <3>5, <4>1, <4>3 DEF InOrder
      <4> QED
        BY <3>2, <4>2, <4>3
    <3> QED
      BY <2>3, <3>4, <3>5 DEF InOrder
  <2> QED
    BY <1>5, <2>4, <2>5, RecvEffect
<1>6. ASSUME NEW p \in Proc, Recv(p), p # r PROVE InOrder(r)'
  BY <1>1, <1>6, RecvEffect
<1>7. ASSUME NEW p \in Proc, s2c' = [s2c EXCEPT ![p] = <<>>], shown' = shown
      PROVE  InOrder(r)'
  <2>1. CASE p # r
    BY <1>0, <1>1, <1>7, <2>1
  <2>2. CASE p = r
    <3>1. shown'[r] = shown[r] /\ s2c'[r] = <<>> /\ 1..Len(s2c'[r]) = {}
      BY <1>0, <1>7, <2>2
    <3> QED
      BY <1>0, <3>1 DEF InOrder
  <2> QED
    BY <2>1, <2>2
<1> QED
  BY <1>1, <1>3, <1>4, <1>5, <1>6, <1>7, ForwardSteps

-----------------------------------------------------------------------------
(* The parts of LInv about names.                                            *)

(* When no admitted client has left after a step, none had left before it.    *)
LEMMA NobodyLeftBefore ==
    ASSUME IInv, [Next]_vars, NobodyLeft'
    PROVE  NobodyLeft
<1> SUFFICES ASSUME NEW p \in Proc, answer[p] = "ACK" PROVE \E i \in Fd : conn[i] = p
  BY DEF NobodyLeft, Connected
<1>0. conn \in [Fd -> Proc \cup {NoProc}] /\ backlog \in Seq(Proc)
  BY DEF IInv, TypeOK, ServerTypeOK, NetTypeOK
<1>1. answer'[p] = "ACK"
  BY AnswerStep
<1>2. PICK i \in Fd : conn'[i] = p
  BY <1>1 DEF NobodyLeft, Connected
<1>3. ASSUME NEW j \in FreeFd, backlog # <<>>, conn' = [conn EXCEPT ![j] = Head(backlog)]
      PROVE  conn[i] = p
  <2>1. Head(backlog) = backlog[1] /\ 1 \in 1..Len(backlog)
    BY <1>0, <1>3, HeadTailProperties, EmptySeq
  <2>2. Head(backlog) # p
    BY <2>1 DEF IInv, BacklogUnanswered
  <2> QED
    BY <1>0, <1>2, <1>3, <2>2 DEF FreeFd
<1>4. ASSUME NEW j, conn' = [conn EXCEPT ![j] = NoProc] PROVE conn[i] = p
  BY <1>0, <1>2, <1>4, NetAssumption
<1> QED
  BY <1>2, <1>3, <1>4, ConnectionSteps

(* Every step keeps the roster true to the descriptors while nobody leaves.   *)
LEMMA RosterTruthStep ==
    ASSUME IInv, RosterTruthful, [Next]_vars, NobodyLeft'
    PROVE  RosterTruthful'
<1> USE NetAssumption
<1>0. /\ conn \in [Fd -> Proc \cup {NoProc}]
      /\ clients \in Seq(Client) /\ Len(clients) \in Nat
      /\ answer \in [Proc -> {"none", "ACK", "NAK"}]
      /\ \A k \in 1..Len(clients) : clients[k] \in Client
  BY LenProperties, ElementOfSeq DEF IInv, TypeOK, ServerTypeOK
<1>a. \A k \in 1..Len(clients) : clients[k].sockfd \in Fd
  BY <1>0 DEF Client
<1>b. Admitted \subseteq Admitted'
  BY AnswerStep DEF Admitted
<1>1. CASE UNCHANGED <<conn, clients>>
  BY <1>b, <1>1 DEF RosterTruthful, n_clients
<1>2. ASSUME NEW i \in FreeFd, conn' = [conn EXCEPT ![i] = Head(backlog)], clients' = clients
      PROVE  RosterTruthful'
  <2>1. \A k \in 1..Len(clients) : conn'[clients[k].sockfd] = conn[clients[k].sockfd]
    BY <1>0, <1>a, <1>2 DEF RosterTruthful, n_clients, FreeFd, Admitted
  <2> QED
    BY <1>b, <1>2, <2>1 DEF RosterTruthful, n_clients
<1>3. ASSUME NEW i \in ready \ {sockfd}, conn' = [conn EXCEPT ![i] = NoProc],
             clients' = clients, answer' = answer
      PROVE  RosterTruthful'
  <2>1. i \in Fd /\ conn[i] \in Proc
    BY <1>0, <1>3 DEF IInv, TypeOK, ServerTypeOK, SocketAccounting, Readable
  <2>2. ASSUME NEW j \in Fd PROVE conn'[j] # conn[i]
    BY <1>0, <1>3, <2>1 DEF IInv, SocketAccounting
  <2>3. conn[i] \notin Admitted
    BY <1>3, <2>1, <2>2 DEF NobodyLeft, Connected, Admitted
  <2>4. \A k \in 1..Len(clients) : conn'[clients[k].sockfd] = conn[clients[k].sockfd]
    BY <1>0, <1>a, <1>3, <2>3 DEF RosterTruthful, n_clients
  <2> QED
    BY <1>b, <1>3, <2>4 DEF RosterTruthful, n_clients
<1>4. ASSUME NEW i \in Fd, conn[i] \in Proc, answer' = [answer EXCEPT ![conn[i]] = "ACK"],
             clients' = Append(clients, [sockfd |-> i, username |-> username[conn[i]]]),
             conn' = conn
      PROVE  RosterTruthful'
  <2>1. [sockfd |-> i, username |-> username[conn[i]]] \in Client
    BY <1>4 DEF Client
  <2>2. /\ Len(clients') = Len(clients) + 1
        /\ \A k \in 1..Len(clients) : clients'[k] = clients[k]
        /\ clients'[Len(clients) + 1] = [sockfd |-> i, username |-> username[conn[i]]]
    BY <1>0, <1>4, <2>1, AppendProperties
  <2>3. \A k \in 1..Len(clients') : k \in 1..Len(clients) \/ k = Len(clients) + 1
    BY <1>0, <2>2
  <2>4. conn[i] \in Admitted'
    BY <1>0, <1>4 DEF Admitted
  <2>5. ASSUME NEW k \in 1..Len(clients')
        PROVE  /\ conn[clients'[k].sockfd] \in Admitted'
               /\ clients'[k].username = username[conn[clients'[k].sockfd]]
    <3>1. CASE k \in 1..Len(clients)
      BY <1>b, <2>2, <3>1 DEF RosterTruthful, n_clients
    <3>2. CASE k = Len(clients) + 1
      BY <2>2, <2>4, <3>2
    <3> QED
      BY <2>3, <3>1, <3>2
  <2> QED
    BY <1>4, <2>5 DEF RosterTruthful, n_clients
<1> QED
  BY <1>1, <1>2, <1>3, <1>4, ConnectionSteps

(* Every step keeps the names of the lines true while the roster is.          *)
LEMMA LinesTruthStep ==
    ASSUME IInv, OwnLinesInOrder, RosterTruthful, LinesTruthful, [Next]_vars
    PROVE  LinesTruthful'
<1>1. Truthful \subseteq Truthful'
  <2>1. \A p \in Proc : answer[p] = "ACK" => answer'[p] = "ACK"
    BY AnswerStep
  <2>2. \A x \in Name \X Line : x[2] \in Line
    OBVIOUS
  <2> QED
    BY <2>1, <2>2, LineFields DEF Truthful
<1>2. ASSUME tx_buf' # Empty PROVE <<tx_buf.name, tx_buf.line>>' \in Truthful'
  <2>1. CASE tx_buf # Empty /\ tx_buf' = tx_buf
    BY <1>1, <2>1 DEF LinesTruthful
  <2>2. ASSUME NEW i \in Fd, NEW m \in ClientMsg, Received(i, m), m.type = "SEND",
               EntriesOf(i) # {}, tx_buf' = FwdMsg(SenderName(i), m.line),
               UNCHANGED <<in_buf, typed, answer>>
        PROVE  <<tx_buf.name, tx_buf.line>>' \in Truthful'
    <3>1. m.line \in Line /\ m.line[1] = conn[i] /\ SenderName(i) \in Name
      BY <2>2, SendRead, SenderNameType
    <3>2. Min(EntriesOf(i)) \in EntriesOf(i)
      <4>1. Len(clients) \in Nat
        BY LenProperties DEF IInv, TypeOK, ServerTypeOK
      <4>2. EntriesOf(i) \subseteq Nat
        BY <4>1 DEF EntriesOf, n_clients
      <4> QED
        BY <2>2, <4>2, MinInSet
    <3>3. conn[i] \in Admitted /\ SenderName(i) = username[conn[i]]
      BY <3>2 DEF EntriesOf, SenderName, RosterTruthful
    <3>4. <<SenderName(i), m.line>> \in Truthful'
      BY <2>2, <3>1, <3>3 DEF Truthful, Admitted
    <3> QED
      BY <2>2, <3>4, LinePackets
  <2> QED
    BY <1>2, <2>1, <2>2, BroadcastSteps
<1>3. ASSUME NEW r \in Proc PROVE Forwarded(r)' \subseteq Truthful'
  <2>1. CASE Forwarded(r)' \subseteq Forwarded(r)
    BY <1>1, <2>1 DEF LinesTruthful
  <2>2. CASE \E j \in fwd_left : Forwarded(r)' \subseteq
                                   Forwarded(r) \cup {<<tx_buf.name, tx_buf.line>>}
    <3>1. tx_buf # Empty
      BY <2>2 DEF IInv, SocketAccounting
    <3> QED
      BY <1>1, <2>2, <3>1 DEF LinesTruthful
  <2> QED
    BY <2>1, <2>2, ForwardedStep
<1> QED
  BY <1>2, <1>3 DEF LinesTruthful

-----------------------------------------------------------------------------
(* When the server has started and no client has, LInv holds.                *)
LEMMA InitLInv == Init => LInv
<1> SUFFICES ASSUME Init PROVE LInv
  OBVIOUS
<1> USE NetAssumption, ClientAssumption
<1>1. IInv
  BY InitIInv
<1>2. \A p \in Proc : c2s[p] = <<>> /\ s2c[p] = <<>> /\ shown[p] = <<>> /\ typed[p] = 0
  BY DEF Init, NetInit, ClientInit
<1>3. 1..Len(<<>>) = {}
  OBVIOUS
<1>4. OwnLinesInOrder
  <2>1. \A p \in Proc : in_buf[p] # NoLine => in_buf[p] = 0
    BY DEF Init, ClientInit
  <2> QED
    BY <1>2, <1>3, <2>1 DEF OwnLinesInOrder, OwnLines
<1>5. ForwardedInOrder /\ \A r \in Proc : Forwarded(r) = {}
  BY <1>2, <1>3 DEF ForwardedInOrder, InOrder, Forwarded
<1>6. tx_buf = Empty /\ Len(backlog) = 0 /\ n_clients = 0
  BY DEF Init, NetInit, ServerInit, n_clients
<1>7. BroadcastIsNew /\ RosterTruthful
  BY <1>6 DEF BroadcastIsNew, RosterTruthful
<1> QED
  BY <1>1, <1>4, <1>5, <1>6, <1>7 DEF LInv, ForwardedArePast, LinesTruthful

(* LInv is an inductive invariant of the chat room: what clients write, the   *)
(* server forwards and clients show, and under which names (client.c 158-230, *)
(* server.c 223-300).                                                        *)
THEOREM ChatLinesInvariant == Spec => []LInv
<1>1. Init => LInv
  BY InitLInv
<1>2. LInv /\ [Next]_vars => LInv'
  <2> SUFFICES ASSUME LInv, [Next]_vars PROVE LInv'
    OBVIOUS
  <2>1. IInv'
    BY InvStep DEF LInv
  <2>2. OwnLinesInOrder'
    BY OwnLinesStep DEF LInv
  <2>3. ForwardedArePast'
    BY ForwardedPastStep DEF LInv
  <2>4. ForwardedInOrder'
    BY ForwardedOrderStep DEF LInv
  <2>5. BroadcastIsNew'
    BY BroadcastNewStep DEF LInv
  <2>6. NobodyLeft' => RosterTruthful' /\ LinesTruthful'
    BY NobodyLeftBefore, RosterTruthStep, LinesTruthStep DEF LInv
  <2> QED
    BY <2>1, <2>2, <2>3, <2>4, <2>5, <2>6 DEF LInv
<1> QED
  BY <1>1, <1>2, PTL DEF Spec

(* As long as no admitted client has left, every line is shown under the name *)
(* its author was admitted by, and nobody else's lines are shown, although    *)
(* the server knows a sender only by its descriptor (server.c 237-252).       *)
THEOREM ChatTrueSenderUntilLeave == Spec => []TrueSenderUntilLeave
<1>1. LInv => TrueSenderUntilLeave
  <2> SUFFICES ASSUME LInv, NobodyLeft, NEW r \in Proc, NEW k \in 1..Len(shown[r])
               PROVE  /\ answer[shown[r][k][2][1]] = "ACK"
                      /\ shown[r][k][1] = username[shown[r][k][2][1]]
    BY DEF TrueSenderUntilLeave, NobodyLeft
  <2>1. shown[r][k] \in Forwarded(r)
    BY DEF Forwarded
  <2> QED
    BY <2>1 DEF LInv, LinesTruthful, Truthful
<1> QED
  BY <1>1, ChatLinesInvariant, PTL

(* When in_buf starts empty, the chat room implements Broadcast: to read a    *)
(* line at the terminal is to speak, to decode a FWD is to hear, and no other *)
(* step does either (client.c 158-230, server.c 223-300).                     *)
THEOREM ChatImplementsBroadcast ==
    ASSUME BufStart = {NoLine}
    PROVE  Spec => BroadcastSpec
<1> DEFINE heard == [r \in Proc |-> [k \in 1..Len(shown[r]) |-> shown[r][k][2]]]
<1>1. Init => Lines!Init
  <2> SUFFICES ASSUME Init PROVE Lines!Init
    OBVIOUS
  <2>1. \A r \in Proc : shown[r] = <<>>
    BY DEF Init, ClientInit
  <2>2. typed = [p \in Proc |-> 0]
    BY DEF Init, ClientInit
  <2>3. heard = [r \in Proc |-> <<>>]
    BY <2>1
  <2> QED
    BY <2>2, <2>3 DEF Lines!Init
<1>2. LInv /\ [Next]_vars => [Lines!Next]_(Lines!vars)
  <2> SUFFICES ASSUME LInv, [Next]_vars PROVE [Lines!Next]_(Lines!vars)
    OBVIOUS
  <2>0. /\ IInv /\ ForwardedArePast /\ ForwardedInOrder
        /\ typed \in [Proc -> Nat] /\ shown \in [Proc -> Seq(Name \X Line)]
        /\ shown' \in [Proc -> Seq(Name \X Line)]
    <3>1. TypeOK'
      BY TypeStep DEF LInv
    <3> QED
      BY <3>1 DEF LInv, IInv, TypeOK, ClientTypeOK
  <2>1. CASE UNCHANGED <<typed, shown>>
    BY <2>1 DEF Lines!vars
  <2>2. ASSUME NEW p \in Proc, typed' = [typed EXCEPT ![p] = @ + 1], shown' = shown
        PROVE  Lines!Next
    <3>1. Lines!Speak(p)
      BY <2>2 DEF Lines!Speak
    <3> QED
      BY <3>1 DEF Lines!Next
  <2>3. ASSUME NEW r \in Proc, Recv(r), typed' = typed, shown' # shown
        PROVE  Lines!Next
    <3>1. /\ 1 \in 1..Len(s2c[r])
          /\ \A q \in Proc \ {r} : shown'[q] = shown[q]
      BY <2>0, <2>3, RecvEffect
    <3>2. shown'[r] # shown[r]
      BY <2>0, <2>3, <3>1
    <3>3. /\ s2c[r][1].type = "FWD"
          /\ Len(shown'[r]) = Len(shown[r]) + 1
          /\ \A k \in 1..Len(shown[r]) : shown'[r][k] = shown[r][k]
          /\ shown'[r][Len(shown[r]) + 1] = <<s2c[r][1].name, s2c[r][1].line>>
      BY <2>0, <2>3, <3>2, RecvEffect
    <3> DEFINE l == s2c[r][1].line
    <3>4. <<s2c[r][1].name, l>> \in Forwarded(r)
      BY <3>1, <3>3 DEF Forwarded
    <3>5. l[1] # r /\ l \in PastLines
      BY <2>0, <3>4 DEF ForwardedArePast
    <3>6. l \in Line /\ l[2] <= typed[l[1]]
      BY <3>5 DEF PastLines
    <3>7. l[1] \in Proc /\ l[2] \in 1..typed[l[1]] /\ l = <<l[1], l[2]>>
      <4>1. l[1] \in Proc /\ l[2] \in Nat /\ l = <<l[1], l[2]>> /\ l[2] # 0
        BY <3>6, LineFields
      <4> HIDE DEF l
      <4>2. typed[l[1]] \in Nat
        BY <2>0, <4>1
      <4>3. l[2] \in 1..typed[l[1]]
        BY <3>6, <4>1, <4>2
      <4> QED
        BY <4>1, <4>3
    <3>8. \A k \in 1..Len(shown[r]) : shown[r][k][2][1] = l[1] => shown[r][k][2][2] < l[2]
      BY <2>0, <3>1, <3>3 DEF ForwardedInOrder, InOrder, Before
    <3>9. Len(shown[r]) \in Nat
      BY <2>0, LenProperties
    <3>10. heard'[r] = Append(heard[r], <<l[1], l[2]>>)
      <4> DEFINE n == Len(shown[r])
      <4>1. heard[r] = [k \in 1..n |-> shown[r][k][2]]
        OBVIOUS
      <4>2. heard'[r] = [k \in 1..(n + 1) |-> shown'[r][k][2]]
        BY <3>3
      <4>3. \A k \in 1..n : shown[r][k][2] \in Line
        <5>1. \A k \in 1..n : shown[r][k] \in Name \X Line
          BY <2>0, ElementOfSeq
        <5> QED
          BY <5>1
      <4>4. heard[r] \in Seq(Line) /\ Len(heard[r]) = n
        BY <3>9, <4>1, <4>3
      <4>5. Append(heard[r], l) = [k \in 1..(n + 1) |-> IF k = n + 1 THEN l ELSE heard[r][k]]
        <5> HIDE DEF heard
        <5>1. Append(heard[r], l) \in Seq(Line)
          BY <3>6, <4>4
        <5> QED
          BY <3>6, <4>4, <5>1, AppendProperties
      <4>6. ASSUME NEW k \in 1..(n + 1)
            PROVE  shown'[r][k][2] = IF k = n + 1 THEN l ELSE heard[r][k]
        <5>1. CASE k = n + 1
          BY <3>3, <5>1
        <5>2. CASE k \in 1..n
          BY <3>3, <3>9, <4>1, <5>2
        <5> QED
          BY <3>9, <5>1, <5>2
      <4> HIDE DEF heard
      <4>7. heard'[r] = Append(heard[r], l)
        BY <4>2, <4>5, <4>6
      <4> QED
        BY <3>7, <4>7
    <3>11. heard' = [heard EXCEPT ![r] = Append(@, <<l[1], l[2]>>)]
      <4>1. \A q \in Proc \ {r} : heard'[q] = heard[q]
        BY <3>1
      <4>2. /\ heard = [q \in Proc |-> heard[q]]
            /\ heard' = [q \in Proc |-> heard'[q]]
        OBVIOUS
      <4> HIDE DEF heard, l
      <4> QED
        BY <3>10, <4>1, <4>2
    <3>12. \A k \in 1..Len(heard[r]) : heard[r][k][1] = l[1] => heard[r][k][2] < l[2]
      BY <3>8, <3>9
    <3>13. PICK a \in Proc : a = l[1]
      BY <3>7
    <3>14. PICK n \in 1..typed[a] : n = l[2]
      BY <3>7, <3>13
    <3>15. Lines!Hear(r, a, n)
      <4> HIDE DEF l
      <4> QED
        BY <2>3, <3>5, <3>6, <3>11, <3>12, <3>13, <3>14 DEF Lines!Hear
    <3> QED
      BY <3>15 DEF Lines!Next
  <2>4. \/ UNCHANGED <<typed, shown>>
        \/ \E p \in Proc : typed' = [typed EXCEPT ![p] = @ + 1] /\ shown' = shown
        \/ \E p \in Proc : Recv(p) /\ typed' = typed
    BY DEF Next, ServerStep, ClientStep, SocketReady, Connect, FgetsLine, WriteLine, Recv,
           RecvNak, ServerHungUp, CtrlC, Exit, clientVars, vars
  <2> QED
    BY <2>1, <2>2, <2>3, <2>4
<1> QED
  BY <1>1, <1>2, ChatLinesInvariant, PTL DEF Spec, BroadcastSpec, Lines!Spec
=============================================================================
