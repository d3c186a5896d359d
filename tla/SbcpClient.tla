----------------------------- MODULE SbcpClient -----------------------------
(***************************************************************************)
(* The chat client, src/SBCP/client.c: one select() loop over the terminal  *)
(* and the socket.  A pass reads the terminal, then the socket, then writes *)
(* the line waiting in in_buf if select() found the socket writable.        *)
(***************************************************************************)
EXTENDS SbcpNet

VARIABLES
    cstate,     \* "start" before connect(), "run" in the main loop, "exit"
    loggedIn,   \* an ACK was decoded: "Client ... logged in!"
    in_buf,     \* the number of the line waiting to be sent
    due,        \* select() found the socket writable: this pass sends in_buf
    typed,      \* how many lines were read from the terminal
    shown       \* the messages printed, each with the name it was printed under

clientVars == <<cstate, loggedIn, in_buf, due, typed, shown>>

ClientInit ==
    /\ cstate = [p \in Proc |-> "start"]
    /\ loggedIn = [p \in Proc |-> FALSE]
    /\ in_buf \in [Proc -> BufStart]
    /\ due = [p \in Proc |-> FALSE]
    /\ typed = [p \in Proc |-> 0]
    /\ shown = [p \in Proc |-> <<>>]

ClientTypeOK ==
    /\ cstate \in [Proc -> {"start", "run", "exit"}]
    /\ loggedIn \in [Proc -> BOOLEAN]
    /\ in_buf \in [Proc -> Nat \cup {NoLine}]
    /\ due \in [Proc -> BOOLEAN]
    /\ typed \in [Proc -> Nat]
    /\ shown \in [Proc -> Seq(Name \X Line)]
    /\ \A p \in Proc : /\ typed[p] <= MaxLines[p]
                       /\ in_buf[p] # NoLine =>
                             in_buf[p] \in LineNo(p) /\ in_buf[p] <= typed[p]

-----------------------------------------------------------------------------
Running(p)  == cstate[p] = "run"
Writable(p) == srv # "up" \/ Len(c2s[p]) < Cap

(* connect() and the JOIN that follows it; the connection is refused when   *)
(* no server is listening.                                                  *)
Connect(p) ==
    /\ cstate[p] = "start"
    /\ IF srv = "up"
       THEN /\ cstate' = [cstate EXCEPT ![p] = "run"]
            /\ backlog' = Append(backlog, p)
            /\ net' = [net EXCEPT ![p] = "open"]
            /\ c2s' = [c2s EXCEPT ![p] = <<JoinMsg(username[p])>>]
       ELSE /\ cstate' = [cstate EXCEPT ![p] = "exit"]
            /\ UNCHANGED <<backlog, net, c2s>>
    /\ UNCHANGED <<s2c, srv, loggedIn, in_buf, due, typed, shown>>

(* fgets() puts a line in in_buf, over one that is still waiting there: an   *)
(* earlier pass would have sent it, had the socket been writable then.       *)
FgetsLine(p) ==
    /\ Running(p)
    /\ ~due[p]
    /\ \/ /\ typed[p] < MaxLines[p]
          /\ typed' = [typed EXCEPT ![p] = @ + 1]
          /\ in_buf' = [in_buf EXCEPT ![p] = typed'[p]]
          /\ due' = [due EXCEPT ![p] = Writable(p)]
       \/ /\ in_buf[p] # NoLine               \* an empty line
          /\ in_buf' = [in_buf EXCEPT ![p] = NoLine]
          /\ UNCHANGED <<typed, due>>
    /\ UNCHANGED <<netVars, cstate, loggedIn, shown>>

(* Variant: in_buf is not emptied after the send.                            *)
WriteLineKept(p) ==
    /\ Running(p)
    /\ in_buf[p] # NoLine
    /\ due[p] \/ Writable(p)
    /\ srv = "up"
    /\ c2s' = [c2s EXCEPT ![p] = Append(@, SendMsg(<<p, in_buf[p]>>))]
    /\ due' = [due EXCEPT ![p] = FALSE]
    /\ UNCHANGED <<backlog, s2c, net, srv, cstate, loggedIn, in_buf, typed, shown>>

(* The write loop: the SEND packet of the line in in_buf.  A connection the  *)
(* server left takes the bytes for nothing, or sendall() fails and in_buf    *)
(* is kept.                                                                  *)
WriteLine(p) ==
    /\ Running(p)
    /\ in_buf[p] # NoLine
    /\ due[p] \/ Writable(p)
    /\ \/ /\ srv = "up"
          /\ c2s' = [c2s EXCEPT ![p] = Append(@, SendMsg(<<p, in_buf[p]>>))]
          /\ in_buf' = [in_buf EXCEPT ![p] = NoLine]
       \/ /\ srv # "up"
          /\ in_buf' \in {in_buf, [in_buf EXCEPT ![p] = NoLine]}
          /\ UNCHANGED c2s
    /\ due' = [due EXCEPT ![p] = FALSE]
    /\ UNCHANGED <<backlog, s2c, net, srv, cstate, loggedIn, typed, shown>>

-----------------------------------------------------------------------------
(* recv() returned data whose first packet is m, and leaves rest.            *)
Got(p, m, rest) ==
    /\ Running(p)
    /\ s2c[p] # <<>>
    /\ m = Head(s2c[p])
    /\ rest \in Remainders(s2c[p])

(* ACK, FWD, and what is not a version 3 packet.                             *)
Recv(p) ==
    \E m \in ServerMsg, rest \in Remainders(s2c[p]) :
      /\ Got(p, m, rest)
      /\ m.type # "NAK"
      /\ s2c' = [s2c EXCEPT ![p] = rest]
      /\ loggedIn' = [loggedIn EXCEPT ![p] = @ \/ m.type = "ACK"]
      /\ shown' = [shown EXCEPT ![p] =
                     IF m.type = "FWD" THEN Append(@, <<m.name, m.line>>) ELSE @]
      /\ due' = [due EXCEPT ![p] = @ \/ (in_buf[p] # NoLine /\ Writable(p))]
      /\ UNCHANGED <<backlog, c2s, net, srv, cstate, in_buf, typed>>

(* The process ends; what was in its memory is gone.                         *)
Exit(p, unread) ==
    /\ cstate' = [cstate EXCEPT ![p] = "exit"]
    /\ in_buf' = [in_buf EXCEPT ![p] = NoLine]
    /\ due' = [due EXCEPT ![p] = FALSE]
    /\ CloseBy(p, unread)
    /\ UNCHANGED <<backlog, c2s, srv, loggedIn, typed, shown>>

(* NAK: exit(ERR_REJECTED).                                                  *)
RecvNak(p) ==
    \E m \in ServerMsg, rest \in Remainders(s2c[p]) :
      /\ Got(p, m, rest)
      /\ m.type = "NAK"
      /\ Exit(p, rest)

(* recv() returned 0 or -1: exit(ERR_SERVER).  What a dying server had not    *)
(* put on the wire is lost.                                                   *)
ServerHungUp(p) ==
    /\ Running(p)
    /\ srv # "up"
    /\ Exit(p, <<>>)

(* Ctrl+C at the client's terminal.                                           *)
CtrlC(p) ==
    /\ Running(p)
    /\ Exit(p, s2c[p])
=============================================================================
