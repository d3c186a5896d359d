------------------------------ MODULE SbcpNet ------------------------------
(***************************************************************************)
(* What the SBCP chat server and its clients share: the TCP connections    *)
(* between them.  The kernel is not part of the repository; this module    *)
(* models it from the calls server.c and client.c make (connect, accept,   *)
(* send, recv, close).                                                     *)
(*                                                                         *)
(* A member of Proc is ONE RUN of the client program: a user who comes     *)
(* back is another member of Proc with the same username.                  *)
(***************************************************************************)
EXTENDS Naturals, Sequences

CONSTANTS
    Proc,       \* the runs of the client program
    NoProc,     \* "no connection on this descriptor"
    Name,       \* the usernames
    username,   \* username[p]: argv[1] of the run p
    MaxLines,   \* MaxLines[p]: how many lines the user of p types (bound)
    NFd,        \* how many descriptors the server may have open for clients
    Cap,        \* messages a socket buffer holds before send() blocks (bound)
    max_clients,\* argv[3] of the server
    NoLine,     \* in_buf[0] = '\0' in a client
    BufStart    \* what in_buf, which client.c does not initialise, may hold

ASSUME NetAssumption ==
    /\ NoProc \notin Proc
    /\ username \in [Proc -> Name]
    /\ MaxLines \in [Proc -> Nat]
    /\ NFd \in Nat \ {0}
    /\ Cap \in Nat \ {0}
    /\ max_clients \in Nat

ASSUME ClientAssumption ==
    /\ NoLine \notin Nat
    /\ BufStart \subseteq {NoLine, 0} /\ BufStart # {}

VARIABLES
    backlog,    \* connections the kernel completed and accept() did not return yet
    c2s,        \* c2s[p]: bytes from client p the server has not read, as messages
    s2c,        \* s2c[p]: bytes for client p it has not read, as messages
    net,        \* net[p]: the connection as the server's kernel sees it
    srv         \* the server process

netVars == <<backlog, c2s, s2c, net, srv>>

-----------------------------------------------------------------------------
(* A line is named by its author and its number; number 0 is the text an   *)
(* uninitialised in_buf may hold, which nobody typed.                      *)
LineNo(p) == (BufStart \ {NoLine}) \cup 1..MaxLines[p]
Line      == UNION {{p} \X LineNo(p) : p \in Proc}

(* The packets the two programs build, reduced to what is decided on them.  *)
JoinMsg(n)    == [type |-> "JOIN", name |-> n]
SendMsg(l)    == [type |-> "SEND", line |-> l]
AckMsg        == [type |-> "ACK"]
NakMsg(r)     == [type |-> "NAK", reason |-> r]
FwdMsg(n, l)  == [type |-> "FWD", name |-> n, line |-> l]

(* The tail of a packet whose first bytes an earlier recv() took.  It does  *)
(* not start with a version-3 header, so both programs discard it.         *)
FragMsg == [type |-> "FRAG"]

ClientMsg ==
    {JoinMsg(n) : n \in Name} \cup {SendMsg(l) : l \in Line} \cup {FragMsg}

Reason == {"full", "used"}

ServerMsg ==
    {AckMsg} \cup {NakMsg(r) : r \in Reason}
             \cup {FwdMsg(n, l) : n \in Name, l \in Line} \cup {FragMsg}

(* One recv() takes one or more packets of the stream q and the caller      *)
(* decodes the first only; this is what may be left in the stream           *)
(* afterwards.  The last packet taken may be taken in part, unless it is    *)
(* the first too: that TCP delivers the first one whole is an assumption,   *)
(* which the programs make and nothing grants.                             *)
Remainders(q) ==
    {SubSeq(q, k + 1, Len(q)) : k \in 1..Len(q)}
      \cup {<<FragMsg>> \o SubSeq(q, k + 1, Len(q)) : k \in 2..Len(q)}

(* net[p] is                                                                *)
(*   "none"     before connect();                                           *)
(*   "open"     while both ends are open;                                   *)
(*   "fin"      the client closed with nothing left unread (FIN received);  *)
(*   "finsent"  and the server has written to it since, so that a RST is on *)
(*              its way back or has arrived;                                *)
(*   "err"      the client closed with unread data (RST received, the error *)
(*              not reported to the server yet);                            *)
(*   "pipe"     and the error has been reported: the next write raises      *)
(*              SIGPIPE, which kills a process that does not handle it.     *)
NetState == {"none", "open", "fin", "finsent", "err", "pipe"}

NetInit ==
    /\ backlog = <<>>
    /\ c2s = [p \in Proc |-> <<>>]
    /\ s2c = [p \in Proc |-> <<>>]
    /\ net = [p \in Proc |-> "none"]
    /\ srv = "up"

NetTypeOK ==
    /\ backlog \in Seq(Proc)
    /\ c2s \in [Proc -> Seq(ClientMsg)]
    /\ s2c \in [Proc -> Seq(ServerMsg)]
    /\ net \in [Proc -> NetState]
    /\ srv \in {"up", "stopped", "killed"}

(* sendall() of common.c on the connection to p; ok is "it returned 0".     *)
(* The sockets are blocking: a full buffer makes the caller wait.           *)
SendAll(p, m, ok) ==
    \/ /\ net[p] = "open" /\ Len(s2c[p]) < Cap
       /\ ok
       /\ s2c' = [s2c EXCEPT ![p] = Append(@, m)]
       /\ UNCHANGED <<net, srv>>
    \/ /\ net[p] \in {"fin", "finsent"}       \* accepted by the kernel, and lost
       /\ ok
       /\ net' = [net EXCEPT ![p] = "finsent"]
       /\ UNCHANGED <<s2c, srv>>
    \/ /\ net[p] = "err"                      \* ECONNRESET
       /\ ~ok
       /\ net' = [net EXCEPT ![p] = "pipe"]
       /\ UNCHANGED <<s2c, srv>>
    \/ /\ net[p] \in {"finsent", "pipe"}      \* EPIPE and SIGPIPE
       /\ ~ok
       /\ srv' = "killed"
       /\ UNCHANGED <<s2c, net>>

(* The process p ends and the kernel closes its socket, with "unread" the   *)
(* part of s2c[p] it had not read: a FIN, or a RST when data is unread.     *)
CloseBy(p, unread) ==
    /\ s2c' = [s2c EXCEPT ![p] = <<>>]
    /\ net' = [net EXCEPT ![p] = IF unread = <<>> THEN "fin" ELSE "err"]
=============================================================================
