------------------------------ MODULE HttpNet ------------------------------
(***************************************************************************)
(* What surrounds the HTTP proxy: the runs of the client program,            *)
(* src/HTTP/client.c, which send one request and read one response, the      *)
(* remote servers, and the connections of both.                              *)
(***************************************************************************)
EXTENDS HttpCache, SequencesExt

CONSTANTS
    User,       \* the runs of the client program
    wants,      \* wants[u]: the page that u requests
    chunks,     \* chunks[u]: how the request of u may arrive (bound)
    NFd,        \* descriptors the proxy may have open beside the listening one
    NoReply

(* A request arrives as one chunk, or in two: cut behind the Host header, or  *)
(* before it, which makes both halves bad requests.                           *)
Chunking == {<<"GET">>, <<"GET", "bad">>, <<"bad", "bad">>}

ASSUME NetAssumption ==
    /\ wants \in [User -> Page]
    /\ chunks \in [User -> SUBSET Chunking]
    /\ NFd \in Nat \ {0}

VARIABLES
    conn,       \* conn[i]: what descriptor i of the proxy is connected to
    backlog,    \* users whose connection accept() did not return yet
    u2p,        \* u2p[u]: chunks of u's request the proxy has not read
    ust,        \* ust[u]: "start", "wait" (in recv) or "gone" (Ctrl+C)
    reply       \* reply[u]: the response u was sent, when, and from where

userVars == <<backlog, u2p, ust, reply>>

Fd == 1..NFd

Free       == [kind |-> "free"]
ToUser(u)  == [kind |-> "user", user |-> u]
(* The connection to a remote server: the page it was asked for, and how far *)
(* its answer has come: "open", nothing yet; "part", the first bytes;         *)
(* "closed", without an answer; or "sent", all of it, and closed.             *)
Asked(p)     == [kind |-> "site", page |-> p, answer |-> "open"]
Started(p)   == [kind |-> "site", page |-> p, answer |-> "part"]
Closed(p)    == [kind |-> "site", page |-> p, answer |-> "closed"]
Answer(p, r) == [kind |-> "site", page |-> p, answer |-> "sent", response |-> r]

Conn == {Free} \cup {ToUser(u) : u \in User}
          \cup [kind : {"site"}, page : Page, answer : {"open", "part", "closed"}]
          \cup [kind : {"site"}, page : Page, answer : {"sent"}, response : Response]

Reply == [response : Response, at : Time, hit : BOOLEAN]

NetInit ==
    /\ conn = [i \in Fd |-> Free]
    /\ backlog = <<>>
    /\ u2p = [u \in User |-> <<>>]
    /\ ust = [u \in User |-> "start"]
    /\ reply = [u \in User |-> NoReply]

NetTypeOK ==
    /\ conn \in [Fd -> Conn]
    /\ backlog \in Seq(User)
    /\ u2p \in [User -> Seq({"GET", "bad"})]
    /\ ust \in [User -> {"start", "wait", "gone"}]
    /\ reply \in [User -> Reply \cup {NoReply}]

-----------------------------------------------------------------------------
(* client.c connects, and writes its request.                                 *)
Request(u) ==
    /\ ust[u] = "start"
    /\ ust' = [ust EXCEPT ![u] = "wait"]
    /\ backlog' = Append(backlog, u)
    /\ \E q \in chunks[u] : u2p' = [u2p EXCEPT ![u] = q]
    /\ UNCHANGED <<conn, reply>>

(* Ctrl+C before the response has arrived.                                    *)
Leave(u) ==
    /\ ust[u] = "wait" /\ reply[u] = NoReply
    /\ ust' = [ust EXCEPT ![u] = "gone"]
    /\ UNCHANGED <<conn, backlog, u2p, reply>>

(* A remote server starts to answer, or just closes; it ends its answer by     *)
(* closing, having sent all of it or not.                                      *)
SiteAnswers(i) ==
    /\ conn[i].kind = "site"
    /\ LET p == conn[i].page
       IN  \/ /\ conn[i].answer = "open"
              /\ conn' = [conn EXCEPT ![i] = Started(p)] \/ conn' = [conn EXCEPT ![i] = Closed(p)]
           \/ /\ conn[i].answer = "part"
              /\ \E r \in ResponsesAt(p, now) : conn' = [conn EXCEPT ![i] = Answer(p, r)]
    /\ UNCHANGED userVars

(* writeall() of a response to u.  To a user who left, what the kernel takes   *)
(* is lost, and a write it refuses ends the proxy.                             *)
WriteTo(u, r, hit, alive) ==
    \/ /\ ust[u] = "wait"
       /\ alive
       /\ reply' = [reply EXCEPT ![u] = [response |-> r, at |-> now, hit |-> hit]]
    \/ /\ ust[u] = "gone"
       /\ UNCHANGED reply
=============================================================================
