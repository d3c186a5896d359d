----------------------------- MODULE HttpProxy -----------------------------
(***************************************************************************)
(* The HTTP proxy, src/HTTP/proxy.c with the client list of list.c: one      *)
(* thread, one select() loop over the listening socket, the clients and the  *)
(* remote servers.  As a pass handles the readable descriptors in ascending  *)
(* order, it closes some and opens others, perhaps under the numbers that    *)
(* are still to come.                                                        *)
(***************************************************************************)
EXTENDS HttpNet

VARIABLES
    read_fds,   \* the descriptors select() watches
    ready,      \* what is left of read_fds_tmp in the current pass
    clients,    \* the client list
    n_clients,
    srv         \* "up" or "exit"

proxyVars == <<read_fds, ready, clients, n_clients, srv>>

sockfd == 0
Client == [id : Nat, sockfd : Fd, servfd : Fd \cup {-1}, page : Page \cup {"none"}]

ProxyInit ==
    /\ read_fds = {sockfd}
    /\ ready = {}
    /\ clients = {}
    /\ n_clients = 0
    /\ srv = "up"

ProxyTypeOK ==
    /\ read_fds \subseteq {sockfd} \cup Fd
    /\ ready \subseteq {sockfd} \cup Fd
    /\ \A c \in clients : c \in Client
    /\ n_clients \in Nat
    /\ srv \in {"up", "exit"}

-----------------------------------------------------------------------------
(* list.c                                                                     *)
Clients(i)  == {c \in clients : c.sockfd = i}
Waiting(i)  == {c \in clients : c.servfd = i}
find_client(i)           == First(Clients(i))
find_client_by_servfd(i) == First(Waiting(i)).sockfd

(* Variant: servfd is not initialised.                                        *)
add_clientRaw(i) == clients \cup {[id |-> FrontId(clients), sockfd |-> i, servfd |-> 0, page |-> "none"]}
add_client(i) == clients \cup {[id |-> FrontId(clients), sockfd |-> i, servfd |-> -1, page |-> "none"]}
remove_client(i) == clients \ Clients(i)

(* update_client with the page of the request, then with the remote server.   *)
WithPage(i, p)      == Replace(clients, find_client(i), [find_client(i) EXCEPT !.page = p])
WithServer(i, p, s) ==
    Replace(clients, find_client(i), [find_client(i) EXCEPT !.page = p, !.servfd = s])

-----------------------------------------------------------------------------
(* What read() finds at descriptor i.                                         *)
Data(i) ==
    CASE conn[i].kind = "free" -> "error"
      [] conn[i].kind = "user" -> IF u2p[conn[i].user] # <<>> THEN Head(u2p[conn[i].user])
                                  ELSE IF ust[conn[i].user] = "gone" THEN "end" ELSE "none"
      [] conn[i].kind = "site" -> conn[i].answer

(* What select() reports, and when what the handler reads has all come: with   *)
(* MSG_WAITALL, recv() waits for the end of a response.                        *)
Readable(i) == IF i = sockfd THEN backlog # <<>> ELSE Data(i) \notin {"none", "open"}
Complete(i) == Readable(i) /\ (i # sockfd => Data(i) # "part")

Select ==
    /\ srv = "up" /\ ready = {}
    /\ ready' = {i \in read_fds : Readable(i)}
    /\ ready' # {}
    /\ UNCHANGED <<cacheVars, now, conn, userVars, read_fds, clients, n_clients, srv>>

(* The for loop has come to i, and stays there while a handler waits: for the *)
(* rest of a response, or, when i is a new connection under a number that was  *)
(* readable at the start of the pass, for the first bytes of it.               *)
Turn(i) ==
    /\ srv = "up"
    /\ i \in ready
    /\ \A j \in ready : i <= j
    /\ Complete(i)
    /\ ready' = ready \ {i}

FreeFd == {i \in Fd : conn[i] = Free}

Accept ==
    /\ Turn(sockfd)
    /\ IF FreeFd = {}
       THEN UNCHANGED <<conn, backlog, read_fds, clients, n_clients>>
       ELSE LET new_fd == Min(FreeFd) IN
            /\ conn' = [conn EXCEPT ![new_fd] = ToUser(Head(backlog))]
            /\ backlog' = Tail(backlog)
            /\ read_fds' = read_fds \cup {new_fd}
            /\ clients' = add_client(new_fd)
            /\ n_clients' = n_clients + 1
    /\ UNCHANGED <<cacheVars, now, u2p, ust, reply, srv>>

(* Variant: read() is tried again.                                             *)
NoDataAgain(i) ==
    /\ i # sockfd /\ Turn(i)
    /\ Data(i) \in {"error", "end", "closed"}
    /\ FALSE
(* read() returned 0 or -1: nothing is done, the descriptor stays watched.     *)
NoData(i) ==
    /\ i # sockfd /\ Turn(i)
    /\ Data(i) \in {"error", "end", "closed"}
    /\ UNCHANGED <<cacheVars, now, conn, userVars, read_fds, clients, n_clients, srv>>

(* A chunk that is not a GET request with a Host header: dropped.              *)
BadRequest(i) ==
    /\ i # sockfd /\ Turn(i)
    /\ Data(i) = "bad" /\ Clients(i) # {}
    /\ u2p' = [u2p EXCEPT ![conn[i].user] = Tail(@)]
    /\ UNCHANGED <<cacheVars, now, conn, backlog, ust, reply, read_fds, clients, n_clients, srv>>

(* A request: the page is noted in the client's entry and looked up.           *)
GetRequest(i, p) ==
    /\ i # sockfd /\ Turn(i)
    /\ Data(i) = "GET" /\ Clients(i) # {}
    /\ p = wants[conn[i].user]
    /\ u2p' = [u2p EXCEPT ![conn[i].user] = Tail(@)]

(* A good entry: the response is sent, and the connection closed.              *)
Hit(i) ==
    \E p \in Page, alive \in BOOLEAN :
      /\ GetRequest(i, p)
      /\ GoodEntry(p)
      /\ WriteTo(conn[i].user, find_entry(p).response, TRUE, alive)
      /\ IF alive
         THEN /\ UpdateEntry(p)
              /\ clients' = remove_client(i)
              /\ n_clients' = n_clients - 1
              /\ read_fds' = read_fds \ {i}
              /\ conn' = [conn EXCEPT ![i] = Free]
              /\ UNCHANGED srv
         ELSE /\ srv' = "exit"
              /\ UNCHANGED <<cacheVars, clients, n_clients, read_fds, conn>>
      /\ UNCHANGED <<now, backlog, ust>>

(* Variant: an expired entry stays.                                            *)
MissedKeeps(i, p) ==
    /\ GetRequest(i, p)
    /\ ~GoodEntry(p)
    /\ UNCHANGED cacheVars
(* No entry, or an expired one, which is removed.                              *)
Missed(i, p) ==
    /\ GetRequest(i, p)
    /\ ~GoodEntry(p)
    /\ IF Hits(p) # {} THEN RemoveEntry(p) ELSE UNCHANGED cacheVars

(* Variant: the remote server is not watched.                                  *)
FetchUnwatched(i) ==
    \E p \in Page :
      /\ Missed(i, p)
      /\ FreeFd # {}
      /\ LET servfd == Min(FreeFd) IN
         /\ conn' = [conn EXCEPT ![servfd] = Asked(p)]
         /\ read_fds' = read_fds
         /\ clients' = WithServer(i, p, servfd)
      /\ UNCHANGED <<now, backlog, ust, reply, n_clients, srv>>
(* The remote server is connected to and sent the request.                     *)
Fetch(i) ==
    \E p \in Page :
      /\ Missed(i, p)
      /\ FreeFd # {}
      /\ LET servfd == Min(FreeFd) IN
         /\ conn' = [conn EXCEPT ![servfd] = Asked(p)]
         /\ read_fds' = read_fds \cup {servfd}
         /\ clients' = WithServer(i, p, servfd)
      /\ UNCHANGED <<now, backlog, ust, reply, n_clients, srv>>

(* No connection to it: the client is left without an answer.                  *)
FetchFails(i) ==
    \E p \in Page :
      /\ Missed(i, p)
      /\ clients' = WithPage(i, p)
      /\ UNCHANGED <<now, conn, backlog, ust, reply, read_fds, n_clients, srv>>

(* The host name has no address, or the write fails: the proxy exits.          *)
FetchExits(i) ==
    \E p \in Page :
      /\ Missed(i, p)
      /\ srv' = "exit"
      /\ UNCHANGED <<now, conn, backlog, ust, reply, read_fds, clients, n_clients>>

(* Variant: the remote server stays in read_fds.                               *)
ServerResponseWatched(i) ==
    /\ i # sockfd /\ Turn(i)
    /\ Data(i) = "sent" /\ Clients(i) = {} /\ Waiting(i) # {}
    /\ LET clientfd == find_client_by_servfd(i) IN
       /\ WriteTo(conn[clientfd].user, conn[i].response, FALSE, TRUE)
       /\ AddEntry(find_client(clientfd).page, conn[i].response)
       /\ clients' = remove_client(clientfd)
       /\ n_clients' = n_clients - 1
       /\ read_fds' = read_fds \ {clientfd}
       /\ conn' = [conn EXCEPT ![clientfd] = Free, ![i] = Free]
    /\ UNCHANGED <<now, backlog, u2p, ust, srv>>

(* A response: sent on to the client that waits for it, cached under the page  *)
(* its entry names, and both connections closed.                               *)
ServerResponse(i) ==
    /\ i # sockfd /\ Turn(i)
    /\ Data(i) = "sent" /\ Clients(i) = {} /\ Waiting(i) # {}
    /\ LET clientfd == find_client_by_servfd(i)
           r        == conn[i].response
       IN  \E alive \in BOOLEAN :
             /\ WriteTo(conn[clientfd].user, r, FALSE, alive)
             /\ IF alive
                THEN /\ AddEntry(find_client(clientfd).page, r)
                     /\ clients' = remove_client(clientfd)
                     /\ n_clients' = n_clients - 1
                     /\ read_fds' = read_fds \ {clientfd, i}
                     /\ conn' = [conn EXCEPT ![clientfd] = Free, ![i] = Free]
                     /\ UNCHANGED srv
                ELSE /\ srv' = "exit"
                     /\ UNCHANGED <<cacheVars, clients, n_clients, read_fds, conn>>
    /\ UNCHANGED <<now, backlog, u2p, ust>>

Serve(i) ==
    \/ NoData(i) \/ BadRequest(i)
    \/ Hit(i) \/ Fetch(i) \/ FetchFails(i) \/ FetchExits(i)
    \/ ServerResponse(i)
=============================================================================
