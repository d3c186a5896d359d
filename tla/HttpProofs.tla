----------------------------- MODULE HttpProofs -----------------------------
(***************************************************************************)
(* Machine-checked proofs about Http, for every set of pages and users,     *)
(* every way a request may be cut and a response may end, every lifetime,   *)
(* and every number of descriptors and of cache entries.                    *)
(***************************************************************************)
EXTENDS Http, HttpCacheProofs, SequenceTheorems

-----------------------------------------------------------------------------
(* The invariant.                                                            *)

(* DescriptorsMatchList without cardinalities.                                *)
Matched(i) ==
    /\ conn[i].kind = "user" => (\E c \in clients : Clients(i) = {c}) /\ Waiting(i) = {}
    /\ conn[i].kind = "site" => (\E c \in clients : Waiting(i) = {c}) /\ Clients(i) = {}
    /\ conn[i].kind = "free" => Clients(i) = {} /\ Waiting(i) = {}

ListInv ==
    /\ IsFiniteSet(clients) /\ n_clients = Cardinality(clients)
    /\ read_fds = {sockfd} \cup {i \in Fd : conn[i] # Free}
    /\ \A i \in Fd : Matched(i)

(* Whoever waits for a remote server has noted its page.                      *)
PagesNoted == \A c \in clients : c.servfd # -1 => c.page \in Page

NoGet(q) == \A k \in 1..Len(q) : q[k] # "GET"

(* Only the first chunk of a request is a GET.                                *)
GetComesFirst == \A u \in User : \A k \in 2..Len(u2p[u]) : u2p[u][k] # "GET"

(* Whoever waits for a remote server asks for nothing more.                    *)
AsksOnce ==
    \A c \in clients, u \in User :
        conn[c.sockfd] = ToUser(u) /\ c.servfd # -1 => NoGet(u2p[u])

(* Who has not started is not connected.                                      *)
NotYetKnown ==
    \A u \in User : ust[u] = "start" =>
        (\A i \in Fd : conn[i] # ToUser(u)) /\ (\A k \in 1..Len(backlog) : backlog[k] # u)

HttpInv ==
    /\ CacheOk /\ NetTypeOK /\ ProxyTypeOK
    /\ ListInv /\ PagesNoted
    /\ GetComesFirst /\ AsksOnce /\ NotYetKnown

-----------------------------------------------------------------------------
(* Lemmas about the operators.                                               *)

(* What a descriptor is connected to, by its kind.                            *)
LEMMA ConnKinds ==
    ASSUME NetTypeOK, NEW i \in Fd
    PROVE  \/ conn[i] = Free /\ conn[i].kind = "free"
           \/ /\ conn[i].kind = "user" /\ conn[i] # Free
              /\ conn[i].user \in User /\ conn[i] = ToUser(conn[i].user)
           \/ /\ conn[i].kind = "site" /\ conn[i] # Free /\ conn[i].page \in Page
              /\ conn[i].answer \in {"open", "part", "closed", "sent"}
              /\ conn[i].answer = "sent" => conn[i].response \in Response
<1>1. conn[i] \in Conn
  BY DEF NetTypeOK
<1>2. CASE conn[i] = Free
  BY <1>2 DEF Free
<1>3. CASE conn[i] \in {ToUser(u) : u \in User}
  BY <1>3 DEF Free, ToUser
<1>4. CASE conn[i] \in [kind : {"site"}, page : Page, answer : {"open", "part", "closed"}]
  BY <1>4 DEF Free
<1>5. CASE conn[i] \in [kind : {"site"}, page : Page, answer : {"sent"}, response : Response]
  BY <1>5 DEF Free
<1> QED
  BY <1>1, <1>2, <1>3, <1>4, <1>5 DEF Conn

(* The values a descriptor is given.                                          *)
LEMMA ConnTypes ==
    /\ Free \in Conn /\ Free.kind = "free"
    /\ \A u \in User : ToUser(u) \in Conn /\ ToUser(u).kind = "user" /\ ToUser(u) # Free
                         /\ ToUser(u).user = u
    /\ \A p \in Page : Asked(p) \in Conn /\ Asked(p).kind = "site" /\ Asked(p) # Free
    /\ \A p \in Page : Started(p) \in Conn /\ Started(p).kind = "site" /\ Started(p) # Free
    /\ \A p \in Page : Closed(p) \in Conn /\ Closed(p).kind = "site" /\ Closed(p) # Free
    /\ \A p \in Page, r \in Response :
          Answer(p, r) \in Conn /\ Answer(p, r).kind = "site" /\ Answer(p, r) # Free
<1>1. Free \in Conn /\ Free.kind = "free"
  BY DEF Free, Conn
<1>2. \A u \in User : ToUser(u) \in Conn /\ ToUser(u).kind = "user" /\ ToUser(u) # Free
                        /\ ToUser(u).user = u
  BY DEF Free, ToUser, Conn
<1>3. \A p \in Page : Asked(p) \in Conn /\ Asked(p).kind = "site" /\ Asked(p) # Free
  BY DEF Free, Asked, Conn
<1>4. \A p \in Page : Started(p) \in Conn /\ Started(p).kind = "site" /\ Started(p) # Free
  BY DEF Free, Started, Conn
<1>5. \A p \in Page : Closed(p) \in Conn /\ Closed(p).kind = "site" /\ Closed(p) # Free
  BY DEF Free, Closed, Conn
<1>6. \A p \in Page, r \in Response :
        Answer(p, r) \in Conn /\ Answer(p, r).kind = "site" /\ Answer(p, r) # Free
  BY DEF Free, Answer, Conn
<1> QED
  BY <1>1, <1>2, <1>3, <1>4, <1>5, <1>6

(* The lowest free descriptor is free.                                        *)
LEMMA MinFreeFd ==
    ASSUME FreeFd # {}
    PROVE  Min(FreeFd) \in Fd /\ conn[Min(FreeFd)] = Free
<1>1. FreeFd \subseteq Nat
  BY NetAssumption DEF FreeFd, Fd
<1>2. \E x \in FreeFd : \A y \in FreeFd : x <= y
  BY <1>1, LeastExists
<1>3. Min(FreeFd) \in FreeFd
  BY <1>2 DEF Min
<1> QED
  BY <1>3 DEF FreeFd

(* A list of one node begins with it.                                         *)
LEMMA FirstOfOne ==
    ASSUME NEW c, c.id \in Int
    PROVE  First({c}) = c
<1>1. IsFiniteSet({c})
  BY FS_Singleton
<1>2. First({c}) \in {c}
  BY <1>1, FirstProperties
<1> QED
  BY <1>2

(* A list with one node replaced by one that was not there.                    *)
LEMMA ReplaceOne ==
    ASSUME NEW L, IsFiniteSet(L), NEW c \in L, NEW m, m \notin L \ {c}
    PROVE  /\ Replace(L, c, m) = (L \ {c}) \cup {m}
           /\ IsFiniteSet(Replace(L, c, m))
           /\ Cardinality(Replace(L, c, m)) = Cardinality(L)
<1>1. Replace(L, c, m) = (L \ {c}) \cup {m}
  BY DEF Replace
<1>2. /\ IsFiniteSet(L \ {c}) /\ Cardinality(L \ {c}) = Cardinality(L) - 1
      /\ Cardinality(L) \in Nat
  BY FS_RemoveElement, FS_CardinalityType
<1>3. /\ IsFiniteSet((L \ {c}) \cup {m})
      /\ Cardinality((L \ {c}) \cup {m}) = Cardinality(L \ {c}) + 1
  BY <1>2, FS_AddElement
<1> QED
  BY <1>1, <1>2, <1>3

(* What is written to a user is a reply.                                      *)
LEMMA WriteToType ==
    ASSUME reply \in [User -> Reply \cup {NoReply}], now \in Time,
           NEW u \in User, NEW r \in Response, NEW hit \in BOOLEAN, NEW alive,
           WriteTo(u, r, hit, alive)
    PROVE  reply' \in [User -> Reply \cup {NoReply}]
<1>1. [response |-> r, at |-> now, hit |-> hit] \in Reply
  BY DEF Reply
<1> QED
  BY <1>1 DEF WriteTo

(* What the head of a request leaves.                                         *)
LEMMA TailOfRequest ==
    ASSUME NetTypeOK, GetComesFirst, NEW v \in User, u2p[v] # <<>>,
           u2p' = [u2p EXCEPT ![v] = Tail(@)]
    PROVE  /\ u2p' \in [User -> Seq({"GET", "bad"})]
           /\ GetComesFirst'
           /\ \A u \in User : NoGet(u2p[u]) => NoGet(u2p'[u])
           /\ NoGet(u2p'[v])
<1> DEFINE q == u2p[v]
<1>1. q \in Seq({"GET", "bad"}) /\ q # <<>> /\ u2p \in [User -> Seq({"GET", "bad"})]
  BY DEF NetTypeOK
<1>2. \A k \in 2..Len(q) : q[k] # "GET"
  BY DEF GetComesFirst
<1>3. u2p' \in [User -> Seq({"GET", "bad"})] /\ u2p'[v] = Tail(q)
      /\ \A u \in User \ {v} : u2p'[u] = u2p[u]
  BY <1>1
<1> HIDE DEF q
<1>4. /\ Tail(q) \in Seq({"GET", "bad"}) /\ Len(q) \in Nat /\ Len(Tail(q)) = Len(q) - 1
      /\ \A k \in 1..Len(Tail(q)) : Tail(q)[k] = q[k + 1]
  BY <1>1
<1>5. NoGet(Tail(q))
  BY <1>2, <1>4 DEF NoGet
<1>6. \A k \in 2..Len(Tail(q)) : Tail(q)[k] # "GET"
  BY <1>4, <1>5 DEF NoGet
<1> QED
  BY <1>3, <1>5, <1>6 DEF GetComesFirst

-----------------------------------------------------------------------------
(* What the steps of the proxy do to list and descriptors.                    *)

(* The chunks that are left of the requests: none that is a GET is new.        *)
Fewer == \A u \in User : NoGet(u2p[u]) => NoGet(u2p'[u])

(* A step that touches neither.                                               *)
LEMMA QuietStep ==
    ASSUME HttpInv, CacheOk', NetTypeOK', ProxyTypeOK', GetComesFirst', Fewer,
           UNCHANGED <<conn, read_fds, clients, n_clients, ust, backlog>>
    PROVE  HttpInv'
<1>1. ListInv'
  BY DEF HttpInv, ListInv, Matched, Clients, Waiting
<1>2. PagesNoted'
  BY DEF HttpInv, PagesNoted
<1>3. AsksOnce'
  BY DEF HttpInv, AsksOnce, Fewer
<1>4. NotYetKnown'
  BY DEF HttpInv, NotYetKnown
<1> QED
  BY <1>1, <1>2, <1>3, <1>4 DEF HttpInv

(* A connection that is accepted.                                             *)
LEMMA AcceptedList ==
    ASSUME HttpInv, NEW s \in Fd, conn[s] = Free, NEW v \in User,
           conn' = [conn EXCEPT ![s] = ToUser(v)],
           read_fds' = read_fds \cup {s},
           clients' = add_client(s),
           n_clients' = n_clients + 1,
           u2p' = u2p
    PROVE  /\ ListInv' /\ PagesNoted' /\ AsksOnce'
           /\ conn' \in [Fd -> Conn] /\ read_fds' \subseteq {sockfd} \cup Fd
           /\ \A c \in clients' : c \in Client
           /\ n_clients' \in Nat
<1> DEFINE new == [id |-> FrontId(clients), sockfd |-> s, servfd |-> -1, page |-> "none"]
<1>0. /\ NetTypeOK /\ ProxyTypeOK /\ ListInv /\ PagesNoted /\ AsksOnce
      /\ conn \in [Fd -> Conn] /\ \A c \in clients : c \in Client
      /\ n_clients \in Nat /\ read_fds \subseteq {sockfd} \cup Fd
  BY DEF HttpInv, NetTypeOK, ProxyTypeOK
<1>1. FrontId(clients) \in Nat
  <2>1. IsFiniteSet(clients) /\ \A c \in clients : c.id \in Nat
    BY <1>0 DEF ListInv, Client
  <2> QED
    BY <2>1, FrontIdProperties
<1>2. new \in Client /\ new.sockfd = s /\ new.servfd = -1
  BY <1>1 DEF Client
<1>3. clients' = clients \cup {new}
  BY DEF add_client
<1> HIDE DEF new
<1>4. Clients(s) = {} /\ Waiting(s) = {}
  BY <1>0, ConnTypes DEF ListInv, Matched
<1>5. new \notin clients
  BY <1>2, <1>4 DEF Clients
<1>6. IsFiniteSet(clients') /\ n_clients' = Cardinality(clients')
  BY <1>0, <1>3, <1>5, FS_AddElement DEF ListInv
<1>7. -1 \notin Fd
  BY NetAssumption DEF Fd
<1>8. /\ Clients(s)' = {new}
      /\ \A j \in Fd \ {s} : Clients(j)' = Clients(j)
      /\ \A j \in Fd : Waiting(j)' = Waiting(j)
  BY <1>2, <1>3, <1>4, <1>7 DEF Clients, Waiting
<1>9. /\ conn' \in [Fd -> Conn] /\ conn'[s] = ToUser(v)
      /\ \A j \in Fd \ {s} : conn'[j] = conn[j]
  BY <1>0, ConnTypes
<1>10. \A j \in Fd : Matched(j)'
  <2> TAKE j \in Fd
  <2>1. CASE j = s
    <3>1. conn'[j].kind = "user"
      BY <1>9, <2>1, ConnTypes
    <3> QED
      BY <1>3, <1>4, <1>8, <2>1, <3>1 DEF Matched
  <2>2. CASE j # s
    BY <1>0, <1>3, <1>8, <1>9, <2>2 DEF ListInv, Matched
  <2> QED
    BY <2>1, <2>2
<1>11. read_fds' = {sockfd} \cup {j \in Fd : conn'[j] # Free}
  BY <1>0, <1>9, ConnTypes DEF ListInv
<1>12. ListInv'
  BY <1>6, <1>10, <1>11 DEF ListInv
<1>13. PagesNoted'
  BY <1>0, <1>2, <1>3 DEF PagesNoted
<1>14. AsksOnce'
  <2> SUFFICES ASSUME NEW c \in clients', NEW u \in User,
                      conn'[c.sockfd] = ToUser(u), c.servfd # -1
               PROVE  NoGet(u2p'[u])
    BY DEF AsksOnce, NoGet
  <2>1. c \in clients
    BY <1>2, <1>3
  <2>2. c.sockfd \in Fd /\ c.sockfd # s
    BY <1>0, <1>4, <2>1 DEF Client, Clients
  <2> QED
    BY <1>0, <1>9, <2>1, <2>2 DEF AsksOnce
<1> QED
  BY <1>0, <1>2, <1>3, <1>9, <1>12, <1>13, <1>14

(* A client that is answered from the cache, and waits for no remote server.   *)
LEMMA HitList ==
    ASSUME HttpInv, NEW i \in Fd, conn[i].kind = "user",
           NEW c \in clients, Clients(i) = {c}, c.servfd = -1,
           conn' = [conn EXCEPT ![i] = Free],
           read_fds' = read_fds \ {i},
           clients' = remove_client(i),
           n_clients' = n_clients - 1,
           Fewer
    PROVE  /\ ListInv' /\ PagesNoted' /\ AsksOnce'
           /\ conn' \in [Fd -> Conn] /\ read_fds' \subseteq {sockfd} \cup Fd
           /\ \A d \in clients' : d \in Client
           /\ n_clients' \in Nat
<1>0. /\ NetTypeOK /\ ProxyTypeOK /\ ListInv /\ PagesNoted /\ AsksOnce
      /\ conn \in [Fd -> Conn] /\ \A d \in clients : d \in Client
      /\ n_clients \in Nat /\ read_fds \subseteq {sockfd} \cup Fd
  BY DEF HttpInv, NetTypeOK, ProxyTypeOK
<1>1. clients' = clients \ {c} /\ c.sockfd = i
  BY DEF remove_client, Clients
<1>2. IsFiniteSet(clients') /\ n_clients' = Cardinality(clients') /\ n_clients' \in Nat
  <2>1. IsFiniteSet(clients) /\ n_clients = Cardinality(clients)
    BY <1>0 DEF ListInv
  <2>2. IsFiniteSet(clients') /\ Cardinality(clients') = Cardinality(clients) - 1
    BY <1>1, <2>1, FS_RemoveElement
  <2>3. Cardinality(clients') \in Nat
    BY <2>2, FS_CardinalityType
  <2> QED
    BY <2>1, <2>2, <2>3
<1>3. -1 \notin Fd /\ sockfd \notin Fd
  BY NetAssumption DEF Fd, sockfd
<1>4. /\ Clients(i)' = {}
      /\ \A j \in Fd \ {i} : Clients(j)' = Clients(j)
      /\ \A j \in Fd : Waiting(j)' = Waiting(j)
  BY <1>1, <1>3 DEF Clients, Waiting
<1>5. /\ conn' \in [Fd -> Conn] /\ conn'[i] = Free
      /\ \A j \in Fd \ {i} : conn'[j] = conn[j]
  BY <1>0, ConnTypes
<1>6. \A j \in Fd : Matched(j)'
  <2> TAKE j \in Fd
  <2>1. CASE j = i
    <3>1. conn'[j].kind = "free" /\ Waiting(i) = {}
      BY <1>0, <1>5, <2>1, ConnTypes DEF ListInv, Matched
    <3> QED
      BY <1>4, <2>1, <3>1 DEF Matched
  <2>2. CASE j # i
    <3>1. Matched(j) /\ Clients(j)' = Clients(j) /\ Waiting(j)' = Waiting(j) /\ conn'[j] = conn[j]
      BY <1>0, <1>4, <1>5, <2>2 DEF ListInv
    <3>2. Clients(j)' \subseteq clients' /\ Waiting(j)' \subseteq clients'
      BY DEF Clients, Waiting
    <3> QED
      BY <3>1, <3>2 DEF Matched
  <2> QED
    BY <2>1, <2>2
<1>7. read_fds' = {sockfd} \cup {j \in Fd : conn'[j] # Free}
  BY <1>0, <1>3, <1>5 DEF ListInv
<1>8. ListInv'
  BY <1>2, <1>6, <1>7 DEF ListInv
<1>9. PagesNoted'
  BY <1>0, <1>1 DEF PagesNoted
<1>10. AsksOnce'
  <2> SUFFICES ASSUME NEW d \in clients', NEW u \in User,
                      conn'[d.sockfd] = ToUser(u), d.servfd # -1
               PROVE  NoGet(u2p'[u])
    BY DEF AsksOnce, NoGet
  <2>1. d \in clients /\ d.sockfd \in Fd
    BY <1>0, <1>1 DEF Client
  <2>2. conn[d.sockfd] = ToUser(u)
    BY <1>5, <2>1, ConnTypes
  <2> QED
    BY <1>0, <2>1, <2>2 DEF AsksOnce, Fewer
<1> QED
  BY <1>0, <1>1, <1>2, <1>5, <1>8, <1>9, <1>10

(* A client that notes a page, and perhaps waits for a remote server from now  *)
(* on, whose descriptor was free.                                             *)
LEMMA NotedList ==
    ASSUME HttpInv, NEW i \in Fd, NEW v \in User, conn[i] = ToUser(v),
           NEW c \in clients, Clients(i) = {c}, c.servfd = -1,
           NEW p \in Page, NEW s \in Fd \cup {-1}, NEW m,
           m = [c EXCEPT !.page = p, !.servfd = s],
           s # -1 => conn[s] = Free,
           conn' = IF s = -1 THEN conn ELSE [conn EXCEPT ![s] = Asked(p)],
           read_fds' = IF s = -1 THEN read_fds ELSE read_fds \cup {s},
           clients' = Replace(clients, c, m),
           n_clients' = n_clients,
           Fewer, NoGet(u2p'[v])
    PROVE  /\ ListInv' /\ PagesNoted' /\ AsksOnce'
           /\ conn' \in [Fd -> Conn] /\ read_fds' \subseteq {sockfd} \cup Fd
           /\ \A d \in clients' : d \in Client
<1>0. /\ NetTypeOK /\ ProxyTypeOK /\ ListInv /\ PagesNoted /\ AsksOnce
      /\ conn \in [Fd -> Conn] /\ \A d \in clients : d \in Client
      /\ read_fds \subseteq {sockfd} \cup Fd
  BY DEF HttpInv, NetTypeOK, ProxyTypeOK
<1>1. /\ m \in Client /\ m.sockfd = i /\ m.servfd = s /\ m.page = p
      /\ c.sockfd = i
  BY <1>0 DEF Clients, Client
<1>2. m \notin clients \ {c}
  BY <1>1 DEF Clients
<1>3. /\ clients' = (clients \ {c}) \cup {m}
      /\ IsFiniteSet(clients') /\ n_clients' = Cardinality(clients')
  BY <1>0, <1>2, ReplaceOne DEF ListInv
<1>4. -1 \notin Fd
  BY NetAssumption DEF Fd
<1>5. s # -1 => s # i /\ Clients(s) = {} /\ Waiting(s) = {}
  <2>1. ToUser(v) # Free /\ Free.kind = "free"
    BY ConnTypes
  <2> QED
    BY <1>0, <2>1 DEF ListInv, Matched
<1>6. /\ conn' \in [Fd -> Conn]
      /\ s # -1 => conn'[s] = Asked(p)
      /\ \A j \in Fd \ {s} : conn'[j] = conn[j]
  BY <1>0, ConnTypes
<1>7. /\ Clients(i)' = {m}
      /\ \A j \in Fd \ {i} : Clients(j)' = Clients(j)
      /\ s # -1 => Waiting(s)' = {m}
      /\ \A j \in Fd \ {s} : Waiting(j)' = Waiting(j)
  <2>1. Clients(i)' = {m} /\ \A j \in Fd \ {i} : Clients(j)' = Clients(j)
    BY <1>1, <1>3 DEF Clients
  <2>2. \A j \in Fd \ {s} : Waiting(j)' = Waiting(j)
    BY <1>1, <1>3, <1>4 DEF Waiting
  <2>3. s # -1 => Waiting(s)' = {m}
    BY <1>1, <1>3, <1>5 DEF Waiting
  <2> QED
    BY <2>1, <2>2, <2>3
<1>8. \A j \in Fd : Matched(j)'
  <2> TAKE j \in Fd
  <2>1. CASE j = i
    <3>1. conn'[j].kind = "user" /\ Waiting(i) = {} /\ i # s
      BY <1>0, <1>4, <1>5, <1>6, <2>1, ConnTypes DEF ListInv, Matched
    <3> QED
      BY <1>3, <1>7, <2>1, <3>1 DEF Matched
  <2>2. CASE j = s
    <3>1. conn'[j].kind = "site" /\ s # -1
      BY <1>4, <1>6, <2>2, ConnTypes
    <3> QED
      BY <1>3, <1>5, <1>7, <2>2, <3>1 DEF Matched
  <2>3. CASE j # i /\ j # s
    <3>1. Matched(j) /\ Clients(j)' = Clients(j) /\ Waiting(j)' = Waiting(j) /\ conn'[j] = conn[j]
      BY <1>0, <1>6, <1>7, <2>3 DEF ListInv
    <3>2. Clients(j)' \subseteq clients' /\ Waiting(j)' \subseteq clients'
      BY DEF Clients, Waiting
    <3> QED
      BY <3>1, <3>2 DEF Matched
  <2> QED
    BY <2>1, <2>2, <2>3
<1>9. read_fds' = {sockfd} \cup {j \in Fd : conn'[j] # Free}
  <2>1. Asked(p) # Free
    BY ConnTypes
  <2> QED
    BY <1>0, <1>6, <2>1 DEF ListInv
<1>10. ListInv'
  BY <1>3, <1>8, <1>9 DEF ListInv
<1>11. PagesNoted'
  BY <1>0, <1>1, <1>3 DEF PagesNoted
<1>12. AsksOnce'
  <2> SUFFICES ASSUME NEW d \in clients', NEW u \in User,
                      conn'[d.sockfd] = ToUser(u), d.servfd # -1
               PROVE  NoGet(u2p'[u])
    BY DEF AsksOnce, NoGet
  <2>1. CASE d = m
    <3>1. conn'[i] = ToUser(v) /\ conn'[i] = ToUser(u)
      BY <1>1, <1>4, <1>5, <1>6, <2>1
    <3>2. ToUser(v).user = v /\ ToUser(u).user = u
      BY ConnTypes
    <3>3. u = v
      BY <3>1, <3>2
    <3> QED
      BY <3>3
  <2>2. CASE d # m
    <3>1. d \in clients /\ d.sockfd \in Fd /\ d.sockfd # s
      BY <1>0, <1>3, <1>4, <1>5, <2>2 DEF Client, Clients
    <3>2. conn[d.sockfd] = ToUser(u)
      BY <1>6, <3>1
    <3> QED
      BY <1>0, <3>1, <3>2 DEF AsksOnce, Fewer
  <2> QED
    BY <2>1, <2>2
<1> QED
  BY <1>0, <1>1, <1>3, <1>4, <1>6, <1>10, <1>11, <1>12

(* A client that is sent the response of the remote server it waits for.       *)
LEMMA AnsweredList ==
    ASSUME HttpInv, NEW i \in Fd, conn[i].kind = "site",
           NEW w \in clients, Waiting(i) = {w},
           NEW cf \in Fd, cf = w.sockfd, Clients(cf) = {w}, conn[cf].kind = "user",
           conn' = [conn EXCEPT ![cf] = Free, ![i] = Free],
           read_fds' = read_fds \ {cf, i},
           clients' = remove_client(cf),
           n_clients' = n_clients - 1,
           u2p' = u2p
    PROVE  /\ ListInv' /\ PagesNoted' /\ AsksOnce'
           /\ conn' \in [Fd -> Conn] /\ read_fds' \subseteq {sockfd} \cup Fd
           /\ \A d \in clients' : d \in Client
           /\ n_clients' \in Nat
<1>0. /\ NetTypeOK /\ ProxyTypeOK /\ ListInv /\ PagesNoted /\ AsksOnce
      /\ conn \in [Fd -> Conn] /\ \A d \in clients : d \in Client
      /\ n_clients \in Nat /\ read_fds \subseteq {sockfd} \cup Fd
  BY DEF HttpInv, NetTypeOK, ProxyTypeOK
<1>1. clients' = clients \ {w} /\ w.servfd = i
  BY DEF remove_client, Waiting
<1>2. IsFiniteSet(clients') /\ n_clients' = Cardinality(clients') /\ n_clients' \in Nat
  <2>1. IsFiniteSet(clients) /\ n_clients = Cardinality(clients)
    BY <1>0 DEF ListInv
  <2>2. IsFiniteSet(clients') /\ Cardinality(clients') = Cardinality(clients) - 1
    BY <1>1, <2>1, FS_RemoveElement
  <2>3. Cardinality(clients') \in Nat
    BY <2>2, FS_CardinalityType
  <2> QED
    BY <2>1, <2>2, <2>3
<1>3. sockfd \notin Fd
  BY NetAssumption DEF Fd, sockfd
<1>4. /\ Clients(cf)' = {} /\ Waiting(i)' = {}
      /\ \A j \in Fd \ {cf} : Clients(j)' = Clients(j)
      /\ \A j \in Fd \ {i} : Waiting(j)' = Waiting(j)
  BY <1>1 DEF Clients, Waiting
<1>5. Clients(i) = {} /\ Waiting(cf) = {} /\ i # cf
  BY <1>0 DEF ListInv, Matched
<1>6. /\ conn' \in [Fd -> Conn] /\ conn'[i] = Free /\ conn'[cf] = Free
      /\ \A j \in Fd \ {i, cf} : conn'[j] = conn[j]
  BY <1>0, <1>5, ConnTypes
<1>7. \A j \in Fd : Matched(j)'
  <2> TAKE j \in Fd
  <2>1. CASE j \in {i, cf}
    <3>1. conn'[j].kind = "free" /\ Clients(j)' = {} /\ Waiting(j)' = {}
      BY <1>4, <1>5, <1>6, <2>1, ConnTypes
    <3> QED
      BY <3>1 DEF Matched
  <2>2. CASE j \notin {i, cf}
    <3>1. Matched(j) /\ Clients(j)' = Clients(j) /\ Waiting(j)' = Waiting(j) /\ conn'[j] = conn[j]
      BY <1>0, <1>4, <1>6, <2>2 DEF ListInv
    <3>2. Clients(j)' \subseteq clients' /\ Waiting(j)' \subseteq clients'
      BY DEF Clients, Waiting
    <3> QED
      BY <3>1, <3>2 DEF Matched
  <2> QED
    BY <2>1, <2>2
<1>8. read_fds' = {sockfd} \cup {j \in Fd : conn'[j] # Free}
  BY <1>0, <1>3, <1>6 DEF ListInv
<1>9. ListInv'
  BY <1>2, <1>7, <1>8 DEF ListInv
<1>10. PagesNoted'
  BY <1>0, <1>1 DEF PagesNoted
<1>11. AsksOnce'
  <2> SUFFICES ASSUME NEW d \in clients', NEW u \in User,
                      conn'[d.sockfd] = ToUser(u), d.servfd # -1
               PROVE  NoGet(u2p'[u])
    BY DEF AsksOnce, NoGet
  <2>1. d \in clients /\ d.sockfd \in Fd
    BY <1>0, <1>1 DEF Client
  <2>2. conn[d.sockfd] = ToUser(u)
    BY <1>6, <2>1, ConnTypes
  <2> QED
    BY <1>0, <2>1, <2>2 DEF AsksOnce
<1> QED
  BY <1>0, <1>1, <1>2, <1>6, <1>9, <1>10, <1>11

-----------------------------------------------------------------------------
(* One lemma for each step.                                                   *)

(* The types, one by one.                                                     *)
LEMMA Types ==
    ASSUME HttpInv
    PROVE  /\ conn \in [Fd -> Conn] /\ backlog \in Seq(User)
           /\ u2p \in [User -> Seq({"GET", "bad"})]
           /\ ust \in [User -> {"start", "wait", "gone"}]
           /\ reply \in [User -> Reply \cup {NoReply}]
           /\ read_fds \subseteq {sockfd} \cup Fd /\ ready \subseteq {sockfd} \cup Fd
           /\ \A c \in clients : c \in Client
           /\ n_clients \in Nat /\ srv \in {"up", "exit"} /\ now \in Time
           /\ CacheOk /\ CacheTypeOK /\ IsFiniteSet(cache) /\ NetTypeOK
  BY DEF HttpInv, NetTypeOK, ProxyTypeOK, CacheOk, CacheTypeOK

(* A step that leaves everything but the proxy's pass alone.                  *)
LEMMA PassStep ==
    ASSUME HttpInv, ready' \subseteq {sockfd} \cup Fd, srv' \in {"up", "exit"},
           UNCHANGED <<cacheVars, now, conn, userVars, read_fds, clients, n_clients>>
    PROVE  HttpInv'
<1>1. UNCHANGED <<cache, num_entries, backlog, u2p, ust, reply>>
  BY DEF cacheVars, userVars
<1>2. CacheOk'
  BY <1>1, Types, KeepsCache
<1>3. NetTypeOK'
  BY <1>1, Types DEF NetTypeOK
<1>4. ProxyTypeOK'
  BY Types DEF ProxyTypeOK
<1>5. GetComesFirst' /\ Fewer
  BY <1>1 DEF HttpInv, GetComesFirst, Fewer
<1> QED
  BY <1>1, <1>2, <1>3, <1>4, <1>5, QuietStep

(* select() watches open descriptors only, so a pass handles no other.       *)
LEMMA SelectStep == ASSUME HttpInv, Select PROVE HttpInv'
<1>1. ready' \subseteq {sockfd} \cup Fd
  BY Types DEF Select
<1> QED
  BY <1>1, Types, PassStep DEF Select

(* A read that returns nothing ends one turn of the pass.                    *)
LEMMA NoDataStep == ASSUME HttpInv, NEW i \in Fd, NoData(i) PROVE HttpInv'
<1>1. ready' \subseteq {sockfd} \cup Fd
  BY Types DEF NoData, Turn
<1> QED
  BY <1>1, Types, PassStep DEF NoData

(* accept() takes the lowest free descriptor, and the client it adds is new to*)
(* list and descriptors; with no descriptor left, nothing happens.           *)
LEMMA AcceptStep == ASSUME HttpInv, Accept PROVE HttpInv'
<1>0. /\ ready' \subseteq {sockfd} \cup Fd
      /\ UNCHANGED <<cacheVars, now, u2p, ust, reply, srv>>
  BY Types DEF Accept, Turn
<1>1. CASE FreeFd = {}
  <2>1. UNCHANGED <<conn, backlog, read_fds, clients, n_clients>>
    BY <1>1 DEF Accept
  <2> QED
    BY <1>0, <2>1, Types, PassStep DEF userVars
<1>2. CASE FreeFd # {}
  <2> DEFINE s == Min(FreeFd)
             v == Head(backlog)
  <2>1. /\ conn' = [conn EXCEPT ![s] = ToUser(v)]
        /\ backlog' = Tail(backlog)
        /\ read_fds' = read_fds \cup {s}
        /\ clients' = add_client(s)
        /\ n_clients' = n_clients + 1
    BY <1>2 DEF Accept
  <2>2. s \in Fd /\ conn[s] = Free
    BY <1>2, MinFreeFd
  <2>3. backlog # <<>>
    BY DEF Accept, Turn, Complete, Readable
  <2>4. backlog \in Seq(User)
    BY Types
  <2>5. /\ v \in User /\ backlog' \in Seq(User) /\ v = backlog[1]
        /\ Len(backlog) \in Nat /\ Len(backlog') = Len(backlog) - 1
        /\ \A k \in 1..Len(backlog') : backlog'[k] = backlog[k + 1]
    BY <2>1, <2>3, <2>4
  <2> HIDE DEF s, v
  <2>6. u2p' = u2p
    BY <1>0
  <2>7. /\ ListInv' /\ PagesNoted' /\ AsksOnce'
        /\ conn' \in [Fd -> Conn] /\ read_fds' \subseteq {sockfd} \cup Fd
        /\ \A c \in clients' : c \in Client
        /\ n_clients' \in Nat
    BY <2>1, <2>2, <2>5, <2>6, AcceptedList
  <2>8. CacheOk'
    BY <1>0, Types, KeepsCache
  <2>9. NetTypeOK'
    BY <1>0, <2>5, <2>7, Types DEF NetTypeOK
  <2>10. ProxyTypeOK'
    BY <1>0, <2>7, Types DEF ProxyTypeOK
  <2>11. GetComesFirst'
    BY <1>0 DEF HttpInv, GetComesFirst
  <2>12. NotYetKnown'
    <3> SUFFICES ASSUME NEW u \in User, ust[u] = "start"
                 PROVE  /\ \A i \in Fd : conn'[i] # ToUser(u)
                        /\ \A k \in 1..Len(backlog') : backlog'[k] # u
      BY <1>0 DEF NotYetKnown
    <3>1. /\ \A i \in Fd : conn[i] # ToUser(u)
          /\ \A k \in 1..Len(backlog) : backlog[k] # u
      BY DEF HttpInv, NotYetKnown
    <3>2. v # u
      <4>1. Len(backlog) # 0
        BY <2>3, <2>4
      <4> QED
        BY <2>5, <3>1, <4>1
    <3>3. ToUser(v) # ToUser(u)
      <4>1. ToUser(v).user = v /\ ToUser(u).user = u
        BY <2>5, ConnTypes
      <4> QED
        BY <3>2, <4>1
    <3>4. \A i \in Fd : conn'[i] # ToUser(u)
      BY <2>1, <3>1, <3>3, Types
    <3>5. \A k \in 1..Len(backlog') : backlog'[k] # u
      <4> TAKE k \in 1..Len(backlog')
      <4>1. k + 1 \in 1..Len(backlog)
        BY <2>5
      <4> QED
        BY <2>5, <3>1, <4>1
    <3> QED
      BY <3>4, <3>5
  <2> QED
    BY <2>7, <2>8, <2>9, <2>10, <2>11, <2>12 DEF HttpInv
<1> QED
  BY <1>1, <1>2

(* Only a user's connection has a chunk of a request.                          *)
LEMMA ChunkOfUser ==
    ASSUME HttpInv, NEW i \in Fd, Data(i) \in {"GET", "bad"}
    PROVE  /\ conn[i].kind = "user" /\ conn[i].user \in User
           /\ conn[i] = ToUser(conn[i].user)
           /\ u2p[conn[i].user] # <<>> /\ Head(u2p[conn[i].user]) = Data(i)
<1>1. CASE conn[i].kind = "free"
  BY <1>1 DEF Data
<1>2. CASE conn[i].kind = "site"
  <2>1. conn[i].answer \in {"open", "part", "closed", "sent"}
    BY <1>2, Types, ConnKinds
  <2> QED
    BY <1>2, <2>1 DEF Data
<1>3. CASE conn[i].kind = "user"
  <2>1. conn[i].user \in User /\ conn[i] = ToUser(conn[i].user)
    BY <1>3, Types, ConnKinds
  <2>2. u2p[conn[i].user] # <<>> /\ Head(u2p[conn[i].user]) = Data(i)
    BY <1>3 DEF Data
  <2> QED
    BY <1>3, <2>1, <2>2
<1> QED
  BY <1>1, <1>2, <1>3, Types, ConnKinds

(* A chunk that is no request is dropped.                                    *)
LEMMA BadRequestStep == ASSUME HttpInv, NEW i \in Fd, BadRequest(i) PROVE HttpInv'
<1>1. /\ conn[i].user \in User /\ u2p[conn[i].user] # <<>>
  BY ChunkOfUser DEF BadRequest
<1>2. /\ ready' \subseteq {sockfd} \cup Fd
      /\ u2p' = [u2p EXCEPT ![conn[i].user] = Tail(@)]
      /\ UNCHANGED <<cacheVars, now, conn, backlog, ust, reply, read_fds, clients, n_clients, srv>>
  BY Types DEF BadRequest, Turn
<1>3. u2p' \in [User -> Seq({"GET", "bad"})] /\ GetComesFirst' /\ Fewer
  <2>1. GetComesFirst
    BY DEF HttpInv
  <2> QED
    BY <1>1, <1>2, <2>1, Types, TailOfRequest DEF Fewer
<1>4. CacheOk'
  BY <1>2, Types, KeepsCache
<1>5. NetTypeOK' /\ ProxyTypeOK'
  BY <1>2, <1>3, Types DEF NetTypeOK, ProxyTypeOK
<1> QED
  BY <1>2, <1>3, <1>4, <1>5, QuietStep

(* Who sends a GET has one entry in the list, and waits for no remote server;  *)
(* nothing is left that would make it ask again.                              *)
LEMMA GetFacts ==
    ASSUME HttpInv, NEW i \in Fd, NEW p, GetRequest(i, p)
    PROVE  /\ conn[i].kind = "user" /\ conn[i].user \in User
           /\ conn[i] = ToUser(conn[i].user)
           /\ p \in Page
           /\ \E c \in clients : Clients(i) = {c} /\ c.servfd = -1 /\ find_client(i) = c
           /\ ready' \subseteq {sockfd} \cup Fd
           /\ u2p' \in [User -> Seq({"GET", "bad"})] /\ GetComesFirst' /\ Fewer
           /\ NoGet(u2p'[conn[i].user])
<1> DEFINE v == conn[i].user
<1>1. /\ conn[i].kind = "user" /\ v \in User /\ conn[i] = ToUser(v)
      /\ u2p[v] # <<>> /\ Head(u2p[v]) = "GET"
  BY ChunkOfUser DEF GetRequest
<1>2. p \in Page
  BY <1>1, NetAssumption DEF GetRequest
<1>3. ready' \subseteq {sockfd} \cup Fd
  BY Types DEF GetRequest, Turn
<1>4. u2p' = [u2p EXCEPT ![v] = Tail(@)]
  BY DEF GetRequest
<1> HIDE DEF v
<1>5. /\ u2p' \in [User -> Seq({"GET", "bad"})] /\ GetComesFirst' /\ Fewer
      /\ NoGet(u2p'[v])
  <2>1. GetComesFirst
    BY DEF HttpInv
  <2> QED
    BY <1>1, <1>4, <2>1, Types, TailOfRequest DEF Fewer
<1>6. PICK c \in clients : Clients(i) = {c}
  BY <1>1 DEF HttpInv, ListInv, Matched
<1>7. c.servfd = -1
  <2>1. ~ NoGet(u2p[v])
    <3>1. u2p[v] \in Seq({"GET", "bad"})
      BY <1>1, Types
    <3>2. 1 \in 1..Len(u2p[v]) /\ u2p[v][1] = "GET"
      BY <1>1, <3>1
    <3> QED
      BY <3>2 DEF NoGet
  <2>2. c.sockfd = i
    BY <1>6 DEF Clients
  <2> QED
    BY <1>1, <2>1, <2>2 DEF HttpInv, AsksOnce
<1>8. find_client(i) = c
  <2>1. c.id \in Int
    BY Types DEF Client
  <2> QED
    BY <1>6, <2>1, FirstOfOne DEF find_client
<1> QED
  BY <1>1, <1>2, <1>3, <1>5, <1>6, <1>7, <1>8 DEF v

(* Whoever has not started is not connected, when connections only close or    *)
(* are made to remote servers.                                                *)
LEMMA StillUnknown ==
    ASSUME HttpInv, UNCHANGED <<ust, backlog>>,
           \A j \in Fd : conn'[j] = conn[j] \/ conn'[j].kind # "user"
    PROVE  NotYetKnown'
<1> SUFFICES ASSUME NEW u \in User, ust[u] = "start", NEW j \in Fd
             PROVE  conn'[j] # ToUser(u)
  BY DEF HttpInv, NotYetKnown
<1>1. conn[j] # ToUser(u)
  BY DEF HttpInv, NotYetKnown
<1>2. ToUser(u).kind = "user"
  BY ConnTypes
<1> QED
  BY <1>1, <1>2

(* A client answered from the cache leaves the list with its descriptor.     *)
LEMMA HitStep == ASSUME HttpInv, NEW i \in Fd, Hit(i) PROVE HttpInv'
<1>1. PICK p \in Page, alive \in BOOLEAN :
        /\ GetRequest(i, p)
        /\ GoodEntry(p)
        /\ WriteTo(conn[i].user, find_entry(p).response, TRUE, alive)
        /\ IF alive
           THEN /\ UpdateEntry(p)
                /\ clients' = remove_client(i)
                /\ n_clients' = n_clients - 1
                /\ read_fds' = read_fds \ {i}
                /\ conn' = [conn EXCEPT ![i] = Free]
                /\ UNCHANGED srv
           ELSE /\ srv' = "exit"
                /\ UNCHANGED <<cacheVars, clients, n_clients, read_fds, conn>>
        /\ UNCHANGED <<now, backlog, ust>>
  BY DEF Hit
<1>2. /\ conn[i].kind = "user" /\ conn[i].user \in User
      /\ ready' \subseteq {sockfd} \cup Fd
      /\ u2p' \in [User -> Seq({"GET", "bad"})] /\ GetComesFirst' /\ Fewer
  BY <1>1, GetFacts
<1>3. PICK c \in clients : Clients(i) = {c} /\ c.servfd = -1
  BY <1>1, GetFacts
<1>4. Hits(p) # {} /\ find_entry(p) \in cache
  BY <1>1, Types, FoundProperties DEF GoodEntry, Hits
<1>5. reply' \in [User -> Reply \cup {NoReply}]
  <2>1. find_entry(p).response \in Response
    BY <1>4, Types DEF CacheTypeOK, Entry
  <2> QED
    BY <1>1, <1>2, <2>1, Types, WriteToType
<1>6. CASE alive
  <2>1. /\ UpdateEntry(p)
        /\ clients' = remove_client(i)
        /\ n_clients' = n_clients - 1
        /\ read_fds' = read_fds \ {i}
        /\ conn' = [conn EXCEPT ![i] = Free]
        /\ UNCHANGED <<srv, now, backlog, ust>>
    BY <1>1, <1>6
  <2>2. /\ ListInv' /\ PagesNoted' /\ AsksOnce'
        /\ conn' \in [Fd -> Conn] /\ read_fds' \subseteq {sockfd} \cup Fd
        /\ \A d \in clients' : d \in Client
        /\ n_clients' \in Nat
    BY <1>2, <1>3, <2>1, HitList
  <2>3. CacheOk'
    BY <1>4, <2>1, Types, UpdateKeepsCache
  <2>4. NetTypeOK' /\ ProxyTypeOK'
    BY <1>2, <1>5, <2>1, <2>2, Types DEF NetTypeOK, ProxyTypeOK
  <2>5. NotYetKnown'
    <3>1. \A j \in Fd : conn'[j] = conn[j] \/ conn'[j].kind # "user"
      BY <2>1, Types, ConnTypes
    <3> QED
      BY <2>1, <3>1, StillUnknown
  <2> QED
    BY <1>2, <2>2, <2>3, <2>4, <2>5 DEF HttpInv
<1>7. CASE ~alive
  <2>1. srv' = "exit" /\ UNCHANGED <<cacheVars, clients, n_clients, read_fds, conn, now, backlog, ust>>
    BY <1>1, <1>7
  <2>2. CacheOk'
    BY <2>1, Types, KeepsCache
  <2>3. NetTypeOK' /\ ProxyTypeOK'
    BY <1>2, <1>5, <2>1, Types DEF NetTypeOK, ProxyTypeOK
  <2> QED
    BY <1>2, <2>1, <2>2, <2>3, QuietStep
<1> QED
  BY <1>6, <1>7

(* A miss leaves the cache as it is, or without its expired entry.             *)
LEMMA MissedCache ==
    ASSUME HttpInv, NEW i \in Fd, NEW p, Missed(i, p), now' = now
    PROVE  CacheOk'
<1>1. CASE Hits(p) # {}
  BY <1>1, Types, RemoveKeepsCache DEF Missed
<1>2. CASE Hits(p) = {}
  BY <1>2, Types, KeepsCache DEF Missed
<1> QED
  BY <1>1, <1>2

(* A client begins to wait for one remote server, on a free descriptor.      *)
LEMMA FetchStep == ASSUME HttpInv, NEW i \in Fd, Fetch(i) PROVE HttpInv'
<1> DEFINE s == Min(FreeFd)
<1>1. PICK p \in Page :
        /\ Missed(i, p)
        /\ FreeFd # {}
        /\ conn' = [conn EXCEPT ![s] = Asked(p)]
        /\ read_fds' = read_fds \cup {s}
        /\ clients' = WithServer(i, p, s)
        /\ UNCHANGED <<now, backlog, ust, reply, n_clients, srv>>
  BY DEF Fetch
<1>2. s \in Fd /\ conn[s] = Free
  BY <1>1, MinFreeFd
<1>3. GetRequest(i, p)
  BY <1>1 DEF Missed
<1> HIDE DEF s
<1>4. /\ conn[i].user \in User /\ conn[i] = ToUser(conn[i].user)
      /\ ready' \subseteq {sockfd} \cup Fd
      /\ u2p' \in [User -> Seq({"GET", "bad"})] /\ GetComesFirst' /\ Fewer
      /\ NoGet(u2p'[conn[i].user])
  BY <1>3, GetFacts
<1>5. PICK c \in clients : Clients(i) = {c} /\ c.servfd = -1 /\ find_client(i) = c
  BY <1>3, GetFacts
<1>6. clients' = Replace(clients, c, [c EXCEPT !.page = p, !.servfd = s])
  BY <1>1, <1>5 DEF WithServer
<1>7. s # -1
  BY <1>2, NetAssumption DEF Fd
<1>8. /\ ListInv' /\ PagesNoted' /\ AsksOnce'
      /\ conn' \in [Fd -> Conn] /\ read_fds' \subseteq {sockfd} \cup Fd
      /\ \A d \in clients' : d \in Client
  BY <1>1, <1>2, <1>4, <1>5, <1>6, <1>7, NotedList
<1>9. CacheOk'
  BY <1>1, MissedCache
<1>10. NetTypeOK' /\ ProxyTypeOK'
  BY <1>1, <1>4, <1>8, Types DEF NetTypeOK, ProxyTypeOK
<1>11. NotYetKnown'
  <2>1. \A j \in Fd : conn'[j] = conn[j] \/ conn'[j].kind # "user"
    BY <1>1, Types, ConnTypes
  <2> QED
    BY <1>1, <2>1, StillUnknown
<1> QED
  BY <1>4, <1>8, <1>9, <1>10, <1>11 DEF HttpInv

(* Without a connection, a client notes the page, and waits for nobody.      *)
LEMMA FetchFailsStep == ASSUME HttpInv, NEW i \in Fd, FetchFails(i) PROVE HttpInv'
<1>1. PICK p \in Page :
        /\ Missed(i, p)
        /\ clients' = WithPage(i, p)
        /\ UNCHANGED <<now, conn, backlog, ust, reply, read_fds, n_clients, srv>>
  BY DEF FetchFails
<1>2. GetRequest(i, p)
  BY <1>1 DEF Missed
<1>3. /\ conn[i].user \in User /\ conn[i] = ToUser(conn[i].user)
      /\ ready' \subseteq {sockfd} \cup Fd
      /\ u2p' \in [User -> Seq({"GET", "bad"})] /\ GetComesFirst' /\ Fewer
      /\ NoGet(u2p'[conn[i].user])
  BY <1>2, GetFacts
<1>4. PICK c \in clients : Clients(i) = {c} /\ c.servfd = -1 /\ find_client(i) = c
  BY <1>2, GetFacts
<1>5. clients' = Replace(clients, c, [c EXCEPT !.page = p, !.servfd = -1])
  <2>1. [c EXCEPT !.page = p, !.servfd = -1] = [c EXCEPT !.page = p]
    <3>1. c \in Client
      BY Types
    <3> QED
      BY <1>4, <3>1 DEF Client
  <2> QED
    BY <1>1, <1>4, <2>1 DEF WithPage
<1>6. /\ ListInv' /\ PagesNoted' /\ AsksOnce'
      /\ \A d \in clients' : d \in Client
  <2> DEFINE s == -1
             m == [c EXCEPT !.page = p, !.servfd = s]
             C == IF s = -1 THEN conn ELSE [conn EXCEPT ![s] = Asked(p)]
             R == IF s = -1 THEN read_fds ELSE read_fds \cup {s}
  <2>1. s \in Fd \cup {-1} /\ (s # -1 => conn[s] = Free)
    OBVIOUS
  <2>2. conn' = C /\ read_fds' = R
    BY <1>1
  <2>3. clients' = Replace(clients, c, m)
    BY <1>5
  <2>4. n_clients' = n_clients
    BY <1>1
  <2>5. m = [c EXCEPT !.page = p, !.servfd = s]
    OBVIOUS
  <2> HIDE DEF s, m
  <2> QED
    BY <1>3, <1>4, <2>1, <2>2, <2>3, <2>4, <2>5, NotedList
<1>7. CacheOk'
  BY <1>1, MissedCache
<1>8. NetTypeOK' /\ ProxyTypeOK'
  BY <1>1, <1>3, <1>6, Types DEF NetTypeOK, ProxyTypeOK
<1>9. NotYetKnown'
  BY <1>1, StillUnknown
<1> QED
  BY <1>3, <1>6, <1>7, <1>8, <1>9 DEF HttpInv

(* The proxy exits between the lookup and the connection.                    *)
LEMMA FetchExitsStep == ASSUME HttpInv, NEW i \in Fd, FetchExits(i) PROVE HttpInv'
<1>1. PICK p \in Page :
        /\ Missed(i, p)
        /\ srv' = "exit"
        /\ UNCHANGED <<now, conn, backlog, ust, reply, read_fds, clients, n_clients>>
  BY DEF FetchExits
<1>2. GetRequest(i, p)
  BY <1>1 DEF Missed
<1>3. /\ ready' \subseteq {sockfd} \cup Fd
      /\ u2p' \in [User -> Seq({"GET", "bad"})] /\ GetComesFirst' /\ Fewer
  BY <1>2, GetFacts
<1>4. CacheOk'
  BY <1>1, MissedCache
<1>5. NetTypeOK' /\ ProxyTypeOK'
  BY <1>1, <1>3, Types DEF NetTypeOK, ProxyTypeOK
<1> QED
  BY <1>1, <1>3, <1>4, <1>5, QuietStep

(* Who a remote server answers: the one client that waits for it, on a        *)
(* connection that is its own.                                                *)
LEMMA AnswerFacts ==
    ASSUME HttpInv, NEW i \in Fd, Data(i) = "sent", Waiting(i) # {}
    PROVE  /\ conn[i].kind = "site" /\ conn[i].response \in Response
           /\ \E w \in clients :
                /\ Waiting(i) = {w} /\ find_client_by_servfd(i) = w.sockfd
                /\ w.sockfd \in Fd /\ Clients(w.sockfd) = {w}
                /\ find_client(w.sockfd) = w /\ w.page \in Page
                /\ conn[w.sockfd].kind = "user" /\ conn[w.sockfd].user \in User
<1>1. conn[i].kind = "site"
  <2>1. conn[i].kind # "free"
    BY DEF HttpInv, ListInv, Matched
  <2>2. conn[i].kind # "user"
    BY DEF HttpInv, ListInv, Matched
  <2> QED
    BY <2>1, <2>2, Types, ConnKinds
<1>2. conn[i].response \in Response
  <2>1. conn[i].answer = "sent"
    BY <1>1 DEF Data
  <2> QED
    BY <1>1, <2>1, Types, ConnKinds
<1>3. PICK w \in clients : Waiting(i) = {w}
  BY <1>1 DEF HttpInv, ListInv, Matched
<1>4. w \in Client /\ w.id \in Int /\ w.sockfd \in Fd
  BY Types DEF Client
<1>5. find_client_by_servfd(i) = w.sockfd
  BY <1>3, <1>4, FirstOfOne DEF find_client_by_servfd
<1>6. w.servfd # -1
  BY <1>3, NetAssumption DEF Waiting, Fd
<1>7. w.page \in Page
  BY <1>6 DEF HttpInv, PagesNoted
<1>8. w \in Clients(w.sockfd)
  BY DEF Clients
<1>9. conn[w.sockfd].kind = "user"
  BY <1>4, <1>8, Types, ConnKinds DEF HttpInv, ListInv, Matched
<1>10. Clients(w.sockfd) = {w}
  BY <1>4, <1>8, <1>9 DEF HttpInv, ListInv, Matched
<1>11. find_client(w.sockfd) = w
  BY <1>4, <1>10, FirstOfOne DEF find_client
<1>12. conn[w.sockfd].user \in User
  BY <1>4, <1>9, Types, ConnKinds
<1> QED
  BY <1>1, <1>2, <1>3, <1>4, <1>5, <1>7, <1>9, <1>10, <1>11, <1>12

(* A response goes to the one client that waits for it, and both leave.      *)
LEMMA ServerResponseStep == ASSUME HttpInv, NEW i \in Fd, ServerResponse(i) PROVE HttpInv'
<1> DEFINE r == conn[i].response
<1>1. Data(i) = "sent" /\ Waiting(i) # {}
  BY DEF ServerResponse
<1>2. conn[i].kind = "site" /\ r \in Response
  BY <1>1, AnswerFacts
<1>3. PICK w \in clients :
        /\ Waiting(i) = {w} /\ find_client_by_servfd(i) = w.sockfd
        /\ w.sockfd \in Fd /\ Clients(w.sockfd) = {w}
        /\ find_client(w.sockfd) = w /\ w.page \in Page
        /\ conn[w.sockfd].kind = "user" /\ conn[w.sockfd].user \in User
  BY <1>1, AnswerFacts
<1> DEFINE cf == w.sockfd
<1>4. PICK alive \in BOOLEAN :
        /\ WriteTo(conn[cf].user, r, FALSE, alive)
        /\ IF alive
           THEN /\ AddEntry(w.page, r)
                /\ clients' = remove_client(cf)
                /\ n_clients' = n_clients - 1
                /\ read_fds' = read_fds \ {cf, i}
                /\ conn' = [conn EXCEPT ![cf] = Free, ![i] = Free]
                /\ UNCHANGED srv
           ELSE /\ srv' = "exit"
                /\ UNCHANGED <<cacheVars, clients, n_clients, read_fds, conn>>
  BY <1>3 DEF ServerResponse
<1>5. ready' \subseteq {sockfd} \cup Fd /\ UNCHANGED <<now, backlog, u2p, ust>>
  BY Types DEF ServerResponse, Turn
<1> HIDE DEF r
<1>6. reply' \in [User -> Reply \cup {NoReply}]
  BY <1>2, <1>3, <1>4, Types, WriteToType
<1>7. GetComesFirst' /\ Fewer
  BY <1>5 DEF HttpInv, GetComesFirst, Fewer
<1>8. CASE alive
  <2>1. /\ AddEntry(w.page, r)
        /\ clients' = remove_client(cf)
        /\ n_clients' = n_clients - 1
        /\ read_fds' = read_fds \ {cf, i}
        /\ conn' = [conn EXCEPT ![cf] = Free, ![i] = Free]
        /\ UNCHANGED srv
    BY <1>4, <1>8
  <2>2. /\ ListInv' /\ PagesNoted' /\ AsksOnce'
        /\ conn' \in [Fd -> Conn] /\ read_fds' \subseteq {sockfd} \cup Fd
        /\ \A d \in clients' : d \in Client
        /\ n_clients' \in Nat
    BY <1>2, <1>3, <1>5, <2>1, AnsweredList
  <2>3. CacheOk'
    BY <1>2, <1>3, <1>5, <2>1, Types, AddKeepsCache
  <2>4. NetTypeOK' /\ ProxyTypeOK'
    BY <1>5, <1>6, <2>1, <2>2, Types DEF NetTypeOK, ProxyTypeOK
  <2>5. NotYetKnown'
    <3>1. \A j \in Fd : conn'[j] = conn[j] \/ conn'[j].kind # "user"
      BY <2>1, Types, ConnTypes
    <3> QED
      BY <1>5, <3>1, StillUnknown
  <2> QED
    BY <1>7, <2>2, <2>3, <2>4, <2>5 DEF HttpInv
<1>9. CASE ~alive
  <2>1. srv' = "exit" /\ UNCHANGED <<cacheVars, clients, n_clients, read_fds, conn>>
    BY <1>4, <1>9
  <2>2. CacheOk'
    BY <1>5, <2>1, Types, KeepsCache
  <2>3. NetTypeOK' /\ ProxyTypeOK'
    BY <1>5, <1>6, <2>1, Types DEF NetTypeOK, ProxyTypeOK
  <2> QED
    BY <1>5, <1>7, <2>1, <2>2, <2>3, QuietStep
<1> QED
  BY <1>8, <1>9

(* What a remote server sends keeps its connection one to a server, for the    *)
(* same page.                                                                 *)
LEMMA SiteFacts ==
    ASSUME NetTypeOK, now \in Time, NEW i \in Fd, SiteAnswers(i)
    PROVE  /\ conn[i].kind = "site"
           /\ \E x \in Conn : /\ conn' = [conn EXCEPT ![i] = x]
                              /\ x.kind = "site" /\ x # Free /\ x.page = conn[i].page
<1> DEFINE p == conn[i].page
<1>1. conn[i].kind = "site" /\ p \in Page
  BY ConnKinds DEF SiteAnswers
<1> HIDE DEF p
<1>2. CASE conn' = [conn EXCEPT ![i] = Started(p)]
  <2>1. Started(p) \in Conn /\ Started(p).kind = "site" /\ Started(p) # Free /\ Started(p).page = p
    BY <1>1, ConnTypes DEF Started
  <2> QED
    BY <1>1, <1>2, <2>1 DEF p
<1>3. CASE conn' = [conn EXCEPT ![i] = Closed(p)]
  <2>1. Closed(p) \in Conn /\ Closed(p).kind = "site" /\ Closed(p) # Free /\ Closed(p).page = p
    BY <1>1, ConnTypes DEF Closed
  <2> QED
    BY <1>1, <1>3, <2>1 DEF p
<1>4. ASSUME NEW r \in ResponsesAt(p, now), conn' = [conn EXCEPT ![i] = Answer(p, r)]
      PROVE  \E x \in Conn : /\ conn' = [conn EXCEPT ![i] = x]
                             /\ x.kind = "site" /\ x # Free /\ x.page = p
  <2>1. r \in Response
    BY <1>1 DEF Response
  <2>2. /\ Answer(p, r) \in Conn /\ Answer(p, r).kind = "site" /\ Answer(p, r) # Free
        /\ Answer(p, r).page = p
    BY <1>1, <2>1, ConnTypes DEF Answer
  <2> QED
    BY <1>4, <2>2
<1> QED
  BY <1>1, <1>2, <1>3, <1>4 DEF SiteAnswers, p

(* What a remote server does changes neither list nor watched descriptors.   *)
LEMMA SiteStepInv == ASSUME HttpInv, NEW i \in Fd, SiteStep(i) PROVE HttpInv'
<1>1. SiteAnswers(i)
  BY DEF SiteStep
<1>2. conn[i].kind = "site"
  BY <1>1, Types, SiteFacts
<1>3. PICK x \in Conn : conn' = [conn EXCEPT ![i] = x] /\ x.kind = "site" /\ x # Free
  BY <1>1, Types, SiteFacts
<1>4. UNCHANGED <<cacheVars, now, backlog, u2p, ust, reply, read_fds, ready, clients, n_clients, srv>>
  BY <1>1 DEF SiteStep, SiteAnswers, userVars, proxyVars
<1>5. /\ conn' \in [Fd -> Conn] /\ conn'[i] = x /\ conn[i] # Free
      /\ \A j \in Fd \ {i} : conn'[j] = conn[j]
  BY <1>2, <1>3, Types, ConnTypes
<1>6. ListInv'
  <2>1. read_fds' = {sockfd} \cup {j \in Fd : conn'[j] # Free}
    BY <1>3, <1>4, <1>5 DEF HttpInv, ListInv
  <2>2. \A j \in Fd : Matched(j)'
    <3> TAKE j \in Fd
    <3>1. Matched(j) /\ conn'[j].kind = conn[j].kind
      BY <1>2, <1>3, <1>5 DEF HttpInv, ListInv
    <3> QED
      BY <1>4, <3>1 DEF Matched, Clients, Waiting
  <2> QED
    BY <1>4, <2>1, <2>2 DEF HttpInv, ListInv
<1>7. PagesNoted' /\ GetComesFirst'
  BY <1>4 DEF HttpInv, PagesNoted, GetComesFirst
<1>8. \A j \in Fd : conn'[j] = conn[j] \/ conn'[j].kind # "user"
  BY <1>3, <1>5
<1>9. AsksOnce'
  <2> SUFFICES ASSUME NEW c \in clients, NEW u \in User,
                      conn'[c.sockfd] = ToUser(u), c.servfd # -1
               PROVE  NoGet(u2p[u])
    BY <1>4 DEF AsksOnce, NoGet
  <2>1. c.sockfd \in Fd
    BY Types DEF Client
  <2>2. conn[c.sockfd] = ToUser(u)
    BY <1>8, <2>1, ConnTypes
  <2> QED
    BY <2>2 DEF HttpInv, AsksOnce
<1>10. NotYetKnown'
  BY <1>4, <1>8, StillUnknown
<1>11. CacheOk'
  BY <1>4, Types, KeepsCache
<1>12. NetTypeOK' /\ ProxyTypeOK'
  BY <1>4, <1>5, Types DEF NetTypeOK, ProxyTypeOK
<1> QED
  BY <1>6, <1>7, <1>9, <1>10, <1>11, <1>12 DEF HttpInv

(* A client that connects was unknown to the proxy.                          *)
LEMMA RequestStep ==
    ASSUME HttpInv, NEW v \in User, Request(v), UNCHANGED <<cacheVars, now, proxyVars>>
    PROVE  HttpInv'
<1>1. PICK q \in chunks[v] : u2p' = [u2p EXCEPT ![v] = q]
  BY DEF Request
<1>2. /\ ust[v] = "start" /\ ust' = [ust EXCEPT ![v] = "wait"]
      /\ backlog' = Append(backlog, v)
      /\ UNCHANGED <<cacheVars, now, conn, reply, read_fds, ready, clients, n_clients, srv>>
  BY DEF Request, proxyVars
<1>3. q \in Seq({"GET", "bad"}) /\ \A k \in 2..Len(q) : q[k] # "GET"
  <2>1. q \in Chunking
    BY <1>1, NetAssumption
  <2>2. CASE q = <<"GET">>
    BY <2>2
  <2>3. CASE q = <<"GET", "bad">>
    BY <2>3
  <2>4. CASE q = <<"bad", "bad">>
    BY <2>4
  <2> QED
    BY <2>1, <2>2, <2>3, <2>4 DEF Chunking
<1>4. /\ u2p' \in [User -> Seq({"GET", "bad"})] /\ u2p'[v] = q
      /\ \A u \in User \ {v} : u2p'[u] = u2p[u]
  BY <1>1, <1>3, Types
<1>5. GetComesFirst'
  BY <1>3, <1>4 DEF HttpInv, GetComesFirst
<1>6. \A i \in Fd : conn[i] # ToUser(v)
  BY <1>2 DEF HttpInv, NotYetKnown
<1>7. AsksOnce'
  <2> SUFFICES ASSUME NEW c \in clients, NEW u \in User,
                      conn[c.sockfd] = ToUser(u), c.servfd # -1
               PROVE  NoGet(u2p'[u])
    BY <1>2 DEF AsksOnce, NoGet
  <2>1. c.sockfd \in Fd
    BY Types DEF Client
  <2>2. u # v
    BY <1>6, <2>1
  <2> QED
    BY <1>4, <2>2 DEF HttpInv, AsksOnce
<1>8. backlog \in Seq(User) /\ backlog' \in Seq(User)
  BY <1>2, Types
<1>9. NotYetKnown'
  <2> SUFFICES ASSUME NEW u \in User, ust'[u] = "start"
               PROVE  /\ \A i \in Fd : conn[i] # ToUser(u)
                      /\ \A k \in 1..Len(backlog') : backlog'[k] # u
    BY <1>2 DEF NotYetKnown
  <2>1. u # v /\ ust[u] = "start"
    BY <1>2, Types
  <2>2. /\ \A i \in Fd : conn[i] # ToUser(u)
        /\ \A k \in 1..Len(backlog) : backlog[k] # u
    BY <2>1 DEF HttpInv, NotYetKnown
  <2>3. \A k \in 1..Len(backlog') :
          \/ k \in 1..Len(backlog) /\ backlog'[k] = backlog[k]
          \/ backlog'[k] = v
    BY <1>2, <1>8
  <2> QED
    BY <2>1, <2>2, <2>3
<1>10. ListInv' /\ PagesNoted'
  BY <1>2 DEF HttpInv, ListInv, Matched, Clients, Waiting, PagesNoted
<1>11. CacheOk'
  BY <1>2, Types, KeepsCache
<1>12. NetTypeOK' /\ ProxyTypeOK'
  <2>1. ust' \in [User -> {"start", "wait", "gone"}]
    BY <1>2, Types
  <2> QED
    BY <1>2, <1>4, <1>8, <2>1, Types DEF NetTypeOK, ProxyTypeOK
<1> QED
  BY <1>5, <1>7, <1>9, <1>10, <1>11, <1>12 DEF HttpInv

(* A client that leaves keeps its place in list and descriptors.             *)
LEMMA LeaveStep ==
    ASSUME HttpInv, NEW v \in User, Leave(v), UNCHANGED <<cacheVars, now, proxyVars>>
    PROVE  HttpInv'
<1>1. /\ ust' = [ust EXCEPT ![v] = "gone"]
      /\ UNCHANGED <<cacheVars, now, conn, backlog, u2p, reply, read_fds, ready, clients, n_clients, srv>>
  BY DEF Leave, proxyVars
<1>2. ust' \in [User -> {"start", "wait", "gone"}]
  BY <1>1, Types
<1>3. \A u \in User : ust'[u] = "start" => ust[u] = "start"
  BY <1>1, Types
<1>4. NotYetKnown'
  BY <1>1, <1>3 DEF HttpInv, NotYetKnown
<1>5. ListInv' /\ PagesNoted' /\ GetComesFirst' /\ AsksOnce'
  BY <1>1 DEF HttpInv, ListInv, Matched, Clients, Waiting, PagesNoted, GetComesFirst, AsksOnce
<1>6. CacheOk'
  BY <1>1, Types, KeepsCache
<1>7. NetTypeOK' /\ ProxyTypeOK'
  BY <1>1, <1>2, Types DEF NetTypeOK, ProxyTypeOK
<1> QED
  BY <1>4, <1>5, <1>6, <1>7 DEF HttpInv

(* Time passes, or nothing happens.                                           *)
LEMMA TimeStep ==
    ASSUME HttpInv, now' \in Time, UNCHANGED <<cacheVars, conn, userVars, proxyVars>>
    PROVE  HttpInv'
<1>1. UNCHANGED <<conn, backlog, u2p, ust, reply, read_fds, ready, clients, n_clients, srv>>
  BY DEF userVars, proxyVars
<1>2. CacheOk'
  BY Types, KeepsCache
<1>3. NetTypeOK' /\ ProxyTypeOK'
  BY <1>1, Types DEF NetTypeOK, ProxyTypeOK
<1>4. GetComesFirst' /\ Fewer
  BY <1>1 DEF HttpInv, GetComesFirst, Fewer
<1> QED
  BY <1>1, <1>2, <1>3, <1>4, QuietStep

-----------------------------------------------------------------------------
(* The initial states satisfy the invariant.                                  *)
LEMMA InitHttpInv == Init => HttpInv
<1> SUFFICES ASSUME Init
             PROVE  HttpInv
  OBVIOUS
<1>1. /\ conn = [i \in Fd |-> Free] /\ backlog = <<>>
      /\ u2p = [u \in User |-> <<>>] /\ ust = [u \in User |-> "start"]
      /\ reply = [u \in User |-> NoReply]
      /\ read_fds = {sockfd} /\ ready = {} /\ clients = {} /\ n_clients = 0 /\ srv = "up"
  BY DEF Init, NetInit, ProxyInit
<1>2. CacheOk
  BY EmptyCache DEF Init
<1>3. NetTypeOK /\ ProxyTypeOK
  BY <1>1, ConnTypes DEF NetTypeOK, ProxyTypeOK
<1>4. ListInv
  <2>1. IsFiniteSet(clients) /\ Cardinality(clients) = 0
    BY <1>1, FS_EmptySet
  <2>2. \A i \in Fd : Matched(i)
    BY <1>1, ConnTypes DEF Matched, Clients, Waiting
  <2>3. read_fds = {sockfd} \cup {i \in Fd : conn[i] # Free}
    BY <1>1
  <2> QED
    BY <1>1, <2>1, <2>2, <2>3 DEF ListInv
<1>5. PagesNoted /\ GetComesFirst /\ AsksOnce /\ NotYetKnown
  <2>1. PagesNoted /\ AsksOnce
    BY <1>1 DEF PagesNoted, AsksOnce
  <2>2. GetComesFirst
    BY <1>1 DEF GetComesFirst
  <2>3. NotYetKnown
    <3>1. \A u \in User : ToUser(u) # Free
      BY ConnTypes
    <3> QED
      BY <1>1, <3>1 DEF NotYetKnown
  <2> QED
    BY <2>1, <2>2, <2>3
<1> QED
  BY <1>2, <1>3, <1>4, <1>5 DEF HttpInv

(* Every step keeps the invariant.                                            *)
LEMMA NextHttpInv == HttpInv /\ [Next]_vars => HttpInv'
<1> SUFFICES ASSUME HttpInv, [Next]_vars
             PROVE  HttpInv'
  OBVIOUS
<1>1. CASE ProxyStep
  BY <1>1, SelectStep, AcceptStep, NoDataStep, BadRequestStep, HitStep, FetchStep,
     FetchFailsStep, FetchExitsStep, ServerResponseStep DEF ProxyStep, Serve
<1>2. CASE \E i \in Fd : SiteStep(i)
  BY <1>2, SiteStepInv
<1>3. CASE \E u \in User : UserStep(u)
  BY <1>3, RequestStep, LeaveStep DEF UserStep
<1>4. CASE Tick
  <2>1. now' \in Time
    BY <1>4, Types, CacheAssumption DEF Tick, Time
  <2> QED
    BY <1>4, <2>1, TimeStep DEF Tick
<1>5. CASE UNCHANGED vars
  BY <1>5, Types, TimeStep DEF vars
<1> QED
  BY <1>1, <1>2, <1>3, <1>4, <1>5 DEF Next

-----------------------------------------------------------------------------
(* The strengthening is an invariant.                                         *)
THEOREM HttpInvariant == Spec => []HttpInv
<1>1. Init => HttpInv
  BY InitHttpInv
<1>2. HttpInv /\ [Next]_vars => HttpInv'
  BY NextHttpInv
<1> QED
  BY <1>1, <1>2, PTL DEF Spec

(* Type correctness of the proxy, its cache and the connections.              *)
THEOREM HttpTypeOK == Spec => []TypeOK
<1>1. HttpInv => TypeOK
  BY DEF HttpInv, CacheOk, TypeOK
<1> QED
  BY <1>1, HttpInvariant, PTL

(* One entry per connected client, one connection per remote server that an    *)
(* entry names, and no other connection open or watched, however descriptors   *)
(* are closed and given out again in a pass.                                  *)
THEOREM HttpDescriptorsMatchList == Spec => []DescriptorsMatchList
<1>1. HttpInv => DescriptorsMatchList
  <2> SUFFICES ASSUME HttpInv
               PROVE  DescriptorsMatchList
    OBVIOUS
  <2>1. /\ read_fds = {sockfd} \cup {i \in Fd : conn[i] # Free}
        /\ n_clients = Cardinality(clients)
    BY DEF HttpInv, ListInv
  <2>2. \A c : Cardinality({c}) = 1
    BY FS_Singleton
  <2>3. ASSUME NEW i \in Fd
        PROVE  CASE conn[i].kind = "user" -> Cardinality(Clients(i)) = 1 /\ Waiting(i) = {}
                 [] conn[i].kind = "site" -> Cardinality(Waiting(i)) = 1 /\ Clients(i) = {}
                 [] OTHER                 -> Clients(i) = {} /\ Waiting(i) = {}
    <3>1. Matched(i)
      BY DEF HttpInv, ListInv
    <3>2. CASE conn[i].kind = "user"
      BY <2>2, <3>1, <3>2 DEF Matched
    <3>3. CASE conn[i].kind = "site"
      BY <2>2, <3>1, <3>3 DEF Matched
    <3>4. CASE conn[i].kind = "free"
      BY <3>1, <3>4 DEF Matched
    <3> QED
      BY <3>2, <3>3, <3>4, Types, ConnKinds
  <2> QED
    BY <2>1, <2>3 DEF DescriptorsMatchList
<1> QED
  BY <1>1, HttpInvariant, PTL

(* The instance of CacheUse counts as this module does.                        *)
LEMMA SameCardinality == \A S : Use!Cardinality(S) = Cardinality(S)
  BY DEF Use!Cardinality, Cardinality

(* In the whole proxy, the cache's counter covers its list and never passes    *)
(* the limit, and a full cache has an entry to evict.                         *)
THEOREM HttpEvictionSafe == Spec => []EvictionSafe
<1>1. HttpInv => EvictionSafe
  BY SameCardinality DEF HttpInv, CacheOk, EvictionSafe, Use!EvictionSafe
<1> QED
  BY <1>1, HttpInvariant, PTL

-----------------------------------------------------------------------------
(* Who inserts into the cache.                                                *)

(* The remote servers that are asked for p.                                   *)
Fetching(p) == {i \in Fd : conn[i].kind = "site" /\ conn[i].page = p}

(* The connection to a remote server ends only when its response has been      *)
(* inserted.                                                                  *)
LEMMA OnlyInsertionEnds ==
    ASSUME HttpInv, [Next]_vars
    PROVE  \/ \E p \in Page, r \in Response : AddEntry(p, r) /\ now' = now
           \/ \A p \in Page : Fetching(p) \subseteq Fetching(p)'
<1> DEFINE Inserts == \E p \in Page, r \in Response : AddEntry(p, r) /\ now' = now
           Kept    == \A j \in Fd : conn[j].kind = "site" =>
                        conn'[j].kind = "site" /\ conn'[j].page = conn[j].page
<1>1. ASSUME conn' = conn
      PROVE  Kept
  BY <1>1
<1>2. ASSUME Accept, FreeFd # {}
      PROVE  Kept
  <2>1. conn' = [conn EXCEPT ![Min(FreeFd)] = ToUser(Head(backlog))]
    BY <1>2 DEF Accept
  <2>2. Min(FreeFd) \in Fd /\ conn[Min(FreeFd)].kind = "free"
    BY <1>2, MinFreeFd, ConnTypes
  <2> QED
    BY <2>1, <2>2, Types
<1>3. ASSUME NEW i \in Fd, Hit(i), conn' # conn
      PROVE  Kept
  <2>1. conn' = [conn EXCEPT ![i] = Free]
    BY <1>3 DEF Hit
  <2>2. conn[i].kind = "user"
    BY <1>3, GetFacts DEF Hit
  <2> QED
    BY <2>1, <2>2, Types
<1>4. ASSUME NEW i \in Fd, Fetch(i)
      PROVE  Kept
  <2>1. PICK p \in Page : FreeFd # {} /\ conn' = [conn EXCEPT ![Min(FreeFd)] = Asked(p)]
    BY <1>4 DEF Fetch
  <2>2. Min(FreeFd) \in Fd /\ conn[Min(FreeFd)].kind = "free"
    BY <2>1, MinFreeFd, ConnTypes
  <2> QED
    BY <2>1, <2>2, Types
<1>5. ASSUME NEW i \in Fd, ServerResponse(i), conn' # conn
      PROVE  Inserts
  <2>1. AddEntry(find_client(find_client_by_servfd(i)).page, conn[i].response) /\ now' = now
    BY <1>5 DEF ServerResponse
  <2>2. Data(i) = "sent" /\ Waiting(i) # {}
    BY <1>5 DEF ServerResponse
  <2>3. conn[i].response \in Response /\ find_client(find_client_by_servfd(i)).page \in Page
    BY <2>2, AnswerFacts
  <2> QED
    BY <2>1, <2>3
<1>6. ASSUME NEW i \in Fd, SiteStep(i)
      PROVE  Kept
  <2>1. SiteAnswers(i)
    BY <1>6 DEF SiteStep
  <2>2. \E x \in Conn : /\ conn' = [conn EXCEPT ![i] = x]
                        /\ x.kind = "site" /\ x # Free /\ x.page = conn[i].page
    BY <2>1, Types, SiteFacts
  <2> QED
    BY <2>2, Types
<1>7. Kept \/ Inserts
  <2>1. ASSUME NEW i \in Fd, NoData(i) \/ BadRequest(i) \/ FetchFails(i) \/ FetchExits(i)
        PROVE  conn' = conn
    BY <2>1 DEF NoData, BadRequest, FetchFails, FetchExits
  <2>2. ASSUME \/ Select \/ (Accept /\ FreeFd = {})
               \/ (\E u \in User : UserStep(u)) \/ Tick \/ UNCHANGED vars
        PROVE  conn' = conn
    BY <2>2 DEF Select, Accept, UserStep, Request, Leave, Tick, vars
  <2> HIDE DEF Kept, Inserts
  <2> QED
    BY <1>1, <1>2, <1>3, <1>4, <1>5, <1>6, <2>1, <2>2 DEF Next, ProxyStep, Serve
<1>8. CASE Kept
  BY <1>8 DEF Fetching
<1> QED
  BY <1>7, <1>8

(* In the whole proxy, with no page in the cache twice, the insertion of a     *)
(* response evicts at most one entry, only from a full cache, and none that it *)
(* keeps was used before.                                                     *)
THEOREM HttpEvictsOneLeastRecent == Spec => EvictsOneLeastRecent
<1> DEFINE gone == cache \ cache'
           A == Use!Inserting /\ Use!NoTwins =>
                  /\ Use!Cardinality(gone) <= 1
                  /\ gone # {} => num_entries = MAX_NUM_ENTRIES
                  /\ \A e \in gone, f \in cache \cap cache' : e.atime <= f.atime
<1>1. ASSUME HttpInv, [Next]_vars
      PROVE  A
  <2> SUFFICES ASSUME Use!Inserting, Use!NoTwins
               PROVE  /\ Use!Cardinality(gone) <= 1
                      /\ gone # {} => num_entries = MAX_NUM_ENTRIES
                      /\ \A e \in gone, f \in cache \cap cache' : e.atime <= f.atime
    OBVIOUS
  <2>1. PICK p \in Page : Cardinality(Fetching(p)') = Cardinality(Fetching(p)) - 1
    BY DEF Use!Inserting, Fetching
  <2>2. ~ (Fetching(p) \subseteq Fetching(p)')
    <3>1. IsFiniteSet(Fd)
      BY NetAssumption, FS_Interval DEF Fd
    <3>2. IsFiniteSet(Fetching(p)) /\ IsFiniteSet(Fetching(p)')
      BY <3>1, FS_Subset DEF Fetching
    <3>3. Cardinality(Fetching(p)) \in Nat /\ Cardinality(Fetching(p)') \in Nat
      BY <3>2, FS_CardinalityType
    <3> QED
      BY <2>1, <3>2, <3>3, FS_Subset
  <2>3. PICK q \in Page, r \in Response : AddEntry(q, r) /\ now' = now
    BY <1>1, <2>2, OnlyInsertionEnds
  <2>4. \A e, f \in cache : key[e.page] = key[f.page] => e = f
    BY DEF Use!NoTwins
  <2>5. /\ Cardinality(gone) <= 1
        /\ gone # {} => num_entries = MAX_NUM_ENTRIES
        /\ \A e \in gone, f \in cache \cap cache' : e.atime <= f.atime
    BY <1>1, <2>3, <2>4, Types, AddEvictsOneLeastRecent
  <2> QED
    BY <2>5, SameCardinality
<1>2. HttpInv /\ [Next]_vars => A
  BY <1>1
<1> QED
  BY <1>2, HttpInvariant, PTL DEF Spec, EvictsOneLeastRecent, Use!EvictsOneLeastRecent

-----------------------------------------------------------------------------
(* The promise of Web.                                                        *)

(* The remote servers whose response has come, and the responses of Web.       *)
SentBy == {i \in Fd : conn[i].kind = "site" /\ conn[i].answer = "sent"}
Known  == {conn[i].response : i \in SentBy} \cup {e.response : e \in cache}

(* A user has one place: on one descriptor, or once in the backlog.           *)
OnePlace ==
    /\ \A i, j \in Fd : conn[i].kind = "user" /\ conn[j] = conn[i] => i = j
    /\ \A i \in Fd, k \in 1..Len(backlog) : conn[i] # ToUser(backlog[k])
    /\ \A j, k \in 1..Len(backlog) : backlog[j] = backlog[k] => j = k

(* Who has a reply is on none.                                                *)
RepliedAreGone ==
    \A u \in User : reply[u] # NoReply =>
        /\ ust[u] # "start"
        /\ \A i \in Fd : conn[i] # ToUser(u)
        /\ \A k \in 1..Len(backlog) : backlog[k] # u

(* Who waits for a remote server wants the page it was asked for.             *)
WaitersMatch ==
    \A c \in clients : c.servfd # -1 =>
        /\ conn[c.servfd].page = c.page
        /\ \A u \in User : conn[c.sockfd] = ToUser(u) => c.page = wants[u]

(* A response is for the page that was asked for.                             *)
SitesMatch == \A i \in SentBy : conn[i].response.page = conn[i].page

(* An entry has a response for its page, and its expiry in local time.         *)
EntriesMatch ==
    \A e \in cache :
        /\ e.response.page = e.page
        /\ e.expiry_time = IF e.response.expires = Never THEN Never
                                                         ELSE e.response.expires + TzShift

ReplyInv == OnePlace /\ RepliedAreGone /\ WaitersMatch /\ SitesMatch /\ EntriesMatch

WebInv == HttpInv /\ ReplyInv

(* The types of what the invariant is about.                                  *)
LEMMA KnownTypes ==
    ASSUME HttpInv
    PROVE  /\ SentBy \subseteq Fd /\ \A i \in SentBy : conn[i].response \in Response
           /\ \A e \in cache : e \in Entry /\ e.response \in Response
           /\ Known \subseteq Response /\ IsFiniteSet(Known)
<1>1. SentBy \subseteq Fd /\ \A i \in SentBy : conn[i].response \in Response
  BY Types, ConnKinds DEF SentBy
<1>2. \A e \in cache : e \in Entry /\ e.response \in Response
  BY Types DEF CacheTypeOK, Entry
<1>3. IsFiniteSet({conn[i].response : i \in SentBy})
  <2>1. IsFiniteSet(Fd)
    BY NetAssumption, FS_Interval DEF Fd
  <2>2. IsFiniteSet(SentBy)
    BY <1>1, <2>1, FS_Subset
  <2> DEFINE f == [i \in SentBy |-> conn[i].response]
             I == {conn[i].response : i \in SentBy}
  <2>3. f \in Surjection(SentBy, I)
    BY DEF Surjection
  <2> HIDE DEF f, I
  <2>4. IsFiniteSet(I)
    BY <2>2, <2>3, FS_Surjection
  <2> QED
    BY <2>4 DEF I
<1>4. IsFiniteSet({e.response : e \in cache})
  <2> DEFINE f == [e \in cache |-> e.response]
             I == {e.response : e \in cache}
  <2>1. f \in Surjection(cache, I)
    BY DEF Surjection
  <2> HIDE DEF f, I
  <2>2. IsFiniteSet(I)
    BY <2>1, Types, FS_Surjection
  <2> QED
    BY <2>2 DEF I
<1>5. Known \subseteq Response
  BY <1>1, <1>2 DEF Known
<1>6. IsFiniteSet(Known)
  BY <1>3, <1>4, FS_Union DEF Known
<1> QED
  BY <1>1, <1>2, <1>5, <1>6

(* A response that is known, when no other arrives.                           *)
LEMMA KnownShrinks ==
    ASSUME \A i \in SentBy' : i \in SentBy /\ conn'[i] = conn[i],
           \A e \in cache' : e.response \in Known
    PROVE  Known' \subseteq Known
  BY DEF Known

(* The places of the users when connections only close, or are made to        *)
(* remote servers.                                                            *)
LEMMA PlacesKept ==
    ASSUME OnePlace, backlog' = backlog,
           \A j \in Fd : conn'[j] = conn[j] \/ conn'[j].kind # "user"
    PROVE  OnePlace'
<1>1. \A u : ToUser(u).kind = "user"
  BY DEF ToUser
<1>2. \A i, j \in Fd : conn'[i].kind = "user" /\ conn'[j] = conn'[i] => i = j
  BY DEF OnePlace
<1>3. ASSUME NEW i \in Fd, NEW k \in 1..Len(backlog)
      PROVE  conn'[i] # ToUser(backlog[k])
  <2>1. conn[i] # ToUser(backlog[k])
    BY DEF OnePlace
  <2> QED
    BY <1>1, <2>1
<1>4. \A j, k \in 1..Len(backlog) : backlog[j] = backlog[k] => j = k
  BY DEF OnePlace
<1> QED
  BY <1>2, <1>3, <1>4 DEF OnePlace

(* The same for who has a reply, while nobody gets one.                       *)
LEMMA RepliedKept ==
    ASSUME RepliedAreGone, backlog' = backlog, reply' = reply,
           \A u \in User : ust'[u] = "start" => ust[u] = "start",
           \A j \in Fd : conn'[j] = conn[j] \/ conn'[j].kind # "user"
    PROVE  RepliedAreGone'
<1> SUFFICES ASSUME NEW u \in User, reply[u] # NoReply
             PROVE  /\ ust'[u] # "start"
                    /\ \A i \in Fd : conn'[i] # ToUser(u)
                    /\ \A k \in 1..Len(backlog) : backlog[k] # u
  BY DEF RepliedAreGone
<1>1. /\ ust[u] # "start"
      /\ \A i \in Fd : conn[i] # ToUser(u)
      /\ \A k \in 1..Len(backlog) : backlog[k] # u
  BY DEF RepliedAreGone
<1>2. ToUser(u).kind = "user"
  BY ConnTypes
<1> QED
  BY <1>1, <1>2

(* Who waits for a remote server, when no other entry names one.              *)
LEMMA WaitersKept ==
    ASSUME WaitersMatch,
           \A c \in clients' : c.servfd # -1 =>
              /\ c \in clients
              /\ conn'[c.servfd].page = conn[c.servfd].page
              /\ conn'[c.sockfd] = conn[c.sockfd]
    PROVE  WaitersMatch'
  BY DEF WaitersMatch

(* The entries kept.                                                          *)
LEMMA EntriesKept ==
    ASSUME EntriesMatch, cache' \subseteq cache
    PROVE  EntriesMatch'
  BY DEF EntriesMatch

(* The remote servers' responses, when no other arrives.                      *)
LEMMA SitesKept ==
    ASSUME SitesMatch, \A i \in SentBy' : i \in SentBy /\ conn'[i] = conn[i]
    PROVE  SitesMatch'
  BY DEF SitesMatch

(* Every descriptor in the client list is connected as the list says.         *)
LEMMA ListedConns ==
    ASSUME HttpInv, NEW c \in clients
    PROVE  /\ c \in Client /\ c.sockfd \in Fd /\ conn[c.sockfd].kind = "user"
           /\ c.servfd # -1 => c.servfd \in Fd /\ conn[c.servfd].kind = "site"
           /\ \A d \in clients : d.sockfd = c.sockfd => d = c
           /\ \A d \in clients : c.servfd # -1 /\ d.servfd = c.servfd => d = c
<1>1. c \in Client /\ c.sockfd \in Fd /\ c.servfd \in Fd \cup {-1}
  BY Types DEF Client
<1>2. \A i \in Fd : Matched(i)
  BY DEF HttpInv, ListInv
<1>3. c \in Clients(c.sockfd) /\ c \in Waiting(c.servfd)
  BY DEF Clients, Waiting
<1>4. conn[c.sockfd].kind = "user"
  BY <1>1, <1>2, <1>3, Types, ConnKinds DEF Matched
<1>5. c.servfd # -1 => conn[c.servfd].kind = "site"
  BY <1>1, <1>2, <1>3, Types, ConnKinds DEF Matched
<1>6. \A d \in clients : d.sockfd = c.sockfd => d = c
  <2> TAKE d \in clients
  <2> HAVE d.sockfd = c.sockfd
  <2>1. d \in Clients(c.sockfd)
    BY DEF Clients
  <2> QED
    BY <1>1, <1>2, <1>3, <1>4, <2>1 DEF Matched
<1>7. \A d \in clients : c.servfd # -1 /\ d.servfd = c.servfd => d = c
  <2> TAKE d \in clients
  <2> HAVE c.servfd # -1 /\ d.servfd = c.servfd
  <2>1. d \in Waiting(c.servfd)
    BY DEF Waiting
  <2> QED
    BY <1>1, <1>2, <1>3, <1>5, <2>1 DEF Matched
<1> QED
  BY <1>1, <1>4, <1>5, <1>6, <1>7

-----------------------------------------------------------------------------
(* The steps of Web.                                                          *)

(* The instance of Web counts as this module does, and "known" is Known.       *)
LEMMA PromiseVars ==
    /\ \A S : Promise!Cardinality(S) = Cardinality(S)
    /\ Promise!vars = <<Known, now, reply>>
  BY DEF Promise!Cardinality, Cardinality, Promise!vars, Known, SentBy

(* Responses are forgotten.                                                   *)
LEMMA Forgets ==
    ASSUME Known' \subseteq Known, UNCHANGED <<now, reply>>
    PROVE  Promise!Next
<1>1. Promise!Forget
  BY DEF Promise!Forget, Known, SentBy
<1> QED
  BY <1>1 DEF Promise!Next

(* One is received.                                                           *)
LEMMA Learns ==
    ASSUME HttpInv, NEW r, Known \subseteq Known', Known' \subseteq Known \cup {r},
           Known' \subseteq Response, UNCHANGED <<now, reply>>
    PROVE  Promise!Next
<1>1. IsFiniteSet(Known)
  BY KnownTypes
<1>2. Known' = Known \/ Known' = Known \cup {r}
  OBVIOUS
<1>3. Cardinality(Known') <= Cardinality(Known) + 1
  <2>1. Cardinality(Known) \in Nat
    BY <1>1, FS_CardinalityType
  <2>2. Cardinality(Known \cup {r}) = IF r \in Known THEN Cardinality(Known)
                                                     ELSE Cardinality(Known) + 1
    BY <1>1, FS_AddElement
  <2> QED
    BY <1>2, <2>1, <2>2
<1>4. Promise!Learn
  BY <1>3, PromiseVars DEF Promise!Learn, Known, SentBy
<1> QED
  BY <1>4 DEF Promise!Next

(* A user is answered.                                                        *)
LEMMA Answers ==
    ASSUME NEW u \in User, NEW r \in Known, NEW kept \in BOOLEAN,
           reply[u] = NoReply, key[r.page] = key[wants[u]],
           kept => r.expires = Never \/ now <= r.expires,
           reply' = [reply EXCEPT ![u] = [response |-> r, at |-> now, hit |-> kept]],
           Known' \subseteq Known, now' = now
    PROVE  Promise!Next
<1>1. Promise!Answer(u, r, kept)
  BY DEF Promise!Answer, Promise!Fresh, Known, SentBy
<1>2. r \in {conn[i].response : i \in {j \in Fd : conn[j].kind = "site" /\ conn[j].answer = "sent"}}
              \cup {e.response : e \in cache}
  BY DEF Known, SentBy
<1> QED
  BY <1>1, <1>2 DEF Promise!Next

-----------------------------------------------------------------------------
(* One lemma for each step.                                                   *)

(* Who has a reply once a user on descriptor i, which is closed, got one.      *)
LEMMA RepliedAfter ==
    ASSUME OnePlace, RepliedAreGone, UNCHANGED <<ust, backlog>>,
           NEW i \in Fd, NEW v \in User, conn[i] = ToUser(v), ust[v] # "start",
           conn'[i] = Free,
           \A j \in Fd : conn'[j] = conn[j] \/ conn'[j].kind # "user",
           \A u \in User \ {v} : reply'[u] = reply[u]
    PROVE  RepliedAreGone'
<1> SUFFICES ASSUME NEW u \in User, reply'[u] # NoReply
             PROVE  /\ ust[u] # "start"
                    /\ \A j \in Fd : conn'[j] # ToUser(u)
                    /\ \A k \in 1..Len(backlog) : backlog[k] # u
  BY DEF RepliedAreGone
<1>1. \A x : ToUser(x).kind = "user"
  BY DEF ToUser
<1>2. CASE u = v
  <2>1. \A k \in 1..Len(backlog) : backlog[k] # v
    BY DEF OnePlace
  <2>2. ASSUME NEW j \in Fd
        PROVE  conn'[j] # ToUser(v)
    <3>1. CASE j = i
      BY <3>1, ConnTypes
    <3>2. CASE j # i
      <4>1. conn[j] # ToUser(v)
        BY <1>1, <3>2 DEF OnePlace
      <4> QED
        BY <1>1, <4>1
    <3> QED
      BY <3>1, <3>2
  <2> QED
    BY <1>2, <2>1, <2>2
<1>3. CASE u # v
  <2>1. reply[u] # NoReply
    BY <1>3
  <2> QED
    BY <1>1, <2>1 DEF RepliedAreGone
<1> QED
  BY <1>2, <1>3

(* A step that leaves connections, list and replies alone.                    *)
LEMMA QuietWeb ==
    ASSUME ReplyInv, UNCHANGED <<conn, clients, backlog, reply>>, cache' \subseteq cache,
           \A u \in User : ust'[u] = "start" => ust[u] = "start"
    PROVE  /\ ReplyInv' /\ Known' \subseteq Known
           /\ now' = now => Promise!Next
<1>1. SentBy' = SentBy
  BY DEF SentBy
<1>2. ReplyInv'
  BY <1>1, PlacesKept, RepliedKept, WaitersKept, SitesKept, EntriesKept DEF ReplyInv
<1>3. \A e \in cache' : e.response \in Known
  BY DEF Known
<1>4. Known' \subseteq Known
  BY <1>1, <1>3, KnownShrinks
<1> QED
  BY <1>2, <1>4, Forgets

(* A connection that is accepted.                                             *)
LEMMA AcceptWeb ==
    ASSUME HttpInv, ReplyInv, Accept
    PROVE  ReplyInv' /\ Promise!Next
<1>1. UNCHANGED <<cache, now, ust, reply>>
  BY DEF Accept, cacheVars
<1>2. CASE FreeFd = {}
  BY <1>1, <1>2, QuietWeb DEF Accept
<1>3. CASE FreeFd # {}
  <2> DEFINE s == Min(FreeFd)
             v == Head(backlog)
  <2>1. conn' = [conn EXCEPT ![s] = ToUser(v)] /\ backlog' = Tail(backlog) /\ clients' = add_client(s)
    BY <1>3 DEF Accept
  <2>2. s \in Fd /\ conn[s] = Free
    BY <1>3, MinFreeFd
  <2>3. backlog # <<>> /\ backlog \in Seq(User)
    BY Types DEF Accept, Turn, Complete, Readable
  <2>4. /\ v \in User /\ v = backlog[1] /\ 1 \in 1..Len(backlog)
        /\ \A k \in 1..Len(backlog') : k + 1 \in 2..Len(backlog) /\ backlog'[k] = backlog[k + 1]
        /\ \A k \in 1..Len(backlog') : k \in Nat
    BY <2>1, <2>3
  <2> HIDE DEF s, v
  <2>5. conn'[s] = ToUser(v) /\ \A j \in Fd \ {s} : conn'[j] = conn[j]
    BY <2>1, <2>2, Types
  <2>6. (\A x : ToUser(x).kind = "user" /\ ToUser(x).user = x) /\ Free.kind = "free"
    BY ConnTypes DEF ToUser
  <2>7. OnePlace'
    <3>1. ASSUME NEW i \in Fd, NEW j \in Fd, conn'[i].kind = "user", conn'[j] = conn'[i]
          PROVE  i = j
      <4>1. \A k \in Fd \ {s} : conn'[k] # ToUser(v)
        BY <2>4, <2>5 DEF ReplyInv, OnePlace
      <4>2. CASE i = s \/ j = s
        BY <2>5, <3>1, <4>1, <4>2
      <4>3. CASE i # s /\ j # s
        BY <2>5, <3>1, <4>3 DEF ReplyInv, OnePlace
      <4> QED
        BY <4>2, <4>3
    <3>2. ASSUME NEW i \in Fd, NEW k \in 1..Len(backlog')
          PROVE  conn'[i] # ToUser(backlog'[k])
      <4>1. k + 1 \in 1..Len(backlog) /\ k + 1 # 1 /\ backlog'[k] = backlog[k + 1]
        BY <2>4
      <4>2. backlog[k + 1] # v
        BY <2>4, <4>1 DEF ReplyInv, OnePlace
      <4>3. CASE i = s
        BY <2>5, <2>6, <4>1, <4>2, <4>3
      <4>4. CASE i # s
        BY <2>5, <4>1, <4>4 DEF ReplyInv, OnePlace
      <4> QED
        BY <4>3, <4>4
    <3>3. ASSUME NEW j \in 1..Len(backlog'), NEW k \in 1..Len(backlog'), backlog'[j] = backlog'[k]
          PROVE  j = k
      <4>1. /\ j + 1 \in 1..Len(backlog) /\ k + 1 \in 1..Len(backlog)
            /\ backlog[j + 1] = backlog[k + 1]
        BY <2>4, <3>3
      <4>2. j + 1 = k + 1
        BY <4>1 DEF ReplyInv, OnePlace
      <4> QED
        BY <2>4, <4>2
    <3> QED
      BY <3>1, <3>2, <3>3 DEF OnePlace
  <2>8. RepliedAreGone'
    <3> SUFFICES ASSUME NEW u \in User, reply[u] # NoReply
                 PROVE  /\ ust[u] # "start"
                        /\ \A i \in Fd : conn'[i] # ToUser(u)
                        /\ \A k \in 1..Len(backlog') : backlog'[k] # u
      BY <1>1 DEF RepliedAreGone
    <3>1. /\ ust[u] # "start"
          /\ \A i \in Fd : conn[i] # ToUser(u)
          /\ \A k \in 1..Len(backlog) : backlog[k] # u
      BY DEF ReplyInv, RepliedAreGone
    <3>2. v # u
      BY <2>4, <3>1
    <3>3. \A i \in Fd : conn'[i] # ToUser(u)
      BY <2>5, <2>6, <3>1, <3>2
    <3>4. \A k \in 1..Len(backlog') : backlog'[k] # u
      BY <2>4, <3>1
    <3> QED
      BY <3>1, <3>3, <3>4
  <2>9. WaitersMatch'
    <3>1. ASSUME NEW c \in clients', c.servfd # -1
          PROVE  /\ c \in clients
                 /\ conn'[c.servfd].page = conn[c.servfd].page
                 /\ conn'[c.sockfd] = conn[c.sockfd]
      <4>1. c \in clients
        BY <2>1, <3>1 DEF add_client
      <4>2. c.sockfd \in Fd \ {s} /\ c.servfd \in Fd \ {s}
        BY <2>2, <2>6, <3>1, <4>1, ListedConns
      <4> QED
        BY <2>5, <4>1, <4>2
    <3> QED
      BY <3>1, WaitersKept DEF ReplyInv
  <2>10. \A i \in SentBy' : i \in SentBy /\ conn'[i] = conn[i]
    BY <2>5, <2>6 DEF SentBy
  <2>11. Known' \subseteq Known
    <3>1. \A e \in cache' : e.response \in Known
      BY <1>1 DEF Known
    <3> QED
      BY <2>10, <3>1, KnownShrinks
  <2>12. SitesMatch' /\ EntriesMatch'
    BY <1>1, <2>10, SitesKept, EntriesKept DEF ReplyInv
  <2> QED
    BY <1>1, <2>7, <2>8, <2>9, <2>11, <2>12, Forgets DEF ReplyInv
<1> QED
  BY <1>2, <1>3

(* A miss keeps no entry that was not there.                                  *)
LEMMA MissedShrinks ==
    ASSUME NEW i \in Fd, NEW p, Missed(i, p)
    PROVE  cache' \subseteq cache
  BY DEF Missed, RemoveEntry, cacheVars

(* The time a response expires.                                               *)
LEMMA ExpiryType ==
    ASSUME NEW r \in Response
    PROVE  r.expires \in Int \cup {Never}
<1>1. PICK q \in Page, t \in Time : r \in ResponsesAt(q, t)
  BY DEF Response
<1>2. r.expires = ExpiresAt(q, t)
  BY <1>1 DEF ResponsesAt
<1>3. t \in Int /\ lifetime[q] \in Int \cup {Never}
  BY CacheAssumption DEF Time
<1> QED
  BY <1>2, <1>3 DEF ExpiresAt

(* A user whose page is in the cache is answered with a response that has not  *)
(* expired, unless it has left.                                               *)
LEMMA HitWeb ==
    ASSUME HttpInv, ReplyInv, NEW i \in Fd, Hit(i)
    PROVE  ReplyInv' /\ (TzShift <= 0 => Promise!Next)
<1> DEFINE v == conn[i].user
<1>1. PICK p \in Page, alive \in BOOLEAN :
        /\ GetRequest(i, p)
        /\ GoodEntry(p)
        /\ WriteTo(v, find_entry(p).response, TRUE, alive)
        /\ IF alive
           THEN /\ UpdateEntry(p)
                /\ clients' = remove_client(i)
                /\ conn' = [conn EXCEPT ![i] = Free]
           ELSE UNCHANGED <<cacheVars, clients, conn>>
        /\ UNCHANGED <<now, backlog, ust>>
  BY DEF Hit
<1>2. conn[i].kind = "user" /\ v \in User /\ conn[i] = ToUser(v) /\ p = wants[v]
  BY <1>1, GetFacts DEF GetRequest
<1> HIDE DEF v
<1> DEFINE f == find_entry(p)
<1>3. /\ f \in cache /\ key[f.page] = key[p] /\ f \in Entry /\ f.response \in Response
      /\ f.expiry_time = Never \/ ~ (f.expiry_time < now)
  BY <1>1, Types, FoundProperties, KnownTypes DEF GoodEntry, Hits, Same, Expired
<1> HIDE DEF f
<1>4. CASE ~ alive
  <2>1. reply' = reply
    BY <1>1, <1>4 DEF WriteTo
  <2> QED
    BY <1>1, <1>4, <2>1, QuietWeb DEF cacheVars
<1>5. CASE alive
  <2>1. /\ cache' = Replace(cache, f, [f EXCEPT !.atime = now])
        /\ clients' = remove_client(i)
        /\ conn' = [conn EXCEPT ![i] = Free]
        /\ UNCHANGED <<now, backlog, ust>>
        /\ WriteTo(v, f.response, TRUE, alive)
    BY <1>1, <1>5 DEF UpdateEntry, f
  <2>2. conn'[i] = Free /\ \A j \in Fd \ {i} : conn'[j] = conn[j]
    BY <2>1, Types
  <2>3. \A j \in Fd : conn'[j] = conn[j] \/ conn'[j].kind # "user"
    BY <2>2, ConnTypes
  <2>4. \A j \in SentBy' : j \in SentBy /\ conn'[j] = conn[j]
    BY <2>2, ConnTypes DEF SentBy
  <2>5. \A e \in cache' : \E d \in cache :
           e.response = d.response /\ e.page = d.page /\ e.expiry_time = d.expiry_time
    <3>1. \A e \in cache' : e \in cache \/ e = [f EXCEPT !.atime = now]
      BY <2>1 DEF Replace
    <3> QED
      BY <1>3, <3>1 DEF Entry
  <2>6. Known' \subseteq Known
    <3>1. \A e \in cache' : e.response \in Known
      BY <2>5 DEF Known
    <3> QED
      BY <2>4, <3>1, KnownShrinks
  <2>7. EntriesMatch'
    BY <2>5 DEF ReplyInv, EntriesMatch
  <2>8. WaitersMatch'
    <3>1. ASSUME NEW c \in clients', c.servfd # -1
          PROVE  /\ c \in clients
                 /\ conn'[c.servfd].page = conn[c.servfd].page
                 /\ conn'[c.sockfd] = conn[c.sockfd]
      <4>1. c \in clients /\ c.sockfd # i
        BY <2>1 DEF remove_client, Clients
      <4>2. c.sockfd \in Fd \ {i} /\ c.servfd \in Fd \ {i}
        BY <1>2, <3>1, <4>1, ListedConns
      <4> QED
        BY <2>2, <4>1, <4>2
    <3> QED
      BY <3>1, WaitersKept DEF ReplyInv
  <2>9. OnePlace' /\ SitesMatch'
    BY <2>1, <2>3, <2>4, PlacesKept, SitesKept DEF ReplyInv
  <2>10. CASE reply' = reply
    <3>1. RepliedAreGone'
      BY <2>1, <2>3, <2>10, RepliedKept DEF ReplyInv
    <3> QED
      BY <2>1, <2>6, <2>7, <2>8, <2>9, <2>10, <3>1, Forgets DEF ReplyInv
  <2>11. CASE reply' # reply
    <3>1. /\ ust[v] = "wait"
          /\ reply' = [reply EXCEPT ![v] = [response |-> f.response, at |-> now, hit |-> TRUE]]
      BY <2>1, <2>11 DEF WriteTo
    <3>2. reply[v] = NoReply
      BY <1>2 DEF ReplyInv, RepliedAreGone
    <3>3. \A u \in User \ {v} : reply'[u] = reply[u]
      BY <3>1, Types
    <3>4. RepliedAreGone'
      BY <1>2, <2>1, <2>2, <2>3, <3>1, <3>3, RepliedAfter DEF ReplyInv
    <3>5. key[f.response.page] = key[wants[v]]
      BY <1>2, <1>3 DEF ReplyInv, EntriesMatch
    <3>6. TzShift <= 0 => f.response.expires = Never \/ now <= f.response.expires
      <4>1. f.expiry_time = IF f.response.expires = Never THEN Never
                                                          ELSE f.response.expires + TzShift
        BY <1>3 DEF ReplyInv, EntriesMatch
      <4>2. now \in Int /\ TzShift \in Int /\ Never \notin Int /\ f.expiry_time \in Int \cup {Never}
        BY <1>3, Types, CacheAssumption DEF Time, Entry
      <4>3. f.response.expires \in Int \cup {Never}
        BY <1>3, ExpiryType
      <4> QED
        BY <1>3, <4>1, <4>2, <4>3
    <3>7. f.response \in Known
      BY <1>3 DEF Known
    <3>8. TzShift <= 0 => Promise!Next
      BY <1>2, <2>1, <2>6, <3>1, <3>2, <3>5, <3>6, <3>7, Answers
    <3> QED
      BY <2>7, <2>8, <2>9, <3>4, <3>8 DEF ReplyInv
  <2> QED
    BY <2>10, <2>11
<1> QED
  BY <1>4, <1>5

(* A user whose page is not in the cache begins to wait for a remote server    *)
(* that is asked for this page.                                               *)
LEMMA FetchWeb ==
    ASSUME HttpInv, ReplyInv, NEW i \in Fd, Fetch(i)
    PROVE  ReplyInv' /\ Promise!Next
<1> DEFINE s == Min(FreeFd)
           v == conn[i].user
<1>1. PICK p \in Page :
        /\ Missed(i, p)
        /\ FreeFd # {}
        /\ conn' = [conn EXCEPT ![s] = Asked(p)]
        /\ clients' = WithServer(i, p, s)
        /\ UNCHANGED <<now, backlog, ust, reply>>
  BY DEF Fetch
<1>2. s \in Fd /\ conn[s] = Free /\ conn[s].kind = "free"
  BY <1>1, MinFreeFd, ConnTypes
<1>3. GetRequest(i, p)
  BY <1>1 DEF Missed
<1>4. p = wants[v] /\ conn[i] = ToUser(v) /\ conn[i].kind = "user"
  BY <1>3, GetFacts DEF GetRequest
<1>5. PICK c \in clients : Clients(i) = {c} /\ c.servfd = -1 /\ find_client(i) = c
  BY <1>3, GetFacts
<1> HIDE DEF s, v
<1> DEFINE m == [c EXCEPT !.page = p, !.servfd = s]
<1>6. \A d \in clients' : d = m \/ d \in clients
  BY <1>1, <1>5 DEF WithServer, Replace
<1>7. m.sockfd = i /\ m.servfd = s /\ m.page = p
  <2>1. c \in Client /\ c.sockfd = i
    BY <1>5, Types DEF Clients
  <2> QED
    BY <2>1 DEF Client
<1> HIDE DEF m
<1>8. /\ conn'[s] = Asked(p) /\ \A j \in Fd \ {s} : conn'[j] = conn[j]
      /\ Asked(p).kind = "site" /\ Asked(p).page = p /\ Asked(p).answer = "open"
  BY <1>1, <1>2, Types DEF Asked
<1>9. \A j \in Fd : conn'[j] = conn[j] \/ conn'[j].kind # "user"
  BY <1>8
<1>10. \A j \in SentBy' : j \in SentBy /\ conn'[j] = conn[j]
  BY <1>8 DEF SentBy
<1>11. cache' \subseteq cache
  BY <1>1, MissedShrinks
<1>12. Known' \subseteq Known
  <2>1. \A e \in cache' : e.response \in Known
    BY <1>11 DEF Known
  <2> QED
    BY <1>10, <2>1, KnownShrinks
<1>13. WaitersMatch'
  <2> SUFFICES ASSUME NEW d \in clients', d.servfd # -1
               PROVE  /\ conn'[d.servfd].page = d.page
                      /\ \A u \in User : conn'[d.sockfd] = ToUser(u) => d.page = wants[u]
    BY DEF WaitersMatch
  <2>1. CASE d = m
    <3>1. conn'[i] = ToUser(v)
      BY <1>2, <1>4, <1>8
    <3>2. \A u : ToUser(u).user = u
      BY DEF ToUser
    <3> QED
      BY <1>4, <1>7, <1>8, <2>1, <3>1, <3>2
  <2>2. CASE d # m
    <3>1. d \in clients
      BY <1>6, <2>2
    <3>2. d.sockfd \in Fd \ {s} /\ d.servfd \in Fd \ {s}
      BY <1>2, <3>1, ListedConns
    <3> QED
      BY <1>8, <3>1, <3>2 DEF ReplyInv, WaitersMatch
  <2> QED
    BY <2>1, <2>2
<1>14. OnePlace' /\ SitesMatch' /\ EntriesMatch'
  BY <1>1, <1>9, <1>10, <1>11, PlacesKept, SitesKept, EntriesKept DEF ReplyInv
<1>15. RepliedAreGone'
  BY <1>1, <1>9, RepliedKept DEF ReplyInv
<1> QED
  BY <1>1, <1>12, <1>13, <1>14, <1>15, Forgets DEF ReplyInv

(* Without a connection it waits for nobody.                                  *)
LEMMA FetchFailsWeb ==
    ASSUME HttpInv, ReplyInv, NEW i \in Fd, FetchFails(i)
    PROVE  ReplyInv' /\ Promise!Next
<1>1. PICK p \in Page :
        /\ Missed(i, p)
        /\ clients' = WithPage(i, p)
        /\ UNCHANGED <<now, conn, backlog, ust, reply>>
  BY DEF FetchFails
<1>2. PICK c \in clients : c.servfd = -1 /\ find_client(i) = c
  BY <1>1, GetFacts DEF Missed
<1> DEFINE m == [c EXCEPT !.page = p]
<1>3. \A d \in clients' : d = m \/ d \in clients
  BY <1>1, <1>2 DEF WithPage, Replace
<1>4. m.servfd = -1
  BY <1>2, Types DEF Client
<1> HIDE DEF m
<1>5. WaitersMatch'
  BY <1>1, <1>3, <1>4, WaitersKept DEF ReplyInv
<1>6. cache' \subseteq cache
  BY <1>1, MissedShrinks
<1>7. SentBy' = SentBy
  BY <1>1 DEF SentBy
<1>8. Known' \subseteq Known
  <2>1. \A e \in cache' : e.response \in Known
    BY <1>6 DEF Known
  <2> QED
    BY <1>1, <1>7, <2>1, KnownShrinks
<1>9. OnePlace' /\ RepliedAreGone' /\ SitesMatch' /\ EntriesMatch'
  BY <1>1, <1>6, <1>7, PlacesKept, RepliedKept, SitesKept, EntriesKept DEF ReplyInv
<1> QED
  BY <1>1, <1>5, <1>8, <1>9, Forgets DEF ReplyInv

(* The steps that touch no connection, no entry of the list and no reply.      *)
LEMMA OtherProxyWeb ==
    ASSUME HttpInv, ReplyInv, NEW i \in Fd,
           Select \/ NoData(i) \/ BadRequest(i) \/ FetchExits(i)
    PROVE  ReplyInv' /\ Promise!Next
<1>1. CASE Select \/ NoData(i) \/ BadRequest(i)
  BY <1>1, QuietWeb DEF Select, NoData, BadRequest, cacheVars, userVars
<1>2. CASE FetchExits(i)
  <2>1. PICK p \in Page :
          Missed(i, p) /\ UNCHANGED <<now, conn, backlog, ust, reply, clients>>
    BY <1>2 DEF FetchExits
  <2>2. cache' \subseteq cache
    BY <2>1, MissedShrinks
  <2> QED
    BY <2>1, <2>2, QuietWeb
<1> QED
  BY <1>1, <1>2

(* What an insertion leaves in the cache.                                     *)
LEMMA AddedEntry ==
    ASSUME NEW p, NEW r, AddEntry(p, r)
    PROVE  \A e \in cache' : e \in cache \/ e = NewEntry(p, r)
  BY DEF AddEntry

(* The response of a remote server goes to the user that waits for it, unless  *)
(* it has left, and is kept for the page it was asked for.                     *)
LEMMA ServerResponseWeb ==
    ASSUME HttpInv, ReplyInv, NEW i \in Fd, ServerResponse(i)
    PROVE  ReplyInv' /\ Promise!Next
<1> DEFINE r == conn[i].response
<1>1. Data(i) = "sent" /\ Waiting(i) # {} /\ UNCHANGED <<now, backlog, ust>>
  BY DEF ServerResponse
<1>2. conn[i].kind = "site" /\ conn[i].answer = "sent" /\ i \in SentBy
  BY <1>1, AnswerFacts DEF Data, SentBy
<1>3. PICK w \in clients :
        /\ Waiting(i) = {w} /\ find_client_by_servfd(i) = w.sockfd
        /\ w.sockfd \in Fd /\ find_client(w.sockfd) = w /\ w.page \in Page
        /\ conn[w.sockfd].kind = "user" /\ conn[w.sockfd].user \in User
  BY <1>1, AnswerFacts
<1> DEFINE cf == w.sockfd
           v  == conn[cf].user
<1>4. PICK alive \in BOOLEAN :
        /\ WriteTo(v, r, FALSE, alive)
        /\ IF alive
           THEN /\ AddEntry(w.page, r)
                /\ clients' = remove_client(cf)
                /\ conn' = [conn EXCEPT ![cf] = Free, ![i] = Free]
           ELSE UNCHANGED <<cacheVars, clients, conn>>
  BY <1>3 DEF ServerResponse
<1>5. conn[cf] = ToUser(v) /\ v \in User
  BY <1>3, Types, ConnKinds
<1>6. r \in Known /\ r.page = w.page /\ w.page = wants[v]
  <2>1. w.servfd = i /\ w.servfd # -1
    BY <1>3, NetAssumption DEF Waiting, Fd
  <2>2. conn[i].page = w.page /\ w.page = wants[v]
    BY <1>5, <2>1 DEF ReplyInv, WaitersMatch
  <2>3. r.page = conn[i].page
    BY <1>2 DEF ReplyInv, SitesMatch
  <2>4. r \in Known
    BY <1>2 DEF Known
  <2> QED
    BY <2>2, <2>3, <2>4
<1>7. ust[v] # "start"
  BY <1>3, <1>5 DEF HttpInv, NotYetKnown
<1> HIDE DEF r, v
<1>8. CASE ~ alive
  <2>1. reply' = reply
    BY <1>4, <1>8 DEF WriteTo
  <2> QED
    BY <1>1, <1>4, <1>8, <2>1, QuietWeb DEF cacheVars
<1>9. CASE alive
  <2>1. /\ AddEntry(w.page, r)
        /\ clients' = clients \ Clients(cf)
        /\ conn' = [conn EXCEPT ![cf] = Free, ![i] = Free]
    BY <1>4, <1>9 DEF remove_client
  <2>2. /\ conn'[cf] = Free /\ conn'[i] = Free /\ Free.kind = "free"
        /\ \A j \in Fd \ {cf, i} : conn'[j] = conn[j]
    BY <1>3, <2>1, Types, ConnTypes
  <2>3. \A j \in Fd : conn'[j] = conn[j] \/ conn'[j].kind # "user"
    BY <2>2
  <2>4. \A j \in SentBy' : j \in SentBy /\ conn'[j] = conn[j]
    BY <2>2 DEF SentBy
  <2>5. Known' \subseteq Known
    <3>1. NewEntry(w.page, r).response = r
      BY DEF NewEntry
    <3>2. \A e \in cache' : e.response \in Known
      BY <1>6, <2>1, <3>1, AddedEntry DEF Known
    <3> QED
      BY <2>4, <3>2, KnownShrinks
  <2>6. EntriesMatch'
    <3> DEFINE e0 == NewEntry(w.page, r)
    <3>1. /\ e0.response = r /\ e0.page = w.page
          /\ e0.expiry_time = IF r.expires = Never THEN Never ELSE r.expires + TzShift
      BY DEF NewEntry
    <3> HIDE DEF e0
    <3>2. \A e \in cache' : e \in cache \/ e = e0
      BY <2>1, AddedEntry DEF e0
    <3> QED
      BY <1>6, <3>1, <3>2 DEF ReplyInv, EntriesMatch
  <2>7. WaitersMatch'
    <3>1. ASSUME NEW c \in clients', c.servfd # -1
          PROVE  /\ c \in clients
                 /\ conn'[c.servfd].page = conn[c.servfd].page
                 /\ conn'[c.sockfd] = conn[c.sockfd]
      <4>1. c \in clients /\ c.sockfd # cf /\ c # w
        BY <2>1 DEF Clients
      <4>2. c.servfd # i
        BY <1>3, <4>1 DEF Waiting
      <4>3. c.sockfd \in Fd \ {cf, i} /\ c.servfd \in Fd \ {cf, i}
        BY <1>2, <1>3, <3>1, <4>1, <4>2, ListedConns
      <4> QED
        BY <2>2, <4>1, <4>3
    <3> QED
      BY <3>1, WaitersKept DEF ReplyInv
  <2>8. OnePlace' /\ SitesMatch'
    BY <1>1, <2>3, <2>4, PlacesKept, SitesKept DEF ReplyInv
  <2>9. CASE reply' = reply
    <3>1. RepliedAreGone'
      BY <1>1, <2>3, <2>9, RepliedKept DEF ReplyInv
    <3> QED
      BY <1>1, <2>5, <2>6, <2>7, <2>8, <2>9, <3>1, Forgets DEF ReplyInv
  <2>10. CASE reply' # reply
    <3>1. reply' = [reply EXCEPT ![v] = [response |-> r, at |-> now, hit |-> FALSE]]
      BY <1>4, <2>10 DEF WriteTo
    <3>2. reply[v] = NoReply
      BY <1>3, <1>5 DEF ReplyInv, RepliedAreGone
    <3>3. \A u \in User \ {v} : reply'[u] = reply[u]
      BY <3>1, Types
    <3>4. RepliedAreGone'
      BY <1>1, <1>3, <1>5, <1>7, <2>2, <2>3, <3>3, RepliedAfter DEF ReplyInv
    <3>5. Promise!Next
      BY <1>1, <1>5, <1>6, <2>5, <3>1, <3>2, Answers
    <3> QED
      BY <2>6, <2>7, <2>8, <3>4, <3>5 DEF ReplyInv
  <2> QED
    BY <2>9, <2>10
<1> QED
  BY <1>8, <1>9

(* A remote server answers for the page it was asked for, or not at all.       *)
LEMMA SiteWeb ==
    ASSUME HttpInv, ReplyInv, NEW i \in Fd, SiteStep(i)
    PROVE  ReplyInv' /\ Promise!Next
<1> DEFINE p == conn[i].page
<1>1. SiteAnswers(i) /\ UNCHANGED <<cache, now, clients, backlog, ust, reply>>
  BY DEF SiteStep, SiteAnswers, cacheVars, userVars, proxyVars
<1>2. /\ conn[i].kind = "site" /\ p \in Page
      /\ \E x \in Conn : /\ conn' = [conn EXCEPT ![i] = x]
                         /\ x.kind = "site" /\ x.page = p
                         /\ x.answer = "sent" => x.response \in ResponsesAt(p, now)
  <2>1. conn[i].kind = "site" /\ p \in Page
    BY <1>1, Types, ConnKinds DEF SiteAnswers
  <2> HIDE DEF p
  <2>2. CASE conn' = [conn EXCEPT ![i] = Started(p)] \/ conn' = [conn EXCEPT ![i] = Closed(p)]
    <3>1. /\ Started(p) \in Conn /\ Started(p).kind = "site"
          /\ Started(p).page = p /\ Started(p).answer # "sent"
      BY <2>1, ConnTypes DEF Started
    <3>2. /\ Closed(p) \in Conn /\ Closed(p).kind = "site"
          /\ Closed(p).page = p /\ Closed(p).answer # "sent"
      BY <2>1, ConnTypes DEF Closed
    <3> QED
      BY <2>1, <2>2, <3>1, <3>2
  <2>3. ASSUME NEW r \in ResponsesAt(p, now), conn' = [conn EXCEPT ![i] = Answer(p, r)]
        PROVE  \E x \in Conn : /\ conn' = [conn EXCEPT ![i] = x]
                               /\ x.kind = "site" /\ x.page = p
                               /\ x.answer = "sent" => x.response \in ResponsesAt(p, now)
    <3>1. r \in Response
      BY <2>1, Types DEF Response
    <3>2. /\ Answer(p, r) \in Conn /\ Answer(p, r).kind = "site"
          /\ Answer(p, r).page = p /\ Answer(p, r).response = r
      BY <2>1, <3>1, ConnTypes DEF Answer
    <3> QED
      BY <2>3, <3>2
  <2> QED
    BY <1>1, <2>1, <2>2, <2>3 DEF SiteAnswers, p
<1> HIDE DEF p
<1>3. PICK x \in Conn : /\ conn' = [conn EXCEPT ![i] = x]
                        /\ x.kind = "site" /\ x.page = p
                        /\ x.answer = "sent" => x.response \in ResponsesAt(p, now)
  BY <1>2
<1>4. conn'[i] = x /\ \A j \in Fd \ {i} : conn'[j] = conn[j]
  BY <1>3, Types
<1>5. \A j \in Fd : conn'[j] = conn[j] \/ conn'[j].kind # "user"
  BY <1>3, <1>4
<1>6. ASSUME x.answer = "sent"
      PROVE  x.response \in Response /\ x.response.page = p
  <2>1. x.response \in ResponsesAt(p, now)
    BY <1>3, <1>6
  <2>2. x.response \in Response
    BY <1>2, <2>1, Types DEF Response
  <2>3. x.response.page = p
    BY <2>1 DEF ResponsesAt
  <2> QED
    BY <2>2, <2>3
<1>7. \A j \in SentBy' : (j = i /\ x.answer = "sent") \/ (j \in SentBy /\ conn'[j] = conn[j])
  BY <1>4 DEF SentBy
<1>8. i \notin SentBy
  BY <1>1 DEF SiteAnswers, SentBy
<1>9. \A j \in SentBy : j \in SentBy' /\ conn'[j] = conn[j]
  BY <1>4, <1>8 DEF SentBy
<1>10. Known \subseteq Known' /\ Known' \subseteq Known \cup {x.response} /\ Known' \subseteq Response
  <2>1. Known \subseteq Known'
    BY <1>1, <1>9 DEF Known
  <2>2. ASSUME NEW r \in Known'
        PROVE  r \in Known \/ (x.answer = "sent" /\ r = x.response)
    <3>1. CASE \E j \in SentBy' : r = conn'[j].response
      BY <1>4, <1>7, <3>1 DEF Known
    <3>2. CASE \E e \in cache : r = e.response
      BY <3>2 DEF Known
    <3> QED
      BY <1>1, <2>2, <3>1, <3>2 DEF Known
  <2> QED
    BY <1>6, <2>1, <2>2, KnownTypes
<1>11. SitesMatch'
  BY <1>3, <1>4, <1>6, <1>7 DEF ReplyInv, SitesMatch
<1>12. WaitersMatch'
  <2>1. ASSUME NEW c \in clients', c.servfd # -1
        PROVE  /\ c \in clients
               /\ conn'[c.servfd].page = conn[c.servfd].page
               /\ conn'[c.sockfd] = conn[c.sockfd]
    <3>1. c \in clients
      BY <1>1
    <3>2. c.sockfd \in Fd \ {i} /\ c.servfd \in Fd
      BY <1>2, <2>1, <3>1, ListedConns
    <3>3. conn'[c.servfd].page = conn[c.servfd].page
      BY <1>3, <1>4, <3>2 DEF p
    <3> QED
      BY <1>4, <3>1, <3>2, <3>3
  <2> QED
    BY <2>1, WaitersKept DEF ReplyInv
<1>13. OnePlace' /\ RepliedAreGone' /\ EntriesMatch'
  BY <1>1, <1>5, PlacesKept, RepliedKept, EntriesKept DEF ReplyInv
<1> QED
  BY <1>1, <1>10, <1>11, <1>12, <1>13, Learns DEF ReplyInv

(* A client that connects has no place and no reply yet.                       *)
LEMMA RequestWeb ==
    ASSUME HttpInv, ReplyInv, NEW v \in User, Request(v), UNCHANGED <<cacheVars, now, proxyVars>>
    PROVE  ReplyInv' /\ Promise!Next
<1>1. /\ ust[v] = "start" /\ backlog' = Append(backlog, v)
      /\ UNCHANGED <<cache, now, conn, reply, clients>>
  BY DEF Request, cacheVars, proxyVars
<1>2. ust'[v] = "wait" /\ \A u \in User \ {v} : ust'[u] = ust[u]
  BY Types DEF Request
<1>3. /\ \A i \in Fd : conn[i] # ToUser(v)
      /\ \A k \in 1..Len(backlog) : backlog[k] # v
  BY <1>1 DEF HttpInv, NotYetKnown
<1>4. reply[v] = NoReply
  BY <1>1 DEF ReplyInv, RepliedAreGone
<1>5. \A k \in 1..Len(backlog') :
        \/ k \in 1..Len(backlog) /\ backlog'[k] = backlog[k]
        \/ k = Len(backlog) + 1 /\ backlog'[k] = v
  BY <1>1, Types
<1>6. OnePlace'
  <2>1. ASSUME NEW i \in Fd, NEW k \in 1..Len(backlog')
        PROVE  conn[i] # ToUser(backlog'[k])
    BY <1>3, <1>5 DEF ReplyInv, OnePlace
  <2>2. ASSUME NEW j \in 1..Len(backlog'), NEW k \in 1..Len(backlog'), backlog'[j] = backlog'[k]
        PROVE  j = k
    BY <1>3, <1>5, <2>2 DEF ReplyInv, OnePlace
  <2>3. \A i, j \in Fd : conn[i].kind = "user" /\ conn[j] = conn[i] => i = j
    BY DEF ReplyInv, OnePlace
  <2> QED
    BY <1>1, <2>1, <2>2, <2>3 DEF OnePlace
<1>7. RepliedAreGone'
  <2> SUFFICES ASSUME NEW u \in User, reply[u] # NoReply
               PROVE  /\ ust'[u] # "start"
                      /\ \A i \in Fd : conn[i] # ToUser(u)
                      /\ \A k \in 1..Len(backlog') : backlog'[k] # u
    BY <1>1 DEF RepliedAreGone
  <2>1. u # v
    BY <1>4
  <2> QED
    BY <1>2, <1>5, <2>1 DEF ReplyInv, RepliedAreGone
<1>8. SentBy' = SentBy
  BY <1>1 DEF SentBy
<1>9. WaitersMatch' /\ SitesMatch' /\ EntriesMatch'
  BY <1>1, <1>8, WaitersKept, SitesKept, EntriesKept DEF ReplyInv
<1>10. Known' \subseteq Known
  BY <1>1, <1>8 DEF Known
<1> QED
  BY <1>1, <1>6, <1>7, <1>9, <1>10, Forgets DEF ReplyInv

(* One that leaves.                                                           *)
LEMMA LeaveWeb ==
    ASSUME HttpInv, ReplyInv, NEW v \in User, Leave(v), UNCHANGED <<cacheVars, now, proxyVars>>
    PROVE  ReplyInv' /\ Promise!Next
<1>1. UNCHANGED <<cache, now, conn, reply, clients, backlog>>
  BY DEF Leave, cacheVars, proxyVars
<1>2. \A u \in User : ust'[u] = "start" => ust[u] = "start"
  BY Types DEF Leave
<1> QED
  BY <1>1, <1>2, QuietWeb

(* Time passes.                                                               *)
LEMMA TickWeb ==
    ASSUME HttpInv, ReplyInv, Tick
    PROVE  ReplyInv' /\ Promise!Next
<1>1. now' = now + 1 /\ UNCHANGED <<cache, conn, clients, backlog, ust, reply>>
  BY DEF Tick, cacheVars, userVars, proxyVars
<1>2. ReplyInv'
  BY <1>1, QuietWeb
<1>3. SentBy' = SentBy
  BY <1>1 DEF SentBy
<1>4. Known' = Known
  BY <1>1, <1>3 DEF Known
<1>5. Promise!Tick
  BY <1>1, <1>4 DEF Promise!Tick, Known, SentBy
<1> QED
  BY <1>2, <1>5 DEF Promise!Next

-----------------------------------------------------------------------------
(* Nothing is known at the start.                                             *)
LEMMA InitWeb == Init => Promise!Init /\ ReplyInv
<1> SUFFICES ASSUME Init
             PROVE  Promise!Init /\ ReplyInv
  OBVIOUS
<1>1. /\ conn = [i \in Fd |-> Free] /\ Free.kind = "free" /\ backlog = <<>>
      /\ reply = [u \in User |-> NoReply] /\ clients = {} /\ cache = {} /\ now = 0
  BY ConnTypes DEF Init, NetInit, ProxyInit, CacheInit
<1>2. \A i \in Fd : conn[i].kind = "free"
  BY <1>1
<1>3. SentBy = {}
  BY <1>2 DEF SentBy
<1>4. Known = {}
  BY <1>1, <1>3 DEF Known
<1>5. Promise!Init
  BY <1>1, <1>4 DEF Promise!Init, Known, SentBy
<1>6. OnePlace /\ RepliedAreGone
  <2>1. Len(backlog) = 0 /\ \A u \in User : reply[u] = NoReply
    BY <1>1
  <2> QED
    BY <1>2, <2>1 DEF OnePlace, RepliedAreGone
<1>7. WaitersMatch /\ SitesMatch /\ EntriesMatch
  BY <1>1, <1>3 DEF WaitersMatch, SitesMatch, EntriesMatch
<1> QED
  BY <1>5, <1>6, <1>7 DEF ReplyInv

(* Every step keeps the invariant, and is one of Web or leaves its state alone. *)
LEMMA NextWeb ==
    ASSUME HttpInv, ReplyInv, [Next]_vars
    PROVE  ReplyInv' /\ (TzShift <= 0 => [Promise!Next]_(Promise!vars))
<1>1. CASE Next
  <2>1. CASE ProxyStep
    <3>1. CASE Accept
      BY <3>1, AcceptWeb
    <3>2. CASE Select
      <4>1. 1 \in Fd
        BY NetAssumption DEF Fd
      <4> QED
        BY <3>2, <4>1, OtherProxyWeb
    <3>3. ASSUME NEW i \in Fd, Serve(i)
          PROVE  ReplyInv' /\ (TzShift <= 0 => Promise!Next)
      BY <3>3, OtherProxyWeb, HitWeb, FetchWeb, FetchFailsWeb, ServerResponseWeb DEF Serve
    <3> QED
      BY <2>1, <3>1, <3>2, <3>3 DEF ProxyStep
  <2>2. CASE \E i \in Fd : SiteStep(i)
    BY <2>2, SiteWeb
  <2>3. CASE \E u \in User : UserStep(u)
    BY <2>3, RequestWeb, LeaveWeb DEF UserStep
  <2>4. CASE Tick
    BY <2>4, TickWeb
  <2> QED
    BY <1>1, <2>1, <2>2, <2>3, <2>4 DEF Next
<1>2. CASE UNCHANGED vars
  <2>1. UNCHANGED <<cache, now, conn, clients, backlog, ust, reply>>
    BY <1>2 DEF vars, cacheVars, userVars, proxyVars
  <2> QED
    BY <2>1, QuietWeb
<1> QED
  BY <1>1, <1>2

(* No user has two places or two replies, whoever waits for a remote server    *)
(* wants the page it was asked for, and every entry of the cache has a         *)
(* response for its page, at every local time.                                *)
THEOREM HttpWebInvariant == Spec => []WebInv
<1>1. Init => WebInv
  BY InitHttpInv, InitWeb DEF WebInv
<1>2. WebInv /\ [Next]_vars => WebInv'
  BY NextHttpInv, NextWeb DEF WebInv
<1> QED
  BY <1>1, <1>2, PTL DEF Spec

(* Where the local time is that of Greenwich or east of it, the proxy does     *)
(* nothing that Web forbids: every user is answered at most once, with a       *)
(* response that a remote server has sent to its end, for the page that was    *)
(* asked for, and that has not expired when it comes from the cache.          *)
THEOREM HttpImplementsWeb ==
    ASSUME TzShift <= 0
    PROVE  Spec => WebSpec
<1>1. Init => Promise!Init
  BY InitWeb
<1>2. WebInv /\ [Next]_vars => [Promise!Next]_(Promise!vars)
  BY NextWeb DEF WebInv
<1> QED
  BY <1>1, <1>2, HttpWebInvariant, PTL DEF Spec, WebSpec, Promise!Spec
-----------------------------------------------------------------------------
(* The cache in the whole proxy.                                              *)

(* A response that has come was sent some time ago, for the page asked for.    *)
ResponsesDated ==
    \A i \in SentBy : \E t \in Time :
        t <= now /\ conn[i].response \in ResponsesAt(conn[i].page, t)

UseInv == WebInv /\ ResponsesDated

(* The fetches on their way.                                                  *)
Misses == [p \in Page |-> Cardinality(Fetching(p))]

(* The instance of CacheUse works on the cache as this module does: its        *)
(* variables stay when the cache, the clock and the fetches stay.              *)
LEMMA SameUse ==
    ASSUME UNCHANGED <<cacheVars, now>>, Misses' = Misses
    PROVE  UNCHANGED Use!vars
  BY DEF Use!vars, Use!cacheVars, cacheVars, Misses, Fetching

(* Its operators are those of this module.                                    *)
LEMMA UseOperators ==
    ASSUME NEW p
    PROVE  /\ GoodEntry(p) => Use!GoodEntry(p)
           /\ ~ GoodEntry(p) => ~ Use!GoodEntry(p)
           /\ Use!Hits(p) = Hits(p)
           /\ UpdateEntry(p) => Use!UpdateEntry(p)
           /\ RemoveEntry(p) => Use!RemoveEntry(p)
           /\ \A r : AddEntry(p, r) => Use!AddEntry(p, r)
           /\ \A t : Use!ResponsesAt(p, t) = ResponsesAt(p, t)
<1>1. \A L : Use!First(L) = First(L)
  BY DEF Use!First, First
<1>2. \A L : Use!FrontId(L) = FrontId(L)
  BY <1>1 DEF Use!FrontId, FrontId
<1>3. \A q : Use!Hits(q) = Hits(q)
  BY DEF Use!Hits, Hits, Use!Same, Same
<1>4. Use!find_entry(p) = find_entry(p)
  BY <1>1, <1>3 DEF Use!find_entry, find_entry
<1>5. \A e : Use!Expired(e) = Expired(e)
  BY DEF Use!Expired, Expired
<1>6. Use!GoodEntry(p) = GoodEntry(p)
  BY <1>3, <1>4, <1>5 DEF Use!GoodEntry, GoodEntry
<1>7. UpdateEntry(p) => Use!UpdateEntry(p)
  BY <1>4 DEF Use!UpdateEntry, UpdateEntry, Use!Replace, Replace
<1>8. RemoveEntry(p) => Use!RemoveEntry(p)
  BY <1>3 DEF Use!RemoveEntry, RemoveEntry
<1>9. Use!Oldest = Oldest
  BY <1>1 DEF Use!Oldest, Oldest
<1>10. \A r : Use!NewEntry(p, r) = NewEntry(p, r)
  BY <1>2 DEF Use!NewEntry, NewEntry
<1>11. \A r : AddEntry(p, r) => Use!AddEntry(p, r)
  BY <1>3, <1>9, <1>10 DEF Use!AddEntry, AddEntry
<1>12. \A t : Use!ResponsesAt(p, t) = ResponsesAt(p, t)
  BY DEF Use!ResponsesAt, ResponsesAt, Use!ExpiresAt, ExpiresAt
<1> QED
  BY <1>3, <1>6, <1>7, <1>8, <1>11, <1>12

(* The fetches when no connection to a remote server is made or ends.         *)
LEMMA MissesKept ==
    ASSUME \A j \in Fd : conn'[j].kind = "site" <=> conn[j].kind = "site",
           \A j \in Fd : conn[j].kind = "site" => conn'[j].page = conn[j].page
    PROVE  Misses' = Misses
<1>1. \A p : Fetching(p)' = Fetching(p)
  BY DEF Fetching
<1> QED
  BY <1>1 DEF Misses

(* The fetches are few.                                                       *)
LEMMA FetchesFinite ==
    \A p : Fetching(p) \subseteq Fd /\ IsFiniteSet(Fetching(p)) /\ Cardinality(Fetching(p)) \in Nat
<1>1. IsFiniteSet(Fd)
  BY NetAssumption, FS_Interval DEF Fd
<1>2. \A p : Fetching(p) \subseteq Fd
  BY DEF Fetching
<1> QED
  BY <1>1, <1>2, FS_Subset, FS_CardinalityType

(* One is made.                                                               *)
LEMMA MissesGrow ==
    ASSUME NEW s \in Fd, NEW p \in Page, conn[s].kind # "site",
           conn'[s].kind = "site", conn'[s].page = p,
           \A j \in Fd \ {s} : conn'[j] = conn[j]
    PROVE  Misses' = [Misses EXCEPT ![p] = @ + 1]
<1>1. Fetching(p)' = Fetching(p) \cup {s} /\ s \notin Fetching(p)
  BY DEF Fetching
<1>2. \A q \in Page \ {p} : Fetching(q)' = Fetching(q)
  BY DEF Fetching
<1>3. Cardinality(Fetching(p)') = Cardinality(Fetching(p)) + 1
  BY <1>1, FetchesFinite, FS_AddElement
<1> QED
  BY <1>2, <1>3 DEF Misses

(* One ends.                                                                  *)
LEMMA MissesDrop ==
    ASSUME NEW i \in Fd, NEW p \in Page, conn[i].kind = "site", conn[i].page = p,
           conn'[i].kind # "site",
           \A j \in Fd \ {i} : conn'[j].kind = "site" <=> conn[j].kind = "site",
           \A j \in Fd \ {i} : conn[j].kind = "site" => conn'[j].page = conn[j].page
    PROVE  /\ Misses' = [Misses EXCEPT ![p] = @ - 1]
           /\ Misses[p] > 0
<1>1. Fetching(p)' = Fetching(p) \ {i} /\ i \in Fetching(p)
  BY DEF Fetching
<1>2. \A q \in Page \ {p} : Fetching(q)' = Fetching(q)
  BY DEF Fetching
<1>3. Cardinality(Fetching(p)') = Cardinality(Fetching(p)) - 1
  <2>1. IsFiniteSet(Fetching(p))
    BY FetchesFinite
  <2> QED
    BY <1>1, <2>1, FS_RemoveElement
<1>4. Cardinality(Fetching(p)) > 0
  <2>1. Cardinality(Fetching(p)) # 0
    BY <1>1, FetchesFinite, FS_EmptySet
  <2> QED
    BY <2>1, FetchesFinite
<1> QED
  BY <1>2, <1>3, <1>4 DEF Misses

(* The responses that came, when no other comes.                              *)
LEMMA DatedKept ==
    ASSUME HttpInv, ResponsesDated, now' = now \/ now' = now + 1,
           \A j \in Fd : conn'[j] = conn[j] \/ conn'[j].kind # "site" \/ conn'[j].answer # "sent"
    PROVE  ResponsesDated'
<1> SUFFICES ASSUME NEW i \in SentBy'
             PROVE  \E t \in Time : t <= now' /\ conn'[i].response \in ResponsesAt(conn'[i].page, t)
  BY DEF ResponsesDated, Time, ResponsesAt, ExpiresAt
<1>1. i \in SentBy /\ conn'[i] = conn[i]
  BY DEF SentBy
<1>2. PICK t \in Time : t <= now /\ conn[i].response \in ResponsesAt(conn[i].page, t)
  BY <1>1 DEF ResponsesDated
<1>3. t <= now'
  <2>1. t \in Int /\ now \in Int
    BY Types, CacheAssumption DEF Time
  <2> QED
    BY <1>2, <2>1
<1> QED
  BY <1>1, <1>2, <1>3

(* A lookup that misses, with or without a fetch.                             *)
LEMMA UseMiss ==
    ASSUME NEW i \in Fd, NEW p \in Page, Missed(i, p), now' = now,
           Misses' = Misses \/ Misses' = [Misses EXCEPT ![p] = @ + 1]
    PROVE  Use!Next
<1>1. /\ ~ Use!GoodEntry(p)
      /\ IF Use!Hits(p) # {} THEN Use!RemoveEntry(p) ELSE UNCHANGED Use!cacheVars
  BY UseOperators DEF Missed, cacheVars, Use!cacheVars
<1>2. Use!Miss(p)
  BY <1>1 DEF Use!Miss, Misses, Fetching
<1> QED
  BY <1>2 DEF Use!Next

(* A step that leaves the cache alone, and makes no connection to a remote     *)
(* server nor ends one.                                                       *)
LEMMA QuietUse ==
    ASSUME HttpInv, ResponsesDated, UNCHANGED <<cacheVars, now>>,
           \A j \in Fd : \/ conn'[j] = conn[j]
                         \/ conn'[j].kind # "site" /\ conn[j].kind # "site"
    PROVE  ResponsesDated' /\ UNCHANGED Use!vars
<1>1. ResponsesDated'
  BY DatedKept
<1>2. Misses' = Misses
  BY MissesKept
<1> QED
  BY <1>1, <1>2, SameUse

(* A hit.                                                                     *)
LEMMA HitUse ==
    ASSUME HttpInv, ResponsesDated, NEW i \in Fd, Hit(i)
    PROVE  ResponsesDated' /\ [Use!Next]_(Use!vars)
<1>1. PICK p \in Page, alive \in BOOLEAN :
        /\ GetRequest(i, p)
        /\ GoodEntry(p)
        /\ IF alive
           THEN UpdateEntry(p) /\ conn' = [conn EXCEPT ![i] = Free]
           ELSE UNCHANGED <<cacheVars, conn>>
        /\ UNCHANGED now
  BY DEF Hit
<1>2. conn[i].kind = "user"
  BY <1>1, GetFacts
<1>3. CASE alive
  <2>1. UpdateEntry(p) /\ conn'[i].kind = "free" /\ \A j \in Fd \ {i} : conn'[j] = conn[j]
    BY <1>1, <1>3, Types, ConnTypes
  <2>2. ResponsesDated'
    BY <1>1, <2>1, DatedKept
  <2>3. Misses' = Misses
    BY <1>2, <2>1, MissesKept
  <2>4. Use!Hit(p)
    BY <1>1, <2>1, <2>3, UseOperators DEF Use!Hit, Misses, Fetching
  <2> QED
    BY <2>2, <2>4 DEF Use!Next
<1>4. CASE ~ alive
  BY <1>1, <1>4, QuietUse
<1> QED
  BY <1>3, <1>4

(* A miss, with a connection, without one, or the last.                       *)
LEMMA MissUse ==
    ASSUME HttpInv, ResponsesDated, NEW i \in Fd, Fetch(i) \/ FetchFails(i) \/ FetchExits(i)
    PROVE  ResponsesDated' /\ Use!Next
<1>1. CASE Fetch(i)
  <2> DEFINE s == Min(FreeFd)
  <2>1. PICK p \in Page :
          Missed(i, p) /\ FreeFd # {} /\ conn' = [conn EXCEPT ![s] = Asked(p)] /\ now' = now
    BY <1>1 DEF Fetch
  <2>2. s \in Fd /\ conn[s].kind = "free"
    BY <2>1, MinFreeFd, ConnTypes
  <2> HIDE DEF s
  <2>3. /\ conn'[s].kind = "site" /\ conn'[s].page = p /\ conn'[s].answer = "open"
        /\ \A j \in Fd \ {s} : conn'[j] = conn[j]
    BY <2>1, <2>2, Types DEF Asked
  <2>4. Misses' = [Misses EXCEPT ![p] = @ + 1]
    BY <2>2, <2>3, MissesGrow
  <2>5. ResponsesDated'
    BY <2>1, <2>3, DatedKept
  <2> QED
    BY <2>1, <2>4, <2>5, UseMiss
<1>2. CASE FetchFails(i) \/ FetchExits(i)
  <2>1. PICK p \in Page : Missed(i, p) /\ UNCHANGED <<now, conn>>
    BY <1>2 DEF FetchFails, FetchExits
  <2>2. Misses' = Misses
    BY <2>1, MissesKept
  <2>3. ResponsesDated'
    BY <2>1, DatedKept
  <2> QED
    BY <2>1, <2>2, <2>3, UseMiss
<1> QED
  BY <1>1, <1>2

(* A response is inserted under the page that was looked up, for the fetch      *)
(* that is on its way.                                                        *)
LEMMA ServerResponseUse ==
    ASSUME HttpInv, ReplyInv, ResponsesDated, NEW i \in Fd, ServerResponse(i)
    PROVE  ResponsesDated' /\ [Use!Next]_(Use!vars)
<1> DEFINE r == conn[i].response
<1>1. Data(i) = "sent" /\ Waiting(i) # {} /\ now' = now
  BY DEF ServerResponse
<1>2. conn[i].kind = "site" /\ i \in SentBy
  BY <1>1, AnswerFacts DEF Data, SentBy
<1>3. PICK w \in clients :
        /\ Waiting(i) = {w} /\ find_client_by_servfd(i) = w.sockfd
        /\ w.sockfd \in Fd /\ find_client(w.sockfd) = w /\ w.page \in Page
        /\ conn[w.sockfd].kind = "user"
  BY <1>1, AnswerFacts
<1> DEFINE cf == w.sockfd
           p  == w.page
<1>4. PICK alive \in BOOLEAN :
         IF alive
         THEN AddEntry(p, r) /\ conn' = [conn EXCEPT ![cf] = Free, ![i] = Free]
         ELSE UNCHANGED <<cacheVars, conn>>
  BY <1>3 DEF ServerResponse
<1>5. conn[i].page = p
  <2>1. w.servfd = i /\ w.servfd # -1
    BY <1>3, NetAssumption DEF Waiting, Fd
  <2> QED
    BY <2>1 DEF ReplyInv, WaitersMatch
<1>6. PICK t \in Time : t <= now /\ r \in ResponsesAt(p, t)
  BY <1>2, <1>5 DEF ResponsesDated
<1>7. p \in Page
  BY <1>3
<1> HIDE DEF r, p
<1>8. CASE ~ alive
  BY <1>1, <1>4, <1>8, QuietUse
<1>9. CASE alive
  <2>1. /\ AddEntry(p, r)
        /\ conn'[cf].kind = "free" /\ conn'[i].kind = "free"
        /\ \A j \in Fd \ {cf, i} : conn'[j] = conn[j]
    BY <1>3, <1>4, <1>9, Types, ConnTypes
  <2>2. Misses' = [Misses EXCEPT ![p] = @ - 1] /\ Misses[p] > 0
    BY <1>2, <1>3, <1>5, <1>7, <2>1, MissesDrop
  <2>3. ResponsesDated'
    BY <1>1, <2>1, DatedKept
  <2>4. r.page = p
    BY <1>6 DEF ResponsesAt
  <2>5. Use!Insert(p, r)
    BY <1>1, <2>1, <2>2, <2>4, UseOperators DEF Use!Insert, Misses, Fetching
  <2>6. r \in Use!ResponsesAt(p, t) /\ t \in Use!Time
    BY <1>6, UseOperators DEF Use!Time, Time
  <2> QED
    BY <1>6, <1>7, <2>3, <2>5, <2>6 DEF Use!Next
<1> QED
  BY <1>8, <1>9

(* What a remote server sends bears its time.                                 *)
LEMMA SiteUse ==
    ASSUME HttpInv, ResponsesDated, NEW i \in Fd, SiteStep(i)
    PROVE  ResponsesDated' /\ UNCHANGED Use!vars
<1>1. SiteAnswers(i) /\ UNCHANGED <<cacheVars, now>>
  BY DEF SiteStep
<1>2. PICK x \in Conn : conn' = [conn EXCEPT ![i] = x] /\ x.kind = "site" /\ x.page = conn[i].page
  BY <1>1, Types, SiteFacts
<1>3. conn[i].kind = "site" /\ conn'[i] = x /\ \A j \in Fd \ {i} : conn'[j] = conn[j]
  BY <1>1, <1>2, Types DEF SiteAnswers
<1>4. Misses' = Misses
  BY <1>2, <1>3, MissesKept
<1>5. ResponsesDated'
  <2>1. CASE conn'[i].answer = "sent"
    <3> DEFINE p == conn[i].page
    <3>1. PICK r \in ResponsesAt(p, now) : conn' = [conn EXCEPT ![i] = Answer(p, r)]
      <4>1. Started(p).answer # "sent" /\ Closed(p).answer # "sent"
        BY DEF Started, Closed
      <4> QED
        BY <1>1, <2>1, <4>1, Types DEF SiteAnswers
    <3>2. conn'[i].response = r /\ conn'[i].page = p
      BY <3>1, Types DEF Answer
    <3>3. now \in Time /\ now <= now
      BY Types, CacheAssumption DEF Time
    <3> HIDE DEF p
    <3> SUFFICES ASSUME NEW j \in SentBy'
                 PROVE  \E t \in Time : t <= now /\ conn'[j].response \in ResponsesAt(conn'[j].page, t)
      BY <1>1 DEF ResponsesDated, Time, ResponsesAt, ExpiresAt
    <3>4. CASE j = i
      BY <3>1, <3>2, <3>3, <3>4
    <3>5. CASE j # i
      <4>1. j \in SentBy /\ conn'[j] = conn[j]
        BY <1>3, <3>5 DEF SentBy
      <4> QED
        BY <4>1 DEF ResponsesDated
    <3> QED
      BY <3>4, <3>5
  <2>2. CASE conn'[i].answer # "sent"
    BY <1>1, <1>3, <2>2, DatedKept
  <2> QED
    BY <2>1, <2>2
<1> QED
  BY <1>1, <1>4, <1>5, SameUse

(* Every step is one of CacheUse or leaves its state alone.                    *)
LEMMA NextUse ==
    ASSUME HttpInv, ReplyInv, ResponsesDated, [Next]_vars
    PROVE  ResponsesDated' /\ [Use!Next]_(Use!vars)
<1>1. ASSUME conn' = conn, UNCHANGED <<cacheVars, now>>
      PROVE  ResponsesDated' /\ UNCHANGED Use!vars
  BY <1>1, QuietUse
<1>2. CASE Accept
  <2>1. CASE FreeFd = {}
    BY <1>1, <1>2, <2>1 DEF Accept
  <2>2. CASE FreeFd # {}
    <3> DEFINE s == Min(FreeFd)
    <3>1. s \in Fd /\ conn[s].kind = "free"
      BY <2>2, MinFreeFd, ConnTypes
    <3>2. conn' = [conn EXCEPT ![s] = ToUser(Head(backlog))] /\ UNCHANGED <<cacheVars, now>>
      BY <1>2, <2>2 DEF Accept
    <3> HIDE DEF s
    <3>3. conn'[s].kind = "user" /\ \A j \in Fd \ {s} : conn'[j] = conn[j]
      BY <3>1, <3>2, Types DEF ToUser
    <3> QED
      BY <3>1, <3>2, <3>3, QuietUse
  <2> QED
    BY <2>1, <2>2
<1>3. ASSUME NEW i \in Fd, Serve(i)
      PROVE  ResponsesDated' /\ [Use!Next]_(Use!vars)
  <2>1. CASE NoData(i) \/ BadRequest(i)
    BY <1>1, <2>1 DEF NoData, BadRequest
  <2> QED
    BY <1>3, <2>1, HitUse, MissUse, ServerResponseUse DEF Serve
<1>4. CASE Select
  BY <1>1, <1>4 DEF Select
<1>5. CASE \E i \in Fd : SiteStep(i)
  BY <1>5, SiteUse
<1>6. CASE \E u \in User : UserStep(u)
  BY <1>1, <1>6 DEF UserStep, Request, Leave
<1>7. CASE Tick
  <2>1. now < MaxNow /\ now' = now + 1 /\ UNCHANGED cacheVars /\ conn' = conn
    BY <1>7 DEF Tick
  <2>2. ResponsesDated'
    BY <2>1, DatedKept
  <2>3. Misses' = Misses
    BY <2>1, MissesKept
  <2>4. Use!Tick
    BY <2>1, <2>3 DEF Use!Tick, Use!cacheVars, cacheVars, Misses, Fetching
  <2> QED
    BY <2>2, <2>4 DEF Use!Next
<1>8. CASE UNCHANGED vars
  BY <1>1, <1>8 DEF vars
<1> QED
  BY <1>2, <1>3, <1>4, <1>5, <1>6, <1>7, <1>8 DEF Next, ProxyStep

(* Nothing is on its way at the start.                                        *)
LEMMA InitUse == Init => Use!Init /\ ResponsesDated
<1> SUFFICES ASSUME Init
             PROVE  Use!Init /\ ResponsesDated
  OBVIOUS
<1>1. /\ \A i \in Fd : conn[i].kind = "free"
      /\ cache = {} /\ num_entries = 0 /\ now = 0
  BY ConnTypes DEF Init, NetInit, CacheInit
<1>2. \A p : Fetching(p) = {}
  BY <1>1 DEF Fetching
<1>3. Misses = [p \in Page |-> 0]
  BY <1>2, FS_EmptySet DEF Misses
<1>4. Use!Init
  BY <1>1, <1>3 DEF Use!Init, Use!CacheInit, Misses, Fetching
<1>5. ResponsesDated
  BY <1>1 DEF ResponsesDated, SentBy
<1> QED
  BY <1>4, <1>5

(* The proxy uses its cache as CacheUse does, so that what holds of every use  *)
(* of the cache holds in the proxy: a response is inserted once, for a fetch   *)
(* on its way, under the page that was looked up and missed, however requests, *)
(* responses and failures interleave.                                         *)
THEOREM HttpUsesCache == Spec => UsesCache
<1>1. Init => Use!Init /\ UseInv
  BY InitHttpInv, InitWeb, InitUse DEF UseInv, WebInv
<1>2. UseInv /\ [Next]_vars => UseInv' /\ [Use!Next]_(Use!vars)
  BY NextHttpInv, NextWeb, NextUse DEF UseInv, WebInv
<1> QED
  BY <1>1, <1>2, PTL DEF Spec, UsesCache, Use!Spec
=============================================================================
