-------------------------------- MODULE Http --------------------------------
(* The HTTP proxy with its cache, its clients, the remote servers and a clock. *)
EXTENDS HttpProxy

vars == <<cacheVars, now, conn, userVars, proxyVars>>

Init == CacheInit /\ NetInit /\ ProxyInit

ProxyStep == Select \/ Accept \/ \E i \in Fd : Serve(i)

SiteStep(i) == SiteAnswers(i) /\ UNCHANGED <<cacheVars, now, proxyVars>>

UserStep(u) == (Request(u) \/ Leave(u)) /\ UNCHANGED <<cacheVars, now, proxyVars>>

Tick ==
    /\ now < MaxNow
    /\ now' = now + 1
    /\ UNCHANGED <<cacheVars, conn, userVars, proxyVars>>

Next ==
    \/ ProxyStep
    \/ \E i \in Fd : SiteStep(i)
    \/ \E u \in User : UserStep(u)
    \/ Tick

Spec == Init /\ [][Next]_vars

(* The proxy's loop never stops by itself.  A remote server answers or closes *)
(* in the end: the code sets no limit to its wait for one, so without this    *)
(* nothing is promised to anybody.                                            *)
Fairness == WF_vars(ProxyStep) /\ \A i \in Fd : WF_vars(SiteStep(i))

FairSpec == Spec /\ Fairness

-----------------------------------------------------------------------------
(* Type invariant of the proxy, its cache and the connections.                *)
TypeOK == CacheTypeOK /\ NetTypeOK /\ ProxyTypeOK

(* Descriptors and client list agree: one entry per connected client, one     *)
(* remote server per entry that names one, and no other connection is open or *)
(* watched, although both close in the middle of a pass and their numbers are *)
(* given out again before it ends.                                            *)
DescriptorsMatchList ==
    /\ read_fds = {sockfd} \cup {i \in Fd : conn[i] # Free}
    /\ n_clients = Cardinality(clients)
    /\ \A i \in Fd :
         CASE conn[i].kind = "user" -> Cardinality(Clients(i)) = 1 /\ Waiting(i) = {}
           [] conn[i].kind = "site" -> Cardinality(Waiting(i)) = 1 /\ Clients(i) = {}
           [] OTHER                 -> Clients(i) = {} /\ Waiting(i) = {}

(* "known" are the responses that wait in a connection and those in the cache. *)
Promise == INSTANCE Web WITH
    known <- {conn[i].response : i \in {j \in Fd : conn[j].kind = "site" /\ conn[j].answer = "sent"}}
               \cup {e.response : e \in cache}

(* The proxy implements the promise of Web: nobody is answered twice, with     *)
(* half of a response, with one for another page, or, with a local time of     *)
(* GMT, with an expired one from the cache, though requests and responses     *)
(* interleave and share descriptors, entries and a clock.                      *)
WebSpec == Promise!Spec

(* The fetches on their way: the remote servers that somebody waits for.       *)
Use == INSTANCE CacheUse WITH
    misses <- [p \in Page |-> Cardinality({i \in Fd : conn[i].kind = "site" /\ conn[i].page = p})]

(* The proxy uses its cache as CacheUse does: a response is inserted for a     *)
(* fetch on its way, under the page that was looked up and missed.             *)
UsesCache == Use!Spec

(* The entry counter and the evictions of CacheUse, in the whole proxy.        *)
EvictionSafe         == Use!EvictionSafe
EvictsOneLeastRecent == Use!EvictsOneLeastRecent

-----------------------------------------------------------------------------
Down      == srv # "up"
Gone(u)   == ust[u] = "gone"
TableFull == FreeFd = {}

(* What the code leaves a client with when the remote server cannot be reached *)
(* or closes without an answer: nothing, on a connection that stays open.      *)
Stranded(u) ==
    \E c \in clients :
        /\ conn[c.sockfd] = ToUser(u) /\ c.page # "none"
        /\ c.servfd = -1 \/ conn[c.servfd].answer = "closed"

(* A client is accepted unless the descriptors run out, however many of the    *)
(* others' connections are readable again and again without an end.            *)
Accepted == \A u \in User : u \in ToSet(backlog) ~> (u \notin ToSet(backlog) \/ TableFull \/ Down)

(* A request that arrives whole is answered, unless its remote server fails:   *)
(* the waits of recv() and read() for others, and the passes over descriptors  *)
(* that are closed and given out again, do not starve it.                      *)
Answered ==
    \A u \in User :
        (\E i \in Fd : conn[i] = ToUser(u) /\ u2p[u] # <<>> /\ Head(u2p[u]) = "GET")
          ~> (reply[u] # NoReply \/ Gone(u) \/ Stranded(u) \/ Down)
=============================================================================
