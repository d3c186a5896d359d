# 602_networks in TLA+

The repository holds three network programs of a course, written in C, and two
ns-2 scripts. Each program is one thread around one `select()` loop:

* **SBCP** (`src/SBCP`): a chat server and its client over TCP;
* **TFTP** (`src/TFTP`): a read-only TFTP server over UDP;
* **HTTP** (`src/HTTP`): a caching HTTP/1.0 proxy and a client for it.

This directory models the three of them, checks the models with TLC on small
instances and proves their invariants with TLAPS for instances of any size.

## Inventory

| Component | State | Operations | Talks to |
|---|---|---|---|
| SBCP server, `server.c` | `read_fds`, `fd_max`, the roster `clients[0..n_clients)`, `buf`, `tx_buf` | accept, recv, hang-up, JOIN answered by ACK or NAK, SEND broadcast as FWD, Ctrl+C | clients, over TCP |
| SBCP client, `client.c` | `in_buf`, socket, what was printed | connect and JOIN, `fgets`, SEND, FWD / ACK / NAK, exit | server, terminal |
| SBCP packets, `common.c`, `common.h` | none | encode and decode fields, `sendall` | both programs |
| TFTP server, `server.c` | main socket, a socket and a file per transfer, `tv`, and variables that outlive a datagram: `fd`, `new_fd`, `st`, `send_data`, `their_addr` | RRQ, ACK, end of a transfer, timeout, retransmission | clients, over UDP; files |
| TFTP client list, `list.c` | linked list of (socket, file, last block) | add, remove, find, update | TFTP server |
| HTTP proxy, `proxy.c` | `read_fds`, `read_fds_tmp`, client list, `n_clients`, cache | accept, GET hit, GET miss, response, bad request, failures | clients and remote servers, over TCP |
| HTTP client list, `list.c` | linked list of (client socket, server socket, page) | add, remove, find by either socket, update | HTTP proxy |
| HTTP cache, `cache.c` | linked list of responses with access and expiry times, `num_entries` | add with LRU eviction, remove, find, update | HTTP proxy |
| HTTP client, `client.c` | one socket | one request, one response | HTTP proxy |
| Tests, `test_*.c`, `test_multiple_clients.sh` | none | straight-line calls that print | lists, cache, server |
| ns-2, `NS1`, `NS2` | the simulator's | scenario scripts | ns-2 |

What makes the programs hard, and what makes them right:

* **SBCP.** The sockets block, TCP does not keep packet boundaries, clients
  leave in the middle of a pass or of a broadcast, and descriptors are reused
  while the roster keeps its old entries. Right means: the loop watches exactly
  the open connections; nobody in the room shares a name; the roster fits its
  array; lines arrive in order and under the right name; each JOIN is answered;
  no client that reads is starved.
* **TFTP.** Datagrams are lost, duplicated and reordered, block numbers wrap,
  and much of the server's state belongs to whichever datagram came last.
  Right means: a client gets the file it asked for, a socket serves one client,
  a transfer ends when it is done, nothing leaks, and the timer runs as long as
  there is a transfer.
* **HTTP.** Descriptors are closed and reopened under the same numbers within
  one pass, several clients miss the same page at once, entries expire between
  a lookup and an insertion, and either end may go away. Right means: each
  client gets the page it asked for, the list and the descriptor set agree, a
  cached response is fresh, and the cache never overflows nor evicts from an
  empty list.

`PROJECT.json` lists these hazards one by one, each at its line and with the
properties that would catch it.

## Modules

| Module | Models |
|---|---|
| `SbcpNet` | packets, TCP streams with FIN and RST, `sendall()` |
| `SbcpServer` | `SBCP/server.c`: one action per readable descriptor and outcome; `SendStart`, `Forward` and `Discard` split a broadcast by recipient |
| `SbcpClient` | `SBCP/client.c` and the user at its terminal |
| `SbcpChat` | server and clients together; the properties; the parts of `IInv` |
| `Admission`, `Broadcast` | the abstract promises about JOIN and about lines |
| `Nodes` | the linked lists of the TFTP server and of the proxy |
| `TftpNet` | datagrams, clients as `server.c` expects them |
| `TftpServer` | `TFTP/server.c` and `list.c`: one action per datagram and outcome, and the round of timeouts |
| `Tftp` | server and clients together; the properties |
| `FileTransfer` | the abstract promise of a file transfer |
| `HttpCache` | `HTTP/cache.c` |
| `CacheUse` | the cache in the order of calls of `proxy.c`, without sockets; its properties |
| `HttpNet` | the runs of `HTTP/client.c`, the remote servers, `writeall()` |
| `HttpProxy` | `HTTP/proxy.c` and `list.c`: one action per readable descriptor and outcome |
| `Http` | the proxy, its surroundings and a clock; the properties |
| `Web` | the abstract promise of the proxy to its users |
| `SbcpChatProofs`, `SbcpLinesProofs` | the theorems about the chat room: its safety and `Admission`; its lines and `Broadcast` |
| `TftpProofs`, `TftpTransferProofs` | the theorems about the TFTP server: its list, timer and sockets; its transfers and `FileTransfer` |
| `HttpProofs`, `CacheUseProofs` | the theorems about the proxy, with `Web` and `CacheUse`, and about its cache |
| `NodesProofs`, `HttpCacheProofs` | the lemmas they share: about linked lists, and about the operations of the cache |
| `MCSbcpChat`, `MCTftp`, `MCCacheUse`, `MCHttp` | values of the constants for TLC |

Definitions keep the names of the C code where there is one (`read_fds`,
`n_clients`, `find_entry`). A definition headed *Variant* is a
mistake the code could have contained and does not; nothing in the
specifications refers to it, and each property is known to fail when such a
definition takes the place of the one below it.

**How state and actions correspond to the code.** The three loops share a shape:
`Select` is `select()`, `ready` is what is left of the temporary descriptor set
in the current pass, and `Turn(i)` says that the `for` loop has come to `i`; the
handlers refer to it. The listening socket is descriptor 0, below all
others, as it is in the programs, which open it first. A new connection gets the
lowest free descriptor. A handler is one action unless it blocks half way: only
the SBCP broadcast does, in each `sendall()`, and so `Forward` sends to one
recipient, waiting while the recipient's buffer is full. The exits of the
programs, SIGPIPE included, are values of `srv` and `cstate`.

*Lists.* Nodes enter the linked lists at the front and are found from the front.
A list is the set of its nodes, each with an `id` above those behind it:
"the first that matches" is the matching node with the greatest `id`.

*SBCP.* A stream is a sequence of packets. `recv()` takes the first of them whole,
perhaps with more, of which the last may be cut: only the packet at the start of the
buffer is decoded, the others are dropped, and the tail of one that was cut is left in
the stream (`Remainders`). That the first packet comes whole is an assumption on TCP
which the programs make and nothing grants: otherwise they decode it with what `buf`
held before. A descriptor holds the client connected to it; the roster keeps descriptor
and name. `answer` is auxiliary and only written.

*TFTP.* The network is the set of datagrams ever sent: receiving one does not remove it,
and not receiving it is its loss. `fdtab` is the table of open files and sockets. It has
no offsets, because the code sets the offset with `lseek()` before each read but the
first of a file just opened; the variables that outlive a datagram are modelled as such,
so that stale ones are used as the code uses them. `retx` and `finished` are auxiliary:
the first counts retransmissions, the second remembers the ports of transfers the server
ended.

*HTTP.* `conn` says what is at the other end of each descriptor. A remote server
starts to answer and ends its answer in two steps, or closes without one;
`recv()` with MSG_WAITALL waits for the end, and `Turn` keeps the pass where it
is as long as the handler waits. A response is the page it answers, its expiry,
and whether it was cut short; pages with the same `key` are the same to
`streqi()`. `TzShift` is what `mktime()` adds to a GMT time. `reply` is what a
user was sent, when, and whether from the cache; the proxy never reads it.

**Refinements.** Each program has an abstract specification of what it owes to
its users, and is checked to implement it; the mappings are in the module that
composes the program with its surroundings.

| Detailed | Abstract | Mapping |
|---|---|---|
| `SbcpChat` | `Admission` | `answer`, the last answer to each client |
| `SbcpChat` | `Broadcast` | `heard` is what each client printed, `spoken` the lines typed so far |
| `Tftp` | `FileTransfer` | `got` is what each client collected, `trusted` no retransmission so far |
| `Http` | `Web` | `known` are the responses in connections and in the cache |
| `Http` | `CacheUse` | `misses` counts the open connections to remote servers, by page |

## Runs

| Run | Shows |
|---|---|
| `sbcp_chat` | three runs of the client, two by one user, on two descriptors: types, `SocketAccounting`, `OneUserPerName`, `RosterSound`, `TrueSenderUntilLeave`, and that the chat room implements `Admission` and `Broadcast` |
| `sbcp_live` | two clients, one place and one-packet buffers: `JoinAnswered`, `LeaverReclaimed`, `EveryoneServed`, and both refinements |
| `sbcp_name_reuse` | **violated**: a name is not free after its user left, against `SBCP/README.txt` |
| `sbcp_lost` | **violated**: a line right behind another is dropped |
| `sbcp_sigpipe` | **violated**: `sendall()` to a client that went away kills the server instead of returning -1 |
| `tftp_transfer` | two interleaved transfers, one through the wrap of the block number: `TimerArmed`, `SocketsHaveClients`, `PortServesOneClient`, `ClosedOnlyWhenSent`, and that the transfers implement `FileTransfer` |
| `tftp_live` | a transfer beside requests that fail and leave stale state behind: `TransferCompletes`, `SocketsHaveClients`, `TimerArmed`, and the refinement |
| `tftp_done` | **violated**: a file of a multiple of 512 bytes never ends for its client |
| `tftp_retransmit` | **violated**: what is retransmitted is the block after the lost one |
| `http_proxy` | three users, two of them after one page at once: `DescriptorsMatchList`, `EvictionSafe`, `EvictsOneLeastRecent`, and that the proxy implements `Web` and uses its cache as `CacheUse` does |
| `http_live` | two users, one with a request in pieces: `Accepted`, `Answered` |
| `http_lru` | **violated**: an eviction removes the most recently used entry with an older copy of the same page |

**Bounds, and why they are enough.**

* `sbcp_chat`: `p1` and `p3` have one name and there are two descriptors for
  three clients, so that reconnecting, reuse of a descriptor, a full roster, a
  refused name and a full table all occur; two lines of one sender are what
  order needs. Two packets per buffer (`Cap`) allow packets to queue, and sends
  to block.
* `sbcp_live`: one-packet buffers make every broadcast block; one place
  makes a refusal for lack of room.
* `BufStart`: in the runs of the chat room `in_buf`, which the code does not initialise, starts
  empty. The proofs, but for `BroadcastSpec`, also let it start with line 0, which
  stands for text that nobody typed.
* `tftp_*`: block numbers are modulo `BLOCK_MOD` = 3 in place of 65536, and the
  long file has three blocks, so that its last one is number 0. `NPort` bounds
  the sockets opened in a behaviour (three let a repeated RRQ run beside both
  transfers), `MaxRetx` the retransmissions, `MaxGot` the blocks a client accepts.
  `tftp_live` has one transfer and two sockets, the second for the repeated
  RRQ or for an ERROR, and no retransmission, after which nothing is promised.
  `tftp_retransmit` has two clients and two sockets, and one retransmission.
* `http_proxy`: four descriptors hold two clients and their two remote servers,
  which makes concurrent misses of one page, and a third client needs numbers
  that are freed within a pass; two entries make the third response evict, once with
  one page in the cache twice. `MaxNow` = 1 is one tick after expiry. `endings`
  says whose responses may be cut short: one page is enough.
* `http_live`: two users, since a user can only be starved by another one; that
  other one has every way of cutting its request, of leaving and of being stranded.
* `http_lru`: three entries, three ticks, and `MaxFetches` = 6, which bounds the
  fetches on their way plus the number of the next entry (`BoundedSpec` of
  `MCCacheUse`; `CacheUse` itself has no bound, so that it can be refined): two
  copies of one page, an entry used between them, and the insertion that evicts.

Deadlock is not checked: all programs wait in `select()` when nobody sends
anything.

**Where the properties stop.** The refinement of `FileTransfer`, `PortServesOneClient`
and `ClosedOnlyWhenSent` speak of the time before the first retransmission: after that
the server sends the wrong block, perhaps to the wrong client or under a number of
another socket. `tftp_retransmit` shows the first, which takes the fewest steps, and has
room for the others. `TransferCompletes` leaves out files whose last block is full,
which is what `tftp_done` shows, and transfers whose socket was closed because
`recvfrom()` failed. `OneUserPerName` speaks of the users in the room (`InRoom`): those
logged in that have not left or, if they have, that the server has not noticed.
`BroadcastSpec` holds while `recv()` returns first packets whole and `in_buf` starts
empty. `TrueSenderUntilLeave` stops when an admitted client leaves, because the roster
keeps its entry. `WebSpec` is checked with a local time of GMT (`TzShift` = 0); west of
it an expired response is served. It does not promise that a response is whole: one that
the remote server cuts short is sent on and cached like any other.
`EvictsOneLeastRecent` speaks of caches without two entries of one page (`http_lru`
shows the others): entries go from a full cache only, one at a time, and least recently
used ones. `Answered` leaves out the clients that `proxy.c` leaves connected without an
answer (`Stranded`).

## Fairness

Fairness is part of `FairSpec` in `SbcpChat`, `Tftp` and `Http`, and only the
runs `sbcp_live`, `sbcp_lost`, `tftp_live` and `http_live` use it. Users owe nothing: they
need not start, type, ask or leave, and Ctrl+C is never fair.

* *Chat room.* Weak fairness of the server's loop, which never stops by itself
  and handles every descriptor of a pass; of each client's handling of a readable
  socket; and of its sending of a line it holds, both of which its own loop comes
  to in every round. So a client that stays connected and reads is part of the
  assumptions of `EveryoneServed`; the program keeps reading until it exits.
* *TFTP.* Two assumptions about the network and the client, which the code
  cannot grant: no datagram is lost for ever, so that an ACK which makes the
  server send a new block or end a transfer (`HandleNew`) is handled at last
  (strong fairness, because the passes after a timeout come in between); and a
  client takes the block it waits for. One about the server: a pass after a
  timeout ends, as its `for` loop does.
* *Proxy.* Weak fairness of the loop, which never stops by itself, and of each
  remote server, which answers or closes in the end. The code sets no limit to
  its wait for them, so that without the second nothing is promised to anybody:
  one server that keeps its connection open holds up the whole proxy in `recv()`.

## Proofs

**The chat room.** `SbcpChatProofs` proves, for any set of client runs, any assignment of
usernames, any number of descriptors, any capacity of buffers and any
`max_clients`:

* `ChatTypeOK`, `ChatSocketAccounting`, `ChatRosterSound`, `ChatOneUserPerName`:
  `Spec => []` of the property each is named for;
* `ChatImplementsAdmission`: `Spec => AdmissionSpec`.

The assumptions are `NetAssumption` and `ClientAssumption`, on the constants.

None of the properties but the types is inductive. `ChatInvariant` proves
`Spec => []IInv`, where `IInv` is the conjunction of

* `TypeOK` and `SocketAccounting`: a packet is handled on behalf of the
  client that sent it only because a descriptor in `ready` is connected;
* `RosterSound` and `RosterIsAdmitted`: the roster has one entry per client that
  was sent an ACK, so that its length counts the admissions and its names, which
  are distinct, tell these clients apart; each that is connected has its descriptor there;
* `JoinComesFirst`: a JOIN in a stream is its first packet, bears its sender's
  name, and its sender has no answer, so that nobody is answered twice;
* `NoTraceBeforeConnect`: what connects is new to the server;
* `AckMeansAdmitted`: whoever believes to be logged in was sent an ACK. With
  `RosterIsAdmitted`, this gives `OneUserPerName`;
* `BacklogUnanswered`: whoever waits to be accepted has no answer yet, so that the new
  owner of a descriptor needs no entry in the roster.

One lemma per part (`TypeStep`, `SocketStep`, `RosterStep` with `FoundStep`, `JoinStep`,
`TraceStep`, `AckStep`, `BacklogStep`) shows that a step keeps it, by cases on the actions;
`RemaindersProperties`, `ReceivedEffect`, `SendAllEffect` and `AcceptEffect` say
what the helpers do. For the refinement, a JOIN handled with an ACK or a NAK is
an `Admit` or a `Refuse`, and every other step leaves `answer` alone.

`SbcpLinesProofs` goes on, from the same assumptions, to

* `ChatTrueSenderUntilLeave`: `Spec => []TrueSenderUntilLeave`;
* `ChatImplementsBroadcast`: `Spec => BroadcastSpec`, if `BufStart = {NoLine}`, that is, if
  `in_buf` starts empty. Otherwise line 0, which nobody typed, may be heard, and the
  refinement is false; `LInv` holds all the same.

That nobody hears a line twice or out of order depends on every place where a
line may be: at the terminal, in `in_buf`, in the stream to the server, in
`tx_buf`, in the stream to a recipient, and shown. `ChatLinesInvariant` proves
`Spec => []LInv`, where `LInv` adds to `IInv`

* `OwnLinesInOrder`: in a client's stream, its lines are in the order typed, and
  before the one that waits in `in_buf`;
* `ForwardedArePast`: what was forwarded to somebody comes before all that its
  author still has on the way to the server (`PastLines`), and is not the recipient's own;
* `ForwardedInOrder`: what waits in the stream to a client, and what it has
  shown, keep each author's order together;
* `BroadcastIsNew`: the line in `tx_buf` is later than any of its author's
  that were forwarded to those in `fwd_left`, however many `sendall()` of a
  broadcast block in between;
* `RosterTruthful` and `LinesTruthful`, while no admitted client has left: a
  roster entry's descriptor leads to the client admitted by its name, and a line
  goes under its author's name from `tx_buf` to the screen.

With the last, a shown line's name is that of its author, which is
`TrueSenderUntilLeave`; with the others, a line that is shown was not shown, and
no later one was, so that it is a `Hear` of `Broadcast`.

**The TFTP server.** `TftpProofs` proves, for any set of clients, any requests and
any files, any number of descriptors and of ports, any modulus of block numbers, and without
any assumption on what the network loses, repeats or reorders:

* `TftpTypeOK`, `TftpTimerArmed`, `TftpSocketsHaveClients`: `Spec => []` of the
  property each is named for.

The assumption is `TftpAssumption`, on the constants. `TftpInvariant` proves
`Spec => []TftpInv`: the three properties, the finiteness of the list, and
`SenderKnown`, that once there is a client `their_addr` names one, since a
retransmission goes to whoever sent the last datagram. `TimerArmed` rests on the
counter: several nodes may be removed at once while the counter drops by one,
and it must not reach 0 before the list is empty. `SocketsHaveClients` rests on
descriptors, whose numbers files and sockets share: an entry may hold the number of
a file that was closed, and perhaps opened again as a socket. Such a number is
never closed as a file, because the server reads from it first, and a read from
a socket does not return.

`TftpTransferProofs` proves of the transfers, for the same constants,

* `TftpPortServesOneClient`, `TftpClosedOnlyWhenSent`: `Spec => []` of the
  property each is named for;
* `TftpImplementsTransfer`: `Spec => TransferSpec`, under the assumption `SizesFit`.

All three speak of the time before the first retransmission (`clean`), after
which they are false. `TftpTransferInvariant` proves `Spec => []TransferInv`,
which adds to `TftpInv`, as long as `clean` holds, the conjuncts of `CleanInv`:

* `UniqueIds` and `PortsUsed`: list entries are told apart, and the port of the
  next socket is one that nobody has heard of;
* `DataAsAsked`: every DATA on the network is a block, under its number, of
  the file that its addressee asked for;
* `OneClientPerPort`: DATA from one port goes to one client;
* `AcksAreHonest`: an ACK on the network names a block its sender has, and was sent to the
  port that the client is locked to;
* `FilesOpen`: the list finds, for a socket that has sent data, the open file of its
  client, and no two such sockets share one, although entries with stale descriptors are
  in the list as well;
* `FinishedHaveAll`: the client of a transfer that the server ended has it all.

`SizesFit` says that a regular file has at most `BLOCK_MOD` blocks, and fewer if
its last one is full. `MAX_FILE_SIZE` is 32 MB, which is 65536 blocks of 512
bytes, and `BLOCK_MOD` is 65536 in the code: the only file that the server sends
and `SizesFit` leaves out is the one of exactly 32 MB. For that file the refinement is
false: its last block is full and number 0, the ACK of it makes the server start
again at block 1, and the client takes that for one block more (the hazard at
`server.c:303`). The first two theorems do not need the assumption. With it, `NeverTooMany`
says that a client has at most the blocks of its file, so that the block it
expects is determined by its number.

**The cache.** `CacheUseProofs` proves, for any pages, lifetimes of responses,
limit of entries and number of fetches:

* `CacheEvictionSafe`: `Spec => []EvictionSafe` of `CacheUse`;
* `CacheEvictsOneLeastRecent`: `Spec => EvictsOneLeastRecent`, the action property.

The assumption is `CacheAssumption`. `EvictionSafe` is inductive but for the
finiteness of the list and the types of its entries, which `CacheOk` adds: a
lookup is a CHOOSE of the node with the greatest `id`, and a nonempty finite list
has one (`FirstProperties`, by the number of nodes in front of each); an eviction
chooses among the least access times (`OldestProperties`). A miss or an eviction
removes at least one entry, so that lowering the counter by one, or not at all
when one is added, keeps it above the length of the list (`RemoveKeepsCache`,
`AddKeepsCache`). These lemmas are in `HttpCacheProofs`, one for each operation, and speak of
the operation and not of its caller.

**The proxy.** `HttpProofs` proves, for any users, requests and ways of cutting
them, any pages and responses, and any number of descriptors:

* `HttpTypeOK`, `HttpDescriptorsMatchList`, `HttpEvictionSafe`: `Spec => []` of the
  property each is named for;
* `HttpEvictsOneLeastRecent`: `Spec => EvictsOneLeastRecent`, the action property.

The assumptions are `CacheAssumption` and `NetAssumption`. `DescriptorsMatchList` is not
inductive: a second request of a client would open a second remote server in the entry
of the first, which then would be watched for nobody. `HttpInvariant` proves `Spec =>
[]HttpInv`, which adds to it (as `ListInv`, without cardinalities) and to the lemmas'
`CacheOk`

* `GetComesFirst` and `AsksOnce`: only the first chunk of a request is one that
  `proxy.c` looks up, and whoever waits for a remote server has none left. This is
  how `client.c` behaves; the code of the proxy does not insist on it;
* `NotYetKnown`: who has not started is neither connected nor in the backlog, so
  that its request is not one of somebody who waits already;
* `PagesNoted`: whoever waits for a remote server has noted its page, under which the
  response is inserted.

There is one lemma for each action, and one for each way a handler changes list and
descriptors together (`AcceptedList`, `NotedList`, `HitList`, `AnsweredList`). The
evictions of the proxy follow from the lemmas about the cache, because a
connection to a remote server ends only when its response is inserted
(`OnlyInsertionEnds`).

The two refinements of the proxy are proved as well:

* `HttpImplementsWeb`: `Spec => WebSpec`, if `TzShift <= 0`;
* `HttpUsesCache`: `Spec => UsesCache`.

`HttpWebInvariant` proves `Spec => []WebInv`, at every local time. It adds to
`HttpInv` what ties users, entries of the list, remote servers and responses together:

* `OnePlace` and `RepliedAreGone`: a user is on one descriptor, or once in the
  backlog, and on none when it has a reply, so that nobody is answered twice;
* `WaitersMatch`: whoever waits for a remote server wants the page that this
  server was asked for, though descriptors are given out again within a pass;
* `SitesMatch` and `EntriesMatch`: a response is for the page its server was
  asked for, and in the cache for the page of its entry, whose `expiry_time` is the
  time in its Expires header, moved by `TzShift`.

A step of the proxy that writes a response is then an `Answer` of `Web`; a remote server
that ends its answer is a `Learn`, and most other steps are a `Forget` that may forget
nothing. The hypothesis `TzShift <= 0` is needed only for hits: `mktime()` takes a GMT
time for a local one, which puts the expiry too early in Greenwich's east and too late
in its west. There the proxy serves responses that have expired, the property is false,
and no run is about it (the hazard at `cache.c:91`). `HttpUsesCache` needs one part
more, `ResponsesDated`: a response that has come was sent at some time, not later than
now. Each miss, fetch and insertion is a step of `CacheUse`, whose `misses` are the
cardinalities of the sets of open connections.

Every invariant, action property and refinement of a passing run is a theorem, three of
the refinements under a hypothesis (`SizesFit`, `TzShift <= 0`, `BufStart = {NoLine}`)
without which they are false. Only model-checked: the liveness properties
(`JoinAnswered`, `LeaverReclaimed`, `EveryoneServed`, `TransferCompletes`, `Accepted`,
`Answered`), which are out of this prover's reach, as ENABLED is. No module uses
RECURSIVE.

## Not modelled

* Bytes: lengths, the layout of packets, parsing of requests and URLs, limits on
  their lengths. So an ACK that overflows its buffer, a response longer than the
  proxy's buffer and a binary response sent from the cache are hazards without a property.
* A `recv()` that returns the first packet in part.
* A send that fills a buffer in part, `sendto()` that fails, a terminal at its end.
* Time zones in the runs: the model has `TzShift`, and the runs leave it at 0.
* The helpers of TFTP and HTTP that only convert text or print, and the tests (straight-line
  programs); the ns-2 scripts (the behaviour is the simulator's).

## Plan

The order was the chat room first, where several programs of the repository
interact, then its proofs, then TFTP, then HTTP, then the abstract
specifications of all three, liveness of the proxy and of TFTP, and then the
proofs of the lines of the chat room, of the transfers and of what the proxy
promises. What is left:

1. To state and prove what does hold where `SizesFit` and `TzShift <= 0` fail: of
   the file of 32 MB, and of how long an expired response is served.
2. To state and prove what holds after the first retransmission.
