------------------------- MODULE TftpTransferProofs -------------------------
(***************************************************************************)
(* Machine-checked proofs about the transfers of Tftp up to the first       *)
(* retransmission: to whom the blocks of a port go, when a transfer ends,   *)
(* and that Tftp implements FileTransfer.                                   *)
(***************************************************************************)
EXTENDS TftpProofs

-----------------------------------------------------------------------------
(* The inductive invariant.                                                  *)

DataMsgs == {m \in msgs : m.type = "DATA"}
AckMsgs  == {m \in msgs : m.type = "ACK"}

(* The sockets that have sent data.                                          *)
Senders == {i \in Fd : fdtab[i].kind = "sock" /\ \E m \in DataMsgs : m.port = fdtab[i].port}

(* The descriptor the client list finds for each socket.                     *)
FileOf == [i \in Fd |-> find_client(i)]

(* No two nodes of the client list have one id.                              *)
Distinct(list) == \A e, k \in list : e.id = k.id => e = k
UniqueIds      == Distinct(clients)

(* The next socket has a port that nobody has heard of.                      *)
PortsUsed ==
    /\ \A m \in DataMsgs : m.port <= ports
    /\ \A t \in finished : t <= ports
    /\ \A i \in Fd : fdtab[i].kind = "sock" => fdtab[i].port <= ports

(* What is sent to a client are blocks of the file it asked for, numbered     *)
(* modulo BLOCK_MOD.                                                         *)
DataAsAsked ==
    \A m \in DataMsgs :
        /\ m.block[1] = wants[m.to] /\ kind[wants[m.to]] = "regular"
        /\ m.block[2] <= blocks[wants[m.to]]
        /\ m.num = m.block[2] % BLOCK_MOD

(* All that is sent from a port goes to one client.                          *)
OneClientPerPort == \A m, n \in DataMsgs : m.port = n.port => m.to = n.to

(* An ACK is from a client locked to the port, which has sent it data, and   *)
(* names a block the client has.                                             *)
AcksAreHonest ==
    \A a \in AckMsgs :
        /\ tid[a.from] = a.port
        /\ \E k \in 1..Len(got[a.from]) : a.num = k % BLOCK_MOD
        /\ \E d \in DataMsgs : d.port = a.port /\ d.to = a.from

(* The list finds, for a socket that has sent data, the open file of its     *)
(* client, and no two such sockets have one descriptor of a file.            *)
FilesOpen ==
    /\ \A i \in Senders, m \in DataMsgs :
          m.port = fdtab[i].port =>
             FileOf[i] \in Fd /\ fdtab[FileOf[i]] = FileAt(wants[m.to])
    /\ \A i, j \in Senders : FileOf[i] = FileOf[j] => i = j

(* The client of a port that is finished is locked to it and has its file.    *)
FinishedHaveAll ==
    \A m \in DataMsgs : m.port \in finished =>
        tid[m.to] = m.port /\ Len(got[m.to]) >= blocks[wants[m.to]]

CleanInv ==
    /\ UniqueIds
    /\ PortsUsed
    /\ DataAsAsked
    /\ OneClientPerPort
    /\ AcksAreHonest
    /\ FilesOpen
    /\ FinishedHaveAll

TransferInv == TftpInv /\ (clean => CleanInv)

(* Block numbers of a file do not repeat and its end is seen: MAX_FILE_SIZE   *)
(* is 65536 blocks of 512 bytes, and the file of exactly that size, whose     *)
(* last block is full, is the one that is left out.                          *)
SizesFit ==
    \A f \in File : kind[f] = "regular" =>
        blocks[f] <= BLOCK_MOD /\ (lastFull[f] => blocks[f] < BLOCK_MOD)

(* A client never has more blocks than its file, and one that waits although *)
(* it has them all asked for a file whose last block is full.                *)
NeverTooMany ==
    \A c \in Peer :
        Len(got[c]) > 0 =>
            /\ kind[wants[c]] = "regular" /\ Len(got[c]) <= blocks[wants[c]]
            /\ cst[c] # "done" /\ Len(got[c]) = blocks[wants[c]] => lastFull[wants[c]]

-----------------------------------------------------------------------------
(* Lemmas about the client list, as a list.                                  *)

Of(list, s)    == {e \in list : e.sockfd = s}
Found(list, s) == IF Of(list, s) = {} THEN -1 ELSE First(Of(list, s)).filefd

(* The node in front, of a list whose ids are distinct.                       *)
LEMMA FrontIsFirst ==
    ASSUME NEW list, IsFiniteSet(list), \A e \in list : e.id \in Int, Distinct(list),
           NEW x \in list, \A e \in list : e.id <= x.id
    PROVE  First(list) = x
<1>1. First(list) \in list /\ x.id <= First(list).id
  BY FirstProperties
<1>2. First(list).id = x.id
  BY <1>1
<1> QED
  BY <1>1, <1>2 DEF Distinct

(* A node put in front is found for its socket, and no other changes.         *)
LEMMA FoundAfterAdd ==
    ASSUME NEW list, IsFiniteSet(list), \A e \in list : e.id \in Int, Distinct(list),
           NEW x, x.id \in Int, \A e \in list : e.id < x.id
    PROVE  /\ Distinct(list \cup {x})
           /\ Found(list \cup {x}, x.sockfd) = x.filefd
           /\ \A s : s # x.sockfd => Found(list \cup {x}, s) = Found(list, s)
<1>1. Distinct(list \cup {x})
  BY DEF Distinct
<1>2. Found(list \cup {x}, x.sockfd) = x.filefd
  <2> DEFINE E == Of(list \cup {x}, x.sockfd)
  <2>1. IsFiniteSet(list \cup {x}) /\ E \subseteq list \cup {x} /\ x \in E
    BY FS_AddElement DEF Of
  <2>2. IsFiniteSet(E) /\ (\A e \in E : e.id \in Int) /\ Distinct(E)
    BY <1>1, <2>1, FS_Subset DEF Distinct
  <2>3. \A e \in E : e.id <= x.id
    BY <2>1
  <2>4. Found(list \cup {x}, x.sockfd) = IF E = {} THEN -1 ELSE First(E).filefd
    BY DEF Found
  <2> HIDE DEF E
  <2>5. First(E) = x
    BY <2>1, <2>2, <2>3, FrontIsFirst
  <2> QED
    BY <2>1, <2>4, <2>5
<1>3. ASSUME NEW s, s # x.sockfd
      PROVE  Found(list \cup {x}, s) = Found(list, s)
  <2>1. Of(list \cup {x}, s) = Of(list, s)
    BY <1>3 DEF Of
  <2> QED
    BY <2>1 DEF Found
<1> QED
  BY <1>1, <1>2, <1>3

(* The nodes of a socket removed: no other socket changes.                    *)
LEMMA FoundAfterRemove ==
    ASSUME NEW list, Distinct(list), NEW i
    PROVE  /\ Distinct(list \ Of(list, i))
           /\ \A s : s # i => Found(list \ Of(list, i), s) = Found(list, s)
<1>1. Distinct(list \ Of(list, i))
  BY DEF Distinct
<1>2. ASSUME NEW s, s # i
      PROVE  Found(list \ Of(list, i), s) = Found(list, s)
  <2>1. Of(list \ Of(list, i), s) = Of(list, s)
    BY <1>2 DEF Of
  <2> QED
    BY <2>1 DEF Found
<1> QED
  BY <1>1, <1>2

(* A node replaced by one with its id, socket and file: nothing changes.      *)
LEMMA FoundAfterReplace ==
    ASSUME NEW list, IsFiniteSet(list), \A e \in list : e.id \in Int, Distinct(list),
           NEW n \in list, NEW m,
           m.id = n.id, m.sockfd = n.sockfd, m.filefd = n.filefd
    PROVE  /\ Distinct(Replace(list, n, m))
           /\ \A s : Found(Replace(list, n, m), s) = Found(list, s)
<1> DEFINE new == Replace(list, n, m)
<1>1. /\ IsFiniteSet(new)
      /\ \A k \in new : (k \in list /\ k # n) \/ k = m
      /\ \A k \in list : (IF k = n THEN m ELSE k) \in new
  <2>1. IsFiniteSet(new) /\ \A k \in list : (IF k = n THEN m ELSE k) \in new
    BY ReplaceProperties
  <2>2. \A k \in new : \E j \in list : k = IF j = n THEN m ELSE j
    BY DEF Replace
  <2> QED
    BY <2>1, <2>2
<1> HIDE DEF new
<1>2. Distinct(new)
  BY <1>1 DEF Distinct
<1>3. ASSUME NEW s
      PROVE  Found(new, s) = Found(list, s)
  <2> DEFINE E == Of(list, s)
             F == Of(new, s)
  <2>1. /\ \A k \in F : (k \in E /\ k # n) \/ (k = m /\ n \in E)
        /\ \A k \in E : IF k = n THEN m \in F ELSE k \in F
    BY <1>1 DEF Of
  <2>2. /\ E \subseteq list /\ IsFiniteSet(E) /\ \A e \in E : e.id \in Int
    BY FS_Subset DEF Of
  <2>3. F \subseteq new /\ IsFiniteSet(F)
    BY <1>1, FS_Subset DEF Of
  <2>4. /\ Found(list, s) = IF E = {} THEN -1 ELSE First(E).filefd
        /\ Found(new, s) = IF F = {} THEN -1 ELSE First(F).filefd
    BY DEF Found
  <2> HIDE DEF E, F
  <2>5. CASE E = {}
    BY <2>1, <2>4, <2>5
  <2>6. CASE E # {}
    <3>1. First(E) \in E /\ \A e \in E : e.id <= First(E).id
      BY <2>2, <2>6, FirstProperties
    <3>2. PICK y \in F : y.id = First(E).id /\ y.filefd = First(E).filefd
      BY <2>1, <3>1
    <3>3. \A e \in F : e.id \in Int /\ e.id <= y.id
      BY <2>1, <2>2, <3>1, <3>2
    <3>4. Distinct(F)
      BY <1>2, <2>3 DEF Distinct
    <3>5. First(F) = y
      BY <2>3, <3>2, <3>3, <3>4, FrontIsFirst
    <3> QED
      BY <2>4, <2>6, <3>2, <3>5
  <2> QED
    BY <2>5, <2>6
<1> QED
  BY <1>2, <1>3 DEF new

(* What the server looks up is what its list has.                             *)
LEMMA FileOfFound ==
    /\ FileOf = [i \in Fd |-> Found(clients, i)]
    /\ FileOf' = [i \in Fd |-> Found(clients', i)]
    /\ \A i : find_client(i) = Found(clients, i)
    /\ \A i : remove_client(i) = clients \ Of(clients, i)
  BY DEF FileOf, Found, Of, find_client, remove_client, Entries

(* A client added: its file is found for its socket.                          *)
LEMMA AddClientFiles ==
    ASSUME ServerTypeOK, IsFiniteSet(clients), UniqueIds,
           NEW s \in Fd, NEW f, NEW n, clients' = add_client(s, f, n)
    PROVE  /\ UniqueIds'
           /\ FileOf'[s] = f
           /\ \A i \in Fd \ {s} : FileOf'[i] = FileOf[i]
<1> DEFINE new == [id |-> FrontId(clients), sockfd |-> s, filefd |-> f, block_num |-> n]
<1>1. (\A e \in clients : e.id \in Nat) /\ (\A e \in clients : e.id \in Int)
  BY DEF ServerTypeOK, Client
<1>2. FrontId(clients) \in Int /\ \A e \in clients : e.id < FrontId(clients)
  BY <1>1, FrontIdProperties
<1>3. new.id = FrontId(clients) /\ new.sockfd = s /\ new.filefd = f
  OBVIOUS
<1>4. clients' = clients \cup {new}
  BY DEF add_client
<1> HIDE DEF new
<1>5. /\ Distinct(clients \cup {new})
      /\ Found(clients \cup {new}, new.sockfd) = new.filefd
      /\ \A i : i # new.sockfd => Found(clients \cup {new}, i) = Found(clients, i)
  <2>1. new.id \in Int /\ (\A e \in clients : e.id < new.id) /\ Distinct(clients)
    BY <1>2, <1>3 DEF UniqueIds
  <2> QED
    BY <1>1, <2>1, FoundAfterAdd
<1> QED
  BY <1>3, <1>4, <1>5, FileOfFound DEF UniqueIds

(* A client removed.                                                          *)
LEMMA RemoveClientFiles ==
    ASSUME UniqueIds, NEW s \in Fd, clients' = remove_client(s)
    PROVE  UniqueIds' /\ \A i \in Fd \ {s} : FileOf'[i] = FileOf[i]
<1>1. clients' = clients \ Of(clients, s)
  BY FileOfFound
<1>2. /\ Distinct(clients \ Of(clients, s))
      /\ \A i : i # s => Found(clients \ Of(clients, s), i) = Found(clients, i)
  BY FoundAfterRemove DEF UniqueIds
<1> QED
  BY <1>1, <1>2, FileOfFound DEF UniqueIds

(* A block number noted, for whichever socket.                                *)
LEMMA UpdateClientFiles ==
    ASSUME ServerTypeOK, IsFiniteSet(clients), UniqueIds,
           NEW s, NEW n, clients' = update_client(s, n)
    PROVE  UniqueIds' /\ FileOf' = FileOf
<1>1. CASE Entries(s) = {}
  <2>1. clients' = clients
    BY <1>1 DEF update_client
  <2> QED
    BY <2>1, FileOfFound DEF UniqueIds
<1>2. CASE Entries(s) # {}
  <2> DEFINE old == First(Entries(s))
             new == [old EXCEPT !.block_num = n]
  <2>1. old \in clients
    <3>1. IsFiniteSet(Entries(s)) /\ Entries(s) \subseteq clients
      BY FS_Subset DEF Entries
    <3>2. \A e \in Entries(s) : e.id \in Int
      BY <3>1 DEF ServerTypeOK, Client
    <3> QED
      BY <1>2, <3>1, <3>2, FirstProperties
  <2>2. clients' = Replace(clients, old, new)
    BY <1>2 DEF update_client
  <2>3. old \in Client /\ \A e \in clients : e.id \in Int
    BY <2>1 DEF ServerTypeOK, Client
  <2> HIDE DEF old
  <2>4. new.id = old.id /\ new.sockfd = old.sockfd /\ new.filefd = old.filefd
    BY <2>3 DEF Client
  <2> HIDE DEF new
  <2>5. /\ Distinct(Replace(clients, old, new))
        /\ \A i : Found(Replace(clients, old, new), i) = Found(clients, i)
    BY <2>1, <2>3, <2>4, FoundAfterReplace DEF UniqueIds
  <2> QED
    BY <2>2, <2>5, FileOfFound DEF UniqueIds
<1> QED
  BY <1>1, <1>2

(* Block numbers wrap around.                                                 *)
LEMMA ModAtMost ==
    ASSUME NEW k \in Nat
    PROVE  k % BLOCK_MOD \in Nat /\ k % BLOCK_MOD <= k
<1>1. BLOCK_MOD \in Nat /\ BLOCK_MOD > 1
  BY TftpAssumption
<1>2. CASE k < BLOCK_MOD
  BY <1>1, <1>2
<1>3. CASE k >= BLOCK_MOD
  <2>1. k % BLOCK_MOD \in 0..(BLOCK_MOD - 1)
    BY <1>1
  <2> QED
    BY <1>1, <1>3, <2>1
<1> QED
  BY <1>1, <1>2, <1>3

(* They do not repeat within one turn.                                        *)
LEMMA ModDistinct ==
    ASSUME NEW a \in 1..BLOCK_MOD, NEW b \in 1..BLOCK_MOD, a % BLOCK_MOD = b % BLOCK_MOD
    PROVE  a = b
<1>1. BLOCK_MOD \in Nat /\ BLOCK_MOD > 1
  BY TftpAssumption
<1>2. \A k \in 1..(BLOCK_MOD - 1) : k % BLOCK_MOD = k
  BY <1>1
<1>3. BLOCK_MOD % BLOCK_MOD = 0
  BY <1>1
<1> QED
  BY <1>1, <1>2, <1>3

-----------------------------------------------------------------------------
(* What the steps have in common.                                            *)

(* The types of what the invariant is about.                                  *)
LEMMA TransferTypes ==
    ASSUME TftpInv
    PROVE  /\ Port \subseteq Nat \ {0} /\ ports \in Nat
           /\ \A m \in DataMsgs : /\ m.type = "DATA" /\ m.to \in Peer /\ m.port \in Port
                                  /\ m.num \in BlockNum /\ m.block \in Block
           /\ \A a \in AckMsgs : a.from \in Peer /\ a.port \in Port /\ a.num \in BlockNum
           /\ \A i \in Fd : fdtab[i].kind = "sock" => fdtab[i].port \in Port
           /\ finished \subseteq Port
           /\ fdtab \in [Fd -> Descriptor]
           /\ tid \in [Peer -> Port \cup {0}] /\ got \in [Peer -> Seq(Block)]
           /\ FileOf \in [Fd -> Fd \cup {-1}]
<1>1. Port \subseteq Nat \ {0} /\ ports \in Nat /\ finished \subseteq Port
  BY TftpAssumption, TypeParts DEF TftpInv, ServerInv, ScalarTypeOK, Port
<1>2. \A m \in msgs : m \in Msg
  BY DEF TftpInv, PeerTypeOK
<1>3. \A m \in DataMsgs : /\ m.type = "DATA" /\ m.to \in Peer /\ m.port \in Port
                          /\ m.num \in BlockNum /\ m.block \in Block
  BY <1>2, DatagramFields DEF DataMsgs
<1>4. \A a \in AckMsgs : a.from \in Peer /\ a.port \in Port /\ a.num \in BlockNum
  BY <1>2, DatagramFields DEF AckMsgs
<1>5. \A i \in Fd : fdtab[i].kind = "sock" => fdtab[i].port \in Port
  BY DescriptorKinds DEF TftpInv, ServerInv
<1>6. fdtab \in [Fd -> Descriptor]
  BY TypeParts DEF TftpInv, ServerInv
<1>7. tid \in [Peer -> Port \cup {0}] /\ got \in [Peer -> Seq(Block)]
  BY DEF TftpInv, PeerTypeOK
<1>8. FileOf \in [Fd -> Fd \cup {-1}]
  BY FindClientType DEF TftpInv, ServerInv, FileOf
<1> QED
  BY <1>1, <1>3, <1>4, <1>5, <1>6, <1>7, <1>8

(* A socket that has sent data to a client has the file of this client.       *)
LEMMA SenderHasFile ==
    ASSUME TftpInv, CleanInv, NEW i \in Senders
    PROVE  /\ FileOf[i] \in Fd /\ fdtab[FileOf[i]].kind = "file"
           /\ fdtab[i].kind = "sock" /\ fdtab[i].port <= ports
           /\ \E m \in DataMsgs : m.port = fdtab[i].port
<1>1. PICK m \in DataMsgs : m.port = fdtab[i].port
  BY DEF Senders
<1>2. FileOf[i] \in Fd /\ fdtab[FileOf[i]] = FileAt(wants[m.to])
  BY <1>1 DEF CleanInv, FilesOpen
<1>3. fdtab[i].kind = "sock" /\ fdtab[i].port <= ports
  BY DEF Senders, CleanInv, PortsUsed
<1> QED
  BY <1>1, <1>2, <1>3 DEF FileAt

(* A datagram that is neither DATA nor ACK.                                    *)
LEMMA SendOther ==
    ASSUME NEW d, d.type \notin {"DATA", "ACK"}, msgs' = msgs \cup {d}
    PROVE  DataMsgs' = DataMsgs /\ AckMsgs' = AckMsgs
  BY DEF DataMsgs, AckMsgs

(* The same datagrams.                                                        *)
LEMMA SendNothing ==
    ASSUME msgs' = msgs
    PROVE  DataMsgs' = DataMsgs /\ AckMsgs' = AckMsgs
  BY DEF DataMsgs, AckMsgs

(* Neither data nor ACKs sent, nor anything kept by a client.                  *)
LEMMA SameTalk ==
    ASSUME CleanInv, DataMsgs' = DataMsgs, AckMsgs' = AckMsgs, UNCHANGED <<tid, got>>
    PROVE  /\ DataAsAsked' /\ OneClientPerPort' /\ AcksAreHonest'
           /\ finished' = finished => FinishedHaveAll'
<1>1. DataAsAsked' /\ OneClientPerPort'
  BY DEF CleanInv, DataAsAsked, OneClientPerPort
<1>2. AcksAreHonest'
  BY DEF CleanInv, AcksAreHonest
<1>3. finished' = finished => FinishedHaveAll'
  BY DEF CleanInv, FinishedHaveAll
<1> QED
  BY <1>1, <1>2, <1>3

(* At most one socket opened, with the next port.                             *)
LEMMA PortsGrow ==
    ASSUME TftpInv, CleanInv, finished' = finished,
           ports' \in {ports, ports + 1},
           \A m \in DataMsgs' : m \in DataMsgs \/ m.port = ports',
           \A i \in Fd : fdtab'[i].kind = "sock" => fdtab'[i] = fdtab[i] \/ fdtab'[i] = SockAt(ports')
    PROVE  PortsUsed'
<1>1. /\ ports \in Nat /\ ports' \in Nat /\ ports <= ports' /\ Port \subseteq Nat
      /\ \A m \in DataMsgs : m.port \in Port
      /\ finished \subseteq Port
      /\ \A i \in Fd : fdtab[i].kind = "sock" => fdtab[i].port \in Port
  BY TransferTypes
<1>2. /\ \A m \in DataMsgs : m.port <= ports
      /\ \A t \in finished : t <= ports
      /\ \A i \in Fd : fdtab[i].kind = "sock" => fdtab[i].port <= ports
  BY DEF CleanInv, PortsUsed
<1>3. \A t \in Port : t <= ports => t <= ports'
  BY <1>1
<1>4. ASSUME NEW m \in DataMsgs'
      PROVE  m.port <= ports'
  <2>1. CASE m \in DataMsgs
    BY <1>1, <1>2, <1>3, <2>1
  <2>2. CASE m.port = ports'
    BY <1>1, <2>2
  <2> QED
    BY <2>1, <2>2
<1>5. \A t \in finished' : t <= ports'
  BY <1>1, <1>2, <1>3
<1>6. ASSUME NEW i \in Fd, fdtab'[i].kind = "sock"
      PROVE  fdtab'[i].port <= ports'
  <2>1. CASE fdtab'[i] = fdtab[i]
    <3>1. fdtab[i].port \in Port /\ fdtab[i].port <= ports
      BY <1>1, <1>2, <1>6, <2>1
    <3> QED
      BY <1>3, <2>1, <3>1
  <2>2. CASE fdtab'[i] = SockAt(ports')
    BY <1>1, <2>2 DEF SockAt
  <2> QED
    BY <1>6, <2>1, <2>2
<1> QED
  BY <1>4, <1>5, <1>6 DEF PortsUsed

(* No socket begins to send, and those that have sent keep their files.       *)
LEMMA FilesKept ==
    ASSUME CleanInv, DataMsgs' = DataMsgs,
           \A i \in Senders' :
              /\ i \in Senders
              /\ fdtab'[i] = fdtab[i] /\ FileOf'[i] = FileOf[i]
              /\ FileOf[i] \in Fd => fdtab'[FileOf[i]] = fdtab[FileOf[i]]
    PROVE  FilesOpen'
<1>1. ASSUME NEW i \in Senders', NEW m \in DataMsgs', m.port = fdtab'[i].port
      PROVE  FileOf'[i] \in Fd /\ fdtab'[FileOf'[i]] = FileAt(wants[m.to])
  BY <1>1 DEF CleanInv, FilesOpen
<1>2. ASSUME NEW i \in Senders', NEW j \in Senders', FileOf'[i] = FileOf'[j]
      PROVE  i = j
  BY <1>2 DEF CleanInv, FilesOpen
<1> QED
  BY <1>1, <1>2 DEF FilesOpen

(* Nothing of this changes, but that a port may be spent.                     *)
LEMMA QuietClean ==
    ASSUME TftpInv, CleanInv, UNCHANGED <<fdtab, clients, finished, tid, got>>,
           ports' \in {ports, ports + 1},
           DataMsgs' = DataMsgs, AckMsgs' = AckMsgs
    PROVE  CleanInv'
<1>1. UniqueIds'
  BY DEF CleanInv, UniqueIds
<1>2. PortsUsed'
  BY PortsGrow
<1>3. DataAsAsked' /\ OneClientPerPort' /\ AcksAreHonest' /\ FinishedHaveAll'
  BY SameTalk
<1>4. FilesOpen'
  <2>1. Senders' = Senders /\ FileOf' = FileOf
    BY FileOfFound DEF Senders
  <2> QED
    BY <2>1, FilesKept
<1> QED
  BY <1>1, <1>2, <1>3, <1>4 DEF CleanInv

(* A file opened at a free descriptor, for no client.                         *)
LEMMA OpenClean ==
    ASSUME TftpInv, CleanInv, NEW k \in Fd, fdtab[k].kind = "free", NEW f \in File,
           fdtab' = [fdtab EXCEPT ![k] = FileAt(f)],
           UNCHANGED <<msgs, ports, clients, finished, tid, got>>
    PROVE  CleanInv'
<1>1. DataMsgs' = DataMsgs /\ AckMsgs' = AckMsgs
  BY SendNothing
<1>2. fdtab'[k].kind = "file" /\ \A i \in Fd \ {k} : fdtab'[i] = fdtab[i]
  BY TransferTypes DEF FileAt
<1>3. PortsUsed'
  BY <1>1, <1>2, PortsGrow
<1>4. FilesOpen'
  <2>1. ASSUME NEW i \in Senders'
        PROVE  /\ i \in Senders
               /\ fdtab'[i] = fdtab[i] /\ FileOf'[i] = FileOf[i]
               /\ FileOf[i] \in Fd => fdtab'[FileOf[i]] = fdtab[FileOf[i]]
    <3>1. i \in Fd /\ i # k
      BY <1>2 DEF Senders
    <3>2. fdtab'[i] = fdtab[i] /\ i \in Senders
      BY <1>1, <1>2, <3>1 DEF Senders
    <3>3. FileOf'[i] = FileOf[i]
      BY FileOfFound
    <3> QED
      BY <1>2, <3>2, <3>3, SenderHasFile
  <2> QED
    BY <1>1, <2>1, FilesKept
<1> QED
  BY <1>1, <1>3, <1>4, SameTalk DEF CleanInv, UniqueIds

(* A socket opened for a client whose file is none of its own, and which is    *)
(* sent no data.                                                              *)
LEMMA ErrorClientClean ==
    ASSUME TftpInv, CleanInv, NEW s \in Fd, fdtab[s].kind = "free", NEW f, NEW n,
           clients' = add_client(s, f, n),
           fdtab' = [fdtab EXCEPT ![s] = SockAt(ports')], ports' = ports + 1,
           DataMsgs' = DataMsgs, AckMsgs' = AckMsgs,
           UNCHANGED <<finished, tid, got>>
    PROVE  CleanInv'
<1>1. UniqueIds' /\ \A i \in Fd \ {s} : FileOf'[i] = FileOf[i]
  BY AddClientFiles DEF TftpInv, ServerInv, CleanInv
<1>2. fdtab'[s] = SockAt(ports') /\ \A i \in Fd \ {s} : fdtab'[i] = fdtab[i]
  BY TransferTypes
<1>3. PortsUsed'
  BY <1>2, PortsGrow
<1>4. ASSUME NEW i \in Senders'
      PROVE  /\ i \in Senders
             /\ fdtab'[i] = fdtab[i] /\ FileOf'[i] = FileOf[i]
             /\ FileOf[i] \in Fd => fdtab'[FileOf[i]] = fdtab[FileOf[i]]
  <2>1. PICK m \in DataMsgs : m.port = fdtab'[i].port
    BY DEF Senders
  <2>2. m.port <= ports /\ m.port \in Nat /\ ports \in Nat
    BY TransferTypes DEF CleanInv, PortsUsed
  <2>3. i # s
    BY <1>2, <2>1, <2>2 DEF SockAt
  <2>4. i \in Senders
    BY <1>2, <2>1, <2>3 DEF Senders
  <2> QED
    BY <1>1, <1>2, <2>3, <2>4, SenderHasFile DEF Senders
<1>5. FilesOpen'
  BY <1>4, FilesKept
<1> QED
  BY <1>1, <1>3, <1>5, SameTalk DEF CleanInv

(* A socket closed, its entries left in the list.                             *)
LEMMA CloseClean ==
    ASSUME TftpInv, CleanInv, NEW s \in Fd, fdtab[s].kind = "sock",
           fdtab' = [fdtab EXCEPT ![s] = Free],
           UNCHANGED <<msgs, ports, clients, finished, tid, got>>
    PROVE  CleanInv'
<1>1. DataMsgs' = DataMsgs /\ AckMsgs' = AckMsgs
  BY SendNothing
<1>2. fdtab'[s].kind = "free" /\ \A i \in Fd \ {s} : fdtab'[i] = fdtab[i]
  BY TransferTypes DEF Free
<1>3. PortsUsed'
  BY <1>1, <1>2, PortsGrow
<1>4. ASSUME NEW i \in Senders'
      PROVE  /\ i \in Senders
             /\ fdtab'[i] = fdtab[i] /\ FileOf'[i] = FileOf[i]
             /\ FileOf[i] \in Fd => fdtab'[FileOf[i]] = fdtab[FileOf[i]]
  <2>1. i \in Fd /\ i # s
    BY <1>2 DEF Senders
  <2>2. fdtab'[i] = fdtab[i] /\ i \in Senders
    BY <1>1, <1>2, <2>1 DEF Senders
  <2>3. FileOf'[i] = FileOf[i]
    BY FileOfFound
  <2> QED
    BY <1>2, <2>2, <2>3, SenderHasFile
<1>5. FilesOpen'
  BY <1>1, <1>4, FilesKept
<1> QED
  BY <1>1, <1>3, <1>5, SameTalk DEF CleanInv, UniqueIds

(* A file and a socket opened for a client, which is sent the first block.     *)
LEMMA NewTransferClean ==
    ASSUME TftpInv, CleanInv, NEW c \in Peer,
           kind[wants[c]] = "regular", blocks[wants[c]] > 0,
           NEW k \in Fd, fdtab[k].kind = "free",
           NEW s \in Fd, fdtab[s].kind = "free", k # s, NEW n,
           clients' = add_client(s, k, n), ports' = ports + 1,
           fdtab' = [[fdtab EXCEPT ![k] = FileAt(wants[c])] EXCEPT ![s] = SockAt(ports')],
           msgs' = msgs \cup {Data(ports', c, 1, <<wants[c], 1>>)},
           UNCHANGED <<finished, tid, got>>
    PROVE  CleanInv'
<1> DEFINE new == Data(ports', c, 1, <<wants[c], 1>>)
<1>1. /\ new.type = "DATA" /\ new.port = ports' /\ new.to = c /\ new.num = 1
      /\ new.block[1] = wants[c] /\ new.block[2] = 1
  BY DEF Data
<1>2. msgs' = msgs \cup {new}
  OBVIOUS
<1> HIDE DEF new
<1>3. DataMsgs' = DataMsgs \cup {new} /\ AckMsgs' = AckMsgs
  BY <1>1, <1>2 DEF DataMsgs, AckMsgs
<1>4. /\ UniqueIds' /\ FileOf'[s] = k
      /\ \A i \in Fd \ {s} : FileOf'[i] = FileOf[i]
  BY AddClientFiles DEF TftpInv, ServerInv, CleanInv
<1>5. /\ fdtab'[s] = SockAt(ports') /\ fdtab'[k] = FileAt(wants[c])
      /\ \A i \in Fd \ {s, k} : fdtab'[i] = fdtab[i]
  BY TransferTypes
<1>6. /\ SockAt(ports').kind = "sock" /\ SockAt(ports').port = ports'
      /\ FileAt(wants[c]).kind = "file"
  BY DEF SockAt, FileAt
<1>7. /\ ports \in Nat /\ ports' > ports
      /\ \A m \in DataMsgs : m.port \in Nat /\ m.port <= ports
      /\ \A t \in finished : t \in Nat /\ t <= ports
  BY TransferTypes DEF CleanInv, PortsUsed
<1>8. PortsUsed'
  BY <1>1, <1>3, <1>5, <1>6, PortsGrow
<1>9. DataAsAsked'
  <2>1. 1 % BLOCK_MOD = 1
    BY TftpAssumption
  <2>2. blocks[wants[c]] \in Nat
    BY TftpAssumption
  <2>3. kind[wants[new.to]] = "regular" /\ new.block[2] <= blocks[wants[new.to]]
    BY <1>1, <2>2
  <2>4. \A m \in DataMsgs :
           /\ m.block[1] = wants[m.to] /\ kind[wants[m.to]] = "regular"
           /\ m.block[2] <= blocks[wants[m.to]]
           /\ m.num = m.block[2] % BLOCK_MOD
    BY DEF CleanInv, DataAsAsked
  <2> QED
    BY <1>1, <1>3, <2>1, <2>3, <2>4 DEF DataAsAsked
<1>10. OneClientPerPort'
  <2>1. \A m \in DataMsgs : m.port # new.port
    BY <1>1, <1>7
  <2> QED
    BY <1>3, <2>1 DEF CleanInv, OneClientPerPort
<1>11. AcksAreHonest'
  BY <1>3 DEF CleanInv, AcksAreHonest
<1>12. FinishedHaveAll'
  <2>1. new.port \notin finished
    BY <1>1, <1>7
  <2> QED
    BY <1>3, <2>1 DEF CleanInv, FinishedHaveAll
<1>13. ASSUME NEW i \in Senders', i # s
       PROVE  /\ i \in Senders /\ fdtab'[i] = fdtab[i] /\ FileOf'[i] = FileOf[i]
              /\ FileOf[i] \in Fd \ {s, k} /\ fdtab'[FileOf[i]] = fdtab[FileOf[i]]
              /\ fdtab[i].port <= ports
  <2>1. i \in Fd /\ fdtab'[i].kind = "sock" /\ \E m \in DataMsgs' : m.port = fdtab'[i].port
    BY DEF Senders
  <2>2. i # k /\ fdtab'[i] = fdtab[i]
    BY <1>5, <1>6, <1>13, <2>1
  <2>3. fdtab[i].port <= ports /\ fdtab[i].port \in Nat
    BY <2>1, <2>2, TransferTypes DEF CleanInv, PortsUsed
  <2>4. i \in Senders
    BY <1>1, <1>3, <1>7, <2>1, <2>2, <2>3 DEF Senders
  <2>5. FileOf[i] \in Fd \ {s, k}
    BY <2>4, SenderHasFile
  <2> QED
    BY <1>4, <1>5, <1>13, <2>1, <2>2, <2>3, <2>4, <2>5
<1>14. FilesOpen'
  <2>1. ASSUME NEW i \in Senders', NEW m \in DataMsgs', m.port = fdtab'[i].port
        PROVE  FileOf'[i] \in Fd /\ fdtab'[FileOf'[i]] = FileAt(wants[m.to])
    <3>1. CASE i = s
      <4>1. m = new
        BY <1>3, <1>5, <1>6, <1>7, <2>1, <3>1
      <4> QED
        BY <1>1, <1>4, <1>5, <3>1, <4>1
    <3>2. CASE i # s
      <4>1. i \in Senders /\ fdtab'[i] = fdtab[i] /\ FileOf'[i] = FileOf[i]
            /\ FileOf[i] \in Fd \ {s, k} /\ fdtab'[FileOf[i]] = fdtab[FileOf[i]]
            /\ fdtab[i].port <= ports
        BY <1>13, <3>2
      <4>2. m # new
        BY <1>1, <1>7, <2>1, <4>1, TransferTypes DEF Senders
      <4>3. m \in DataMsgs
        BY <1>3, <4>2
      <4> QED
        BY <2>1, <4>1, <4>3 DEF CleanInv, FilesOpen
    <3> QED
      BY <3>1, <3>2
  <2>2. ASSUME NEW i \in Senders', NEW j \in Senders', FileOf'[i] = FileOf'[j]
        PROVE  i = j
    <3>1. ASSUME i # s, j # s
          PROVE  i = j
      BY <1>13, <2>2, <3>1 DEF CleanInv, FilesOpen
    <3>2. (i = s /\ j # s => FALSE) /\ (i # s /\ j = s => FALSE)
      BY <1>4, <1>13, <2>2
    <3> QED
      BY <3>1, <3>2
  <2> QED
    BY <2>1, <2>2 DEF FilesOpen
<1> QED
  BY <1>4, <1>8, <1>9, <1>10, <1>11, <1>12, <1>14 DEF CleanInv

(* An ACK comes from the client whose file the list finds.                    *)
LEMMA AckFindsFile ==
    ASSUME TftpInv, CleanInv, NEW i \in Fd, NEW m \in AckMsgs,
           fdtab[i].kind = "sock", m.port = fdtab[i].port
    PROVE  /\ i \in Senders
           /\ FileOf[i] \in Fd /\ fdtab[FileOf[i]] = FileAt(wants[m.from])
           /\ \E d \in DataMsgs : d.port = m.port /\ d.to = m.from
           /\ \A d \in DataMsgs : d.port = m.port => d.to = m.from
<1>1. PICK d \in DataMsgs : d.port = m.port /\ d.to = m.from
  BY DEF CleanInv, AcksAreHonest
<1>2. i \in Senders
  BY <1>1 DEF Senders
<1>3. FileOf[i] \in Fd /\ fdtab[FileOf[i]] = FileAt(wants[m.from])
  BY <1>1, <1>2 DEF CleanInv, FilesOpen
<1>4. \A e \in DataMsgs : e.port = m.port => e.to = m.from
  BY <1>1 DEF CleanInv, OneClientPerPort
<1> QED
  BY <1>1, <1>2, <1>3, <1>4

(* What is read of an open file.                                              *)
LEMMA ReadFile ==
    ASSUME NEW k \in Fd, NEW f, fdtab[k] = FileAt(f), NEW n
    PROVE  /\ ReadAt(k, n).res \in {"eof", "data"}
           /\ ReadAt(k, n).res = "eof" => n >= blocks[f]
           /\ ReadAt(k, n).res = "data" => ~ (n >= blocks[f])
           /\ ReadAt(k, n).block = <<f, n + 1>>
<1>1. fdtab[k].kind = "file" /\ fdtab[k].file = f
  BY DEF FileAt
<1>2. k # -1
  BY TftpAssumption DEF Fd
<1>3. ReadAt(k, n) = IF n >= blocks[f] THEN [res |-> "eof", block |-> <<f, n + 1>>]
                                       ELSE [res |-> "data", block |-> <<f, n + 1>>]
  BY <1>1, <1>2 DEF ReadAt
<1>4. CASE n >= blocks[f]
  <2>1. ReadAt(k, n) = [res |-> "eof", block |-> <<f, n + 1>>]
    BY <1>3, <1>4
  <2> QED
    BY <1>4, <2>1
<1>5. CASE ~ (n >= blocks[f])
  <2>1. ReadAt(k, n) = [res |-> "data", block |-> <<f, n + 1>>]
    BY <1>3, <1>5
  <2> QED
    BY <1>5, <2>1
<1> QED
  BY <1>4, <1>5

-----------------------------------------------------------------------------
(* One lemma per handler.                                                    *)

(* A request for a file that is too large, or that stale state says is.       *)
LEMMA RrqTooLargeClean ==
    ASSUME TftpInv, CleanInv, NEW c \in Peer, RrqTooLarge(c), UNCHANGED peerVars
    PROVE  CleanInv'
<1>1. UNCHANGED <<finished, tid, got>>
  BY DEF RrqTooLarge, peerVars
<1>2. CASE FreeFd = {}
  <2>1. UNCHANGED <<msgs, ports, clients, fdtab>>
    BY <1>2 DEF RrqTooLarge, NoSocket
  <2> QED
    BY <1>1, <2>1, SendNothing, QuietClean
<1>3. CASE FreeFd # {}
  <2>1. /\ new_fd' = Min(FreeFd) /\ ports' = ports + 1
        /\ msgs' = msgs \cup {TooLarge(ports', c)}
        /\ IF send_data
           THEN NewClient(fdtab, fd, block_num)
           ELSE UNCHANGED <<fdtab, read_fds, clients, n_clients>>
    BY <1>3 DEF RrqTooLarge
  <2>2. DataMsgs' = DataMsgs /\ AckMsgs' = AckMsgs
    <3>1. TooLarge(ports', c).type = "ERROR"
      BY DEF TooLarge
    <3> QED
      BY <2>1, <3>1, SendOther
  <2>3. CASE send_data
    <3>1. PICK s \in Fd : s = new_fd' /\ fdtab[s].kind = "free"
      <4>1. FreeFd \subseteq Fd /\ \A i \in FreeFd : fdtab[i].kind = "free"
        BY DEF FreeFd, Free
      <4> QED
        BY <1>3, <2>1, <4>1, MinFree
    <3>2. /\ clients' = add_client(s, fd, block_num)
          /\ fdtab' = [fdtab EXCEPT ![s] = SockAt(ports')]
      BY <2>1, <2>3, <3>1 DEF NewClient
    <3> QED
      BY <1>1, <2>1, <2>2, <3>1, <3>2, ErrorClientClean
  <2>4. CASE ~ send_data
    <3>1. UNCHANGED <<fdtab, clients>>
      BY <2>1, <2>4
    <3> QED
      BY <1>1, <2>1, <2>2, <3>1, QuietClean
  <2> QED
    BY <2>3, <2>4
<1> QED
  BY <1>2, <1>3

(* A request for an empty file.                                               *)
LEMMA RrqEmptyClean ==
    ASSUME TftpInv, CleanInv, NEW c \in Peer, RrqEmpty(c), UNCHANGED peerVars
    PROVE  CleanInv'
<1>1. /\ FreeFd # {} /\ fd' = Min(FreeFd)
      /\ fdtab' = [fdtab EXCEPT ![fd'] = FileAt(wants[c])]
      /\ UNCHANGED <<msgs, ports, clients, finished, tid, got>>
  BY DEF RrqEmpty, peerVars
<1>2. wants[c] \in File
  BY TftpAssumption
<1>3. PICK k \in Fd : k = fd' /\ fdtab[k].kind = "free"
  BY <1>1, <1>2, OpenFile
<1> QED
  BY <1>1, <1>2, <1>3, OpenClean

(* A request that is served.                                                  *)
LEMMA RrqDataClean ==
    ASSUME TftpInv, CleanInv, NEW c \in Peer, RrqData(c), UNCHANGED peerVars
    PROVE  CleanInv'
<1> DEFINE tab == [fdtab EXCEPT ![fd'] = FileAt(wants[c])]
<1>1. /\ FreeFd # {} /\ fd' = Min(FreeFd)
      /\ kind[wants[c]] = "regular" /\ blocks[wants[c]] > 0
      /\ UNCHANGED <<finished, tid, got>>
      /\ IF FreeFd = {fd'}
         THEN NoSocket /\ fdtab' = tab
         ELSE /\ new_fd' = Min(FreeFd \ {fd'})
              /\ ports' = ports + 1
              /\ msgs' = msgs \cup {Data(ports', c, 1, <<wants[c], 1>>)}
              /\ NewClient(tab, fd', 1)
  BY DEF RrqData, peerVars
<1>2. wants[c] \in File
  BY TftpAssumption
<1>3. PICK k \in Fd : k = fd' /\ fdtab[k].kind = "free"
  BY <1>1, <1>2, OpenFile
<1>4. CASE FreeFd = {fd'}
  <2>1. /\ fdtab' = [fdtab EXCEPT ![k] = FileAt(wants[c])]
        /\ UNCHANGED <<msgs, ports, clients>>
    BY <1>1, <1>3, <1>4 DEF NoSocket
  <2> QED
    BY <1>1, <1>2, <1>3, <2>1, OpenClean
<1>5. CASE FreeFd # {fd'}
  <2>1. PICK s \in Fd : s = new_fd' /\ fdtab[s].kind = "free" /\ s # k
    <3>1. /\ FreeFd \ {fd'} \subseteq Fd /\ FreeFd \ {fd'} # {}
          /\ \A i \in FreeFd \ {fd'} : fdtab[i].kind = "free" /\ i # k
      BY <1>1, <1>3, <1>5 DEF FreeFd, Free
    <3>2. Min(FreeFd \ {fd'}) \in FreeFd \ {fd'}
      BY <3>1, MinFree
    <3> QED
      BY <1>1, <1>5, <3>1, <3>2
  <2>2. /\ clients' = add_client(s, k, 1) /\ ports' = ports + 1
        /\ fdtab' = [[fdtab EXCEPT ![k] = FileAt(wants[c])] EXCEPT ![s] = SockAt(ports')]
        /\ msgs' = msgs \cup {Data(ports', c, 1, <<wants[c], 1>>)}
    BY <1>1, <1>3, <1>5, <2>1 DEF NewClient
  <2> QED
    BY <1>1, <1>3, <2>1, <2>2, NewTransferClean
<1> QED
  BY <1>4, <1>5

(* An ACK that is answered with the next block of the client's file.          *)
LEMMA AckMoreClean ==
    ASSUME TftpInv, CleanInv, NEW i \in Fd, NEW m \in msgs, AckMore(i, m), UNCHANGED peerVars
    PROVE  CleanInv'
<1> DEFINE f   == wants[m.from]
           new == Data(fdtab[i].port, m.from, block_num', ReadAt(fd', m.num).block)
<1>1. /\ GotFrom(i, m) /\ m.type = "ACK"
      /\ fd' = find_client(i)
      /\ ReadAt(fd', m.num).res = "data"
      /\ block_num' = (m.num + 1) % BLOCK_MOD
      /\ msgs' = msgs \cup {new}
      /\ clients' = update_client(new_fd, block_num')
      /\ UNCHANGED <<fdtab, ports, finished, tid, got>>
  BY DEF AckMore, peerVars
<1>2. /\ m.from \in Peer /\ m.num \in BlockNum /\ m.port = fdtab[i].port
      /\ fdtab[i].kind = "sock" /\ m \in AckMsgs
  BY <1>1, GotFromEffect DEF AckMsgs
<1>3. /\ i \in Senders
      /\ FileOf[i] \in Fd /\ fdtab[FileOf[i]] = FileAt(f)
      /\ \E d \in DataMsgs : d.port = m.port /\ d.to = m.from
      /\ \A d \in DataMsgs : d.port = m.port => d.to = m.from
  BY <1>2, AckFindsFile
<1>4. fd' = FileOf[i]
  BY <1>1 DEF FileOf
<1>5. f \in File /\ blocks[f] \in Nat /\ m.num \in Nat
  BY <1>2, TftpAssumption DEF BlockNum
<1>6. ReadAt(fd', m.num).block = <<f, m.num + 1>> /\ m.num + 1 <= blocks[f]
  <2>1. ~ (m.num >= blocks[f]) /\ ReadAt(fd', m.num).block = <<f, m.num + 1>>
    BY <1>1, <1>3, <1>4, ReadFile
  <2> QED
    BY <1>5, <2>1
<1>7. /\ new.type = "DATA" /\ new.port = m.port /\ new.to = m.from
      /\ new.num = (m.num + 1) % BLOCK_MOD
      /\ new.block[1] = f /\ new.block[2] = m.num + 1
  BY <1>1, <1>2, <1>6 DEF Data
<1> HIDE DEF new
<1>8. DataMsgs' = DataMsgs \cup {new} /\ AckMsgs' = AckMsgs
  BY <1>1, <1>7 DEF DataMsgs, AckMsgs
<1>9. UniqueIds' /\ FileOf' = FileOf
  BY <1>1, UpdateClientFiles DEF TftpInv, ServerInv, CleanInv
<1>10. PortsUsed'
  BY <1>1, <1>2, <1>7, <1>8 DEF CleanInv, PortsUsed
<1>11. PICK d \in DataMsgs : d.port = m.port /\ d.to = m.from
  BY <1>3
<1>12. DataAsAsked'
  <2>1. kind[f] = "regular"
    BY <1>11 DEF CleanInv, DataAsAsked
  <2> QED
    BY <1>6, <1>7, <1>8, <2>1 DEF CleanInv, DataAsAsked
<1>13. OneClientPerPort'
  BY <1>3, <1>7, <1>8 DEF CleanInv, OneClientPerPort
<1>14. AcksAreHonest'
  BY <1>1, <1>8 DEF CleanInv, AcksAreHonest
<1>15. FinishedHaveAll'
  BY <1>1, <1>7, <1>8, <1>11 DEF CleanInv, FinishedHaveAll
<1>16. FilesOpen'
  <2>1. Senders' = Senders
    BY <1>1, <1>2, <1>3, <1>7, <1>8 DEF Senders
  <2>2. ASSUME NEW j \in Senders, NEW e \in DataMsgs \cup {new}, e.port = fdtab[j].port
        PROVE  FileOf[j] \in Fd /\ fdtab[FileOf[j]] = FileAt(wants[e.to])
    <3>1. CASE e = new
      BY <1>7, <1>11, <2>2, <3>1 DEF CleanInv, FilesOpen
    <3>2. CASE e # new
      BY <2>2, <3>2 DEF CleanInv, FilesOpen
    <3> QED
      BY <3>1, <3>2
  <2>3. \A j, k \in Senders : FileOf[j] = FileOf[k] => j = k
    BY DEF CleanInv, FilesOpen
  <2> QED
    BY <1>1, <1>8, <1>9, <2>1, <2>2, <2>3 DEF FilesOpen
<1> QED
  BY <1>9, <1>10, <1>12, <1>13, <1>14, <1>15, <1>16 DEF CleanInv

(* The ACK of the last block: the client has them all, and only its own file  *)
(* and socket are closed.                                                     *)
LEMMA AckLastClean ==
    ASSUME TftpInv, CleanInv, NEW i \in Fd, NEW m \in msgs, AckLast(i, m), UNCHANGED peerVars
    PROVE  CleanInv'
<1> DEFINE f == wants[m.from]
<1>1. /\ GotFrom(i, m) /\ m.type = "ACK"
      /\ fd' = find_client(i)
      /\ ReadAt(fd', m.num).res = "eof"
      /\ clients' = remove_client(i)
      /\ fdtab' = [fdtab EXCEPT ![fd'] = Free, ![i] = Free]
      /\ finished' = finished \cup {m.port}
      /\ UNCHANGED <<msgs, ports, tid, got>>
  BY DEF AckLast, peerVars
<1>2. /\ m.from \in Peer /\ m.num \in BlockNum /\ m.port = fdtab[i].port
      /\ fdtab[i].kind = "sock" /\ m \in AckMsgs
  BY <1>1, GotFromEffect DEF AckMsgs
<1>3. /\ i \in Senders
      /\ FileOf[i] \in Fd /\ fdtab[FileOf[i]] = FileAt(f)
      /\ \A d \in DataMsgs : d.port = m.port => d.to = m.from
  BY <1>2, AckFindsFile
<1>4. fd' = FileOf[i]
  BY <1>1 DEF FileOf
<1>5. f \in File /\ blocks[f] \in Nat /\ m.num \in Nat
  BY <1>2, TftpAssumption DEF BlockNum
<1>6. m.num >= blocks[f]
  BY <1>1, <1>3, <1>4, ReadFile
<1>7. tid[m.from] = m.port /\ Len(got[m.from]) >= blocks[f]
  <2>1. PICK k \in 1..Len(got[m.from]) : m.num = k % BLOCK_MOD
    BY <1>2 DEF CleanInv, AcksAreHonest
  <2>2. Len(got[m.from]) \in Nat
    BY <1>2, TransferTypes
  <2>3. k \in Nat /\ k <= Len(got[m.from])
    BY <2>2
  <2>4. m.num <= k
    BY <2>1, <2>3, ModAtMost
  <2> QED
    BY <1>2, <1>5, <1>6, <2>2, <2>3, <2>4 DEF CleanInv, AcksAreHonest
<1>8. DataMsgs' = DataMsgs /\ AckMsgs' = AckMsgs
  BY <1>1, SendNothing
<1>9. UniqueIds' /\ \A j \in Fd \ {i} : FileOf'[j] = FileOf[j]
  BY <1>1, RemoveClientFiles DEF CleanInv
<1>10. /\ fdtab'[i].kind = "free"
       /\ \A j \in Fd \ {i, FileOf[i]} : fdtab'[j] = fdtab[j]
       /\ fdtab'[FileOf[i]].kind = "free"
  BY <1>1, <1>3, <1>4, TransferTypes DEF Free
<1>11. PortsUsed'
  <2>1. \A t \in finished' : t <= ports
    BY <1>1, <1>2 DEF CleanInv, PortsUsed
  <2>2. \A j \in Fd : fdtab'[j].kind = "sock" => fdtab'[j] = fdtab[j]
    BY <1>10
  <2> QED
    BY <1>1, <1>8, <2>1, <2>2 DEF CleanInv, PortsUsed
<1>12. FinishedHaveAll'
  BY <1>1, <1>3, <1>7, <1>8 DEF CleanInv, FinishedHaveAll
<1>13. FilesOpen'
  <2>1. ASSUME NEW j \in Senders'
        PROVE  /\ j \in Senders
               /\ fdtab'[j] = fdtab[j] /\ FileOf'[j] = FileOf[j]
               /\ FileOf[j] \in Fd => fdtab'[FileOf[j]] = fdtab[FileOf[j]]
    <3>1. j \in Fd /\ fdtab'[j].kind = "sock"
      BY DEF Senders
    <3>2. j # i /\ j # FileOf[i] /\ fdtab'[j] = fdtab[j]
      BY <1>10, <3>1
    <3>3. j \in Senders
      BY <1>8, <3>1, <3>2 DEF Senders
    <3>4. FileOf[j] # FileOf[i]
      BY <1>3, <3>2, <3>3 DEF CleanInv, FilesOpen
    <3>5. FileOf[j] # i
      BY <1>2, <3>3, SenderHasFile
    <3> QED
      BY <1>9, <1>10, <3>1, <3>2, <3>3, <3>4, <3>5
  <2> QED
    BY <1>8, <2>1, FilesKept
<1> QED
  BY <1>1, <1>8, <1>9, <1>11, <1>12, <1>13, SameTalk DEF CleanInv

(* A client takes the block it waits for, and acknowledges it.                *)
LEMMA AcceptClean ==
    ASSUME TftpInv, CleanInv, NEW c \in Peer, NEW m \in msgs, Accept(c, m), UNCHANGED serverVars
    PROVE  CleanInv'
<1> DEFINE ack == Ack(c, m.port, m.num)
<1>1. /\ m.type = "DATA" /\ m.to = c /\ tid[c] \in {0, m.port}
      /\ m.num = (Len(got[c]) + 1) % BLOCK_MOD
      /\ tid' = [tid EXCEPT ![c] = m.port]
      /\ got' = [got EXCEPT ![c] = Append(got[c], m.block)]
      /\ msgs' = msgs \cup {ack}
  BY DEF Accept, Expected
<1>2. /\ ack.type = "ACK" /\ ack.from = c /\ ack.port = m.port /\ ack.num = m.num
      /\ m \in DataMsgs
  BY <1>1 DEF Ack, DataMsgs
<1> HIDE DEF ack
<1>3. DataMsgs' = DataMsgs /\ AckMsgs' = AckMsgs \cup {ack}
  BY <1>1, <1>2 DEF DataMsgs, AckMsgs
<1>4. UNCHANGED <<fdtab, clients, finished, ports>>
  BY DEF serverVars
<1>5. m.port \in Port /\ m.block \in Block /\ 0 \notin Port
  BY <1>2, TransferTypes
<1>6. /\ tid'[c] = m.port /\ Len(got[c]) \in Nat /\ Len(got'[c]) = Len(got[c]) + 1
      /\ \A d \in Peer \ {c} : tid'[d] = tid[d] /\ got'[d] = got[d]
  <2>1. got[c] \in Seq(Block) /\ got'[c] = Append(got[c], m.block)
    BY <1>1, TransferTypes
  <2>2. tid'[c] = m.port /\ \A d \in Peer \ {c} : tid'[d] = tid[d] /\ got'[d] = got[d]
    BY <1>1, TransferTypes
  <2>3. Len(Append(got[c], m.block)) = Len(got[c]) + 1 /\ Len(got[c]) \in Nat
    BY <1>5, <2>1
  <2> QED
    BY <2>1, <2>2, <2>3
<1>7. ASSUME NEW d \in Peer
      PROVE  /\ tid[d] # 0 => tid'[d] = tid[d]
             /\ Len(got[d]) \in Nat /\ Len(got'[d]) \in Nat /\ Len(got[d]) <= Len(got'[d])
  <2>1. Len(got[d]) \in Nat
    BY TransferTypes
  <2>2. CASE d = c
    BY <1>1, <1>6, <2>2
  <2>3. CASE d # c
    BY <1>6, <2>1, <2>3
  <2> QED
    BY <2>2, <2>3
<1>8. AcksAreHonest'
  <2>1. ASSUME NEW a \in AckMsgs
        PROVE  /\ tid'[a.from] = a.port
               /\ \E k \in 1..Len(got'[a.from]) : a.num = k % BLOCK_MOD
               /\ \E d \in DataMsgs : d.port = a.port /\ d.to = a.from
    <3>1. a.from \in Peer /\ a.port # 0
      BY <1>5, TransferTypes
    <3>2. /\ tid[a.from] = a.port
          /\ \E d \in DataMsgs : d.port = a.port /\ d.to = a.from
      BY DEF CleanInv, AcksAreHonest
    <3>3. PICK k \in 1..Len(got[a.from]) : a.num = k % BLOCK_MOD
      BY DEF CleanInv, AcksAreHonest
    <3>4. k \in 1..Len(got'[a.from])
      BY <1>7, <3>1
    <3> QED
      BY <1>7, <3>1, <3>2, <3>3, <3>4
  <2>2. /\ tid'[ack.from] = ack.port
        /\ \E k \in 1..Len(got'[ack.from]) : ack.num = k % BLOCK_MOD
        /\ \E d \in DataMsgs : d.port = ack.port /\ d.to = ack.from
    <3>1. Len(got[c]) + 1 \in 1..Len(got'[c])
      BY <1>6
    <3> QED
      BY <1>1, <1>2, <1>6, <3>1
  <2> QED
    BY <1>3, <2>1, <2>2 DEF AcksAreHonest
<1>9. FinishedHaveAll'
  <2>1. ASSUME NEW d \in DataMsgs, d.port \in finished
        PROVE  tid'[d.to] = d.port /\ Len(got'[d.to]) >= blocks[wants[d.to]]
    <3>1. d.to \in Peer /\ d.port # 0
      BY <1>5, TransferTypes
    <3>2. tid[d.to] = d.port /\ Len(got[d.to]) >= blocks[wants[d.to]]
      BY <2>1 DEF CleanInv, FinishedHaveAll
    <3>3. blocks[wants[d.to]] \in Nat
      BY <3>1, TftpAssumption
    <3> QED
      BY <1>7, <3>1, <3>2, <3>3
  <2> QED
    BY <1>3, <1>4, <2>1 DEF FinishedHaveAll
<1>10. FilesOpen'
  <2>1. Senders' = Senders /\ FileOf' = FileOf
    BY <1>3, <1>4, FileOfFound DEF Senders
  <2> QED
    BY <1>3, <1>4, <2>1, FilesKept
<1>11. UniqueIds' /\ PortsUsed' /\ DataAsAsked' /\ OneClientPerPort'
  BY <1>3, <1>4 DEF CleanInv, UniqueIds, PortsUsed, DataAsAsked, OneClientPerPort
<1> QED
  BY <1>8, <1>9, <1>10, <1>11 DEF CleanInv

(* The other steps of the clients.                                            *)
LEMMA PeerClean ==
    ASSUME TftpInv, CleanInv, NEW c \in Peer, PeerStep(c), UNCHANGED serverVars
    PROVE  CleanInv'
<1>1. UNCHANGED <<fdtab, clients, finished, ports>>
  BY DEF serverVars
<1>2. ASSUME NEW d, d.type \notin {"DATA", "ACK"}, msgs' = msgs \cup {d}, UNCHANGED <<tid, got>>
      PROVE  CleanInv'
  BY <1>1, <1>2, SendOther, QuietClean
<1>3. ASSUME Request(c)
      PROVE  CleanInv'
  <2>1. Rrq(c).type = "RRQ"
    BY DEF Rrq
  <2> QED
    BY <1>2, <1>3, <2>1 DEF Request
<1>4. ASSUME NEW m \in msgs, WrongPort(c, m)
      PROVE  CleanInv'
  <2>1. Stray(c, m.port).type = "ERR"
    BY DEF Stray
  <2> QED
    BY <1>2, <1>4, <2>1 DEF WrongPort, peerVars
<1>5. ASSUME NEW m \in msgs, GiveUp(c, m)
      PROVE  CleanInv'
  BY <1>1, <1>5, SendNothing, QuietClean DEF GiveUp
<1>6. Request(c) \/ \E m \in msgs : Accept(c, m) \/ WrongPort(c, m) \/ GiveUp(c, m)
  BY DEF PeerStep
<1> QED
  BY <1>3, <1>4, <1>5, <1>6, AcceptClean

(* The steps of the server that neither open nor close a transfer.            *)
LEMMA IdleClean ==
    ASSUME TftpInv, CleanInv, UNCHANGED peerVars,
           \/ \E c \in Peer : RrqNoFile(c)
           \/ \E i \in Fd, m \in msgs : AckStuck(i, m) \/ Ignored(i, m)
           \/ Timeout \/ NotYet
    PROVE  CleanInv'
<1>1. UNCHANGED <<msgs, fdtab, ports, clients, finished, tid, got>>
  BY DEF RrqNoFile, AckStuck, Ignored, Timeout, NotYet, peerVars
<1> QED
  BY <1>1, SendNothing, QuietClean

(* A failed recvfrom().                                                       *)
LEMMA RecvFailsClean ==
    ASSUME TftpInv, CleanInv, NEW i \in Fd, RecvFails(i), UNCHANGED peerVars
    PROVE  CleanInv'
<1>1. /\ i \in read_fds \ {sockfd}
      /\ fdtab' = [fdtab EXCEPT ![i] = Free]
      /\ UNCHANGED <<msgs, ports, clients, finished, tid, got>>
  BY DEF RecvFails, peerVars
<1>2. fdtab[i].kind = "sock"
  BY <1>1 DEF TftpInv, ServerInv, SocketsHaveClients
<1> QED
  BY <1>1, <1>2, CloseClean

(* Retransmissions are counted, and nothing else is.                          *)
LEMMA CountedStep ==
    ASSUME TftpInv, [Next]_vars
    PROVE  /\ retx \in Nat /\ retx' \in {retx, retx + 1}
           /\ retx' # retx => Retransmit /\ UNCHANGED peerVars
           /\ clean' => clean /\ retx' = retx
<1>1. retx \in Nat
  BY TypeParts, TftpAssumption DEF TftpInv, ServerInv, ScalarTypeOK
<1>2. retx' = retx \/ (Retransmit /\ UNCHANGED peerVars)
  <2>1. ASSUME NEW c \in Peer, HandleRrq(c)
        PROVE  retx' = retx
    BY <2>1 DEF HandleRrq, RrqTooLarge, RrqNoFile, RrqEmpty, RrqData
  <2>2. ASSUME NEW i \in Fd, NEW m \in msgs, Handle(i, m)
        PROVE  retx' = retx
    BY <2>2 DEF Handle, AckMore, AckLast, AckStuck, Ignored
  <2>3. ASSUME \/ \E i \in Fd : RecvFails(i)
               \/ Timeout \/ NotYet \/ UNCHANGED serverVars \/ UNCHANGED vars
        PROVE  retx' = retx
    BY <2>3 DEF RecvFails, Timeout, NotYet, serverVars, vars
  <2> QED
    BY <2>1, <2>2, <2>3 DEF Next, ServerStep
<1>3. Retransmit => retx' = retx + 1
  BY DEF Retransmit
<1>4. retx + 1 # retx /\ retx + 1 # 0
  BY <1>1
<1> QED
  BY <1>1, <1>2, <1>3, <1>4 DEF clean

(* Every step before the first retransmission keeps the invariant.            *)
LEMMA NextClean ==
    ASSUME TftpInv, CleanInv, [Next]_vars, clean'
    PROVE  CleanInv'
<1>1. ~ Retransmit
  <2>1. retx' = retx /\ retx \in Nat
    BY CountedStep
  <2> QED
    BY <2>1 DEF Retransmit
<1>2. CASE UNCHANGED peerVars /\ \E c \in Peer : HandleRrq(c)
  BY <1>2, RrqTooLargeClean, IdleClean, RrqEmptyClean, RrqDataClean DEF HandleRrq
<1>3. CASE UNCHANGED peerVars /\ \E i \in Fd, m \in msgs : Handle(i, m)
  BY <1>3, AckMoreClean, AckLastClean, IdleClean DEF Handle
<1>4. CASE UNCHANGED peerVars /\ \E i \in Fd : RecvFails(i)
  BY <1>4, RecvFailsClean
<1>5. CASE UNCHANGED peerVars /\ (Timeout \/ NotYet)
  BY <1>5, IdleClean
<1>6. CASE \E c \in Peer : PeerStep(c) /\ UNCHANGED serverVars
  BY <1>6, PeerClean
<1>7. CASE UNCHANGED vars
  <2>1. UNCHANGED <<msgs, fdtab, ports, clients, finished, tid, got>>
    BY <1>7 DEF vars, serverVars, peerVars
  <2> QED
    BY <2>1, SendNothing, QuietClean
<1> QED
  BY <1>1, <1>2, <1>3, <1>4, <1>5, <1>6, <1>7 DEF Next, ServerStep

(* The beginning.                                                             *)
LEMMA InitClean == Init => CleanInv
<1> SUFFICES ASSUME Init
             PROVE  CleanInv
  OBVIOUS
<1>1. /\ msgs = {} /\ clients = {} /\ finished = {} /\ ports = 0
      /\ fdtab = [i \in Fd |-> Free]
  BY DEF Init, PeerInit, ServerInit
<1>2. \A i \in Fd : fdtab[i].kind = "free"
  BY <1>1 DEF Free
<1>3. DataMsgs = {} /\ AckMsgs = {} /\ Senders = {}
  BY <1>1, <1>2 DEF DataMsgs, AckMsgs, Senders
<1> QED
  BY <1>1, <1>2, <1>3 DEF CleanInv, UniqueIds, Distinct, PortsUsed, DataAsAsked,
       OneClientPerPort, AcksAreHonest, FilesOpen, FinishedHaveAll

-----------------------------------------------------------------------------
(* The transfers.                                                            *)

(* The strengthening is an invariant.                                         *)
THEOREM TftpTransferInvariant == Spec => []TransferInv
<1>1. Init => TransferInv
  BY InitTftpInv, InitClean DEF TransferInv
<1>2. TransferInv /\ [Next]_vars => TransferInv'
  BY NextTftpInv, NextClean, CountedStep DEF TransferInv
<1> QED
  BY <1>1, <1>2, PTL DEF Spec

(* Until the first retransmission, what is sent from a socket of the server   *)
(* goes to one client only, whatever descriptors and list entries are reused. *)
THEOREM TftpPortServesOneClient == Spec => []PortServesOneClient
<1>1. TransferInv => PortServesOneClient
  BY DEF TransferInv, CleanInv, OneClientPerPort, DataMsgs, PortServesOneClient
<1> QED
  BY <1>1, TftpTransferInvariant, PTL

(* Until the first retransmission, the server closes a transfer only when its *)
(* client has every block of the file it asked for, although ACKs are lost,   *)
(* repeated and reordered and their numbers wrap around.                      *)
THEOREM TftpClosedOnlyWhenSent == Spec => []ClosedOnlyWhenSent
<1>1. TransferInv => ClosedOnlyWhenSent
  BY DEF TransferInv, CleanInv, FinishedHaveAll, DataMsgs, ClosedOnlyWhenSent
<1> QED
  BY <1>1, TftpTransferInvariant, PTL

-----------------------------------------------------------------------------
(* The abstract specification.                                               *)

PromiseInv == TransferInv /\ (clean => NeverTooMany)

(* A block that is accepted is the next one of the file the client asked for.  *)
LEMMA AcceptNext ==
    ASSUME SizesFit, TftpInv, CleanInv, NeverTooMany,
           NEW c \in Peer, NEW m \in msgs, Accept(c, m)
    PROVE  /\ m.block = <<wants[c], Len(got[c]) + 1>>
           /\ kind[wants[c]] = "regular"
           /\ Len(got[c]) \in Nat /\ blocks[wants[c]] \in Nat
           /\ Len(got[c]) + 1 <= blocks[wants[c]]
<1> DEFINE n == Len(got[c])
           f == wants[c]
<1>1. m \in DataMsgs /\ m.to = c /\ m.num = (n + 1) % BLOCK_MOD /\ cst[c] = "wait"
  BY DEF Accept, Expected, DataMsgs
<1>2. m.block \in Block /\ n \in Nat
  BY <1>1, TransferTypes
<1>3. m.block = <<m.block[1], m.block[2]>> /\ m.block[2] \in Nat \ {0}
  BY <1>2 DEF Block
<1>4. /\ m.block[1] = f /\ kind[f] = "regular"
      /\ m.block[2] <= blocks[f] /\ m.num = m.block[2] % BLOCK_MOD
  BY <1>1 DEF CleanInv, DataAsAsked
<1>5. /\ f \in File /\ blocks[f] \in Nat /\ BLOCK_MOD \in Nat
      /\ blocks[f] <= BLOCK_MOD /\ (lastFull[f] => blocks[f] < BLOCK_MOD)
  BY <1>4, TftpAssumption DEF SizesFit
<1>6. n > 0 => n <= blocks[f] /\ (n = blocks[f] => lastFull[f])
  BY <1>1 DEF NeverTooMany
<1>7. n + 1 \in 1..BLOCK_MOD /\ m.block[2] \in 1..BLOCK_MOD
  BY <1>2, <1>3, <1>4, <1>5, <1>6
<1>8. m.block[2] = n + 1
  BY <1>1, <1>4, <1>7, ModDistinct
<1> QED
  BY <1>2, <1>3, <1>4, <1>5, <1>8

(* A client that accepts a block collects it.                                 *)
LEMMA AcceptCollects ==
    ASSUME SizesFit, TftpInv, CleanInv, NeverTooMany, clean, clean',
           NEW c \in Peer, NEW m \in msgs, Accept(c, m)
    PROVE  Promise!Collect(c) /\ NeverTooMany'
<1> DEFINE n == Len(got[c])
           f == wants[c]
<1>1. /\ m.block = <<f, n + 1>> /\ kind[f] = "regular" /\ n \in Nat /\ blocks[f] \in Nat
      /\ n + 1 <= blocks[f]
  BY AcceptNext
<1>2. /\ cst' = [cst EXCEPT ![c] = IF Short(m.block) THEN "done" ELSE cst[c]]
      /\ got' = [got EXCEPT ![c] = Append(got[c], <<f, n + 1>>)]
      /\ cst[c] = "wait"
  BY <1>1 DEF Accept
<1>3. Short(m.block) <=> n + 1 = blocks[f] /\ ~ lastFull[f]
  BY <1>1 DEF Short
<1>4. /\ cst'[c] = IF n + 1 = blocks[f] /\ ~ lastFull[f] THEN "done" ELSE "wait"
      /\ \A d \in Peer \ {c} : cst'[d] = cst[d]
  BY <1>2, <1>3 DEF TftpInv, PeerTypeOK
<1>5. {d \in Peer : cst'[d] = "done"} =
        IF n + 1 = blocks[f] /\ ~ lastFull[f] THEN {d \in Peer : cst[d] = "done"} \cup {c}
                                              ELSE {d \in Peer : cst[d] = "done"}
  BY <1>2, <1>4
<1>6. Promise!Collect(c)
  BY <1>1, <1>2, <1>5 DEF Promise!Collect
<1>7. NeverTooMany'
  <2>1. ASSUME NEW d \in Peer, Len(got'[d]) > 0
        PROVE  /\ kind[wants[d]] = "regular" /\ Len(got'[d]) <= blocks[wants[d]]
               /\ (cst'[d] # "done" /\ Len(got'[d]) = blocks[wants[d]]) => lastFull[wants[d]]
    <3>1. CASE d = c
      <4>1. got'[c] = Append(got[c], <<f, n + 1>>) /\ got[c] \in Seq(Block)
        BY <1>2, TransferTypes
      <4>2. <<f, n + 1>> \in Block
        BY <1>1, TftpAssumption DEF Block
      <4>3. Len(got'[c]) = n + 1
        BY <4>1, <4>2
      <4> QED
        BY <1>1, <1>4, <3>1, <4>3
    <3>2. CASE d # c
      <4>1. got'[d] = got[d] /\ cst'[d] = cst[d]
        BY <1>2, <1>4, <3>2, TransferTypes
      <4> QED
        BY <2>1, <4>1 DEF NeverTooMany
    <3> QED
      BY <3>1, <3>2
  <2> QED
    BY <2>1 DEF NeverTooMany
<1> QED
  BY <1>6, <1>7

(* Steps in which no client takes a block or is done.                         *)
LEMMA NothingCollected ==
    ASSUME got' = got, \A c \in Peer : cst'[c] = "done" <=> cst[c] = "done"
    PROVE  /\ UNCHANGED <<got, {c \in Peer : cst[c] = "done"}>>
           /\ NeverTooMany => NeverTooMany'
  BY DEF NeverTooMany

(* Every step before the first retransmission collects a block or nothing.     *)
LEMMA CleanStepCollects ==
    ASSUME SizesFit, TftpInv, CleanInv, NeverTooMany, clean, [Next]_vars, clean'
    PROVE  [Promise!Next]_(Promise!vars) /\ NeverTooMany'
<1>1. ASSUME got' = got, \A c \in Peer : cst'[c] = "done" <=> cst[c] = "done"
      PROVE  UNCHANGED Promise!vars /\ NeverTooMany'
  BY <1>1, NothingCollected DEF Promise!vars
<1>2. CASE UNCHANGED peerVars
  BY <1>1, <1>2 DEF peerVars
<1>3. ASSUME NEW c \in Peer, PeerStep(c)
      PROVE  [Promise!Next]_(Promise!vars) /\ NeverTooMany'
  <2>1. ASSUME Request(c) \/ \E m \in msgs : GiveUp(c, m)
        PROVE  got' = got /\ \A d \in Peer : cst'[d] = "done" <=> cst[d] = "done"
    <3>1. cst \in [Peer -> {"idle", "wait", "done", "error"}]
      BY DEF TftpInv, PeerTypeOK
    <3> QED
      BY <2>1, <3>1 DEF Request, GiveUp
  <2>2. ASSUME NEW m \in msgs, Accept(c, m)
        PROVE  Promise!Next /\ NeverTooMany'
    BY <2>2, AcceptCollects DEF Promise!Next
  <2>3. ASSUME NEW m \in msgs, WrongPort(c, m)
        PROVE  UNCHANGED peerVars
    BY <2>3 DEF WrongPort
  <2>4. Request(c) \/ \E m \in msgs : Accept(c, m) \/ WrongPort(c, m) \/ GiveUp(c, m)
    BY <1>3 DEF PeerStep
  <2> QED
    BY <1>1, <1>2, <2>1, <2>2, <2>3, <2>4
<1>4. UNCHANGED peerVars \/ \E c \in Peer : PeerStep(c)
  BY DEF Next, ServerStep, vars
<1> QED
  BY <1>2, <1>3, <1>4

(* The first retransmission ends the trust, and whatever follows it is free.   *)
LEMMA LaterStepDistrusts ==
    ASSUME TftpInv, [Next]_vars, ~ clean'
    PROVE  Promise!Next
<1>1. clean => UNCHANGED peerVars
  <2>1. clean => retx' # retx
    BY DEF clean
  <2> QED
    BY <2>1, CountedStep
<1>2. clean => UNCHANGED <<got, {c \in Peer : cst[c] = "done"}>>
  BY <1>1 DEF peerVars
<1>3. Promise!Distrust
  BY <1>2 DEF Promise!Distrust
<1> QED
  BY <1>3 DEF Promise!Next

(* Server and clients implement FileTransfer: until the first retransmission,  *)
(* each client collects the blocks of its file in order, each once, and is    *)
(* done with the last - over a network that loses, repeats and reorders.      *)
THEOREM TftpImplementsTransfer ==
    ASSUME SizesFit
    PROVE  Spec => TransferSpec
<1>1. Init => Promise!Init /\ PromiseInv
  <2> SUFFICES ASSUME Init
               PROVE  Promise!Init /\ PromiseInv
    OBVIOUS
  <2>1. /\ got = [c \in Peer |-> <<>>] /\ cst = [c \in Peer |-> "idle"] /\ retx = 0
    BY DEF Init, PeerInit, ServerInit
  <2>2. Promise!Init
    BY <2>1 DEF Promise!Init, clean
  <2>3. NeverTooMany
    BY <2>1 DEF NeverTooMany
  <2> QED
    BY <2>2, <2>3, InitTftpInv, InitClean DEF PromiseInv, TransferInv
<1>2. PromiseInv /\ [Next]_vars => PromiseInv' /\ [Promise!Next]_(Promise!vars)
  <2> SUFFICES ASSUME PromiseInv, [Next]_vars
               PROVE  PromiseInv' /\ [Promise!Next]_(Promise!vars)
    OBVIOUS
  <2>1. TftpInv /\ TftpInv' /\ (clean => CleanInv /\ NeverTooMany)
    BY NextTftpInv DEF PromiseInv, TransferInv
  <2>2. CASE clean'
    <3>1. clean
      BY <2>1, <2>2, CountedStep
    <3> QED
      BY <2>1, <2>2, <3>1, NextClean, CleanStepCollects DEF PromiseInv, TransferInv
  <2>3. CASE ~ clean'
    BY <2>1, <2>3, LaterStepDistrusts DEF PromiseInv, TransferInv
  <2> QED
    BY <2>2, <2>3
<1> QED
  BY <1>1, <1>2, PTL DEF Spec, TransferSpec, Promise!Spec
=============================================================================
