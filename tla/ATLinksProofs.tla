--------------------------- MODULE ATLinksProofs ---------------------------
(***************************************************************************)
(* Invariants of the link table for every number of links and servers,     *)
(* every set of inputs and every bound.                                    *)
(***************************************************************************)
EXTENDS ATLinks, WellFoundedInduction, FiniteSetTheorems, TLAPS

USE DEF Link, Server, CLOSED, NoLink, ScanPc

\* The links the scan visits are links of the table.
LEMMA PolledLinks ==
  ASSUME gsCipMux \in {0, 1}
  PROVE  /\ MaxCli \in 0..MaxLink
         /\ Polled \subseteq Link
         /\ 0 \in Polled
BY TableAssumption DEF MaxCli, Polled

\* What SendData reads for a request is at most what is there.
LEMMA BytesReadBounds ==
  ASSUME NEW rx \in Nat, NEW size \in Nat
  PROVE  BytesRead(rx, size) \in 0..rx
BY DEF BytesRead

\* A wrapped counter is a counter.
LEMMA WrapInRange ==
  ASSUME NEW n \in Int
  PROVE  n % CounterWidth \in 0..CounterWidth - 1
BY TableAssumption

\* Opening, closing and the single-field updates keep the type of a client_t.
LEMMA OpenedType ==
  ASSUME NEW c \in ClientT, NEW type \in {"TCP", "SSL"}
  PROVE  Opened(c, type) \in ClientT
BY TableAssumption, BoundAssumption DEF ClientT, Opened

LEMMA ClosedType ==
  ASSUME NEW c \in ClientT
  PROVE  Closed(c) \in ClientT
BY TableAssumption, BoundAssumption DEF ClientT, Closed

LEMMA IdleType ==
  ASSUME NEW c \in ClientT, NEW n \in 0..MaxIdle
  PROVE  [c EXCEPT !.idle = n] \in ClientT
BY DEF ClientT

LEMMA LastType ==
  ASSUME NEW c \in ClientT, NEW n \in 0..CounterWidth - 1
  PROVE  [c EXCEPT !.lastAvailableBytes = n] \in ClientT
BY DEF ClientT

LEMMA LengthType ==
  ASSUME NEW c \in ClientT, NEW n \in 0..SendBufferSize
  PROVE  [c EXCEPT !.sendLength = n] \in ClientT
BY DEF ClientT

LEMMA RxType ==
  ASSUME NEW s \in SockT, NEW n \in 0..MaxRx
  PROVE  [s EXCEPT !.rx = n] \in SockT
BY DEF SockT

LEMMA StType ==
  ASSUME NEW s \in SockT, NEW st \in {"ESTABLISHED", "CLOSE_WAIT", "CLOSED"}
  PROVE  [s EXCEPT !.st = st] \in SockT
BY DEF SockT

LEMMA NewSockType ==
  ASSUME NEW port \in Ports \cup {CLOSED}
  PROVE  NewSock(port) \in SockT /\ NoSock \in SockT
BY BoundAssumption DEF SockT, NewSock, NoSock

\* Updating a table with a value of its range keeps its type.
LEMMA ClientUpdate ==
  ASSUME NEW f \in [Link -> ClientT], NEW l, NEW c \in ClientT
  PROVE  [f EXCEPT ![l] = c] \in [Link -> ClientT]
OBVIOUS

LEMMA SockUpdate ==
  ASSUME NEW f \in [Link -> SockT], NEW l, NEW c \in SockT
  PROVE  [f EXCEPT ![l] = c] \in [Link -> SockT]
OBVIOUS

\* Deleting links keeps the type of the state it changes.
LEMMA DeleteClientType ==
  ASSUME TypeOK, NEW table \in [Link -> ClientT], NEW D, DeleteClient(table, D)
  PROVE  /\ clients' \in [Link -> ClientT]
         /\ sock' \in [Link -> SockT]
         /\ gsLinkIdReading' \in -1..MaxLink + 1
<1>1. clients' \in [Link -> ClientT]
  BY ClosedType DEF DeleteClient, Deleted
<1>2. sock' \in [Link -> SockT]
  BY NewSockType DEF DeleteClient, TypeOK
<1>3. gsLinkIdReading' \in -1..MaxLink + 1
  BY TableAssumption DEF DeleteClient, ReadingAfterDelete, TypeOK
<1> QED
  BY <1>1, <1>2, <1>3

\* CIPRECVDATA with a link number behind the table changes nothing of it.
LEMMA RecvBeyond ==
  ASSUME TypeOK, NEW l, NEW size, l \notin Link, CipRecvData(l, size)
  PROVE  /\ pc = "serial" /\ gsLinkIdReading = -1 /\ pc' = "loop"
         /\ clients' \in [Link -> ClientT] /\ sock' \in [Link -> SockT]
         /\ \A k \in Link : clients'[k] = clients[k] /\ sock'[k] = sock[k]
         /\ UNCHANGED <<servers, settings, send, i, freeLinkId, serversConnCount, left>>
<1>t. clients \in [Link -> ClientT] /\ sock \in [Link -> SockT]
  BY DEF TypeOK
<1> DEFINE n == (clients[l].lastAvailableBytes - BytesRead(sock[l].rx, size)) % CounterWidth
           table == [clients EXCEPT ![l].lastAvailableBytes = n]
<1>1. table = clients
  BY <1>t
<1>2. CASE gsCipRecvMode = 0
  <2>1. DeleteClient(table, {l}) /\ gsLinkIdReading = -1
    BY <1>2 DEF CipRecvData, Command
  <2> HIDE DEF table
  <2>2. clients' = clients /\ sock' = sock /\ gsLinkIdReading' = gsLinkIdReading
    BY <1>t, <1>1, <2>1 DEF DeleteClient, Deleted, ReadingAfterDelete
  <2> QED
    BY <1>t, <2>2 DEF CipRecvData, Command, send
<1>3. CASE gsCipRecvMode # 0
  <2>1. clients' = clients
    BY <1>1, <1>3 DEF CipRecvData
  <2>2. sock' = sock
    BY <1>t, <1>3 DEF CipRecvData
  <2> QED
    BY <1>t, <1>3, <2>1, <2>2 DEF CipRecvData, Command, send
<1> QED
  BY <1>2, <1>3

LEMMA RecvBeyondType ==
  ASSUME TypeOK, NEW l, NEW size, l \notin Link, CipRecvData(l, size)
  PROVE  TypeOK'
BY RecvBeyond DEF TypeOK, settings, send

\* Init establishes the type invariant.
LEMMA TypeInit == Init => TypeOK
<1> SUFFICES ASSUME Init PROVE TypeOK
  OBVIOUS
<1>1. NoClient \in ClientT
  BY TableAssumption, BoundAssumption DEF NoClient, ClientT
<1>2. NoSock \in SockT
  BY NewSockType
<1> QED
  BY <1>1, <1>2, TableAssumption, InputAssumption, BoundAssumption DEF Init, TypeOK

\* Leaving a link in the scan goes on to a link of the scan or to the servers.
LEMMA NextLinkType ==
  ASSUME TypeOK, i \in Polled, NextLink, UNCHANGED gsCipMux
  PROVE  /\ pc' \in {"read", "accept"}
         /\ i' \in Nat /\ left' \in 0..MaxRx
         /\ pc' = "read" => i' \in Polled'
BY PolledLinks, TableAssumption, BoundAssumption DEF TypeOK, NextLink, Polled, MaxCli

\* A step that lets the network stack run in the middle of the visit of a link.
LEMMA LookFrame ==
  ASSUME LookClosed \/ LookIdle
  PROVE  /\ pc \in {"reap", "gone"} /\ pc' \in {"gone", "idle"}
         /\ UNCHANGED <<clients, sock, servers, settings, send, i, freeLinkId, serversConnCount, left>>
BY DEF LookClosed, LookIdle, LookAgain, Stays

\* Steps that keep the scan at its link.
LEMMA AfterReadType ==
  ASSUME TypeOK, pc = "read", AfterRead, clients' \in [Link -> ClientT], sock' \in [Link -> SockT]
  PROVE  TypeOK'
<1>1. i \in Link
  BY PolledLinks DEF TypeOK
<1>2. left' \in 0..MaxRx
  BY <1>1 DEF AfterRead, SockT
<1> QED
  BY <1>2 DEF TypeOK, AfterRead, settings, send, Polled, MaxCli

LEMMA NoteFreeType ==
  ASSUME TypeOK, i \in Link, NoteFree
  PROVE  freeLinkId' \in Link \cup {NoLink}
BY DEF TypeOK, NoteFree

\* The link chosen for the next accept is a free one of the scan, if there is one.
LEMMA LowestFreeType ==
  ASSUME TypeOK, NEW table \in [Link -> ClientT]
  PROVE  /\ LowestFree(table) \in Link \cup {NoLink}
         /\ LowestFree(table) # NoLink =>
              LowestFree(table) \in Polled /\ ~table[LowestFree(table)].client
<1> DEFINE free == {l \in Polled : ~table[l].client}
<1>1. free \subseteq Link
  BY PolledLinks DEF TypeOK
<1>2. CASE free = {}
  BY <1>2 DEF LowestFree
<1>3. CASE free # {}
  <2>1. \E l \in free : \A k \in free : l <= k
    <3>1. free \subseteq Nat
      BY <1>1, TableAssumption
    <3> DEFINE less == OpToRel(<, Nat)
    <3>2. IsWellFoundedOn(less, Nat)
      BY NatLessThanWellFounded
    <3>3. \A k, l \in Nat : k < l => <<k, l>> \in less
      BY DEF OpToRel
    <3> HIDE DEF free, less
    <3>4. \E l \in free : \A k \in free : <<k, l>> \notin less
      BY <1>3, <3>1, <3>2, WFMin
    <3>5. PICK l \in free : \A k \in free : <<k, l>> \notin less
      BY <3>4
    <3>6. ASSUME NEW k \in free PROVE l <= k
      <4>1. k \in Nat /\ l \in Nat /\ ~(k < l)
        BY <3>1, <3>3, <3>5
      <4> QED
        BY <4>1
    <3> QED
      BY <3>6
  <2> QED
    BY <1>1, <1>3, <2>1 DEF LowestFree
<1> QED
  BY <1>2, <1>3

\* The type invariant is inductive.
LEMMA TypeStep == TypeOK /\ [Next]_vars => TypeOK'
<1> SUFFICES ASSUME TypeOK, [Next]_vars PROVE TypeOK'
  OBVIOUS
<1> USE TableAssumption, InputAssumption, BoundAssumption
<1>l. pc \in ScanPc => i \in Link
  BY PolledLinks DEF TypeOK
<1>1. CASE PollStart
  BY <1>1 DEF TypeOK, PollStart, settings, send, Polled, MaxCli
<1>2. CASE PollSkip
  BY <1>2 DEF TypeOK, PollSkip, settings, send, Polled, MaxCli
<1>3. CASE Poll
  <2>1. CASE PollForward
    <3>1. clients' \in [Link -> ClientT]
      BY <2>1, <1>l, IdleType DEF TypeOK, PollForward
    <3>2. [sock[i] EXCEPT !.rx = 0] \in SockT
      BY <2>1, <1>l, RxType DEF TypeOK, PollForward
    <3>3. sock' \in [Link -> SockT]
      <4>1. sock' = sock \/ sock' = [sock EXCEPT ![i].rx = 0]
        BY <2>1 DEF PollForward
      <4>2. [sock EXCEPT ![i].rx = 0] \in [Link -> SockT]
        BY <3>2, SockUpdate DEF TypeOK
      <4>3. sock \in [Link -> SockT]
        BY DEF TypeOK
      <4> QED
        BY <4>1, <4>2, <4>3
    <3> QED
      BY <2>1, <3>1, <3>3, AfterReadType DEF PollForward
  <2>2. CASE PollAnnounce
    <3>1. sock[i].rx \in 0..CounterWidth - 1
      BY <2>2, <1>l DEF TypeOK, PollAnnounce, SockT
    <3>2. clients' \in [Link -> ClientT]
      <4>3. clients[i] \in ClientT
        BY <2>2, <1>l DEF TypeOK, PollAnnounce
      <4>1. [clients[i] EXCEPT !.idle = 0] \in ClientT
        BY <4>3, IdleType
      <4>2. [[clients[i] EXCEPT !.idle = 0] EXCEPT !.lastAvailableBytes = sock[i].rx] \in ClientT
        BY <4>1, <3>1, LastType
      <4> QED
        BY <2>2, <4>2, <1>l DEF TypeOK, PollAnnounce
    <3> QED
      BY <2>2, <3>2, AfterReadType DEF TypeOK, PollAnnounce
  <2>3. CASE PollNothing
    BY <2>3, AfterReadType DEF TypeOK, PollNothing
  <2>4. CASE ReapClosed
    BY <2>4, <1>l, DeleteClientType, NextLinkType, NoteFreeType DEF TypeOK, ReapClosed, settings
  <2>5. CASE ReapIdle
    BY <2>5, <1>l, DeleteClientType, NextLinkType DEF TypeOK, ReapIdle, settings
  <2>6. CASE CountServerLink
    BY <2>6, NextLinkType DEF TypeOK, CountServerLink, Stays, settings, send
  <2>7. CASE PassOverLink
    BY <2>7, NextLinkType DEF TypeOK, PassOverLink, Stays, settings, send
  <2>8. CASE PassOverFree
    BY <2>8, <1>l, NextLinkType, NoteFreeType DEF TypeOK, PassOverFree, settings, send
  <2>9. CASE LookClosed \/ LookIdle
    <3>1. /\ pc \in ScanPc /\ pc' \in ScanPc
          /\ UNCHANGED <<clients, sock, servers, settings, send, i, freeLinkId,
                         serversConnCount, left>>
      BY <2>9, LookFrame
    <3> QED
      BY <3>1 DEF TypeOK, settings, send, Polled, MaxCli
  <2> QED
    BY <1>3, <2>1, <2>2, <2>3, <2>4, <2>5, <2>6, <2>7, <2>8, <2>9 DEF Poll
<1>4. CASE Accept
  <2>1. CASE AcceptEnd
    BY <2>1 DEF TypeOK, AcceptEnd, EnterSerial, settings, send
  <2>2. CASE AcceptNone
    BY <2>2 DEF TypeOK, AcceptNone, settings, send
  <2>3. CASE AcceptClient
    <3>1. freeLinkId \in Link
      BY <2>3 DEF TypeOK, AcceptClient, MayAccept
    <3>2. clients' \in [Link -> ClientT]
      BY <2>3, <3>1, OpenedType DEF TypeOK, AcceptClient
    <3>3. sock' \in [Link -> SockT]
      <4>1. servers[i] \in Ports \cup {CLOSED}
        BY <2>3 DEF TypeOK, AcceptClient
      <4>2. NewSock(servers[i]) \in SockT
        BY <4>1, NewSockType
      <4> QED
        BY <2>3, <4>2, SockUpdate DEF TypeOK, AcceptClient
    <3>4. freeLinkId' \in Link \cup {NoLink}
      BY <2>3, <3>2, LowestFreeType DEF AcceptClient
    <3> QED
      BY <2>3, <3>2, <3>3, <3>4 DEF TypeOK, AcceptClient, settings, send
  <2> QED
    BY <1>4, <2>1, <2>2, <2>3 DEF Accept
<1>5. CASE Payload
  <2>1. CASE PayloadByte
    BY <2>1 DEF TypeOK, PayloadByte, settings, loopVars, Polled, MaxCli
  <2>2. CASE PayloadSent
    <3>1. clients' \in [Link -> ClientT]
      <4>1. CASE gsLinkIdReading \in Link
        <5>1. [clients[gsLinkIdReading] EXCEPT !.idle = 0] \in ClientT
          BY <4>1, IdleType DEF TypeOK
        <5> QED
          BY <2>2, <5>1, ClientUpdate DEF TypeOK, PayloadSent
      <4>2. CASE gsLinkIdReading \notin Link
        <5>1. clients' = clients
          BY <2>2, <4>2 DEF TypeOK, PayloadSent
        <5> QED
          BY <5>1 DEF TypeOK
      <4> QED
        BY <4>1, <4>2
    <3>2. UNCHANGED <<sock, servers, settings, loopVars>> /\ PayloadEnds
      BY <2>2 DEF PayloadSent
    <3> QED
      BY <3>1, <3>2 DEF TypeOK, PayloadEnds, settings, loopVars, Polled, MaxCli
  <2>3. CASE PayloadFailed
    <3>1. sock' \in [Link -> SockT]
      <4>1. CASE gsLinkIdReading \in Link
        <5>0. sock[gsLinkIdReading] \in SockT
          BY <4>1 DEF TypeOK
        <5>1. [sock[gsLinkIdReading] EXCEPT !.st = "CLOSED"] \in SockT
          BY <5>0, StType
        <5> QED
          BY <2>3, <5>1, SockUpdate DEF TypeOK, PayloadFailed
      <4>2. CASE gsLinkIdReading \notin Link
        <5>1. sock' = sock
          BY <2>3, <4>2 DEF TypeOK, PayloadFailed
        <5> QED
          BY <5>1 DEF TypeOK
      <4> QED
        BY <4>1, <4>2
    <3>2. UNCHANGED <<clients, servers, settings, loopVars>> /\ PayloadEnds
      BY <2>3 DEF PayloadFailed
    <3> QED
      BY <3>1, <3>2 DEF TypeOK, PayloadEnds, settings, loopVars, Polled, MaxCli
  <2> QED
    BY <1>5, <2>1, <2>2, <2>3 DEF Payload
<1>6. CASE SerialEnd
  BY <1>6 DEF TypeOK, SerialEnd, settings, send
<1>7. CASE LinkCommand
  <2>1. ASSUME NEW l \in Link, NEW type \in {"TCP", "SSL"}, CipStart(l, type)
        PROVE  TypeOK'
    <3>1. clients' \in [Link -> ClientT]
      BY <2>1, OpenedType DEF TypeOK, CipStart
    <3>2. sock' \in [Link -> SockT]
      BY <2>1, NewSockType DEF TypeOK, CipStart
    <3> QED
      BY <2>1, <3>1, <3>2 DEF TypeOK, CipStart, Command, settings, send
  <2>2. ASSUME NEW l \in LinkArgs, NEW size \in Sizes, CipSend(l, size)
        PROVE  TypeOK'
    <3>1. clients' \in [Link -> ClientT]
      <4>1. size \in 0..SendBufferSize
        BY <2>2 DEF CipSend
      <4>2. \A k \in Link : [clients[k] EXCEPT !.sendLength = size] \in ClientT
        BY <4>1, LengthType DEF TypeOK
      <4> QED
        BY <2>2, <4>2 DEF TypeOK, CipSend
    <3> QED
      BY <2>2, <3>1 DEF TypeOK, CipSend, Command, settings
  <2>3. ASSUME NEW D \in SUBSET Link, CipClose(D)
        PROVE  TypeOK'
    BY <2>3, DeleteClientType DEF TypeOK, CipClose, Command, settings
  <2>4. ASSUME NEW l \in LinkArgs, NEW size \in Sizes, CipRecvData(l, size)
        PROVE  TypeOK'
    <3> SUFFICES ASSUME l \in Link PROVE TypeOK'
      BY <2>4, RecvBeyondType
    <3> DEFINE bytes == BytesRead(sock[l].rx, size)
               table == [clients EXCEPT ![l].lastAvailableBytes = (@ - bytes) % CounterWidth]
    <3>1. sock[l].rx \in 0..MaxRx /\ bytes \in 0..sock[l].rx
      <4>1. sock[l].rx \in 0..MaxRx
        BY DEF TypeOK, SockT
      <4>2. sock[l].rx \in Nat /\ size \in Nat
        BY <4>1
      <4> QED
        BY <4>1, <4>2, BytesReadBounds
    <3>2. (clients[l].lastAvailableBytes - bytes) % CounterWidth \in 0..CounterWidth - 1
      <4>1. clients[l].lastAvailableBytes \in 0..CounterWidth - 1
        BY DEF TypeOK, ClientT
      <4>2. clients[l].lastAvailableBytes - bytes \in Int
        BY <4>1, <3>1
      <4> QED
        BY <4>2, WrapInRange
    <3>3. table \in [Link -> ClientT]
      <4>1. [clients[l] EXCEPT !.lastAvailableBytes = (@ - bytes) % CounterWidth] \in ClientT
        BY <3>2, LastType DEF TypeOK
      <4> QED
        BY <4>1, ClientUpdate DEF TypeOK
    <3>4. CASE gsCipRecvMode = 0
      <4>1. DeleteClient(table, {l})
        BY <2>4, <3>4 DEF CipRecvData
      <4>2. /\ clients' \in [Link -> ClientT]
            /\ sock' \in [Link -> SockT]
            /\ gsLinkIdReading' \in -1..MaxLink + 1
        BY <4>1, <3>3, DeleteClientType
      <4> QED
        BY <2>4, <4>2 DEF TypeOK, CipRecvData, Command, settings
    <3>5. CASE gsCipRecvMode # 0
      <4>1. sock' \in [Link -> SockT]
        <5>1. sock[l].rx - bytes \in 0..MaxRx
          BY <3>1
        <5>2. [sock[l] EXCEPT !.rx = @ - bytes] \in SockT
          BY <5>1, RxType DEF TypeOK
        <5> QED
          <6>1. sock' = [sock EXCEPT ![l] = [sock[l] EXCEPT !.rx = @ - bytes]]
            BY <2>4, <3>5 DEF CipRecvData
          <6> QED
            BY <5>2, <6>1, SockUpdate DEF TypeOK
      <4>2. /\ clients' = table
            /\ pc' = "loop"
            /\ UNCHANGED <<servers, settings, gsLinkIdReading, dataRead, i, freeLinkId,
                           serversConnCount, left>>
        BY <2>4, <3>5 DEF CipRecvData, Command
      <4> QED
        BY <3>3, <4>1, <4>2 DEF TypeOK, settings
    <3> QED
      BY <3>4, <3>5
  <2>5. ASSUME NEW mode \in RecvModes, CipRecvMode(mode)
        PROVE  TypeOK'
    BY <2>5 DEF TypeOK, CipRecvMode, Command, send
  <2> QED
    BY <1>7, <2>1, <2>2, <2>3, <2>4, <2>5 DEF LinkCommand
<1>8. CASE ServerCommand
  <2>1. ASSUME NEW mux \in {0, 1}, CipMux(mux) PROVE TypeOK'
    BY <2>1 DEF TypeOK, CipMux, Command, send
  <2>2. ASSUME NEW port \in Ports, CipServerStart(port) PROVE TypeOK'
    BY <2>2 DEF TypeOK, CipServerStart, Command, settings, send
  <2>3. ASSUME NEW port \in Ports \cup {0}, CipServerStop(port) PROVE TypeOK'
    BY <2>3 DEF TypeOK, CipServerStop, Command, settings, send
  <2>4. ASSUME NEW max \in MaxConns, CipServerMaxConn(max) PROVE TypeOK'
    BY <2>4 DEF TypeOK, CipServerMaxConn, Command, send
  <2>5. ASSUME NEW to \in Timeouts, CipSto(to) PROVE TypeOK'
    BY <2>5 DEF TypeOK, CipSto, Command, send
  <2> QED
    BY <1>8, <2>1, <2>2, <2>3, <2>4, <2>5 DEF ServerCommand
<1>9. CASE Network
  <2> SUFFICES ASSUME NEW l \in Link, Arrive(l) \/ PeerCloses(l) \/ PeerResets(l)
               PROVE  TypeOK'
    BY <1>9 DEF Network
  <2>1. sock[l] \in SockT /\ sock[l].rx \in 0..MaxRx
    BY DEF TypeOK, SockT
  <2>2. sock' \in [Link -> SockT]
    <3>1. CASE Arrive(l)
      <4>1. [sock[l] EXCEPT !.rx = @ + 1] \in SockT
        <5>1. sock[l].rx + 1 \in 0..MaxRx
          BY <2>1, <3>1 DEF Arrive
        <5> QED
          BY <2>1, <5>1, RxType
      <4> QED
        BY <3>1, <4>1, SockUpdate DEF TypeOK, Arrive
    <3>2. CASE PeerCloses(l)
      BY <2>1, <3>2, StType, SockUpdate DEF TypeOK, PeerCloses
    <3>3. CASE PeerResets(l)
      BY <2>1, <3>3, StType, SockUpdate DEF TypeOK, PeerResets
    <3> QED
      BY <3>1, <3>2, <3>3
  <2>3. UNCHANGED <<clients, servers, settings, send, loopVars>>
    BY DEF Arrive, PeerCloses, PeerResets
  <2> QED
    BY <2>2, <2>3 DEF TypeOK, settings, send, loopVars, Polled, MaxCli
<1>10. CASE Tick
  <2>1. \A l \in Link : clients[l].idle \in 0..MaxIdle
    BY DEF TypeOK, ClientT
  <2>2. clients' \in [Link -> ClientT]
    <3>1. ASSUME NEW l \in Link
          PROVE  [clients[l] EXCEPT !.idle = IF Ages(l) THEN @ + 1 ELSE @] \in ClientT
      <4>1. (IF Ages(l) THEN clients[l].idle + 1 ELSE clients[l].idle) \in 0..MaxIdle
        BY <2>1 DEF Ages
      <4> QED
        BY <4>1, IdleType DEF TypeOK
    <3> QED
      BY <1>10, <3>1 DEF Tick
  <2>3. UNCHANGED <<sock, servers, settings, send, loopVars>>
    BY <1>10 DEF Tick
  <2> QED
    BY <2>2, <2>3 DEF TypeOK, settings, send, loopVars, Polled, MaxCli
<1>11. CASE UNCHANGED vars
  BY <1>11 DEF TypeOK, vars, settings, send, loopVars, Polled, MaxCli
<1> QED
  BY <1>1, <1>2, <1>3, <1>4, <1>5, <1>6, <1>7, <1>8, <1>9, <1>10, <1>11 DEF Next

\* The state keeps its type: in particular lastAvailableBytes stays within its
\* width and a scan index within the links of the mode.
THEOREM TypeCorrect == Spec => []TypeOK
BY TypeInit, TypeStep, PTL DEF Spec

-----------------------------------------------------------------------------
(***************************************************************************)
(* The links in use.  Only the accept loop and CIPSTART open a link.       *)
(***************************************************************************)

Opens == AcceptClient \/ \E l \in Link, type \in {"TCP", "SSL"} : CipStart(l, type)

\* Deleting, and the updates of idle, lastAvailableBytes and sendLength, open no link.
LEMMA DeleteOpensNothing ==
  ASSUME NEW table \in [Link -> ClientT], NEW D, DeleteClient(table, D), NEW l \in Link,
         clients'[l].client
  PROVE  table[l].client /\ l \notin D
BY DEF DeleteClient, Deleted, Closed

LEMMA OnlyOpensOpen ==
  ASSUME TypeOK, [Next]_vars, ~Opens, NEW l \in Link, clients'[l].client
  PROVE  clients[l].client
<1>t. clients \in [Link -> ClientT]
  BY DEF TypeOK
<1>i. pc \in ScanPc => i \in Link
  BY PolledLinks DEF TypeOK
<1>1. CASE Poll
  <2>1. CASE PollForward
    BY <1>t, <1>i, <2>1 DEF PollForward, ClientT
  <2>2. CASE PollAnnounce
    BY <1>t, <1>i, <2>2 DEF PollAnnounce, ClientT
  <2>3. CASE ReapClosed \/ ReapIdle
    BY <1>t, <2>3, DeleteOpensNothing DEF ReapClosed, ReapIdle
  <2>4. CASE \/ PollNothing \/ CountServerLink \/ PassOverLink \/ PassOverFree
             \/ LookClosed \/ LookIdle
    BY <2>4, LookFrame DEF PollNothing, CountServerLink, PassOverLink, PassOverFree
  <2> QED
    BY <1>1, <2>1, <2>2, <2>3, <2>4 DEF Poll
<1>2. CASE Payload
  BY <1>t, <1>2 DEF Payload, PayloadByte, PayloadSent, PayloadFailed, ClientT
<1>3. CASE LinkCommand
  <2>1. ASSUME NEW k \in LinkArgs, NEW size \in Sizes, CipSend(k, size)
        PROVE  clients[l].client
    BY <1>t, <2>1 DEF CipSend, ClientT
  <2>2. ASSUME NEW D \in SUBSET Link, CipClose(D)
        PROVE  clients[l].client
    BY <1>t, <2>2, DeleteOpensNothing DEF CipClose
  <2>3. ASSUME NEW k \in LinkArgs, NEW size \in Sizes, CipRecvData(k, size)
        PROVE  clients[l].client
    <3> DEFINE n == (clients[k].lastAvailableBytes - BytesRead(sock[k].rx, size)) % CounterWidth
               table == [clients EXCEPT ![k].lastAvailableBytes = n]
    <3>0. DeleteClient(table, {k}) \/ clients' = table
      BY <2>3 DEF CipRecvData
    <3>1. clients'[l].client => table[l].client
      <4>1. CASE DeleteClient(table, {k})
        <5> HIDE DEF table
        <5> QED
          BY <4>1 DEF DeleteClient, Deleted, Closed
      <4> QED
        BY <3>0, <4>1
    <3>2. table[l].client = clients[l].client
      BY <1>t DEF ClientT
    <3> QED
      BY <3>1, <3>2
  <2>4. ASSUME NEW mode \in RecvModes, CipRecvMode(mode)
        PROVE  clients[l].client
    BY <2>4 DEF CipRecvMode
  <2> QED
    BY <1>3, <2>1, <2>2, <2>3, <2>4 DEF LinkCommand, Opens
<1>4. CASE Tick
  BY <1>t, <1>4 DEF Tick, ClientT
<1>5. CASE PollStart \/ PollSkip \/ Accept \/ SerialEnd \/ ServerCommand \/ Network \/ UNCHANGED vars
  BY <1>5 DEF PollStart, PollSkip, Accept, AcceptEnd, AcceptNone, SerialEnd, ServerCommand,
              CipMux, CipServerStart, CipServerStop, CipServerMaxConn, CipSto,
              Network, Arrive, PeerCloses, PeerResets, vars, Opens
<1> QED
  BY <1>1, <1>2, <1>3, <1>4, <1>5 DEF Next

\* The mux mode and the servers change in the commands of the server only.
LEMMA ServerFrame ==
  ASSUME [Next]_vars, ~ServerCommand
  PROVE  UNCHANGED <<servers, settings>> \/ (UNCHANGED <<servers, gsCipMux>> /\ LinkCommand)
BY LookFrame DEF Next, PollStart, PollSkip, Poll, PollForward, PollAnnounce, PollNothing, AfterRead,
       ReapClosed, ReapIdle, CountServerLink, PassOverLink, PassOverFree,
       Accept, AcceptEnd, AcceptNone, AcceptClient, Payload, PayloadByte, PayloadSent,
       PayloadFailed, SerialEnd, LinkCommand, CipStart, CipSend, CipClose, CipRecvData,
       CipRecvMode, Network, Arrive, PeerCloses, PeerResets, Tick, vars, settings

LEMMA SingleLinkInit == Init => SingleLinkMode
BY DEF Init, SingleLinkMode, NoClient

LEMMA SingleLinkStep == TypeOK /\ SingleLinkMode /\ [Next]_vars => SingleLinkMode'
<1> SUFFICES ASSUME TypeOK, SingleLinkMode, [Next]_vars, gsCipMux' = 0
             PROVE  /\ \A l \in Link \ {0} : ~clients'[l].client
                    /\ \A j \in Server : servers'[j] = CLOSED
  BY DEF SingleLinkMode
<1>t. /\ clients \in [Link -> ClientT]
      /\ servers \in [Server -> Ports \cup {CLOSED}]
  BY DEF TypeOK
<1>1. CASE Opens
  <2>1. UNCHANGED <<servers, gsCipMux>>
    BY <1>1 DEF Opens, AcceptClient, CipStart, settings
  <2>2. \A j \in Server : servers[j] = CLOSED
    BY <2>1 DEF SingleLinkMode
  <2>3. ~AcceptClient
    BY <2>2 DEF AcceptClient, TypeOK
  <2>4. PICK l \in Link, type \in {"TCP", "SSL"} : CipStart(l, type)
    BY <1>1, <2>3 DEF Opens
  <2>5. l = 0
    BY <2>1, <2>4 DEF CipStart, LinkIds
  <2> QED
    BY <1>t, <2>1, <2>2, <2>4, <2>5 DEF CipStart, SingleLinkMode
<1>2. CASE ~Opens /\ ~ServerCommand
  <2>1. UNCHANGED <<servers, gsCipMux>>
    BY <1>2, ServerFrame DEF settings
  <2> QED
    BY <1>2, <2>1, OnlyOpensOpen DEF SingleLinkMode
<1>3. CASE ServerCommand
  <2>1. clients' = clients
    BY <1>3 DEF ServerCommand, CipMux, CipServerStart, CipServerStop, CipServerMaxConn, CipSto
  <2>2. CASE \E mux \in {0, 1} : CipMux(mux)
    BY <2>1, <2>2 DEF CipMux, NoLinkBuilt
  <2>3. CASE \E port \in Ports : CipServerStart(port)
    BY <2>3 DEF CipServerStart, settings
  <2>4. CASE \E port \in Ports \cup {0} : CipServerStop(port)
    BY <2>4 DEF CipServerStop, settings
  <2>5. CASE \/ \E max \in MaxConns : CipServerMaxConn(max)
             \/ \E to \in Timeouts : CipSto(to)
    BY <2>1, <2>5 DEF CipServerMaxConn, CipSto, SingleLinkMode
  <2> QED
    BY <1>3, <2>2, <2>3, <2>4, <2>5 DEF ServerCommand
<1> QED
  BY <1>1, <1>2, <1>3

\* In single-link mode no link but link 0 is in use and no server listens, so
\* the scan, which then visits link 0 only, misses nothing.
THEOREM SingleLinkModeCorrect == Spec => []SingleLinkMode
BY TypeInit, TypeStep, SingleLinkInit, SingleLinkStep, PTL DEF Spec

-----------------------------------------------------------------------------
(***************************************************************************)
(* The link the next connection gets                                       *)
(***************************************************************************)

\* freeLinkId exists during the scan and the accept loop only.
LocalsGone == pc \in {"loop", "serial"} => freeLinkId = NoLink

FreeLinkInv == LocalsGone /\ FreeLinkIsFree

LEMMA FreeLinkInit == Init => FreeLinkInv
BY DEF Init, FreeLinkInv, LocalsGone, FreeLinkIsFree

\* Noting link i, when it has no client any more, keeps freeLinkId a free link.
LEMMA NoteFreeIsFree ==
  ASSUME TypeOK, FreeLinkIsFree, i \in Polled, NoteFree, UNCHANGED gsCipMux, ~clients'[i].client,
         \A l \in Link : clients'[l].client => clients[l].client
  PROVE  FreeLinkIsFree'
BY PolledLinks DEF TypeOK, FreeLinkIsFree, NoteFree, Polled, MaxCli

LEMMA FreeLinkStep == TypeOK /\ TypeOK' /\ FreeLinkInv /\ [Next]_vars => FreeLinkInv'
<1> SUFFICES ASSUME TypeOK, TypeOK', FreeLinkInv, [Next]_vars
             PROVE  LocalsGone' /\ FreeLinkIsFree'
  BY DEF FreeLinkInv
<1> USE DEF FreeLinkInv
<1>m. Polled \subseteq Link
  BY PolledLinks DEF TypeOK
<1>1. CASE PollStart \/ PollSkip \/ SerialEnd \/ AcceptEnd
  BY <1>1 DEF PollStart, PollSkip, SerialEnd, AcceptEnd, EnterSerial, LocalsGone, FreeLinkIsFree,
              settings, Polled, MaxCli
<1>2. CASE Poll
  <2>1. \A l \in Link : clients'[l].client => clients[l].client
    <3>1. ~Opens
      BY <1>2 DEF Opens, AcceptClient, CipStart, Command, Poll, PollForward, PollAnnounce,
                  PollNothing, ReapClosed, ReapIdle, CountServerLink, PassOverLink, PassOverFree,
                  LookClosed, LookIdle, Stays
    <3> QED
      BY <3>1, OnlyOpensOpen
  <2>2. LocalsGone' /\ UNCHANGED gsCipMux /\ i \in Polled
    BY <1>2, LookFrame
       DEF Poll, PollForward, PollAnnounce, PollNothing, AfterRead, ReapClosed, ReapIdle, Stays,
           CountServerLink, PassOverLink, PassOverFree, NextLink, LocalsGone, settings, TypeOK
  <2>3. CASE ReapClosed
    <3>1. ~clients'[i].client
      BY <2>2, <2>3, <1>m DEF ReapClosed, DeleteClient, Deleted, Closed
    <3> QED
      BY <2>1, <2>2, <2>3, <3>1, NoteFreeIsFree DEF ReapClosed
  <2>4. CASE PassOverFree
    BY <2>1, <2>2, <2>4, NoteFreeIsFree DEF PassOverFree
  <2>5. CASE ~ReapClosed /\ ~PassOverFree
    <3>1. UNCHANGED freeLinkId
      BY <1>2, <2>5, LookFrame DEF Poll, PollForward, PollAnnounce, PollNothing, AfterRead,
                                   ReapIdle, CountServerLink, PassOverLink
    <3> QED
      BY <2>1, <2>2, <3>1, <1>m DEF FreeLinkIsFree, Polled, MaxCli
  <2> QED
    BY <2>2, <2>3, <2>4, <2>5
<1>3. CASE AcceptNone
  BY <1>3 DEF AcceptNone, LocalsGone, FreeLinkIsFree, settings, Polled, MaxCli
<1>4. CASE AcceptClient
  <2>1. /\ UNCHANGED <<gsCipMux, pc>> /\ pc = "accept"
        /\ freeLinkId' = LowestFree(clients')
    BY <1>4 DEF AcceptClient, settings
  <2>2. freeLinkId' # NoLink => freeLinkId' \in Polled /\ ~clients'[freeLinkId'].client
    BY <2>1, LowestFreeType DEF TypeOK
  <2> QED
    BY <2>1, <2>2 DEF LocalsGone, FreeLinkIsFree, Polled, MaxCli
<1>5. CASE LinkCommand \/ ServerCommand
  <2>1. pc = "serial" /\ UNCHANGED freeLinkId
    BY <1>5 DEF LinkCommand, CipStart, CipSend, CipClose, CipRecvData, CipRecvMode,
                ServerCommand, CipMux, CipServerStart, CipServerStop, CipServerMaxConn, CipSto,
                Command
  <2> QED
    BY <2>1 DEF LocalsGone, FreeLinkIsFree
<1>6. CASE Payload \/ Network \/ Tick \/ UNCHANGED vars
  <2>1. UNCHANGED <<pc, freeLinkId, gsCipMux>>
    BY <1>6 DEF Payload, PayloadByte, PayloadSent, PayloadFailed, Network, Arrive, PeerCloses,
                PeerResets, Tick, vars, loopVars, settings
  <2>2. ~Opens
    BY <1>6 DEF Opens, AcceptClient, CipStart, Command, Payload, PayloadByte, PayloadSent,
                PayloadFailed, Network, Arrive, PeerCloses, PeerResets, Tick, vars, loopVars, TypeOK
  <2> QED
    BY <2>1, <2>2, OnlyOpensOpen, <1>m DEF LocalsGone, FreeLinkIsFree, Polled, MaxCli
<1> QED
  BY <1>1, <1>2, <1>3, <1>4, <1>5, <1>6 DEF Next, Accept

\* The link an accepted connection is stored in is free, however the scan, the
\* network and earlier accepts interleaved: no open connection is overwritten.
THEOREM FreeLinkCorrect == Spec => []FreeLinkIsFree
<1>1. FreeLinkInv => FreeLinkIsFree
  BY DEF FreeLinkInv
<1> QED
  BY <1>1, TypeInit, TypeStep, FreeLinkInit, FreeLinkStep, PTL DEF Spec

-----------------------------------------------------------------------------
(***************************************************************************)
(* The link a CIPSEND payload is collected for.  CIPSEND accepts one link  *)
(* id too many, so this is proved for hosts that do not use it.            *)
(***************************************************************************)

LEMMA SendInit == Init => SendTargetLive
BY DEF Init, SendTargetLive

\* What a step must leave alone for SendTargetLive to survive it.
LEMMA SendKept ==
  ASSUME SendTargetLive, UNCHANGED send,
         \A l \in Link : clients[l].client =>
           clients'[l].client /\ clients'[l].sendLength = clients[l].sendLength
  PROVE  SendTargetLive'
BY DEF SendTargetLive, send

\* DeleteClient gives up the payload of a link it deletes.
LEMMA SendAfterDelete ==
  ASSUME TypeOK, SendTargetLive, UNCHANGED dataRead, NEW D, NEW table \in [Link -> ClientT],
         \A l \in Link : /\ table[l].client = clients[l].client
                         /\ table[l].sendLength = clients[l].sendLength,
         DeleteClient(table, D)
  PROVE  SendTargetLive'
BY DEF SendTargetLive, DeleteClient, Deleted, ReadingAfterDelete

LEMMA SendStep ==
  ASSUME LinkArgs \subseteq Link, TypeOK, SendTargetLive, [Next]_vars
  PROVE  SendTargetLive'
<1>t. /\ clients \in [Link -> ClientT]
      /\ \A l \in Link : clients[l].sendLength \in 0..SendBufferSize
  BY DEF TypeOK, ClientT
<1>i. pc \in ScanPc => i \in Link
  BY PolledLinks DEF TypeOK
<1>1. CASE PollForward
  BY <1>t, <1>i, <1>1, SendKept DEF PollForward, AfterRead, ClientT
<1>2. CASE PollAnnounce
  BY <1>t, <1>i, <1>2, SendKept DEF PollAnnounce, AfterRead, ClientT
<1>3. CASE ReapClosed \/ ReapIdle
  BY <1>t, <1>3, SendAfterDelete DEF ReapClosed, ReapIdle
<1>4. CASE AcceptClient
  <2>1. /\ freeLinkId \in Link /\ UNCHANGED send
        /\ clients' = [clients EXCEPT ![freeLinkId] = Opened(@, "TCP")]
    BY <1>4 DEF AcceptClient, MayAccept, TypeOK
  <2> QED
    BY <1>t, <2>1, SendKept DEF Opened, ClientT
<1>5. CASE PayloadByte
  <2>1. /\ gsLinkIdReading \in Link /\ gsLinkIdReading # -1
        /\ dataRead + 1 < clients[gsLinkIdReading].sendLength
    BY <1>t, <1>5 DEF PayloadByte, LastByte, SendTargetLive, TypeOK
  <2> QED
    BY <1>t, <1>5, <2>1, TableAssumption DEF PayloadByte, SendTargetLive, TypeOK
<1>6. CASE PayloadSent \/ PayloadFailed
  BY <1>6 DEF PayloadSent, PayloadFailed, PayloadEnds, SendTargetLive
<1>7. CASE LinkCommand
  <2>1. ASSUME NEW l \in Link, NEW type \in {"TCP", "SSL"}, CipStart(l, type)
        PROVE  SendTargetLive'
    BY <2>1 DEF CipStart, Command, SendTargetLive, send
  <2>2. ASSUME NEW l \in LinkArgs, NEW size \in Sizes, CipSend(l, size)
        PROVE  SendTargetLive'
    BY <1>t, <2>2, TableAssumption DEF CipSend, SendTargetLive, ClientT
  <2>3. ASSUME NEW D \in SUBSET Link, CipClose(D)
        PROVE  SendTargetLive'
    BY <1>t, <2>3, SendAfterDelete DEF CipClose
  <2>4. ASSUME NEW l \in LinkArgs, NEW size \in Sizes, CipRecvData(l, size)
        PROVE  SendTargetLive'
    BY <2>4 DEF CipRecvData, Command, DeleteClient, ReadingAfterDelete, SendTargetLive
  <2>5. ASSUME NEW mode \in RecvModes, CipRecvMode(mode)
        PROVE  SendTargetLive'
    BY <2>5, SendKept DEF CipRecvMode
  <2> QED
    BY <1>7, <2>1, <2>2, <2>3, <2>4, <2>5 DEF LinkCommand
<1>8. CASE Tick
  BY <1>t, <1>8, SendKept DEF Tick, ClientT
<1>9. CASE \/ PollStart \/ PollSkip \/ PollNothing \/ CountServerLink \/ PassOverLink \/ PassOverFree
           \/ LookClosed \/ LookIdle
           \/ AcceptEnd \/ AcceptNone \/ SerialEnd \/ ServerCommand \/ Network \/ UNCHANGED vars
  <2>1. UNCHANGED <<clients, send>>
    BY <1>9, LookFrame DEF PollStart, PollSkip, PollNothing, AfterRead, CountServerLink, PassOverLink, PassOverFree,
                AcceptEnd, AcceptNone, SerialEnd, ServerCommand, CipMux, CipServerStart,
                CipServerStop, CipServerMaxConn, CipSto, Network, Arrive, PeerCloses,
                PeerResets, vars
  <2> QED
    BY <2>1, SendKept
<1> QED
  BY <1>1, <1>2, <1>3, <1>4, <1>5, <1>6, <1>7, <1>8, <1>9 DEF Next, Poll, Accept, Payload

\* If the host names links 0..MaxLink only, a payload byte is always stored
\* inside sendBuffer and within the announced length, and the link it is for is
\* open when the payload is written.
THEOREM SendTargetCorrect ==
  ASSUME LinkArgs \subseteq Link
  PROVE  Spec => []SendTargetLive
<1>1. TypeOK /\ SendTargetLive /\ [Next]_vars => SendTargetLive'
  BY SendStep
<1> QED
  BY <1>1, TypeInit, TypeStep, SendInit, PTL DEF Spec

-----------------------------------------------------------------------------
(***************************************************************************)
(* What a free slot holds.  Every way to close a link clears it.           *)
(***************************************************************************)

LEMMA CleanInit == Init => EmptySlotClean
BY DEF Init, EmptySlotClean, NoClient

\* A step that leaves the free slots alone; what it does with the others is free.
LEMMA CleanKept ==
  ASSUME EmptySlotClean,
         \A l \in Link : clients'[l].client \/ (/\ clients'[l].client = clients[l].client
                                                /\ clients'[l].type = clients[l].type
                                                /\ clients'[l].sendLength = clients[l].sendLength)
  PROVE  EmptySlotClean'
BY DEF EmptySlotClean

LEMMA CleanAfterDelete ==
  ASSUME EmptySlotClean, NEW D, NEW table, DeleteClient(table, D),
         \A l \in Link : /\ table[l].client = clients[l].client
                         /\ table[l].type = clients[l].type
                         /\ table[l].sendLength = clients[l].sendLength
  PROVE  EmptySlotClean'
BY DEF EmptySlotClean, DeleteClient, Deleted, Closed

LEMMA CleanStep == TypeOK /\ EmptySlotClean /\ [Next]_vars => EmptySlotClean'
<1> SUFFICES ASSUME TypeOK, EmptySlotClean, [Next]_vars PROVE EmptySlotClean'
  OBVIOUS
<1>t. clients \in [Link -> ClientT]
  BY DEF TypeOK
<1>i. pc \in ScanPc => i \in Link
  BY PolledLinks DEF TypeOK
<1>1. CASE PollForward
  BY <1>t, <1>i, <1>1, CleanKept DEF PollForward, ClientT
<1>2. CASE PollAnnounce
  BY <1>t, <1>i, <1>2, CleanKept DEF PollAnnounce, ClientT
<1>3. CASE ReapClosed \/ ReapIdle
  BY <1>3, CleanAfterDelete DEF ReapClosed, ReapIdle
<1>4. CASE AcceptClient
  <2>1. /\ freeLinkId \in Link
        /\ clients' = [clients EXCEPT ![freeLinkId] = Opened(@, "TCP")]
    BY <1>4 DEF AcceptClient, MayAccept, TypeOK
  <2> QED
    BY <1>t, <2>1, CleanKept DEF Opened, ClientT
<1>5. CASE Payload
  <2>1. CASE PayloadSent
    <3>1. clients' = [clients EXCEPT ![gsLinkIdReading].idle = 0]
      BY <2>1 DEF PayloadSent
    <3>2. \A l \in Link : /\ clients'[l].client = clients[l].client
                          /\ clients'[l].type = clients[l].type
                          /\ clients'[l].sendLength = clients[l].sendLength
      BY <1>t, <3>1 DEF ClientT
    <3> QED
      BY <3>2, CleanKept
  <2>2. CASE PayloadByte \/ PayloadFailed
    BY <2>2, CleanKept DEF PayloadByte, PayloadFailed
  <2> QED
    BY <1>5, <2>1, <2>2 DEF Payload
<1>6. CASE LinkCommand
  <2>1. ASSUME NEW l \in Link, NEW type \in {"TCP", "SSL"}, CipStart(l, type)
        PROVE  EmptySlotClean'
    BY <1>t, <2>1, CleanKept DEF CipStart, Opened, ClientT
  <2>2. ASSUME NEW l \in LinkArgs, NEW size \in Sizes, CipSend(l, size)
        PROVE  EmptySlotClean'
    BY <1>t, <2>2, CleanKept DEF CipSend, ClientT
  <2>3. ASSUME NEW D \in SUBSET Link, CipClose(D)
        PROVE  EmptySlotClean'
    BY <2>3, CleanAfterDelete DEF CipClose
  <2>4. ASSUME NEW l \in LinkArgs, NEW size \in Sizes, CipRecvData(l, size)
        PROVE  EmptySlotClean'
    <3> DEFINE n == (clients[l].lastAvailableBytes - BytesRead(sock[l].rx, size)) % CounterWidth
               table == [clients EXCEPT ![l].lastAvailableBytes = n]
    <3>1. \A k \in Link : /\ table[k].client = clients[k].client
                          /\ table[k].type = clients[k].type
                          /\ table[k].sendLength = clients[k].sendLength
      BY <1>t DEF ClientT
    <3>2. DeleteClient(table, {l}) \/ clients' = table
      BY <2>4 DEF CipRecvData
    <3> HIDE DEF table
    <3> QED
      BY <3>1, <3>2, CleanAfterDelete, CleanKept
  <2>5. ASSUME NEW mode \in RecvModes, CipRecvMode(mode)
        PROVE  EmptySlotClean'
    BY <2>5, CleanKept DEF CipRecvMode
  <2> QED
    BY <1>6, <2>1, <2>2, <2>3, <2>4, <2>5 DEF LinkCommand
<1>7. CASE Tick
  BY <1>t, <1>7, CleanKept DEF Tick, ClientT
<1>8. CASE \/ PollStart \/ PollSkip \/ PollNothing \/ CountServerLink \/ PassOverLink \/ PassOverFree
           \/ LookClosed \/ LookIdle
           \/ AcceptEnd \/ AcceptNone \/ SerialEnd \/ ServerCommand \/ Network \/ UNCHANGED vars
  <2>1. UNCHANGED clients
    BY <1>8, LookFrame DEF PollStart, PollSkip, PollNothing, CountServerLink, PassOverLink, PassOverFree,
                AcceptEnd, AcceptNone, SerialEnd, ServerCommand, CipMux, CipServerStart,
                CipServerStop, CipServerMaxConn, CipSto, Network, Arrive, PeerCloses,
                PeerResets, vars
  <2> QED
    BY <2>1, CleanKept
<1> QED
  BY <1>1, <1>2, <1>3, <1>4, <1>5, <1>6, <1>7, <1>8 DEF Next, Poll, Accept

\* However a link ended, by the peer, by a timeout, by CIPCLOSE or by reading the
\* last of it, its slot has no type and no length of an abandoned CIPSEND that a
\* connection accepted later would inherit (ESP_ATMod.ino:345-349).
THEOREM EmptySlotCleanCorrect == Spec => []EmptySlotClean
BY TypeInit, TypeStep, CleanInit, CleanStep, PTL DEF Spec

-----------------------------------------------------------------------------
(***************************************************************************)
(* Unread data.  Where the scan has found nothing it had left nothing, as  *)
(* data does not go away while it waits.                                   *)
(***************************************************************************)

SeenInv ==
  /\ pc = "reap" => left <= sock[i].rx
  /\ pc \in {"gone", "idle"} => left = 0

LEMMA SeenInit == Init => SeenInv
BY DEF Init, SeenInv

\* While the scan is at its link the network only adds to what it has received.
LEMMA WaitingGrows ==
  ASSUME TypeOK, Network \/ Tick \/ UNCHANGED vars, NEW l \in Link
  PROVE  sock'[l].rx >= sock[l].rx
<1>t. sock \in [Link -> SockT] /\ sock[l].rx \in Nat
  BY DEF TypeOK, SockT
<1>1. ASSUME NEW k \in Link, Arrive(k) \/ PeerCloses(k) \/ PeerResets(k)
      PROVE  sock'[l].rx >= sock[l].rx
  <2>1. sock'[l].rx = sock[l].rx \/ sock'[l].rx = sock[l].rx + 1
    <3>1. CASE l = k
      BY <1>t, <1>1, <3>1 DEF Arrive, PeerCloses, PeerResets, SockT
    <3>2. CASE l # k
      BY <1>t, <1>1, <3>2 DEF Arrive, PeerCloses, PeerResets
    <3> QED
      BY <3>1, <3>2
  <2> QED
    BY <1>t, <2>1
<1>2. CASE Network
  BY <1>1, <1>2 DEF Network
<1>3. CASE Tick \/ UNCHANGED vars
  <2>1. sock' = sock
    BY <1>3 DEF Tick, vars
  <2> QED
    BY <1>t, <2>1
<1> QED
  BY <1>2, <1>3

LEMMA SeenStep == TypeOK /\ SeenInv /\ [Next]_vars => SeenInv'
<1> SUFFICES ASSUME TypeOK, SeenInv, [Next]_vars PROVE SeenInv'
  OBVIOUS
<1>i. pc \in ScanPc => i \in Link
  BY PolledLinks DEF TypeOK
<1>r. \A l \in Link : sock[l].rx \in Nat
  BY DEF TypeOK, SockT
<1>1. CASE PollForward \/ PollAnnounce \/ PollNothing
  <2>1. pc = "read" /\ AfterRead
    BY <1>1 DEF PollForward, PollAnnounce, PollNothing
  <2>2. sock'[i].rx \in Nat
    <3>1. TypeOK' /\ i \in Link
      BY <1>i, <2>1, TypeStep
    <3> QED
      BY <3>1 DEF TypeOK, SockT
  <2> QED
    BY <2>1, <2>2 DEF AfterRead, SeenInv
<1>2. CASE LookClosed \/ LookIdle
  <2>1. /\ pc \in {"reap", "gone"} /\ pc' \in {"gone", "idle"} /\ UNCHANGED left
        /\ pc = "reap" => sock[i].rx = 0
    BY <1>2 DEF LookClosed, LookIdle, LookAgain, Stays, LooksIdle
  <2>2. left \in Nat
    BY DEF TypeOK
  <2> QED
    BY <2>1, <2>2 DEF SeenInv
<1>3. CASE \/ ReapClosed \/ ReapIdle \/ CountServerLink \/ PassOverLink \/ PassOverFree
  <2>1. NextLink
    BY <1>3 DEF ReapClosed, ReapIdle, CountServerLink, PassOverLink, PassOverFree
  <2> QED
    BY <2>1 DEF NextLink, SeenInv
<1>4. CASE Network \/ Tick \/ UNCHANGED vars
  <2>1. UNCHANGED <<pc, i, left>>
    BY <1>4 DEF Network, Arrive, PeerCloses, PeerResets, Tick, loopVars, vars
  <2>2. pc = "reap" => sock'[i].rx >= sock[i].rx /\ sock'[i].rx \in Int
    <3> SUFFICES ASSUME pc = "reap" PROVE sock'[i].rx >= sock[i].rx /\ sock'[i].rx \in Int
      OBVIOUS
    <3>1. i \in Link
      BY <1>i
    <3>2. sock'[i].rx \in Nat
      <4>1. TypeOK'
        BY TypeStep
      <4> QED
        BY <3>1, <4>1 DEF TypeOK, SockT
    <3> QED
      BY <1>4, <3>1, <3>2, WaitingGrows
  <2> QED
    BY <1>i, <1>r, <2>1, <2>2 DEF SeenInv, TypeOK
<1>5. CASE \/ PollStart \/ PollSkip \/ Accept \/ Payload \/ SerialEnd \/ LinkCommand \/ ServerCommand
  <2>1. pc' \notin {"reap", "gone", "idle"}
    BY <1>5 DEF PollStart, PollSkip, Accept, AcceptEnd, AcceptNone, AcceptClient, EnterSerial,
                Payload, PayloadByte, PayloadSent, PayloadFailed, loopVars, SerialEnd, LinkCommand,
                CipStart, CipSend, CipClose, CipRecvData, CipRecvMode, ServerCommand, CipMux,
                CipServerStart, CipServerStop, CipServerMaxConn, CipSto, Command
  <2> QED
    BY <2>1 DEF SeenInv
<1> QED
  BY <1>1, <1>2, <1>3, <1>4, <1>5 DEF Next, Poll

\* Only the two deletions of the scan, and commands, close a link.
LEMMA DropStep ==
  ASSUME TypeOK, SeenInv, [Next]_vars, NEW l \in Link, Dropped(l), pc # "serial"
  PROVE  left = 0 /\ (pc = "gone" => sock[l].st = "CLOSED")
<1> USE DEF Dropped
<1>t. clients \in [Link -> ClientT]
  BY DEF TypeOK
<1>i. pc \in ScanPc => i \in Link
  BY PolledLinks DEF TypeOK
<1>1. CASE PollForward
  BY <1>t, <1>i, <1>1 DEF PollForward, ClientT
<1>2. CASE PollAnnounce
  BY <1>t, <1>i, <1>2 DEF PollAnnounce, ClientT
<1>3. CASE ReapClosed
  <2>1. DeleteClient(clients, {i}) /\ pc = "gone" /\ ~Connected(i)
    BY <1>3 DEF ReapClosed, PeerGone
  <2>2. l = i
    BY <2>1 DEF DeleteClient, Deleted
  <2>3. sock[l].st \in {"ESTABLISHED", "CLOSE_WAIT", "CLOSED"}
    BY DEF TypeOK, SockT
  <2> QED
    BY <2>1, <2>2, <2>3 DEF Connected, SeenInv
<1>4. CASE ReapIdle
  BY <1>4 DEF ReapIdle, SeenInv
<1>5. CASE Accept
  <2>1. CASE AcceptClient
    <3>1. /\ freeLinkId \in Link
          /\ clients' = [clients EXCEPT ![freeLinkId] = Opened(@, "TCP")]
      BY <2>1 DEF AcceptClient, MayAccept, TypeOK
    <3> QED
      BY <1>t, <3>1 DEF Opened, ClientT
  <2> QED
    BY <1>5, <2>1 DEF Accept, AcceptEnd, AcceptNone
<1>6. CASE Payload \/ SerialEnd \/ LinkCommand \/ ServerCommand
  BY <1>6 DEF Payload, PayloadByte, PayloadSent, PayloadFailed, SerialEnd, LinkCommand, ServerCommand,
              CipStart, CipSend, CipClose, CipRecvData, CipRecvMode, CipMux, CipServerStart,
              CipServerStop, CipServerMaxConn, CipSto, Command
<1>7. CASE Tick
  BY <1>t, <1>7 DEF Tick, ClientT
<1>8. CASE \/ PollStart \/ PollSkip \/ PollNothing \/ CountServerLink \/ PassOverLink \/ PassOverFree
           \/ LookClosed \/ LookIdle \/ Network \/ UNCHANGED vars
  BY <1>8, LookFrame
     DEF PollStart, PollSkip, PollNothing, CountServerLink, PassOverLink, PassOverFree,
         Network, Arrive, PeerCloses, PeerResets, vars
<1> QED
  BY <1>1, <1>2, <1>3, <1>4, <1>5, <1>6, <1>7, <1>8 DEF Next, Poll

\* A scan that closes a link, be it that the peer has gone or that the link was
\* idle too long, gives up nothing it had seen on that link, and of a connection
\* that ended only what a reset has left (ESP_ATMod.ino:259-320).
THEOREM SeenDataKeptCorrect == Spec => SeenDataKept
<1>1. TypeOK /\ SeenInv /\ [Next]_vars =>
        [\A l \in Link : Dropped(l) /\ pc # "serial"
           => left = 0 /\ (pc = "gone" => sock[l].st = "CLOSED")]_vars
  BY DropStep
<1> QED
  BY <1>1, TypeInit, TypeStep, SeenInit, SeenStep, PTL DEF Spec, SeenDataKept

-----------------------------------------------------------------------------
(***************************************************************************)
(* The number of connections the servers hold                              *)
(***************************************************************************)

\* Links of listening servers below n: those the scan has passed.
Passed(n) == {l \in Link : l < n /\ clients[l].client /\ IsServer(l)}

CountInv ==
  /\ pc \in ScanPc => serversConnCount = Cardinality(Passed(i))
  /\ pc \in {"gone", "idle"} => clients[i].client
  /\ pc = "idle" => IsServer(i)
  /\ ServerCountExact

LEMMA PassedFinite ==
  ASSUME NEW n \in Nat
  PROVE  /\ IsFiniteSet(Passed(n)) /\ IsFiniteSet(ServerLinks)
         /\ Cardinality(Passed(n)) \in Nat /\ Cardinality(ServerLinks) \in Nat
<1>1. IsFiniteSet(Link)
  BY TableAssumption, FS_Interval
<1>2. Passed(n) \subseteq Link /\ ServerLinks \subseteq Link
  BY DEF Passed, ServerLinks
<1> QED
  BY <1>1, <1>2, FS_Subset, FS_CardinalityType

\* A step that opens and closes no link and touches no port changes no count.
LEMMA SameServerLinks ==
  ASSUME NEW n, UNCHANGED servers,
         \A l \in Link : clients'[l].client = clients[l].client /\ sock'[l].port = sock[l].port
  PROVE  Passed(n)' = Passed(n) /\ ServerLinks' = ServerLinks
BY DEF Passed, ServerLinks, IsServer

\* Going on from link i keeps the count exact if it counts link i as it should:
\* past the last link of the scan there is no link of a server.
LEMMA CountNext ==
  ASSUME TypeOK, TypeOK', SingleLinkMode', i \in Polled, NextLink, UNCHANGED gsCipMux,
         NEW n \in Nat, n = i + 1, serversConnCount' = Cardinality(Passed(n)')
  PROVE  CountInv'
<1>1. CASE i < MaxCli
  BY <1>1 DEF NextLink, CountInv, ServerCountExact, Passed
<1>2. CASE ~(i < MaxCli)
  <2>1. n = MaxCli' + 1 /\ pc' = "accept"
    BY <1>2, TableAssumption DEF NextLink, Polled, MaxCli, TypeOK
  <2>2. Passed(n)' = ServerLinks'
    BY <2>1, TableAssumption
       DEF TypeOK, SingleLinkMode, Passed, ServerLinks, IsServer, MaxCli
  <2> QED
    BY <2>1, <2>2 DEF CountInv, ServerCountExact
<1> QED
  BY <1>1, <1>2

\* Deleting link i leaves the links passed before it, and nothing at i.
LEMMA PassedAfterDelete ==
  ASSUME TypeOK, i \in Link, UNCHANGED servers, DeleteClient(clients, {i}),
         NEW n \in Nat, n = i + 1
  PROVE  Passed(n)' = Passed(i)
<1>1. \A l \in Link : /\ l # i => (clients'[l] = clients[l] /\ sock'[l] = sock[l])
                     /\ l = i => ~clients'[l].client
  BY DEF DeleteClient, Deleted, Closed
<1>2. \A l \in Link : (l < n /\ clients'[l].client /\ IsServer(l)') <=>
                     (l < i /\ clients[l].client /\ IsServer(l))
  <2> SUFFICES ASSUME NEW l \in Link
               PROVE  (l < n /\ clients'[l].client /\ IsServer(l)') <=>
                      (l < i /\ clients[l].client /\ IsServer(l))
    OBVIOUS
  <2>1. CASE l = i
    BY <1>1, <2>1, TableAssumption
  <2>2. CASE l # i
    <3>1. clients'[l] = clients[l] /\ sock'[l] = sock[l]
      BY <2>2 DEF DeleteClient, Deleted
    <3>2. IsServer(l)' <=> IsServer(l)
      BY <3>1 DEF IsServer
    <3>3. l < n <=> l < i
      BY <2>2, TableAssumption
    <3> QED
      BY <3>1, <3>2, <3>3
  <2> QED
    BY <2>1, <2>2
<1>3. Passed(n)' = {l \in Link : l < n /\ clients'[l].client /\ IsServer(l)'}
  BY DEF Passed
<1> QED
  BY <1>2, <1>3 DEF Passed

\* An accepted connection is one more link of the servers.
LEMMA AcceptCounts ==
  ASSUME TypeOK, FreeLinkIsFree, CountInv, AcceptClient
  PROVE  /\ pc = "accept" /\ pc' = "accept"
         /\ serversConnCount < gsServersMaxConn /\ gsServersMaxConn' = gsServersMaxConn
         /\ serversConnCount' = serversConnCount + 1
         /\ Cardinality(ServerLinks') = serversConnCount + 1
<1>1. /\ freeLinkId \in Link /\ ~clients[freeLinkId].client
      /\ i \in Server /\ servers[i] # CLOSED
      /\ clients \in [Link -> ClientT] /\ sock \in [Link -> SockT]
  BY PolledLinks DEF AcceptClient, MayAccept, FreeLinkIsFree, TypeOK
<1>2. \A l \in Link : clients'[l].client <=> (l = freeLinkId \/ clients[l].client)
  BY <1>1 DEF AcceptClient, Opened
<1>3. /\ sock'[freeLinkId].port = servers[i]
      /\ \A l \in Link \ {freeLinkId} : sock'[l].port = sock[l].port
  BY <1>1 DEF AcceptClient, NewSock
<1>4. UNCHANGED servers
  BY DEF AcceptClient
<1>5. ServerLinks' = ServerLinks \cup {freeLinkId} /\ freeLinkId \notin ServerLinks
  BY <1>1, <1>2, <1>3, <1>4 DEF ServerLinks, IsServer
<1>6. Cardinality(ServerLinks') = Cardinality(ServerLinks) + 1
  BY <1>5, PassedFinite, FS_AddElement
<1> QED
  BY <1>6 DEF AcceptClient, MayAccept, CountInv, ServerCountExact, settings

LEMMA CountInit == Init => CountInv
BY DEF Init, CountInv, ServerCountExact

LEMMA CountStep ==
  ASSUME TypeOK, TypeOK', SingleLinkMode', FreeLinkIsFree, CountInv, [Next]_vars
  PROVE  CountInv'
<1>t. clients \in [Link -> ClientT] /\ sock \in [Link -> SockT]
  BY DEF TypeOK
<1>i. pc \in ScanPc => i \in Link /\ i \in Polled
  BY PolledLinks DEF TypeOK
<1>1. CASE PollStart
  <2>1. Passed(0)' = {}
    BY TableAssumption DEF Passed
  <2>2. Passed(i)' = {}
    BY <1>1, <2>1 DEF PollStart
  <2> QED
    BY <1>1, <2>2, FS_EmptySet DEF PollStart, CountInv, ServerCountExact
<1>2. CASE PollForward \/ PollAnnounce \/ PollNothing
  <2>1. /\ pc' = "reap" /\ pc = "read" /\ UNCHANGED <<i, serversConnCount, servers>>
    BY <1>2 DEF PollForward, PollAnnounce, PollNothing, AfterRead
  <2>3. \A l \in Link : clients'[l].client = clients[l].client
    <3> SUFFICES ASSUME NEW l \in Link PROVE clients'[l].client = clients[l].client
      OBVIOUS
    <3>1. CASE PollForward
      BY <1>t, <1>i, <3>1 DEF PollForward, ClientT
    <3>2. CASE PollAnnounce
      BY <1>t, <1>i, <3>2 DEF PollAnnounce, ClientT
    <3> QED
      BY <1>2, <3>1, <3>2 DEF PollNothing
  <2>4. \A l \in Link : sock'[l].port = sock[l].port
    <3> SUFFICES ASSUME NEW l \in Link PROVE sock'[l].port = sock[l].port
      OBVIOUS
    <3>1. CASE l = i
      BY <1>t, <1>2, <3>1 DEF PollForward, PollAnnounce, PollNothing, SockT
    <3>2. CASE l # i
      BY <1>t, <1>2, <3>2 DEF PollForward, PollAnnounce, PollNothing
    <3> QED
      BY <3>1, <3>2
  <2>2. Passed(i)' = Passed(i)
    BY <2>1, <2>3, <2>4 DEF Passed, IsServer
  <2> QED
    BY <2>1, <2>2 DEF CountInv, ServerCountExact
<1>3. CASE ReapClosed \/ ReapIdle
  <2>1. /\ i \in Link /\ i \in Polled /\ NextLink /\ UNCHANGED <<gsCipMux, servers, serversConnCount>>
        /\ serversConnCount = Cardinality(Passed(i)) /\ DeleteClient(clients, {i})
    BY <1>i, <1>3 DEF ReapClosed, ReapIdle, settings, CountInv
  <2>2. PICK n \in Nat : n = i + 1
    BY <2>1, TableAssumption
  <2>3. Passed(n)' = Passed(i)
    BY <2>1, <2>2, PassedAfterDelete
  <2> QED
    BY <2>1, <2>2, <2>3, CountNext
<1>4. CASE CountServerLink
  <2>1. /\ i \in Link /\ i \in Polled /\ NextLink /\ UNCHANGED <<gsCipMux, servers, clients, sock>>
        /\ serversConnCount' = Cardinality(Passed(i)) + 1
        /\ clients[i].client /\ IsServer(i)
    BY <1>i, <1>4 DEF CountServerLink, Stays, settings, CountInv
  <2>2. PICK n \in Nat : n = i + 1
    BY <2>1, TableAssumption
  <2>3. \A l \in Link : l < n <=> l < i \/ l = i
    BY <2>1, <2>2, TableAssumption
  <2>4. Passed(n)' = Passed(i) \cup {i} /\ i \notin Passed(i)
    BY <2>1, <2>3, TableAssumption DEF Passed, IsServer
  <2>5. Cardinality(Passed(n)') = Cardinality(Passed(i)) + 1
    <3>1. i \in Nat
      BY <2>1, TableAssumption
    <3>2. IsFiniteSet(Passed(i))
      BY <3>1, PassedFinite
    <3> QED
      BY <2>4, <3>2, FS_AddElement
  <2> QED
    BY <2>1, <2>2, <2>5, CountNext
<1>5. CASE PassOverLink \/ PassOverFree
  <2>1. /\ i \in Link /\ i \in Polled /\ NextLink /\ UNCHANGED <<gsCipMux, servers, clients, sock>>
        /\ serversConnCount' = Cardinality(Passed(i))
        /\ ~(clients[i].client /\ IsServer(i))
    BY <1>i, <1>5 DEF PassOverLink, PassOverFree, Stays, settings, CountInv
  <2>2. PICK n \in Nat : n = i + 1
    BY <2>1, TableAssumption
  <2>3. \A l \in Link : l < n <=> l < i \/ l = i
    BY <2>1, <2>2, TableAssumption
  <2>4. Passed(n)' = Passed(i)
    BY <2>1, <2>3 DEF Passed, IsServer
  <2> QED
    BY <2>1, <2>2, <2>4, CountNext
<1>6. CASE AcceptClient
  BY <1>6, AcceptCounts DEF CountInv, ServerCountExact
<1>7. CASE AcceptNone
  BY <1>7, SameServerLinks DEF AcceptNone, CountInv, ServerCountExact
<1>8. CASE PollSkip \/ AcceptEnd \/ SerialEnd \/ Payload \/ LinkCommand \/ ServerCommand
  <2>1. pc' \in {"serial", "loop"}
    BY <1>8 DEF PollSkip, AcceptEnd, EnterSerial, SerialEnd, Payload, PayloadByte, PayloadSent,
                PayloadFailed, loopVars, LinkCommand, CipStart, CipSend, CipClose, CipRecvData,
                CipRecvMode, ServerCommand, CipMux, CipServerStart, CipServerStop,
                CipServerMaxConn, CipSto, Command
  <2> QED
    BY <2>1 DEF CountInv, ServerCountExact
<1>9. CASE Network \/ Tick \/ UNCHANGED vars
  <2>1. UNCHANGED <<servers, loopVars>>
    BY <1>9 DEF Network, Arrive, PeerCloses, PeerResets, Tick, vars
  <2>2. \A l \in Link : clients'[l].client = clients[l].client /\ sock'[l].port = sock[l].port
    <3>1. CASE Network \/ UNCHANGED vars
      <4>1. clients' = clients
        BY <3>1 DEF Network, Arrive, PeerCloses, PeerResets, vars
      <4>2. ASSUME NEW k \in Link, Arrive(k) \/ PeerCloses(k) \/ PeerResets(k), NEW l \in Link
            PROVE  sock'[l].port = sock[l].port
        <5>1. CASE l = k
          BY <1>t, <4>2, <5>1 DEF Arrive, PeerCloses, PeerResets, SockT
        <5>2. CASE l # k
          BY <1>t, <4>2, <5>2 DEF Arrive, PeerCloses, PeerResets
        <5> QED
          BY <5>1, <5>2
      <4> QED
        BY <3>1, <4>1, <4>2 DEF Network, vars
    <3>2. CASE Tick
      BY <1>t, <3>2 DEF Tick, ClientT
    <3> QED
      BY <1>9, <3>1, <3>2
  <2>3. Passed(i)' = Passed(i) /\ ServerLinks' = ServerLinks
    BY <2>1, <2>2, SameServerLinks DEF Passed, IsServer, loopVars
  <2>4. pc \in ScanPc => clients'[i].client = clients[i].client /\ (IsServer(i)' <=> IsServer(i))
    BY <1>i, <2>1, <2>2 DEF IsServer, loopVars
  <2> QED
    BY <2>1, <2>3, <2>4 DEF CountInv, ServerCountExact, loopVars
<1>10. CASE LookClosed \/ LookIdle
  <2>1. /\ pc \in {"reap", "gone"} /\ pc' \in {"gone", "idle"}
        /\ UNCHANGED <<clients, sock, servers, i, serversConnCount>>
    BY <1>10, LookFrame
  <2>2. Passed(i)' = Passed(i)
    BY <2>1 DEF Passed, IsServer
  <2>3. clients[i].client /\ (pc' = "idle" => IsServer(i))
    BY <1>10 DEF LookClosed, LookIdle, LookAgain, Stays, CountInv
  <2>4. IsServer(i)' <=> IsServer(i)
    BY <2>1 DEF IsServer
  <2> QED
    BY <2>1, <2>2, <2>3, <2>4 DEF CountInv, ServerCountExact
<1> QED
  BY <1>1, <1>2, <1>3, <1>4, <1>5, <1>6, <1>7, <1>8, <1>9, <1>10 DEF Next, Poll, Accept

\* serversConnCount, gathered over many steps of the scan while connections
\* come and go, is the number of links of listening servers when it is used.
THEOREM ServerCountCorrect == Spec => []ServerCountExact
<1>1. CountInv => ServerCountExact
  BY DEF CountInv
<1>2. FreeLinkInv => FreeLinkIsFree
  BY DEF FreeLinkInv
<1> QED
  BY <1>1, <1>2, TypeInit, TypeStep, SingleLinkInit, SingleLinkStep, FreeLinkInit, FreeLinkStep,
     CountInit, CountStep, PTL DEF Spec

\* No accepted connection takes the links of the listening servers over the
\* limit of AT+CIPSERVERMAXCONN.
THEOREM AcceptWithinLimitCorrect == Spec => AcceptWithinLimit
<1> DEFINE Step == \A l \in Link : pc = "accept" /\ ~clients[l].client /\ clients'[l].client
                     => Cardinality(ServerLinks') <= gsServersMaxConn
<1>1. ASSUME TypeOK, FreeLinkIsFree, CountInv, [Next]_vars
      PROVE  [Step]_vars
  <2> SUFFICES ASSUME NEW l \in Link, pc = "accept", ~clients[l].client, clients'[l].client
               PROVE  Cardinality(ServerLinks') <= gsServersMaxConn
    OBVIOUS
  <2>1. Opens
    BY <1>1, OnlyOpensOpen
  <2>2. AcceptClient
    BY <2>1 DEF Opens, CipStart, Command
  <2>3. serversConnCount \in Nat /\ gsServersMaxConn \in 1..5
    BY <1>1 DEF TypeOK
  <2> QED
    BY <1>1, <2>2, <2>3, AcceptCounts
<1>2. FreeLinkInv => FreeLinkIsFree
  BY DEF FreeLinkInv
<1> QED
  BY <1>1, <1>2, TypeInit, TypeStep, SingleLinkInit, SingleLinkStep, FreeLinkInit, FreeLinkStep,
     CountInit, CountStep, PTL DEF Spec, AcceptWithinLimit
=============================================================================
