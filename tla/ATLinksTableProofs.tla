------------------------- MODULE ATLinksTableProofs -------------------------
(***************************************************************************)
(* The link table of the firmware implements LinkTable: every step of      *)
(* loop(), of a command and of the network is a step of the abstract table *)
(* or leaves it alone.  The proof rests on the invariants of ATLinksProofs *)
(* and on the ports of the servers being distinct.                         *)
(***************************************************************************)
EXTENDS ATLinksProofs

LEMMA DistinctInit == Init => DistinctServers
BY DEF Init, DistinctServers

LEMMA DistinctStep == TypeOK /\ DistinctServers /\ [Next]_vars => DistinctServers'
<1> SUFFICES ASSUME TypeOK, DistinctServers, [Next]_vars PROVE DistinctServers'
  OBVIOUS
<1>1. CASE ServerCommand
  <2>1. ASSUME NEW port \in Ports, CipServerStart(port)
        PROVE  DistinctServers'
    BY <2>1 DEF CipServerStart, AlreadyRunning, DistinctServers, TypeOK
  <2>2. ASSUME NEW port \in Ports \cup {0}, CipServerStop(port)
        PROVE  DistinctServers'
    <3>1. PICK j \in Server : servers' = [servers EXCEPT ![j] = CLOSED]
      BY <2>2 DEF CipServerStop
    <3> QED
      BY <3>1 DEF DistinctServers, TypeOK
  <2>3. ASSUME UNCHANGED servers
        PROVE  DistinctServers'
    BY <2>3 DEF DistinctServers
  <2> QED
    BY <1>1, <2>1, <2>2, <2>3 DEF ServerCommand, CipMux, CipServerMaxConn, CipSto
<1>2. CASE ~ServerCommand
  BY <1>2, ServerFrame DEF DistinctServers
<1> QED
  BY <1>1, <1>2

\* No port is served by two slots of servers[], so CIPSERVER=0,<port> closes the
\* port it names.
THEOREM DistinctServersCorrect == Spec => []DistinctServers
BY TypeInit, TypeStep, DistinctInit, DistinctStep, PTL DEF Spec

-----------------------------------------------------------------------------
(***************************************************************************)
(* How steps map                                                           *)
(***************************************************************************)

TableVars == <<TableConn, gsLinkIdReading, Listening, gsCipMux, gsServersMaxConn>>

\* A link that stays open or stays free, on its port, is the same to the table.
LEMMA ConnKept ==
  ASSUME \A l \in Link : /\ clients'[l].client = clients[l].client
                         /\ sock'[l].port = sock[l].port
  PROVE  TableConn' = TableConn
BY DEF TableConn

LEMMA ListeningKept ==
  ASSUME UNCHANGED servers
  PROVE  Listening' = Listening
BY DEF Listening

\* Filling a free link with a connection on a port.
LEMMA ConnOpened ==
  ASSUME TypeOK, NEW k \in Link, NEW type, NEW port \in Ports \cup {CLOSED},
         clients' = [clients EXCEPT ![k] = Opened(@, type)],
         sock' = [sock EXCEPT ![k] = NewSock(port)]
  PROVE  TableConn' = [TableConn EXCEPT ![k] = port]
<1>1. ASSUME NEW l \in Link
      PROVE  /\ clients'[l].client = (IF l = k THEN TRUE ELSE clients[l].client)
             /\ sock'[l].port = (IF l = k THEN port ELSE sock[l].port)
  <2>1. clients \in [Link -> ClientT] /\ sock \in [Link -> SockT]
    BY DEF TypeOK
  <2>2. CASE l = k
    BY <2>1, <2>2 DEF Opened, NewSock
  <2>3. CASE l # k
    BY <2>1, <2>3
  <2> QED
    BY <2>2, <2>3
<1> QED
  BY <1>1 DEF TableConn

\* DeleteClient of open links is a Close of the table.
LEMMA DeleteCloses ==
  ASSUME TypeOK, NEW D \in SUBSET Link, NEW table,
         \A l \in Link : table[l].client = clients[l].client,
         \A l \in D : clients[l].client,
         DeleteClient(table, D), UNCHANGED <<servers, gsCipMux, gsServersMaxConn>>
  PROVE  Table!Close(D)
<1>1. \A l \in Link : sock[l].port # -1
  BY InputAssumption DEF TypeOK, SockT, CLOSED
<1>2. \A l \in D : TableConn[l] # -1
  BY <1>1 DEF TableConn
<1>3. TableConn' = [l \in Link |-> IF l \in D THEN -1 ELSE TableConn[l]]
  BY DEF TableConn, DeleteClient, Deleted, Closed
<1>4. gsLinkIdReading' = IF gsLinkIdReading \in D THEN -1 ELSE gsLinkIdReading
  BY DEF DeleteClient, ReadingAfterDelete
<1> QED
  BY <1>2, <1>3, <1>4, ListeningKept DEF Table!Close, Table!Free, Table!None

-----------------------------------------------------------------------------
(***************************************************************************)
(* The steps                                                               *)
(***************************************************************************)

LEMMA PollTable ==
  ASSUME TypeOK, CountInv, Poll
  PROVE  [Table!Next]_TableVars
<1>i. /\ i \in Link /\ UNCHANGED <<servers, gsCipMux, gsServersMaxConn>>
      /\ clients \in [Link -> ClientT] /\ sock \in [Link -> SockT]
  BY PolledLinks, LookFrame
     DEF TypeOK, Poll, PollForward, PollAnnounce, PollNothing, AfterRead, ReapClosed, ReapIdle, Stays,
         CountServerLink, PassOverLink, PassOverFree, settings
<1>1. CASE ReapClosed \/ ReapIdle
  <2>1. clients[i].client /\ DeleteClient(clients, {i})
    BY <1>1 DEF ReapClosed, ReapIdle, CountInv
  <2>2. {i} \in SUBSET Link
    BY <1>i
  <2>3. Table!Close({i})
    BY <1>i, <2>1, <2>2, DeleteCloses
  <2> QED
    BY <2>2, <2>3 DEF Table!Next
<1>2. CASE ~(ReapClosed \/ ReapIdle)
  <2>1. UNCHANGED send
    BY <1>2, LookFrame DEF Poll, PollForward, PollAnnounce, PollNothing, AfterRead,
                           CountServerLink, PassOverLink, PassOverFree
  <2>2. \A l \in Link : clients'[l].client = clients[l].client
    <3> SUFFICES ASSUME NEW l \in Link PROVE clients'[l].client = clients[l].client
      OBVIOUS
    <3>1. CASE PollForward
      BY <1>i, <3>1 DEF PollForward, ClientT
    <3>2. CASE PollAnnounce
      BY <1>i, <3>2 DEF PollAnnounce, ClientT
    <3> QED
      BY <1>2, <3>1, <3>2, LookFrame
         DEF Poll, PollNothing, CountServerLink, PassOverLink, PassOverFree
  <2>3. \A l \in Link : sock'[l].port = sock[l].port
    <3> SUFFICES ASSUME NEW l \in Link PROVE sock'[l].port = sock[l].port
      OBVIOUS
    <3>1. CASE PollForward /\ l = i
      BY <1>i, <3>1 DEF PollForward, SockT
    <3>2. CASE PollForward /\ l # i
      BY <1>i, <3>2 DEF PollForward
    <3> QED
      BY <1>2, <3>1, <3>2, LookFrame
         DEF Poll, PollAnnounce, PollNothing, CountServerLink, PassOverLink, PassOverFree
  <2> QED
    BY <1>i, <2>1, <2>2, <2>3, ConnKept, ListeningKept DEF TableVars, send
<1> QED
  BY <1>1, <1>2

LEMMA AcceptTable ==
  ASSUME TypeOK, FreeLinkIsFree, CountInv, AcceptClient
  PROVE  Table!Next
<1> DEFINE p == servers[i]
<1>1. /\ freeLinkId \in Link /\ ~clients[freeLinkId].client
      /\ i \in Server /\ p \in Ports /\ p # CLOSED
  <2>1. freeLinkId \in Link /\ ~clients[freeLinkId].client
    BY PolledLinks DEF AcceptClient, MayAccept, FreeLinkIsFree, TypeOK
  <2>2. servers \in [Server -> Ports \cup {CLOSED}] /\ i \in Nat
    BY DEF TypeOK
  <2>3. i <= MaxServer /\ servers[i] # CLOSED
    BY DEF AcceptClient
  <2>4. i \in Server
    BY <2>2, <2>3, TableAssumption DEF Server
  <2> QED
    BY <2>1, <2>2, <2>3, <2>4
<1>2. p \in Listening
  BY <1>1 DEF Listening
<1>3. /\ UNCHANGED <<servers, gsLinkIdReading, gsCipMux, gsServersMaxConn>>
      /\ clients' = [clients EXCEPT ![freeLinkId] = Opened(@, "TCP")]
      /\ sock' = [sock EXCEPT ![freeLinkId] = NewSock(p)]
      /\ Cardinality(ServerLinks) < gsServersMaxConn
  BY DEF AcceptClient, MayAccept, CountInv, ServerCountExact, settings, send
<1>4. TableConn' = [TableConn EXCEPT ![freeLinkId] = p]
  BY <1>1, <1>3, ConnOpened
<1>5. Table!Served = ServerLinks
  <2>1. \A l \in Link : sock[l].port # -1 /\ -1 \notin Listening
    BY InputAssumption DEF TypeOK, SockT, CLOSED, Listening
  <2>2. \A l \in Link : clients[l].client => (sock[l].port \in Listening <=> IsServer(l))
    BY DEF Listening, IsServer
  <2> QED
    BY <2>1, <2>2 DEF Table!Served, ServerLinks, TableConn
<1>6. TableConn[freeLinkId] = -1
  BY <1>1 DEF TableConn
<1>7. Table!Cardinality(Table!Served) < gsServersMaxConn /\ Listening' = Listening
  <2>1. Table!Cardinality(ServerLinks) = Cardinality(ServerLinks)
    BY Zenon DEF Table!Cardinality, Cardinality
  <2> QED
    BY <1>3, <1>5, <2>1, ListeningKept
<1> HIDE DEF p
<1>8. Table!Accept(freeLinkId, p)
  BY <1>2, <1>3, <1>4, <1>6, <1>7 DEF Table!Accept, Table!Free
<1> QED
  BY <1>1, <1>8 DEF Table!Next

LEMMA PayloadTable ==
  ASSUME TypeOK, Payload
  PROVE  [Table!Next]_TableVars
<1>t. clients \in [Link -> ClientT] /\ sock \in [Link -> SockT]
  BY DEF TypeOK
<1>1. UNCHANGED <<servers, gsCipMux, gsServersMaxConn>> /\ gsLinkIdReading # -1
  BY DEF Payload, PayloadByte, PayloadSent, PayloadFailed, settings
<1>2. \A l \in Link : clients'[l].client = clients[l].client
  <2> SUFFICES ASSUME NEW l \in Link PROVE clients'[l].client = clients[l].client
    OBVIOUS
  <2>1. CASE PayloadSent
    BY <1>t, <2>1 DEF PayloadSent, ClientT
  <2> QED
    BY <2>1 DEF Payload, PayloadByte, PayloadFailed
<1>3. \A l \in Link : sock'[l].port = sock[l].port
  <2> SUFFICES ASSUME NEW l \in Link PROVE sock'[l].port = sock[l].port
    OBVIOUS
  <2>1. CASE PayloadFailed
    BY <1>t, <2>1 DEF PayloadFailed, SockT
  <2> QED
    BY <2>1 DEF Payload, PayloadByte, PayloadSent
<1>4. gsLinkIdReading' = gsLinkIdReading \/ gsLinkIdReading' = -1
  BY DEF Payload, PayloadByte, PayloadSent, PayloadFailed, PayloadEnds
<1>5. TableConn' = TableConn /\ Listening' = Listening
  BY <1>1, <1>2, <1>3, ConnKept, ListeningKept
<1>6. CASE gsLinkIdReading' = -1
  <2>1. Table!EndSend
    BY <1>1, <1>5, <1>6 DEF Table!EndSend, Table!None
  <2> QED
    BY <2>1 DEF Table!Next
<1> QED
  BY <1>1, <1>4, <1>5, <1>6 DEF TableVars

LEMMA LinkCommandTable ==
  ASSUME LinkArgs \subseteq Link, TypeOK, LinkCommand
  PROVE  [Table!Next]_TableVars
<1>t. clients \in [Link -> ClientT] /\ sock \in [Link -> SockT]
  BY DEF TypeOK
<1>c. /\ UNCHANGED <<servers, gsCipMux, gsServersMaxConn>> /\ gsLinkIdReading = -1
      /\ Listening' = Listening
  BY ListeningKept DEF LinkCommand, CipStart, CipSend, CipClose, CipRecvData, CipRecvMode, Command,
     settings
<1>p. \A l \in Link : sock[l].port # -1
  BY InputAssumption DEF TypeOK, SockT, CLOSED
<1>1. ASSUME NEW l \in Link, NEW type \in {"TCP", "SSL"}, CipStart(l, type)
      PROVE  Table!Next
  <2>1. TableConn[l] = -1 /\ (gsCipMux = 0 => l = 0)
    BY <1>1 DEF CipStart, TableConn, LinkIds
  <2>2. TableConn' = [TableConn EXCEPT ![l] = CLOSED]
    BY <1>1, ConnOpened DEF CipStart
  <2>3. gsLinkIdReading' = gsLinkIdReading
    BY <1>1 DEF CipStart, send
  <2>4. Table!Connect(l)
    BY <1>c, <2>1, <2>2, <2>3 DEF Table!Connect, Table!Free, Table!Outgoing, CLOSED
  <2> QED
    BY <2>4 DEF Table!Next
<1>2. ASSUME NEW l \in LinkArgs, NEW size \in Sizes, CipSend(l, size)
      PROVE  Table!Next
  <2>1. l \in Link /\ clients[l].client /\ gsLinkIdReading' = l
    BY <1>2 DEF CipSend
  <2>2. TableConn[l] # -1
    BY <1>p, <2>1 DEF TableConn
  <2>3. \A k \in Link : clients'[k].client = clients[k].client /\ sock'[k].port = sock[k].port
    BY <1>t, <1>2 DEF CipSend, ClientT
  <2>4. TableConn' = TableConn
    BY <2>3, ConnKept
  <2>5. Table!BeginSend(l)
    BY <1>c, <2>1, <2>2, <2>4 DEF Table!BeginSend, Table!Free, Table!None
  <2> QED
    BY <2>1, <2>5 DEF Table!Next
<1>3. ASSUME NEW D \in SUBSET Link, CipClose(D)
      PROVE  Table!Next
  <2>1. Table!Close(D)
    BY <1>c, <1>3, DeleteCloses DEF CipClose
  <2> QED
    BY <2>1 DEF Table!Next
<1>4. ASSUME NEW l \in LinkArgs, NEW size \in Sizes, CipRecvData(l, size)
      PROVE  [Table!Next]_TableVars
  <2> DEFINE bytes == BytesRead(sock[l].rx, size)
             n == (clients[l].lastAvailableBytes - bytes) % CounterWidth
             table == [clients EXCEPT ![l].lastAvailableBytes = n]
  <2>1. /\ clients[l].client
        /\ \/ DeleteClient(table, {l})
           \/ /\ clients' = table
              /\ sock' = [sock EXCEPT ![l].rx = @ - bytes]
              /\ gsLinkIdReading' = gsLinkIdReading
    BY <1>4 DEF CipRecvData
  <2>2. \A k \in Link : table[k].client = clients[k].client
    BY <1>t DEF ClientT
  <2> HIDE DEF table, bytes
  <2>3. CASE DeleteClient(table, {l})
    <3>1. Table!Close({l})
      BY <1>c, <2>1, <2>2, <2>3, DeleteCloses
    <3> QED
      BY <3>1 DEF Table!Next
  <2>4. CASE ~DeleteClient(table, {l})
    <3>1. clients' = table /\ sock' = [sock EXCEPT ![l].rx = @ - bytes]
      BY <2>1, <2>4
    <3>2. \A k \in Link : sock'[k].port = sock[k].port
      BY <1>t, <3>1 DEF SockT
    <3>3. TableConn' = TableConn
      BY <2>2, <3>1, <3>2, ConnKept
    <3> QED
      BY <1>c, <2>1, <2>4, <3>3 DEF TableVars
  <2> QED
    BY <2>3, <2>4
<1>5. ASSUME NEW mode \in RecvModes, CipRecvMode(mode)
      PROVE  UNCHANGED TableVars
  <2>1. UNCHANGED <<clients, sock, gsLinkIdReading>>
    BY <1>5 DEF CipRecvMode, send
  <2> QED
    BY <1>c, <2>1, ConnKept DEF TableVars
<1> QED
  BY <1>1, <1>2, <1>3, <1>4, <1>5 DEF LinkCommand

LEMMA ServerCommandTable ==
  ASSUME TypeOK, DistinctServers, ServerCommand
  PROVE  [Table!Next]_TableVars
<1>1. UNCHANGED <<clients, sock, gsLinkIdReading>> /\ gsLinkIdReading = -1 /\ TableConn' = TableConn
  <2>1. UNCHANGED <<clients, sock, gsLinkIdReading>> /\ gsLinkIdReading = -1
    BY DEF ServerCommand, CipMux, CipServerStart, CipServerStop, CipServerMaxConn, CipSto, Command,
           send
  <2> QED
    BY <2>1, ConnKept
<1>2. ASSUME NEW mux \in {0, 1}, CipMux(mux)
      PROVE  Table!Next
  <2>1. (\A l \in Link : TableConn[l] = -1) /\ Listening = {}
    BY <1>2 DEF CipMux, NoLinkBuilt, TableConn, Listening
  <2>2. Table!SetMux(mux)
    BY <1>1, <1>2, <2>1, ListeningKept DEF CipMux, Table!SetMux, Table!Free, Table!None
  <2> QED
    BY <2>2 DEF Table!Next
<1>3. ASSUME NEW port \in Ports, CipServerStart(port)
      PROVE  Table!Next
  <2>1. PICK j \in Server : servers[j] = CLOSED /\ servers' = [servers EXCEPT ![j] = port]
    BY <1>3 DEF CipServerStart
  <2>2. port # CLOSED /\ servers \in [Server -> Ports \cup {CLOSED}]
    BY InputAssumption DEF TypeOK
  <2>3. Listening' = Listening \cup {port}
    BY <2>1, <2>2 DEF Listening
  <2>4. port \notin Listening
    BY <1>3 DEF CipServerStart, AlreadyRunning, Listening
  <2>5. Table!Listen(port)
    BY <1>1, <1>3, <2>3, <2>4 DEF CipServerStart, settings, Table!Listen
  <2> QED
    BY <2>5 DEF Table!Next
<1>4. ASSUME NEW port \in Ports \cup {0}, CipServerStop(port)
      PROVE  Table!Next
  <2>1. PICK j \in Server : servers[j] # CLOSED /\ servers' = [servers EXCEPT ![j] = CLOSED]
    BY <1>4 DEF CipServerStop
  <2>2. servers[j] \in Ports /\ servers \in [Server -> Ports \cup {CLOSED}]
    BY <2>1 DEF TypeOK
  <2>3. servers[j] \in Listening
    BY <2>1 DEF Listening
  <2>4. Listening' = Listening \ {servers[j]}
    BY <2>1, <2>2 DEF Listening, DistinctServers
  <2>5. Table!Unlisten(servers[j])
    BY <1>1, <1>4, <2>3, <2>4 DEF CipServerStop, settings, Table!Unlisten
  <2> QED
    BY <2>2, <2>5 DEF Table!Next
<1>5. ASSUME NEW max \in MaxConns, CipServerMaxConn(max)
      PROVE  Table!Next
  <2>1. Table!SetLimit(max) /\ max \in 1..5
    BY <1>1, <1>5, ListeningKept DEF CipServerMaxConn, Table!SetLimit
  <2> QED
    BY <2>1 DEF Table!Next
<1>6. ASSUME NEW to \in Timeouts, CipSto(to)
      PROVE  UNCHANGED TableVars
  BY <1>1, <1>6, ListeningKept DEF CipSto, TableVars
<1> QED
  BY <1>2, <1>3, <1>4, <1>5, <1>6 DEF ServerCommand

LEMMA EnvironmentTable ==
  ASSUME TypeOK, Network \/ Tick
  PROVE  UNCHANGED TableVars
<1>t. clients \in [Link -> ClientT] /\ sock \in [Link -> SockT]
  BY DEF TypeOK
<1>1. UNCHANGED <<servers, settings, send>>
  BY DEF Network, Arrive, PeerCloses, PeerResets, Tick
<1>2. \A l \in Link : clients'[l].client = clients[l].client
  BY <1>t DEF Network, Arrive, PeerCloses, PeerResets, Tick, ClientT
<1>3. ASSUME NEW k \in Link, Arrive(k) \/ PeerCloses(k) \/ PeerResets(k), NEW l \in Link
      PROVE  sock'[l].port = sock[l].port
  <2>1. CASE l = k
    BY <1>t, <1>3, <2>1 DEF Arrive, PeerCloses, PeerResets, SockT
  <2>2. CASE l # k
    BY <1>t, <1>3, <2>2 DEF Arrive, PeerCloses, PeerResets
  <2> QED
    BY <2>1, <2>2
<1>4. \A l \in Link : sock'[l].port = sock[l].port
  BY <1>3 DEF Network, Tick
<1> QED
  BY <1>1, <1>2, <1>4, ConnKept, ListeningKept DEF TableVars, settings, send

LEMMA TableInit == Init => Table!Init
BY DEF Init, Table!Init, Table!Free, Table!None, TableConn, Listening, NoClient

LEMMA TableStep ==
  ASSUME LinkArgs \subseteq Link, TypeOK, FreeLinkIsFree, CountInv, DistinctServers, [Next]_vars
  PROVE  [Table!Next]_TableVars
<1>1. CASE PollStart \/ PollSkip \/ AcceptEnd \/ AcceptNone \/ SerialEnd \/ UNCHANGED vars
  <2>1. UNCHANGED <<clients, sock, servers, settings, send>>
    BY <1>1 DEF PollStart, PollSkip, AcceptEnd, AcceptNone, SerialEnd, vars
  <2> QED
    BY <2>1, ConnKept, ListeningKept DEF TableVars, settings, send
<1> QED
  BY <1>1, PollTable, AcceptTable, PayloadTable, LinkCommandTable, ServerCommandTable,
     EnvironmentTable DEF Next, Accept

\* If the host names links 0..MaxLink only, the firmware implements the abstract
\* link table, whatever the number of links, servers and connections.
THEOREM LinkTableImplemented ==
  ASSUME LinkArgs \subseteq Link
  PROVE  Spec => ImplementsLinkTable
<1>1. TypeOK /\ FreeLinkInv /\ CountInv /\ DistinctServers /\ [Next]_vars
        => [Table!Next]_TableVars
  BY TableStep DEF FreeLinkInv
<1>2. UNCHANGED TableVars <=> UNCHANGED Table!vars
  BY DEF TableVars, Table!vars
<1>3. FreeLinkInv => FreeLinkIsFree
  BY DEF FreeLinkInv
<1> QED
  BY <1>1, <1>2, <1>3, TypeInit, TypeStep, SingleLinkInit, SingleLinkStep, FreeLinkInit, FreeLinkStep,
     CountInit, CountStep, DistinctInit, DistinctStep, TableInit, PTL
     DEF Spec, ImplementsLinkTable, Table!Spec, Table!vars, TableVars
=============================================================================
