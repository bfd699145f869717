------------------------------ MODULE ATLinks ------------------------------
(***************************************************************************)
(* The link table of the ESP_ATMod firmware: the five TCP/SSL links the    *)
(* host opens with AT commands or the module accepts as a server, polled   *)
(* by loop() in ESP_ATMod.ino and changed by the CIP* handlers of          *)
(* command.cpp.                                                            *)
(*                                                                         *)
(* One pass of loop() is a scan of the links (up to four steps per link,   *)
(* because SendData() and an available() that returns 0 let the network    *)
(* stack run), the accept loop, and the serial part, in which the host     *)
(* delivers CIPSEND payload bytes or one command line.  The network (data, peer close, reset) moves       *)
(* between any two steps.  A reset of the module (AT+RST, watchdog, power) *)
(* keeps nothing of this state: it begins a new behaviour from Init.       *)
(***************************************************************************)
EXTENDS Integers, FiniteSets

CONSTANTS
  MaxLink,          \* highest link number: 4 in the code
  MaxServer,        \* highest index of servers[]: 4 in the code
  SendBufferSize,   \* size of sendBuffer: 2048 in the code
  CounterWidth,     \* lastAvailableBytes is kept modulo this: 2^16
  Ports,            \* ports the host may start a server on
  Sizes,            \* sizes the host passes to CIPSEND and CIPRECVDATA
  LinkArgs,         \* link ids the host passes to CIPSEND and CIPRECVDATA: 0..5 are accepted
  MaxConns,         \* values the host passes to CIPSERVERMAXCONN
  Timeouts,         \* values the host passes to CIPSTO, in ticks
  RecvModes,        \* values the host passes to CIPRECVMODE
  InitialTimeout,   \* gsServerConnTimeout after reset, in ticks (180 s)
  OutOfMemory,      \* may the allocation in SendData fail?
  MaxRx,            \* bound: unread bytes the network queues on a link
  MaxIdle           \* bound: idle time is counted up to this many ticks

Link   == 0..MaxLink
Server == 0..MaxServer
CLOSED == 0         \* servers[j] is not listening, or a port that is no server's
NoLink == 255       \* freeLinkId: every link is in use

ASSUME TableAssumption ==
  /\ MaxLink \in 0..254 /\ MaxServer \in Nat
  /\ SendBufferSize \in Nat \ {0} /\ CounterWidth \in Nat \ {0}
ASSUME InputAssumption ==
  /\ Ports \subseteq Nat \ {CLOSED}
  /\ Sizes \subseteq Nat
  /\ LinkArgs \subseteq 0..MaxLink + 1
  /\ MaxConns \subseteq Nat
  /\ Timeouts \subseteq Nat /\ InitialTimeout \in Nat
  /\ RecvModes \subseteq {0, 1}
  /\ OutOfMemory \in BOOLEAN
ASSUME BoundAssumption ==
  MaxRx \in 1..CounterWidth - 1 /\ MaxIdle \in Nat

VARIABLES
  clients,             \* clients[]: the client_t of each link
  sock,                \* the network stack's side of each link (external)
  servers,             \* servers[]: port, or CLOSED
  gsCipMux,
  gsLinkIdReading,     \* link whose CIPSEND payload is being read, or -1
  dataRead,            \* payload bytes read so far
  gsCipRecvMode,
  gsServersMaxConn,
  gsServerConnTimeout,
  pc,                  \* which part of loop() runs
  i,                   \* its loop variable
  freeLinkId,          \* local of loop()
  serversConnCount,    \* local of loop()
  left                 \* history: bytes the scan has left unread on the link it is at

settings == <<gsCipMux, gsCipRecvMode, gsServersMaxConn, gsServerConnTimeout>>
send     == <<gsLinkIdReading, dataRead>>
loopVars == <<pc, i, freeLinkId, serversConnCount, left>>
vars     == <<clients, sock, servers, settings, send, loopVars>>

-----------------------------------------------------------------------------
(***************************************************************************)
(* State                                                                   *)
(***************************************************************************)

\* client is "the pointer is set"; idle stands for millis() -
\* lastActivityMillis, in ticks.  The code reads it for links of listening
\* servers only, and sets it when it accepts one: it is kept 0 elsewhere.
NoClient == [client |-> FALSE, type |-> "NONE", sendLength |-> 0,
             lastAvailableBytes |-> 0, idle |-> 0]

\* state of the TCP connection, bytes received and not read, local port
\* (CLOSED stands for the ephemeral port of an outgoing connection, which is
\* no server's).
NoSock == [st |-> "CLOSED", rx |-> 0, port |-> CLOSED]

NewSock(port) == [st |-> "ESTABLISHED", rx |-> 0, port |-> port]

\* WiFiClient::connected(): a connection the peer has closed counts as
\* connected while it has unread data, one that was reset or stopped does not.
Connected(l) ==
  \/ sock[l].st = "ESTABLISHED"
  \/ sock[l].st = "CLOSE_WAIT" /\ sock[l].rx > 0

\* Links the current mux mode makes loop() scan: 0..maxCli.
MaxCli == IF gsCipMux = 1 THEN MaxLink ELSE 0
Polled == 0..MaxCli

IsServer(l) == \E j \in Server : servers[j] # CLOSED /\ servers[j] = sock[l].port

Init ==
  /\ clients = [l \in Link |-> NoClient]
  /\ sock = [l \in Link |-> NoSock]
  /\ servers = [j \in Server |-> CLOSED]
  /\ gsCipMux = 0
  /\ gsLinkIdReading = -1
  /\ dataRead = 0
  /\ gsCipRecvMode = 0
  /\ gsServersMaxConn = 5
  /\ gsServerConnTimeout = InitialTimeout
  /\ pc = "loop"
  /\ i = 0
  /\ freeLinkId = NoLink
  /\ serversConnCount = 0
  /\ left = 0

-----------------------------------------------------------------------------
(***************************************************************************)
(* What an opened and a closed link leave of a client_t, and DeleteClient  *)
(* for every link of D                                                     *)
(***************************************************************************)

\* mutant of Opened: what an earlier connection had announced is kept
OpenedAnnounced(c, type) == [client |-> TRUE, type |-> type, sendLength |-> c.sendLength,
                             lastAvailableBytes |-> c.lastAvailableBytes, idle |-> 0]

\* The accept loop and CIPSTART fill in the same fields; sendLength is not one.
Opened(c, type) == [client |-> TRUE, type |-> type, sendLength |-> c.sendLength,
                    lastAvailableBytes |-> 0, idle |-> 0]

\* mutant of Closed: the length of an abandoned CIPSEND is kept
ClosedLengthKept(c) == [client |-> FALSE, type |-> "NONE", sendLength |-> c.sendLength,
                        lastAvailableBytes |-> c.lastAvailableBytes, idle |-> 0]

Closed(c) == [client |-> FALSE, type |-> "NONE", sendLength |-> 0,
              lastAvailableBytes |-> c.lastAvailableBytes, idle |-> 0]

Deleted(table, D) ==
  [l \in Link |-> IF l \in D
     THEN Closed(table[l])
     ELSE table[l]]

ReadingKept(D) == gsLinkIdReading   \* mutant of ReadingAfterDelete
ReadingAfterDelete(D) == IF gsLinkIdReading \in D THEN -1 ELSE gsLinkIdReading

DeleteClient(table, D) ==
  /\ clients' = Deleted(table, D)
  /\ sock' = [l \in Link |-> IF l \in D THEN NoSock ELSE sock[l]]
  /\ gsLinkIdReading' = ReadingAfterDelete(D)

-----------------------------------------------------------------------------
(***************************************************************************)
(* The scan of the links                                                   *)
(***************************************************************************)

\* The scan and the accept loop run only when the UART can transmit.
PollStart ==
  /\ pc = "loop"
  /\ pc' = "read"
  /\ i' = 0 /\ freeLinkId' = NoLink /\ serversConnCount' = 0
  /\ UNCHANGED <<clients, sock, servers, settings, send, left>>

PollSkip ==
  /\ pc = "loop"
  /\ pc' = "serial"
  /\ UNCHANGED <<clients, sock, servers, settings, send, i, freeLinkId, serversConnCount, left>>

\* Data that lastAvailableBytes does not cover is forwarded (mode 0) or
\* announced (mode 1).  SendData of mode 0 reads everything, or nothing when
\* its buffer cannot be allocated.
NewData(l) == clients[l].client /\ sock[l].rx > clients[l].lastAvailableBytes

AfterRead ==
  /\ pc' = "reap"
  /\ left' = sock'[i].rx
  /\ UNCHANGED <<servers, settings, send, i, freeLinkId, serversConnCount>>

PollForward ==
  /\ pc = "read" /\ NewData(i) /\ gsCipRecvMode = 0
  /\ clients' = [clients EXCEPT ![i].idle = 0]
  /\ \/ sock' = [sock EXCEPT ![i].rx = 0]
     \/ OutOfMemory /\ UNCHANGED sock
  /\ AfterRead

PollAnnounce ==
  /\ pc = "read" /\ NewData(i) /\ gsCipRecvMode = 1
  /\ clients' = [clients EXCEPT ![i].idle = 0, ![i].lastAvailableBytes = sock[i].rx]
  /\ UNCHANGED sock
  /\ AfterRead

\* mutant of PollNothing: every visit counts as activity
PollTouches ==
  /\ pc = "read" /\ ~NewData(i)
  /\ clients' = [clients EXCEPT ![i].idle = 0]
  /\ UNCHANGED sock
  /\ AfterRead

PollNothing ==
  /\ pc = "read" /\ ~NewData(i)
  /\ UNCHANGED <<clients, sock>>
  /\ AfterRead

NextLink ==
  /\ IF i < MaxCli THEN i' = i + 1 /\ pc' = "read" ELSE i' = 0 /\ pc' = "accept"
  /\ left' = 0

NoteFree == freeLinkId' = IF freeLinkId = NoLink THEN i ELSE freeLinkId

\* available() that returns 0 lets the network stack run before the decision
\* that is made with it.
LookAgain(next) ==
  /\ pc' = next
  /\ UNCHANGED <<clients, sock, servers, settings, send, i, freeLinkId, serversConnCount, left>>

LookClosed ==
  /\ pc = "reap" /\ clients[i].client /\ sock[i].rx = 0
  /\ LookAgain("gone")

PeerReset(l) == sock[l].st = "CLOSED"   \* mutant of PeerGone

PeerGone(l) == ~Connected(l)

\* The peer has closed and everything it sent has been read; or the connection
\* was reset, whatever it had received since the scan has looked.
ReapClosed ==
  /\ pc = "gone" /\ PeerGone(i)
  /\ DeleteClient(clients, {i})
  /\ NoteFree
  /\ NextLink
  /\ UNCHANGED <<servers, settings, dataRead, serversConnCount>>

\* The scan goes on with the servers, without a break.
Stays ==
  \/ pc = "reap" /\ clients[i].client /\ sock[i].rx > 0
  \/ pc = "gone" /\ ~PeerGone(i)

\* mutant of LooksIdle: unread data does not keep the link
LooksIdleUnread(l) == gsServerConnTimeout # 0

LooksIdle(l) == gsServerConnTimeout # 0 /\ sock[l].rx = 0

LookIdle ==
  /\ Stays /\ IsServer(i) /\ LooksIdle(i)
  /\ LookAgain("idle")

IdleTooLong(l) == clients[l].idle > gsServerConnTimeout

\* A link of a listening server that was idle too long, whatever it has
\* received since the scan has looked.  The link is not noted as free in this
\* pass.
ReapIdle ==
  /\ pc = "idle" /\ IdleTooLong(i)
  /\ DeleteClient(clients, {i})
  /\ NextLink
  /\ UNCHANGED <<servers, settings, dataRead, freeLinkId, serversConnCount>>

CountServerLink ==
  /\ \/ Stays /\ IsServer(i) /\ ~LooksIdle(i)
     \/ pc = "idle" /\ ~IdleTooLong(i)
  /\ serversConnCount' = serversConnCount + 1
  /\ NextLink
  /\ UNCHANGED <<clients, sock, servers, settings, send, freeLinkId>>

PassOverLink ==
  /\ Stays /\ ~IsServer(i)
  /\ NextLink
  /\ UNCHANGED <<clients, sock, servers, settings, send, freeLinkId, serversConnCount>>

PassOverFree ==
  /\ pc = "reap" /\ ~clients[i].client
  /\ NoteFree
  /\ NextLink
  /\ UNCHANGED <<clients, sock, servers, settings, send, serversConnCount>>

-----------------------------------------------------------------------------
(***************************************************************************)
(* The accept loop: i runs over the servers                                *)
(***************************************************************************)

\* mutant of MayAccept: off by one
MayAcceptOneMore == freeLinkId # NoLink /\ serversConnCount <= gsServersMaxConn

MayAccept == freeLinkId # NoLink /\ serversConnCount < gsServersMaxConn

\* The locals go out of scope.
EnterSerial ==
  pc' = "serial" /\ i' = 0 /\ freeLinkId' = NoLink /\ serversConnCount' = 0 /\ UNCHANGED left

AcceptEnd ==
  /\ pc = "accept" /\ (i > MaxServer \/ ~MayAccept)
  /\ EnterSerial
  /\ UNCHANGED <<clients, sock, servers, settings, send>>

\* The server is closed or nobody is waiting.
AcceptNone ==
  /\ pc = "accept" /\ i <= MaxServer /\ MayAccept
  /\ i' = i + 1
  /\ UNCHANGED <<clients, sock, servers, settings, send, pc, freeLinkId, serversConnCount, left>>

\* mutant of LowestFree: the link just filled is offered again
FreeLinkKept(table) == freeLinkId

LowestFree(table) ==
  LET free == {l \in Polled : ~table[l].client}
  IN  IF free = {} THEN NoLink ELSE CHOOSE l \in free : \A k \in free : l <= k

\* mutant of AcceptClient: an accepted link is not counted
AcceptUncounted ==
  /\ pc = "accept" /\ i <= MaxServer /\ MayAccept
  /\ servers[i] # CLOSED
  /\ clients' = [clients EXCEPT ![freeLinkId] = Opened(@, "TCP")]
  /\ sock' = [sock EXCEPT ![freeLinkId] = NewSock(servers[i])]
  /\ freeLinkId' = LowestFree(clients')
  /\ i' = i + 1
  /\ UNCHANGED <<servers, settings, send, pc, serversConnCount, left>>

AcceptClient ==
  /\ pc = "accept" /\ i <= MaxServer /\ MayAccept
  /\ servers[i] # CLOSED
  /\ clients' = [clients EXCEPT ![freeLinkId] = Opened(@, "TCP")]
  /\ sock' = [sock EXCEPT ![freeLinkId] = NewSock(servers[i])]
  /\ serversConnCount' = serversConnCount + 1
  /\ freeLinkId' = LowestFree(clients')
  /\ i' = i + 1
  /\ UNCHANGED <<servers, settings, send, pc, left>>

-----------------------------------------------------------------------------
(***************************************************************************)
(* The serial part: payload bytes of a pending CIPSEND                     *)
(***************************************************************************)

LastByte == dataRead + 1 >= clients[gsLinkIdReading].sendLength

PayloadByte ==
  /\ pc = "serial" /\ gsLinkIdReading # -1 /\ ~LastByte
  /\ dataRead' = dataRead + 1
  /\ UNCHANGED <<clients, sock, servers, settings, gsLinkIdReading, loopVars>>

PayloadEnds == gsLinkIdReading' = -1 /\ dataRead' = 0

\* SEND OK
PayloadSent ==
  /\ pc = "serial" /\ gsLinkIdReading # -1 /\ LastByte
  /\ \/ sock[gsLinkIdReading].st # "CLOSED"
     \/ clients[gsLinkIdReading].sendLength = 0
  /\ clients' = [clients EXCEPT ![gsLinkIdReading].idle = 0]
  /\ PayloadEnds
  /\ UNCHANGED <<sock, servers, settings, loopVars>>

\* SEND FAIL: nothing or only a part was written.
PayloadFailed ==
  /\ pc = "serial" /\ gsLinkIdReading # -1 /\ LastByte
  /\ clients[gsLinkIdReading].sendLength > 0
  /\ sock' = IF Connected(gsLinkIdReading)
             THEN [sock EXCEPT ![gsLinkIdReading].st = "CLOSED"]
             ELSE sock
  /\ PayloadEnds
  /\ UNCHANGED <<clients, servers, settings, loopVars>>

\* No more bytes from the host, or a command line whose handler changes
\* nothing (a query, or ERROR).
SerialEnd ==
  /\ pc = "serial"
  /\ pc' = "loop"
  /\ UNCHANGED <<clients, sock, servers, settings, send, i, freeLinkId, serversConnCount, left>>

-----------------------------------------------------------------------------
(***************************************************************************)
(* The serial part: command lines that succeed                             *)
(***************************************************************************)

\* A line is read as a command only while no payload is expected; it ends the
\* serial part.
Command ==
  /\ pc = "serial" /\ gsLinkIdReading = -1
  /\ pc' = "loop"
  /\ UNCHANGED <<i, freeLinkId, serversConnCount, left>>

\* The link id is in the line exactly when the module is in multi-link mode.
LinkIds == IF gsCipMux = 1 THEN Link ELSE {0}

CipStart(l, type) ==
  /\ Command
  /\ l \in LinkIds
  /\ ~clients[l].client
  /\ clients' = [clients EXCEPT ![l] = Opened(@, type)]
  /\ sock' = [sock EXCEPT ![l] = NewSock(CLOSED)]
  /\ UNCHANGED <<servers, settings, send>>

\* With the link id left out the handler takes link 0 in both modes.  The id is
\* checked to be '0'..'5': the last of these is not in clients[], and what the
\* tests read there is whatever the memory holds.
CipSend(l, size) ==
  /\ Command
  /\ l # 0 => gsCipMux = 1
  /\ l \in Link => clients[l].client /\ Connected(l)
  /\ size <= SendBufferSize
  /\ clients' = [k \in Link |-> IF k = l THEN [clients[k] EXCEPT !.sendLength = size]
                                         ELSE clients[k]]
  /\ gsLinkIdReading' = l
  /\ dataRead' = 0
  /\ UNCHANGED <<sock, servers, settings>>

\* One link; or, in multi-link mode with id 5, all of them.
CipClose(D) ==
  /\ Command
  /\ \/ \E l \in LinkIds : D = {l} /\ clients[l].client
     \/ gsCipMux = 1 /\ D = {l \in Link : clients[l].client}
  /\ DeleteClient(clients, D)
  /\ UNCHANGED <<servers, settings, dataRead>>

\* mutant of NoLinkBuilt: the last link is not tested
LastLinkUntested == \A l \in 0..MaxLink - 1 : ~clients[l].client

\* No "link is builded".
NoLinkBuilt == \A l \in Link : ~clients[l].client

CipMux(mux) ==
  /\ Command
  /\ NoLinkBuilt
  /\ \A j \in Server : servers[j] = CLOSED
  /\ gsCipMux' = mux
  /\ UNCHANGED <<clients, sock, servers, gsCipRecvMode, gsServersMaxConn,
                 gsServerConnTimeout, send>>

FirstRuns(port) == servers[0] = port   \* mutant of AlreadyRunning

AlreadyRunning(port) == \E j \in Server : servers[j] = port

\* The first closed slot listens.
CipServerStart(port) ==
  /\ Command
  /\ gsCipMux = 1
  /\ ~AlreadyRunning(port)
  /\ \E j \in Server :
       /\ servers[j] = CLOSED
       /\ \A k \in 0..j - 1 : servers[k] # CLOSED
       /\ servers' = [servers EXCEPT ![j] = port]
  /\ UNCHANGED <<clients, sock, settings, send>>

\* The server of that port, or with port 0 the first that listens.  The links
\* it accepted stay.
CipServerStop(port) ==
  /\ Command
  /\ gsCipMux = 1
  /\ \E j \in Server :
       /\ servers[j] # CLOSED
       /\ IF port = 0 THEN \A k \in 0..j - 1 : servers[k] = CLOSED
                      ELSE servers[j] = port
       /\ servers' = [servers EXCEPT ![j] = CLOSED]
  /\ UNCHANGED <<clients, sock, settings, send>>

CipServerMaxConn(max) ==
  /\ Command
  /\ max \in 1..5
  /\ gsServersMaxConn' = max
  /\ UNCHANGED <<clients, sock, servers, gsCipMux, gsCipRecvMode, gsServerConnTimeout, send>>

CipSto(to) ==
  /\ Command
  /\ gsServerConnTimeout' = to
  /\ UNCHANGED <<clients, sock, servers, gsCipMux, gsCipRecvMode, gsServersMaxConn, send>>

CipRecvMode(mode) ==
  /\ Command
  /\ gsCipRecvMode' = mode
  /\ UNCHANGED <<clients, sock, servers, gsCipMux, gsServersMaxConn, gsServerConnTimeout, send>>

Requested(rx, size) == IF size > 0 THEN size ELSE rx   \* mutant of BytesRead

\* Bytes SendData reads for a request: size 0 asks for everything.
BytesRead(rx, size) == IF size > 0 /\ size < rx THEN size ELSE rx

\* lastAvailableBytes is unsigned and is lowered by what was read, whether or
\* not that had been announced.  In mode 0 the link is closed, whatever is left.
\* The id may be one too many here as well: then nothing of clients[] changes
\* (DeleteClient tests its argument; what else is touched lies behind the table).
CipRecvData(l, size) ==
  LET bytes == BytesRead(sock[l].rx, size)
      table == [clients EXCEPT ![l].lastAvailableBytes = (@ - bytes) % CounterWidth]
  IN
  /\ Command
  /\ l # 0 => gsCipMux = 1
  /\ l \in Link => clients[l].client /\ bytes > 0
  /\ size <= SendBufferSize
  /\ IF gsCipRecvMode = 0
     THEN DeleteClient(table, {l})
     ELSE /\ clients' = table
          /\ sock' = [sock EXCEPT ![l].rx = @ - bytes]
          /\ UNCHANGED gsLinkIdReading
  /\ UNCHANGED <<servers, settings, dataRead>>

-----------------------------------------------------------------------------
(***************************************************************************)
(* The environment: peers and time                                         *)
(***************************************************************************)

Arrive(l) ==
  /\ sock[l].st = "ESTABLISHED" /\ sock[l].rx < MaxRx
  /\ sock' = [sock EXCEPT ![l].rx = @ + 1]
  /\ UNCHANGED <<clients, servers, settings, send, loopVars>>

PeerCloses(l) ==
  /\ sock[l].st = "ESTABLISHED"
  /\ sock' = [sock EXCEPT ![l].st = "CLOSE_WAIT"]
  /\ UNCHANGED <<clients, servers, settings, send, loopVars>>

PeerResets(l) ==
  /\ sock[l].st # "CLOSED"
  /\ sock' = [sock EXCEPT ![l].st = "CLOSED"]
  /\ UNCHANGED <<clients, servers, settings, send, loopVars>>

Ages(l) == clients[l].client /\ sock[l].port # CLOSED /\ clients[l].idle < MaxIdle

Tick ==
  /\ \E l \in Link : Ages(l)
  /\ clients' = [l \in Link |-> [clients[l] EXCEPT !.idle = IF Ages(l) THEN @ + 1 ELSE @]]
  /\ UNCHANGED <<sock, servers, settings, send, loopVars>>

-----------------------------------------------------------------------------

Poll ==
  \/ PollForward \/ PollAnnounce \/ PollNothing
  \/ LookClosed \/ ReapClosed \/ LookIdle \/ ReapIdle
  \/ CountServerLink \/ PassOverLink \/ PassOverFree

Accept == AcceptEnd \/ AcceptNone \/ AcceptClient

Payload == PayloadByte \/ PayloadSent \/ PayloadFailed

LinkCommand ==
  \/ \E l \in Link, type \in {"TCP", "SSL"} : CipStart(l, type)
  \/ \E l \in LinkArgs, size \in Sizes : CipSend(l, size)
  \/ \E D \in SUBSET Link : CipClose(D)
  \/ \E l \in LinkArgs, size \in Sizes : CipRecvData(l, size)
  \/ \E mode \in RecvModes : CipRecvMode(mode)

ServerCommand ==
  \/ \E mux \in {0, 1} : CipMux(mux)
  \/ \E port \in Ports : CipServerStart(port)
  \/ \E port \in Ports \cup {0} : CipServerStop(port)
  \/ \E max \in MaxConns : CipServerMaxConn(max)
  \/ \E to \in Timeouts : CipSto(to)

Network == \E l \in Link : Arrive(l) \/ PeerCloses(l) \/ PeerResets(l)

Next ==
  \/ PollStart \/ PollSkip \/ Poll \/ Accept
  \/ Payload \/ SerialEnd \/ LinkCommand \/ ServerCommand
  \/ Network \/ Tick

Spec == Init /\ [][Next]_vars

(***************************************************************************)
(* loop() is called for ever, time passes, and the UART becomes writable   *)
(* again and again (it drains at the baud rate), so a scan is not skipped  *)
(* for ever.  Nothing is assumed of the host or of the peers.              *)
(***************************************************************************)
Fairness ==
  /\ SF_vars(PollStart)
  /\ WF_vars(PollSkip)
  /\ WF_vars(Poll)
  /\ WF_vars(Accept)
  /\ WF_vars(SerialEnd)
  /\ WF_vars(Tick)

FairSpec == Spec /\ Fairness

-----------------------------------------------------------------------------
(***************************************************************************)
(* Invariants                                                              *)
(***************************************************************************)

ClientT == [client : BOOLEAN, type : {"TCP", "SSL", "NONE"}, sendLength : 0..SendBufferSize,
            lastAvailableBytes : 0..CounterWidth - 1, idle : 0..MaxIdle]
SockT   == [st : {"ESTABLISHED", "CLOSE_WAIT", "CLOSED"}, rx : 0..MaxRx,
            port : Ports \cup {CLOSED}]

ScanPc == {"read", "reap", "gone", "idle"}

\* The type of the state; i and freeLinkId are indices their loops can have.
TypeOK ==
  /\ clients \in [Link -> ClientT]
  /\ sock \in [Link -> SockT]
  /\ servers \in [Server -> Ports \cup {CLOSED}]
  /\ gsCipMux \in {0, 1}
  /\ gsCipRecvMode \in {0, 1}
  /\ gsServersMaxConn \in 1..5
  /\ gsServerConnTimeout \in Nat
  /\ gsLinkIdReading \in -1..MaxLink + 1
  /\ dataRead \in Nat
  /\ pc \in ScanPc \cup {"loop", "accept", "serial"}
  /\ i \in Nat
  /\ pc \in ScanPc => i \in Polled
  /\ freeLinkId \in Link \cup {NoLink}
  /\ serversConnCount \in Nat
  /\ left \in 0..MaxRx

\* While CIPSEND collects a payload its link exists, the next byte fits into
\* sendBuffer, and no byte beyond the announced length has been taken: loop()
\* writes sendBuffer[dataRead] and calls clients[gsLinkIdReading].client->write
\* without a test, after scans that may have deleted the link and after
\* payloads that were abandoned half-way.
SendTargetLive ==
  gsLinkIdReading # -1 =>
    /\ gsLinkIdReading \in Link
    /\ clients[gsLinkIdReading].client
    /\ dataRead < SendBufferSize
    /\ dataRead = 0 \/ dataRead < clients[gsLinkIdReading].sendLength

\* In single-link mode only link 0 is in use and no server listens: loop()
\* scans link 0 only, so any other link would never be read or closed again.
SingleLinkMode ==
  gsCipMux = 0 =>
    /\ \A l \in Link \ {0} : ~clients[l].client
    /\ \A j \in Server : servers[j] = CLOSED

\* The link the accept loop is about to fill is free and is one the scan
\* visits, although it was chosen in an earlier step: accepting never drops an
\* open connection.
FreeLinkIsFree ==
  freeLinkId # NoLink => freeLinkId \in Polled /\ ~clients[freeLinkId].client

ServerLinks == {l \in Link : clients[l].client /\ IsServer(l)}

\* When the accept loop compares it with gsServersMaxConn, serversConnCount is
\* the number of links of listening servers, those just accepted included.
ServerCountExact ==
  pc = "accept" => serversConnCount = Cardinality(ServerLinks)

\* A free slot is clean: AcceptClient and CipStart do not set sendLength.
EmptySlotClean ==
  \A l \in Link : ~clients[l].client => clients[l].type = "NONE" /\ clients[l].sendLength = 0

\* No two slots of servers[] listen on one port: CIPSERVER=0,<port> stops one.
DistinctServers ==
  \A j, k \in Server : servers[j] = servers[k] /\ servers[j] # CLOSED => j = k

(***************************************************************************)
(* Action properties                                                       *)
(***************************************************************************)

\* Accepting never takes the links of the listening servers over
\* gsServersMaxConn (AT+CIPSERVERMAXCONN).
AcceptWithinLimit ==
  [][\A l \in Link : pc = "accept" /\ ~clients[l].client /\ clients'[l].client
       => Cardinality(ServerLinks') <= gsServersMaxConn]_vars

\* The link is closed in this step although it has unread data.
Dropped(l) == clients[l].client /\ sock[l].rx > 0 /\ ~clients'[l].client

\* A scan never gives up data it has seen: what it could not forward, or has
\* announced and the host has not read yet, keeps the link, peer gone or idle
\* timeout.  And of a connection that has ended it gives up nothing, unless the
\* connection was reset.
SeenDataKept ==
  [][\A l \in Link : Dropped(l) /\ pc # "serial"
       => left = 0 /\ (pc = "gone" => sock[l].st = "CLOSED")]_vars

\* What a peer that is still there, or has closed in good order, has sent is lost
\* only on a command of the host: every non zero avail is forwarded or announced
\* (ESP_ATMod.ino:261).  Data that comes while the scan has tested for it (at
\* :312) and not yet deleted the link breaks this.
NoDataDropped ==
  [][\A l \in Link : Dropped(l) /\ sock[l].st # "CLOSED" => pc = "serial"]_vars

\* In active mode the scan forwards whatever is available on a link (the
\* comment at the test: "every non zero avail"), as long as the host has never
\* been in passive mode: a count left over from there holds data back.
ActiveForwards ==
  [][pc = "read" /\ pc' = "reap" /\ gsCipRecvMode = 0 /\ clients[i].client
       => sock'[i].rx = 0]_vars

(***************************************************************************)
(* Liveness                                                                *)
(***************************************************************************)

\* In active mode a link whose peer is gone is closed (the host is told CLOSED and
\* the slot can be used again), unread data or not: the data is forwarded first.
GoneLinkReaped ==
  \A l \in Link : []<>~(clients[l].client /\ sock[l].st # "ESTABLISHED")

Quiet(l) ==
  /\ clients[l].client /\ IsServer(l) /\ sock[l].rx = 0
  /\ gsServerConnTimeout # 0 /\ gsLinkIdReading # l

\* With a timeout set (AT+CIPSTO), a link of a listening server does not stay
\* for ever without data from the peer and without a CIPSEND of the host.
QuietServerLinkClosed == \A l \in Link : []<>~Quiet(l)

\* Unread data does not stay for ever below the count announced last, where the
\* scan ignores it.
DataNotIgnored ==
  \A l \in Link : []<>~(/\ clients[l].client /\ sock[l].rx > 0
                        /\ sock[l].rx < clients[l].lastAvailableBytes)

-----------------------------------------------------------------------------
(***************************************************************************)
(* The abstract link table this one implements.                            *)
(***************************************************************************)

TableConn == [l \in Link |-> IF clients[l].client THEN sock[l].port ELSE -1]
Listening == {servers[j] : j \in Server} \ {CLOSED}

Table == INSTANCE LinkTable WITH
  conn      <- TableConn,
  sending   <- gsLinkIdReading,
  listening <- Listening,
  mux       <- gsCipMux,
  limit     <- gsServersMaxConn

\* Scans, accepts, payload bytes and commands, interleaved as loop() runs them,
\* do to the table what the abstract operations allow and nothing else: no open
\* link is taken over, no server exceeds its limit, no CIPSEND outlives its link
\* or starts inside another, no mode changes over an open link.
ImplementsLinkTable == Table!Spec
=============================================================================
