----------------------------- MODULE ATStation -----------------------------
(***************************************************************************)
(* The Wi-Fi side of the ESP_ATMod firmware: the commands CWMODE, CWJAP,   *)
(* CWQAP, CWSAP, CWLAP and CWLAPOPT of command.cpp, the connecting part of *)
(* loop() and the scan callback, around the two flags gsFlag_Connecting    *)
(* and gsFlag_Busy.  CWJAP and CWLAP only start something; the flags say   *)
(* that its result is awaited, and while gsFlag_Busy is set no command is  *)
(* executed.  The SDK's station moves between any two steps.               *)
(***************************************************************************)
EXTENDS Integers

CONSTANTS
  Aps,             \* access points the host may name
  SortArgs,        \* values the host passes to CWLAPOPT as sort_enable
  Faults           \* what may go wrong beside a failing attempt: the SDK
                   \* "refuses" to start an attempt or a scan, or the station
                   \* "stays" connected for 5 s after disconnect()

NoAp == "none"

ASSUME StationAssumption ==
  /\ NoAp \notin Aps
  /\ SortArgs \subseteq Nat
  /\ Faults \subseteq {"refuses", "stays"}

VARIABLES
  current,            \* configuration in use: mode, station's AP, SoftAP (external)
  flash,              \* the same, as the SDK stores it for the next boot (external)
  persistent,         \* WiFi.persistent: write changes to flash (external)
  autoReconnect,      \* WiFi.setAutoReconnect (external)
  status,             \* wifi_station_get_connect_status() (external)
  joined,             \* the AP the station has got an address from (external)
  scanning,           \* scanNetworksAsync has been called, its callback not (external)
  gsFlag_Connecting,
  gsFlag_Busy,
  sort_enable,
  fault,              \* the one that may happen in this behaviour (external)
  refused             \* history: the SDK refused what gsFlag_Busy waits for

flags   == <<gsFlag_Connecting, gsFlag_Busy>>
station == <<status, joined>>
vars    == <<current, flash, persistent, autoReconnect, station, scanning, flags, sort_enable,
             fault, refused>>

-----------------------------------------------------------------------------
WIFI_OFF == 0
WIFI_STA == 1
WIFI_AP  == 2
WIFI_AP_STA == 3

Final == {"GOT_IP", "NO_AP_FOUND", "CONNECT_FAIL", "WRONG_PASSWORD"}
Failures == Final \ {"GOT_IP"}

WithStation(mode) ==
  IF mode = WIFI_OFF THEN WIFI_STA ELSE IF mode = WIFI_AP THEN WIFI_AP_STA ELSE mode
SoftApAdded(mode) == mode + WIFI_AP   \* mutant of WithSoftAp
WithSoftAp(mode) ==
  IF mode = WIFI_OFF THEN WIFI_AP ELSE IF mode = WIFI_STA THEN WIFI_AP_STA ELSE mode

\* What is in flash after the SDK's configuration has become conf.
Stored(persists, conf) == IF persists THEN conf ELSE flash

\* conf with an interface switched on; one that is on already is not written again.
WithMode(conf, mode) == [conf EXCEPT !.mode = IF mode = current.mode THEN @ ELSE mode]

\* The _CUR commands leave WiFi.persistent as it is, the others (_DEF and no
\* suffix) set it for the call.
Persists(cur) == persistent \/ ~cur

\* The end of setup(): the SDK has started with what it had stored, and connects
\* at once unless an earlier CWAUTOCONN says otherwise.
Init ==
  /\ flash \in [mode : WIFI_OFF..WIFI_AP_STA, sta : Aps \cup {NoAp}, ap : BOOLEAN]
  /\ current = flash
  /\ persistent = FALSE
  /\ autoReconnect = TRUE
  /\ status \in {"IDLE"} \cup (IF flash.mode \in {WIFI_STA, WIFI_AP_STA} /\ flash.sta # NoAp
                              THEN {"CONNECTING"} ELSE {})
  /\ joined = NoAp
  /\ scanning = FALSE
  /\ gsFlag_Connecting = FALSE /\ gsFlag_Busy = FALSE
  /\ sort_enable = 0
  /\ fault \in Faults /\ refused = FALSE

-----------------------------------------------------------------------------
(***************************************************************************)
(* Commands.  While gsFlag_Busy is set every line is answered "busy p...". *)
(***************************************************************************)

AcceptedDuringScan == ~gsFlag_Connecting   \* mutant of Accepted
AcceptedDuringJoin == ~scanning            \* mutant of Accepted
Accepted == ~gsFlag_Busy

\* Behind CWMODE=asked, setDhcpMode and applyCipAp may switch on an interface for the
\* address they set, which is not modelled here.
ForAddresses(mode, asked) ==
  LET on == {mode} \cup (IF asked # WIFI_AP THEN {WithStation(mode)} ELSE {})
  IN  on \cup (IF asked # WIFI_STA THEN {WithSoftAp(m) : m \in on} ELSE {})

\* WiFi.mode may fail: ERROR.
CwMode(mode, cur) ==
  /\ Accepted
  /\ \/ /\ \E m \in ForAddresses(mode, mode) : current' = [current EXCEPT !.mode = m]
        /\ flash' = Stored(Persists(cur), [flash EXCEPT !.mode = mode])
        /\ IF mode \in {WIFI_STA, WIFI_AP_STA}
           THEN UNCHANGED station
           ELSE status' = "IDLE" /\ joined' = NoAp
     \/ /\ \E m \in ForAddresses(current.mode, mode) : current' = [current EXCEPT !.mode = m]
        /\ UNCHANGED <<flash, station>>
  /\ persistent' = FALSE
  /\ UNCHANGED <<autoReconnect, scanning, flags, sort_enable, fault, refused>>

\* WiFi.disconnect() forgets the AP.
Disconnect(persists) ==
  /\ current' = [current EXCEPT !.sta = NoAp]
  /\ flash' = Stored(persists, [flash EXCEPT !.sta = NoAp])

\* WiFi.begin() with the station in state st: a connection that is still up
\* stays up.
Begin(ap, st, persists) ==
  LET mode == WithStation(current.mode)
  IN  /\ current' = [current EXCEPT !.mode = mode, !.sta = ap]
      /\ flash' = Stored(persists, [WithMode(flash, mode) EXCEPT !.sta = ap])
      /\ IF st = "GOT_IP"
         THEN UNCHANGED station
         ELSE status' = "CONNECTING" /\ joined' = NoAp

\* The states a connected station can be in five seconds after disconnect().
AfterDisconnect ==
  IF status # "GOT_IP" THEN {status}
  ELSE {"IDLE"} \cup (IF fault = "stays" THEN {"GOT_IP"} ELSE {})

\* mutant of StillConnected: the state is not read again
StateNotReread(st) == FALSE

StillConnected(st) == st = "GOT_IP"

\* mutant of NowConnecting: persistent is not reset
ConnectingPersistently ==
  /\ persistent' = TRUE
  /\ gsFlag_Connecting' = TRUE /\ gsFlag_Busy' = TRUE
  /\ autoReconnect' = TRUE

NowConnecting ==
  /\ persistent' = FALSE
  /\ gsFlag_Connecting' = TRUE /\ gsFlag_Busy' = TRUE
  /\ autoReconnect' = TRUE

CwJap(ap, cur) ==
  /\ Accepted
  /\ current.mode # WIFI_AP
  /\ \E st \in AfterDisconnect :
       /\ ~StillConnected(st)
       /\ Begin(ap, st, Persists(cur))
  /\ NowConnecting
  /\ UNCHANGED <<scanning, sort_enable, fault, refused>>

\* WiFi.begin() refuses what it was given, an SSID that is too long for
\* instance, with the station switched on: the handler goes on as if it had not.
CwJapRefused(cur) ==
  /\ fault = "refuses"
  /\ Accepted
  /\ current.mode # WIFI_AP
  /\ LET mode == WithStation(current.mode)
         Left(conf) == [WithMode(conf, mode) EXCEPT !.sta = IF status = "GOT_IP" THEN NoAp ELSE @]
     IN  current' = Left(current) /\ flash' = Stored(Persists(cur), Left(flash))
  /\ IF status = "GOT_IP"
     THEN status' = "IDLE" /\ joined' = NoAp
     ELSE UNCHANGED station
  /\ NowConnecting
  /\ refused' = TRUE
  /\ UNCHANGED <<scanning, sort_enable, fault>>

\* ERROR: the break out of the block leaves persistent as it was set for the
\* call.
CwJapStillConnected(cur) ==
  /\ Accepted
  /\ current.mode # WIFI_AP
  /\ status = "GOT_IP"
  /\ \E st \in AfterDisconnect : StillConnected(st)
  /\ Disconnect(Persists(cur))
  /\ persistent' = Persists(cur)
  /\ UNCHANGED <<autoReconnect, station, scanning, flags, sort_enable, fault, refused>>

CwQap ==
  /\ Accepted
  /\ status = "GOT_IP"
  /\ Disconnect(persistent)
  /\ \/ status' = "IDLE" /\ joined' = NoAp
     \/ UNCHANGED station
  /\ UNCHANGED <<persistent, autoReconnect, scanning, flags, sort_enable, fault, refused>>

\* WiFi.softAP may fail: ERROR.
CwSap(cur) ==
  LET mode == WithSoftAp(current.mode)
  IN
  /\ Accepted
  /\ current.mode # WIFI_STA
  /\ \/ /\ current' = [current EXCEPT !.mode = mode, !.ap = TRUE]
        /\ flash' = Stored(Persists(cur), [WithMode(flash, mode) EXCEPT !.ap = TRUE])
     \/ UNCHANGED <<current, flash>>
  /\ persistent' = FALSE
  /\ UNCHANGED <<autoReconnect, station, scanning, flags, sort_enable, fault, refused>>

\* The first number is stored before the rest is parsed, so also when ERROR is
\* the answer.
CwLapOpt(sort) ==
  /\ Accepted
  /\ sort_enable' = sort
  /\ UNCHANGED <<current, flash, persistent, autoReconnect, station,
                 scanning, flags, fault, refused>>

\* The scan start switches the station on and disconnects it unless it is joined or
\* idle; whether the AP is forgotten by that is left open.
ScanStart ==
  LET drops == status \notin {"GOT_IP", "IDLE"}
      mode  == WithStation(current.mode)
  IN
  /\ \E forgets \in {FALSE, drops} :
       LET Left(conf) == [WithMode(conf, mode) EXCEPT !.sta = IF forgets THEN NoAp ELSE @]
       IN  current' = Left(current) /\ flash' = Stored(persistent, Left(flash))
  /\ IF drops THEN status' = "IDLE" /\ joined' = NoAp ELSE UNCHANGED station

CwLap ==
  /\ Accepted
  /\ current.mode # WIFI_AP
  /\ ScanStart
  /\ scanning' = TRUE
  /\ gsFlag_Busy' = TRUE
  /\ UNCHANGED <<persistent, autoReconnect, gsFlag_Connecting, sort_enable, fault, refused>>

\* The SDK starts no scan and its callback never comes: nobody looks at the result.
CwLapRefused ==
  /\ fault = "refuses"
  /\ Accepted
  /\ current.mode # WIFI_AP
  /\ ScanStart
  /\ gsFlag_Busy' = TRUE
  /\ refused' = TRUE
  /\ UNCHANGED <<persistent, autoReconnect, scanning, gsFlag_Connecting, sort_enable, fault>>

-----------------------------------------------------------------------------
(***************************************************************************)
(* What ends the wait                                                      *)
(***************************************************************************)

\* mutant of ConnectResult: a refused attempt is not recognised
PasswordUnknown == status \in Final \ {"WRONG_PASSWORD"}

ConnectResult == status \in Final

\* The connecting part of loop(): OK, or +CWJAP:<n> and FAIL.
Connected ==
  /\ gsFlag_Connecting
  /\ ConnectResult
  /\ gsFlag_Connecting' = FALSE /\ gsFlag_Busy' = FALSE
  /\ autoReconnect' = FALSE
  /\ refused' = FALSE
  /\ UNCHANGED <<current, flash, persistent, station, scanning, sort_enable, fault>>

PrintedUnsorted == sort_enable = 0   \* mutant of Printed
Printed == sort_enable \in {0, 1}

\* The scan callback: +CWLAP lines and OK for the two values it knows.
PrintScanResult ==
  /\ scanning
  /\ scanning' = FALSE
  /\ gsFlag_Busy' = IF Printed THEN FALSE ELSE gsFlag_Busy
  /\ UNCHANGED <<current, flash, persistent, autoReconnect, station, gsFlag_Connecting,
                 sort_enable, fault, refused>>

-----------------------------------------------------------------------------
(***************************************************************************)
(* The SDK's station                                                       *)
(***************************************************************************)

AttemptEnds ==
  /\ status = "CONNECTING"
  /\ \/ status' = "GOT_IP" /\ joined' = current.sta
     \/ status' \in Failures /\ UNCHANGED joined
  /\ UNCHANGED <<current, flash, persistent, autoReconnect, scanning, flags,
                 sort_enable, fault, refused>>

\* Also a disconnect that takes effect late.
ConnectionLost ==
  /\ status = "GOT_IP"
  /\ joined' = NoAp
  /\ status' = IF autoReconnect /\ current.sta # NoAp THEN "CONNECTING" ELSE "IDLE"
  /\ UNCHANGED <<current, flash, persistent, autoReconnect, scanning, flags,
                 sort_enable, fault, refused>>

Retry ==
  /\ autoReconnect
  /\ status \in Failures
  /\ current.sta # NoAp
  /\ status' = "CONNECTING"
  /\ UNCHANGED <<current, flash, persistent, autoReconnect, joined, scanning, flags,
                 sort_enable, fault, refused>>

-----------------------------------------------------------------------------
Command ==
  \/ \E mode \in WIFI_OFF..WIFI_AP_STA, cur \in BOOLEAN : CwMode(mode, cur)
  \/ \E ap \in Aps, cur \in BOOLEAN : CwJap(ap, cur)
  \/ \E cur \in BOOLEAN : CwJapRefused(cur) \/ CwJapStillConnected(cur) \/ CwSap(cur)
  \/ CwQap \/ CwLap \/ CwLapRefused
  \/ \E sort \in SortArgs : CwLapOpt(sort)

Sdk == AttemptEnds \/ ConnectionLost \/ Retry

Next == Command \/ Connected \/ PrintScanResult \/ Sdk

Spec == Init /\ [][Next]_vars

(***************************************************************************)
(* A scan that was started ends.  loop() reads the status again and again; *)
(* the SDK holds a result for seconds before it retries, so that loop()    *)
(* does not miss every one of them.  An attempt need not end.              *)
(***************************************************************************)
Fairness ==
  /\ SF_vars(Connected)
  /\ WF_vars(PrintScanResult)

FairSpec == Spec /\ Fairness

-----------------------------------------------------------------------------
ConfigT == [mode : WIFI_OFF..WIFI_AP_STA, sta : Aps \cup {NoAp}, ap : BOOLEAN]

\* The type of the state.
TypeOK ==
  /\ current \in ConfigT /\ flash \in ConfigT
  /\ persistent \in BOOLEAN /\ autoReconnect \in BOOLEAN
  /\ status \in Final \cup {"IDLE", "CONNECTING"}
  /\ joined \in Aps \cup {NoAp}
  /\ scanning \in BOOLEAN
  /\ gsFlag_Connecting \in BOOLEAN /\ gsFlag_Busy \in BOOLEAN
  /\ sort_enable \in Nat
  /\ fault \in Faults /\ refused \in BOOLEAN

\* gsFlag_Busy ("Command is busy other commands will be ignored") has an owner
\* that will clear it: a scan whose callback is to come, or a connection
\* attempt the SDK works on or has just finished.  With no owner the module
\* answers "busy p..." to everything, AT+RST included, until it loses power.
\* When the SDK has refused to start that attempt or that scan there is no owner, and
\* the code does not notice: this one case is excepted.
BusyHasOwner ==
  gsFlag_Busy => scanning \/ (gsFlag_Connecting /\ status # "IDLE") \/ refused

\* "Print found networks with printScanResult once the scan has finished": a module
\* that is busy with CWLAP has a scan whose callback will come.  The code breaks it.
ScanWillPrint == gsFlag_Busy /\ ~gsFlag_Connecting => scanning

\* A pending result keeps the module busy, and there is one at most: the
\* scan's callback and the connecting part of loop() both clear gsFlag_Busy
\* without asking whose it is.
OneResultPending ==
  /\ scanning \/ gsFlag_Connecting => gsFlag_Busy
  /\ ~(scanning /\ gsFlag_Connecting)

\* The OK of CWJAP is about the AP of this CWJAP, not about the connection the
\* station had before: loop() reads nothing but the status.
OkMeansJoined ==
  [][gsFlag_Connecting /\ ~gsFlag_Connecting' /\ status = "GOT_IP"
       => joined = current.sta]_vars

CurCommand ==
  \/ \E mode \in WIFI_OFF..WIFI_AP_STA : CwMode(mode, TRUE)
  \/ \E ap \in Aps : CwJap(ap, TRUE)
  \/ CwJapRefused(TRUE) \/ CwJapStillConnected(TRUE) \/ CwSap(TRUE)

\* A _CUR command does not change what is stored in flash: whatever commands came
\* before it, none has left WiFi.persistent on, provided every disconnect is over
\* within the five seconds CWJAP waits for it.
CurLeavesFlash == [][CurCommand /\ fault # "stays" => flash' = flash]_vars

\* The same, also for a station that stays connected: "empty suffix is equivalent
\* to _DEF", and _CUR is not.
CurNeverWritesFlash == [][CurCommand => flash' = flash]_vars

\* Every CWJAP and CWLAP the SDK has started is answered in the end and the next
\* command accepted, unless the station stays in STATION_CONNECTING for ever, joined
\* without a lease for instance: loop() has no timeout of its own.
BusyEnds ==
  gsFlag_Busy /\ ~refused ~> (~gsFlag_Busy \/ [](status = "CONNECTING"))
=============================================================================
