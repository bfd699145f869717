-------------------------- MODULE ATStationProofs --------------------------
(***************************************************************************)
(* Theorems about ATStation, for any set of access points: type            *)
(* correctness, at most one pending result, OK only for the AP asked for;  *)
(* and, for hosts that pass values CWLAPOPT knows, that gsFlag_Busy has an *)
(* owner unless the SDK has refused what the module waits for.             *)
(***************************************************************************)
EXTENDS ATStation, TLAPS

\* The step, action by action.
LEMMA Steps ==
  ASSUME [Next]_vars,
         NEW P,
         ASSUME NEW mode \in WIFI_OFF..WIFI_AP_STA, NEW cur \in BOOLEAN, CwMode(mode, cur) PROVE P,
         ASSUME NEW ap \in Aps, NEW cur \in BOOLEAN, CwJap(ap, cur) PROVE P,
         ASSUME NEW cur \in BOOLEAN, CwJapRefused(cur) PROVE P,
         ASSUME NEW cur \in BOOLEAN, CwJapStillConnected(cur) PROVE P,
         ASSUME NEW cur \in BOOLEAN, CwSap(cur) PROVE P,
         ASSUME CwQap PROVE P,
         ASSUME CwLap PROVE P,
         ASSUME CwLapRefused PROVE P,
         ASSUME NEW sort \in SortArgs, CwLapOpt(sort) PROVE P,
         ASSUME Connected PROVE P,
         ASSUME PrintScanResult PROVE P,
         ASSUME AttemptEnds PROVE P,
         ASSUME ConnectionLost PROVE P,
         ASSUME Retry PROVE P,
         ASSUME UNCHANGED vars PROVE P
  PROVE  P
BY DEF Next, Command, Sdk

-----------------------------------------------------------------------------
LEMMA TypeInit == Init => TypeOK
<1> SUFFICES ASSUME Init PROVE TypeOK
  OBVIOUS
<1>1. current \in ConfigT /\ flash \in ConfigT
  BY DEF Init, ConfigT
<1>2. QED
  BY <1>1 DEF Init, TypeOK, Final

\* What a change of one part of a configuration gives.
LEMMA ConfigUpdate ==
  ASSUME NEW conf \in ConfigT
  PROVE  /\ \A mode \in WIFI_OFF..WIFI_AP_STA : [conf EXCEPT !.mode = mode] \in ConfigT
         /\ \A ap \in Aps \cup {NoAp} : [conf EXCEPT !.sta = ap] \in ConfigT
         /\ \A mode \in WIFI_OFF..WIFI_AP_STA, ap \in Aps :
              /\ [conf EXCEPT !.mode = mode, !.sta = ap] \in ConfigT
              /\ [conf EXCEPT !.mode = mode, !.sta = ap].sta = ap
              /\ [conf EXCEPT !.mode = mode, !.sta = ap].mode = mode
         /\ \A mode \in WIFI_OFF..WIFI_AP_STA :
              [conf EXCEPT !.mode = mode, !.ap = TRUE] \in ConfigT
         /\ [conf EXCEPT !.ap = TRUE] \in ConfigT
BY DEF ConfigT

LEMMA WithModeType ==
  ASSUME NEW conf \in ConfigT, NEW mode \in WIFI_OFF..WIFI_AP_STA
  PROVE  WithMode(conf, mode) \in ConfigT
BY DEF WithMode, ConfigT

\* What a refused join or the start of a scan leaves of a configuration.
LEMMA LeftType ==
  ASSUME NEW conf \in ConfigT, NEW mode \in WIFI_OFF..WIFI_AP_STA, NEW forgets
  PROVE  [WithMode(conf, mode) EXCEPT !.sta = IF forgets THEN NoAp ELSE @] \in ConfigT
<1> DEFINE new == WithMode(conf, mode)
           sta == IF forgets THEN NoAp ELSE new.sta
<1>1. new \in ConfigT
  BY WithModeType
<1>2. sta \in Aps \cup {NoAp}
  BY <1>1 DEF ConfigT
<1>3. [new EXCEPT !.sta = sta] \in ConfigT
  <2> HIDE DEF new, sta
  <2> QED  BY <1>1, <1>2, ConfigUpdate
<1>4. QED
  BY <1>3

LEMMA Modes ==
  ASSUME NEW mode \in WIFI_OFF..WIFI_AP_STA
  PROVE  /\ WithStation(mode) \in WIFI_OFF..WIFI_AP_STA
         /\ WithSoftAp(mode) \in WIFI_OFF..WIFI_AP_STA
         /\ \A asked : ForAddresses(mode, asked) \subseteq WIFI_OFF..WIFI_AP_STA
BY DEF WithStation, WithSoftAp, ForAddresses, WIFI_OFF, WIFI_STA, WIFI_AP, WIFI_AP_STA

LEMMA StoredType ==
  ASSUME TypeOK, NEW persists, NEW conf \in ConfigT
  PROVE  Stored(persists, conf) \in ConfigT
BY DEF Stored, TypeOK

LEMMA TypeStep == TypeOK /\ [Next]_vars => TypeOK'
<1> SUFFICES ASSUME TypeOK, [Next]_vars PROVE TypeOK'
  OBVIOUS
<1> USE DEF TypeOK, Final
<1>0. /\ current.mode \in WIFI_OFF..WIFI_AP_STA
      /\ current.sta \in Aps \cup {NoAp}
  BY DEF ConfigT
<1>1. ASSUME NEW mode \in WIFI_OFF..WIFI_AP_STA, NEW cur \in BOOLEAN, CwMode(mode, cur)
      PROVE  TypeOK'
  <2> DEFINE new == [flash EXCEPT !.mode = mode]
  <2>0. new \in ConfigT
    BY ConfigUpdate
  <2>a. Stored(Persists(cur), new) \in ConfigT
    BY <2>0, StoredType
  <2>b. \E m \in WIFI_OFF..WIFI_AP_STA : current' = [current EXCEPT !.mode = m]
    <3>1. \E m \in ForAddresses(mode, mode) \cup ForAddresses(current.mode, mode) :
             current' = [current EXCEPT !.mode = m]
      BY <1>1 DEF CwMode
    <3>2. QED
      BY <3>1, <1>0, Modes
  <2>1. current' \in ConfigT /\ flash' \in ConfigT
    <3>1. current' \in ConfigT
      <4>1. PICK m \in WIFI_OFF..WIFI_AP_STA : current' = [current EXCEPT !.mode = m]
        BY <2>b
      <4>2. [current EXCEPT !.mode = m] \in ConfigT
        BY ConfigUpdate
      <4>3. QED
        BY <4>1, <4>2
    <3>2. flash' \in {Stored(Persists(cur), new), flash}
      BY <1>1 DEF CwMode
    <3>3. QED
      BY <2>a, <3>1, <3>2
  <2>2. QED
    BY <1>1, <2>1 DEF CwMode, flags, station
<1>2. ASSUME NEW ap \in Aps, NEW cur \in BOOLEAN, CwJap(ap, cur) PROVE TypeOK'
  <2> DEFINE mode == WithStation(current.mode)
             new  == [WithMode(flash, mode) EXCEPT !.sta = ap]
  <2>0. mode \in WIFI_OFF..WIFI_AP_STA
    BY <1>0, Modes
  <2>a. [current EXCEPT !.mode = mode, !.sta = ap] \in ConfigT /\ new \in ConfigT
    BY <2>0, ConfigUpdate, WithModeType
  <2>b. Stored(Persists(cur), new) \in ConfigT
    BY <2>a, StoredType
  <2>1. current' \in ConfigT /\ flash' \in ConfigT
    BY <1>2, <2>a, <2>b DEF CwJap, Begin
  <2>2. QED
    BY <1>2, <2>1 DEF CwJap, Begin, NowConnecting, station
<1>3. ASSUME NEW cur \in BOOLEAN, CwJapRefused(cur) PROVE TypeOK'
  <2> DEFINE mode == WithStation(current.mode)
             Left(conf) == [WithMode(conf, mode) EXCEPT
                              !.sta = IF status = "GOT_IP" THEN NoAp ELSE @]
  <2>0. mode \in WIFI_OFF..WIFI_AP_STA
    BY <1>0, Modes
  <2>a. Left(current) \in ConfigT /\ Left(flash) \in ConfigT
    BY <2>0, LeftType
  <2>b. Stored(Persists(cur), Left(flash)) \in ConfigT
    BY <2>a, StoredType
  <2>1. current' \in ConfigT /\ flash' \in ConfigT
    BY <1>3, <2>a, <2>b DEF CwJapRefused
  <2>2. QED
    BY <1>3, <2>1 DEF CwJapRefused, NowConnecting, station
<1>4. ASSUME NEW cur \in BOOLEAN, CwJapStillConnected(cur) PROVE TypeOK'
  <2>1. current' \in ConfigT /\ flash' \in ConfigT
    BY <1>4, ConfigUpdate, StoredType DEF CwJapStillConnected, Disconnect
  <2>2. persistent' \in BOOLEAN
    BY <1>4, Zenon DEF CwJapStillConnected, Persists
  <2>3. QED
    BY <1>4, <2>1, <2>2 DEF CwJapStillConnected, station, flags
<1>5. ASSUME NEW cur \in BOOLEAN, CwSap(cur) PROVE TypeOK'
  <2> DEFINE mode == WithSoftAp(current.mode)
             new  == [WithMode(flash, mode) EXCEPT !.ap = TRUE]
  <2>0. mode \in WIFI_OFF..WIFI_AP_STA
    BY <1>0, Modes
  <2>a. [current EXCEPT !.mode = mode, !.ap = TRUE] \in ConfigT /\ new \in ConfigT
    BY <2>0, ConfigUpdate, WithModeType
  <2>b. Stored(Persists(cur), new) \in ConfigT
    BY <2>a, StoredType
  <2>1. current' \in ConfigT /\ flash' \in ConfigT
    BY <1>5, <2>a, <2>b DEF CwSap
  <2>2. QED
    BY <1>5, <2>1 DEF CwSap, station, flags
<1>6. ASSUME CwQap PROVE TypeOK'
  <2>1. current' \in ConfigT /\ flash' \in ConfigT
    BY <1>6, ConfigUpdate, StoredType DEF CwQap, Disconnect
  <2>2. QED
    BY <1>6, <2>1 DEF CwQap, station, flags
<1>s. ASSUME ScanStart
      PROVE  /\ current' \in ConfigT /\ flash' \in ConfigT
             /\ status' \in {"IDLE", status} /\ joined' \in {NoAp, joined}
  <2> DEFINE mode == WithStation(current.mode)
             Left(conf, forgets) == [WithMode(conf, mode) EXCEPT
                                       !.sta = IF forgets THEN NoAp ELSE @]
  <2>1. \E forgets : current' = Left(current, forgets)
                       /\ flash' = Stored(persistent, Left(flash, forgets))
    BY <1>s DEF ScanStart
  <2>2. mode \in WIFI_OFF..WIFI_AP_STA
    BY <1>0, Modes
  <2>3. ASSUME NEW forgets
        PROVE  Left(current, forgets) \in ConfigT /\ Left(flash, forgets) \in ConfigT
    BY <2>2, LeftType
  <2>4. current' \in ConfigT /\ flash' \in ConfigT
    <3> HIDE DEF Left
    <3> QED  BY <2>1, <2>3, StoredType
  <2>5. QED
    BY <1>s, <2>4 DEF ScanStart, station
<1>7. ASSUME CwLap PROVE TypeOK'
  BY <1>7, <1>s DEF CwLap
<1>16. ASSUME CwLapRefused PROVE TypeOK'
  BY <1>7, <1>s, <1>16 DEF CwLapRefused
<1>8. ASSUME NEW sort \in SortArgs, CwLapOpt(sort) PROVE TypeOK'
  BY <1>8, StationAssumption DEF CwLapOpt, station, flags
<1>9. ASSUME Connected PROVE TypeOK'
  BY <1>9 DEF Connected, station
<1>10. ASSUME PrintScanResult PROVE TypeOK'
  BY <1>10 DEF PrintScanResult, station
<1>11. ASSUME AttemptEnds PROVE TypeOK'
  BY <1>11, <1>0 DEF AttemptEnds, Failures, flags
<1>12. ASSUME ConnectionLost PROVE TypeOK'
  BY <1>12 DEF ConnectionLost, flags
<1>13. ASSUME Retry PROVE TypeOK'
  BY <1>13 DEF Retry, flags
<1>14. ASSUME UNCHANGED vars PROVE TypeOK'
  BY <1>14 DEF vars, station, flags
<1>15. QED
  BY <1>1, <1>2, <1>3, <1>4, <1>5, <1>6, <1>7, <1>8, <1>9, <1>10, <1>11, <1>12, <1>13, <1>14,
     <1>16, Steps

\* Type correctness for any set of access points and of CWLAPOPT arguments.
THEOREM StationTypeCorrect == Spec => []TypeOK
<1>1. QED
  BY TypeInit, TypeStep, PTL DEF Spec

-----------------------------------------------------------------------------
(***************************************************************************)
(* The flags                                                               *)
(***************************************************************************)

\* The flags change in four places only: CWJAP and CWLAP set them when nothing
\* is pending, the connecting part of loop() and the scan callback clear them.
LEMMA OneResultStep ==
  ASSUME TypeOK, OneResultPending, [Next]_vars
  PROVE  OneResultPending'
<1> USE DEF OneResultPending
<1>1. ASSUME NEW mode \in WIFI_OFF..WIFI_AP_STA, NEW cur \in BOOLEAN, CwMode(mode, cur)
      PROVE  OneResultPending'
  BY <1>1 DEF CwMode, flags
<1>2. ASSUME NEW ap \in Aps, NEW cur \in BOOLEAN, CwJap(ap, cur) PROVE OneResultPending'
  BY <1>2 DEF CwJap, Accepted, NowConnecting
<1>3. ASSUME NEW cur \in BOOLEAN, CwJapRefused(cur) PROVE OneResultPending'
  BY <1>3 DEF CwJapRefused, Accepted, NowConnecting
<1>4. ASSUME NEW cur \in BOOLEAN, CwJapStillConnected(cur) PROVE OneResultPending'
  BY <1>4 DEF CwJapStillConnected, flags
<1>5. ASSUME NEW cur \in BOOLEAN, CwSap(cur) PROVE OneResultPending'
  BY <1>5 DEF CwSap, flags
<1>6. ASSUME CwQap PROVE OneResultPending'
  BY <1>6 DEF CwQap, flags
<1>7. ASSUME CwLap PROVE OneResultPending'
  BY <1>7 DEF CwLap, Accepted
<1>16. ASSUME CwLapRefused PROVE OneResultPending'
  BY <1>16 DEF CwLapRefused, Accepted
<1>8. ASSUME NEW sort \in SortArgs, CwLapOpt(sort) PROVE OneResultPending'
  BY <1>8 DEF CwLapOpt, flags
<1>9. ASSUME Connected PROVE OneResultPending'
  BY <1>9 DEF Connected
<1>10. ASSUME PrintScanResult PROVE OneResultPending'
  BY <1>10 DEF PrintScanResult
<1>11. ASSUME AttemptEnds PROVE OneResultPending'
  BY <1>11 DEF AttemptEnds, flags
<1>12. ASSUME ConnectionLost PROVE OneResultPending'
  BY <1>12 DEF ConnectionLost, flags
<1>13. ASSUME Retry PROVE OneResultPending'
  BY <1>13 DEF Retry, flags
<1>14. ASSUME UNCHANGED vars PROVE OneResultPending'
  BY <1>14 DEF vars, flags
<1>15. QED
  BY <1>1, <1>2, <1>3, <1>4, <1>5, <1>6, <1>7, <1>8, <1>9, <1>10, <1>11, <1>12, <1>13, <1>14,
     <1>16, Steps

\* The scan callback and the connecting part never clear each other's busy
\* flag, whatever the host sends and the SDK does.
THEOREM OneResultCorrect == Spec => []OneResultPending
<1>1. Init => OneResultPending
  BY DEF Init, OneResultPending
<1>2. TypeOK /\ OneResultPending /\ [Next]_vars => OneResultPending'
  BY OneResultStep
<1>3. QED
  BY <1>1, <1>2, StationTypeCorrect, PTL DEF Spec

-----------------------------------------------------------------------------
(***************************************************************************)
(* OK is about the AP of this CWJAP                                        *)
(***************************************************************************)

\* Between CWQAP and the end of the old connection joined differs from the
\* configuration; a CWJAP in that window waits for the end.
JoinInv == gsFlag_Connecting /\ status = "GOT_IP" => joined = current.sta

LEMMA JoinStep ==
  ASSUME TypeOK, OneResultPending, JoinInv, [Next]_vars
  PROVE  JoinInv'
<1> USE DEF JoinInv
<1>0. Accepted => ~gsFlag_Connecting
  BY DEF OneResultPending, Accepted
<1>1. ASSUME NEW mode \in WIFI_OFF..WIFI_AP_STA, NEW cur \in BOOLEAN, CwMode(mode, cur)
      PROVE  JoinInv'
  BY <1>0, <1>1 DEF CwMode, flags
<1>2. ASSUME NEW ap \in Aps, NEW cur \in BOOLEAN, CwJap(ap, cur) PROVE JoinInv'
  BY <1>2 DEF CwJap, Begin, StillConnected
<1>3. ASSUME NEW cur \in BOOLEAN, CwJapRefused(cur) PROVE JoinInv'
  BY <1>3 DEF CwJapRefused, station
<1>4. ASSUME NEW cur \in BOOLEAN, CwJapStillConnected(cur) PROVE JoinInv'
  BY <1>0, <1>4 DEF CwJapStillConnected, flags
<1>5. ASSUME NEW cur \in BOOLEAN, CwSap(cur) PROVE JoinInv'
  BY <1>0, <1>5 DEF CwSap, flags
<1>6. ASSUME CwQap PROVE JoinInv'
  BY <1>0, <1>6 DEF CwQap, flags
<1>7. ASSUME CwLap PROVE JoinInv'
  BY <1>0, <1>7 DEF CwLap
<1>16. ASSUME CwLapRefused PROVE JoinInv'
  BY <1>0, <1>16 DEF CwLapRefused
<1>8. ASSUME NEW sort \in SortArgs, CwLapOpt(sort) PROVE JoinInv'
  BY <1>8 DEF CwLapOpt, flags, station
<1>9. ASSUME Connected PROVE JoinInv'
  BY <1>9 DEF Connected
<1>10. ASSUME PrintScanResult PROVE JoinInv'
  BY <1>10 DEF PrintScanResult, station
<1>11. ASSUME AttemptEnds PROVE JoinInv'
  BY <1>11 DEF AttemptEnds, Failures
<1>12. ASSUME ConnectionLost PROVE JoinInv'
  BY <1>12 DEF ConnectionLost
<1>13. ASSUME Retry PROVE JoinInv'
  BY <1>13 DEF Retry
<1>14. ASSUME UNCHANGED vars PROVE JoinInv'
  BY <1>14 DEF vars, flags, station
<1>15. QED
  BY <1>1, <1>2, <1>3, <1>4, <1>5, <1>6, <1>7, <1>8, <1>9, <1>10, <1>11, <1>12, <1>13, <1>14,
     <1>16, Steps

\* The OK of CWJAP is never about a connection the station had before.
THEOREM OkMeansJoinedCorrect == Spec => OkMeansJoined
<1>1. Init => JoinInv
  BY DEF Init, JoinInv
<1>2. TypeOK /\ OneResultPending /\ JoinInv /\ [Next]_vars => JoinInv'
  BY JoinStep
<1>3. JoinInv => (gsFlag_Connecting /\ ~gsFlag_Connecting' /\ status = "GOT_IP"
                    => joined = current.sta)
  BY DEF JoinInv
<1>4. Spec => []JoinInv
  BY <1>1, <1>2, StationTypeCorrect, OneResultCorrect, PTL DEF Spec
<1>5. QED
  BY <1>3, <1>4, PTL DEF OkMeansJoined

-----------------------------------------------------------------------------
(***************************************************************************)
(* gsFlag_Busy has an owner                                                *)
(***************************************************************************)

\* While an attempt the SDK has started is awaited, the SDK may retry it and has an
\* AP to retry.
OwnerInv ==
  /\ OneResultPending
  /\ sort_enable \in {0, 1}
  /\ gsFlag_Connecting /\ ~refused => autoReconnect /\ current.sta # NoAp
  /\ BusyHasOwner

LEMMA OwnerStep ==
  ASSUME SortArgs \subseteq {0, 1}, TypeOK, OwnerInv, [Next]_vars
  PROVE  OwnerInv'
<1>p. OneResultPending'
  BY OneResultStep DEF OwnerInv
<1> DEFINE Rest == /\ sort_enable \in {0, 1}
                   /\ gsFlag_Connecting /\ ~refused => autoReconnect /\ current.sta # NoAp
                   /\ BusyHasOwner
<1> SUFFICES Rest'
  BY <1>p DEF OwnerInv
<1>r. Rest /\ OneResultPending
  BY DEF OwnerInv
<1> USE DEF BusyHasOwner
<1>0. Accepted => ~gsFlag_Connecting /\ ~gsFlag_Busy
  BY <1>r DEF OneResultPending, Accepted
<1>1. ASSUME NEW mode \in WIFI_OFF..WIFI_AP_STA, NEW cur \in BOOLEAN, CwMode(mode, cur)
      PROVE  Rest'
  BY <1>0, <1>1, <1>r DEF CwMode, flags
<1>2. ASSUME NEW ap \in Aps, NEW cur \in BOOLEAN, CwJap(ap, cur) PROVE Rest'
  <2>1. status' # "IDLE" /\ current'.sta = ap
    <3>1. current' = [current EXCEPT !.mode = WithStation(@), !.sta = ap]
      BY <1>2 DEF CwJap, Begin
    <3>2. QED
      BY <1>2, <3>1 DEF CwJap, Begin, StillConnected, TypeOK, ConfigT
  <2>2. ap # NoAp
    BY StationAssumption
  <2>3. QED
    BY <1>2, <1>r, <2>1, <2>2 DEF CwJap, NowConnecting
<1>3. ASSUME NEW cur \in BOOLEAN, CwJapRefused(cur) PROVE Rest'
  BY <1>3, <1>r DEF CwJapRefused, NowConnecting
<1>4. ASSUME NEW cur \in BOOLEAN, CwJapStillConnected(cur) PROVE Rest'
  BY <1>0, <1>4, <1>r DEF CwJapStillConnected, flags
<1>5. ASSUME NEW cur \in BOOLEAN, CwSap(cur) PROVE Rest'
  BY <1>0, <1>5, <1>r DEF CwSap, flags
<1>6. ASSUME CwQap PROVE Rest'
  BY <1>0, <1>6, <1>r DEF CwQap, flags
<1>7. ASSUME CwLap PROVE Rest'
  BY <1>0, <1>7, <1>r DEF CwLap
<1>16. ASSUME CwLapRefused PROVE Rest'
  BY <1>0, <1>16, <1>r DEF CwLapRefused
<1>8. ASSUME NEW sort \in SortArgs, CwLapOpt(sort) PROVE Rest'
  BY <1>8, <1>r DEF CwLapOpt, flags, station
<1>9. ASSUME Connected PROVE Rest'
  BY <1>9, <1>r DEF Connected
<1>10. ASSUME PrintScanResult PROVE Rest'
  BY <1>10, <1>r DEF PrintScanResult, Printed, station, OneResultPending
<1>11. ASSUME AttemptEnds PROVE Rest'
  BY <1>11, <1>r DEF AttemptEnds, Failures, Final, flags
<1>12. ASSUME ConnectionLost PROVE Rest'
  BY <1>12, <1>r DEF ConnectionLost, flags
<1>13. ASSUME Retry PROVE Rest'
  BY <1>13, <1>r DEF Retry, flags
<1>14. ASSUME UNCHANGED vars PROVE Rest'
  BY <1>14, <1>r DEF vars, flags, station
<1>15. QED
  BY <1>1, <1>2, <1>3, <1>4, <1>5, <1>6, <1>7, <1>8, <1>9, <1>10, <1>11, <1>12, <1>13, <1>14,
     <1>16, Steps

\* For hosts that pass CWLAPOPT 0 or 1, a busy module is waiting for something the SDK
\* works on or has just finished, unless the SDK has refused to start it.
THEOREM BusyHasOwnerCorrect ==
  ASSUME SortArgs \subseteq {0, 1}
  PROVE  Spec => []BusyHasOwner
<1>1. Init => OwnerInv
  BY DEF Init, OwnerInv, OneResultPending, BusyHasOwner
<1>2. TypeOK /\ OwnerInv /\ [Next]_vars => OwnerInv'
  BY OwnerStep
<1>3. OwnerInv => BusyHasOwner
  BY DEF OwnerInv
<1>4. QED
  BY <1>1, <1>2, <1>3, StationTypeCorrect, PTL DEF Spec

-----------------------------------------------------------------------------
(***************************************************************************)
(* The _CUR commands and flash                                             *)
(***************************************************************************)

\* The fault is that of the behaviour.
LEMMA FaultStep == [Next]_vars => fault' = fault
<1> SUFFICES ASSUME [Next]_vars PROVE fault' = fault
  OBVIOUS
<1> QED
  BY Steps DEF CwMode, CwJap, CwJapRefused, CwJapStillConnected, CwSap, CwQap, CwLap, CwLapRefused,
     CwLapOpt, Connected, PrintScanResult, AttemptEnds, ConnectionLost, Retry, vars

LEMMA PersistentStep ==
  ASSUME fault # "stays", persistent = FALSE, [Next]_vars
  PROVE  persistent' = FALSE
<1>1. ASSUME NEW cur \in BOOLEAN, CwJapStillConnected(cur) PROVE persistent' = FALSE
  BY <1>1 DEF CwJapStillConnected, AfterDisconnect, StillConnected
<1>2. QED
  BY <1>1, Steps DEF CwMode, CwJap, CwJapRefused, NowConnecting, CwSap, CwQap, CwLap, CwLapRefused,
     CwLapOpt, Connected, PrintScanResult, AttemptEnds, ConnectionLost, Retry, vars

\* When every disconnect is over within five seconds, WiFi.persistent is
\* off whenever a command begins, and a _CUR command writes nothing to flash.
THEOREM CurLeavesFlashCorrect == Spec => CurLeavesFlash
<1> DEFINE Off == fault # "stays" => persistent = FALSE
<1>1. Init => Off
  BY DEF Init
<1>2. Off /\ [Next]_vars => Off'
  BY PersistentStep, FaultStep
<1>3. ASSUME Off, fault # "stays", CurCommand
      PROVE  flash' = flash
  <2>1. \A conf : Stored(Persists(TRUE), conf) = flash
    BY <1>3 DEF Stored, Persists
  <2>2. CASE \E mode \in WIFI_OFF..WIFI_AP_STA : CwMode(mode, TRUE)
    BY <2>1, <2>2 DEF CwMode
  <2>3. CASE \E ap \in Aps : CwJap(ap, TRUE)
    BY <2>1, <2>3 DEF CwJap, Begin
  <2>4. CASE CwJapRefused(TRUE)
    <3>1. \E conf : flash' = Stored(Persists(TRUE), conf)
      BY <2>4 DEF CwJapRefused
    <3>2. QED
      BY <2>1, <3>1
  <2>5. CASE CwJapStillConnected(TRUE)
    BY <2>1, <2>5 DEF CwJapStillConnected, Disconnect
  <2>6. CASE CwSap(TRUE)
    BY <2>1, <2>6 DEF CwSap
  <2>7. QED
    BY <1>3, <2>2, <2>3, <2>4, <2>5, <2>6 DEF CurCommand
<1>4. QED
  BY <1>1, <1>2, <1>3, PTL DEF Spec, CurLeavesFlash

=============================================================================
