# TLA+ models of ESP_ATMod and the Leanbot sketches

The repository holds one program of some size, the ESP_ATMod firmware for the ESP8266 (an AT command
interpreter that lets a microcontroller use Wi-Fi, TCP and TLS over a serial line), and some forty
short Arduino sketches for the Leanbot robot. The firmware is where state lives for long, where
network, serial line and commands interleave, and where a mistake is hard to find by testing; it is
modelled first.

FW below stands for `src/CODE CONFIG/01_firmware/ESP_ATMod/`.

## Inventory

The firmware is one thread. `setup()` runs once, then `loop()` (FW/ESP_ATMod.ino:238) is called for
ever; the network stack (lwIP, the SDK) runs in between, whenever the code calls `yield()`, `delay()`,
`available()` or writes to a client, and at the end of every `loop()`. One pass of `loop()` scans the
links, accepts connections, reads the UART, looks after a connection attempt to an access point, and
executes at most one command line.

| Part | State | Operations | Talks to | What makes it correct |
| --- | --- | --- | --- | --- |
| Link table | `clients[5]`, `servers[5]`, `gsCipMux`, `gsLinkIdReading`, `dataRead`, `gsCipRecvMode`, `gsServersMaxConn`, `gsServerConnTimeout`, the locals of the scan | scan, accept loop and payload part of `loop()`; CIPSTART, CIPSEND, CIPCLOSE, CIPMUX, CIPSERVER, CIPSERVERMAXCONN, CIPSTO, CIPRECVMODE, CIPRECVDATA | the peers (lwIP), the host (dispatcher) | a link is overwritten only when free; CIPSEND data goes to an open link; limits hold; dead links are closed; received data is not lost |
| Serial dispatcher | `inputBuffer`, `sendBuffer`, `PemCertificate`, `gsCertLoading`, `gsFlag_Busy`, `lineCompleted` | reading of lines, payloads and certificates, overflow, busy refusal, discarding after a command | the host (UART); every handler | host and module agree on what the next byte is; commands are answered; no mode is stuck |
| WiFi station, busy flag | `gsFlag_Connecting`, `gsFlag_Busy`, `sort_enable`, `WiFi.persistent`, the SDK's configuration in RAM and flash | CWMODE, CWJAP, CWQAP, CWSAP, CWLAP, CWLAPOPT; the connecting part of `loop()`; the scan callback | the SDK | busy ends; the result is about the AP asked for; `_CUR` does not touch flash |
| Settings | a record with a CRC in EEPROM, `gsCipStaCfg`, `gsCipApCfg`, `gsCipDnsCfg`, `gsCwDhcp`, `maximumCertificates` | the `_DEF` forms of UART, CIPSTA, CIPAP, CIPDNS, CWDHCP; CIPSSLCERTMAX; RESTORE; `setup()` | flash | a reset between two writes leaves a legal record; what is saved is what is in force after a boot |
| TLS | `CAcert`, `fingerprint`, `gsCipSslAuth`, `gsCipSslSize` | CIPSSLAUTH, CIPSSLFP, CIPSSLCERT, CIPSSLSIZE, CIPSSLMFLN | BearSSL | the list never exceeds its maximum and has no duplicates; the mode in force has what it needs |
| SendData | locals; UART space, a 500 ms timeout | +IPD and +CIPRECVDATA in blocks | link table, UART | the announced length is what is sent |
| Parsers | none | readNumber, readStringFromBuffer, readIpAddress, readHex, findCommand; the ASN.1 walker | every handler | they accept what they should and stay in the buffer |
| SNTP, queries, event printer | little | SNTP*, CIFSR, CIPSTATUS, ... | SDK | - |
| Leanbot demos (`DEMO_V5`, `demoandtest`, ...) | current command, LEDs, gripper toggle | remote control, touch sensors | motors, sensors | a command ends; obstacles stop the robot |
| Calibration wizard (`Calibration.ino`) | `newData`, `degL`/`degR`, `checkNextStep`, `checkSaveToEEPROM`, motors, the record in EEPROM | the page's lines, demonstration and LED loops, save on touch | EEPROM, the page in the browser | what is saved is what was shown; the loops give way to a line |
| Setup sketches (`canhtay`, `dong_co`) | measured values | fixed steps on touch | EEPROM | only measured values are saved |
| BLE setup (`ghi_ten_ble`, `check_version_ble`) | baud rate found, retries | probing, renaming | the BLE module | finds the rate if there is one |
| Heart rate (`testntms`) | ring of rates, last beat | beat detection | sensor | the average is of the ring |
| Test sketches, bootloader files | none worth a model | | | |

What is hard to test in the firmware:

* the network moves between any two steps of a scan, and the scan keeps what it learned in locals
  (`freeLinkId`, `serversConnCount`) that the accept loop uses later;
* a link may be deleted by the peer, by a timeout or by a command while its CIPSEND payload is being
  collected over many passes;
* the UART is one stream for lines, payloads and certificates, and only flags say which the next byte is;
* the connection attempt and the scan callback both end the busy state, from different contexts;
* counters at their width (`lastAvailableBytes`), a full input buffer, an input that ends inside a line;
* failing paths that leave a flag behind (`persistent`, `gsCertLoading`, `gsFlag_Busy`);
* power that goes between the erasing and the writing of the settings, or between two settings of one command;
* an address, a mode, a DHCP client and a boot that each apply a part of the network configuration;
* lists of certificates that open links point to while commands replace or extend them.

PROJECT.json lists each of these under "hazards", at its line, with the properties that cover it.

## Modules

| Module | Models | State and actions against the code |
| --- | --- | --- |
| `LinkTable` | what the link table promises the host | abstract: connections, one CIPSEND, listening ports, mode, limit |
| `ATLinks` | the link table | one action per branch of the scan (`PollForward`, `PollAnnounce`, `PollNothing`, `ReapClosed`, ...); a test of `available()` that returned 0 is a step of its own (`LookClosed`, `LookIdle`), the deletion decided by it a later one; so are the branches of the accept loop and of the payload part; one action per command; `sock` is lwIP's side, moved by `Arrive`, `PeerCloses`, `PeerResets`; `idle` is `millis() - lastActivityMillis` |
| `ATLinksProofs`, `ATLinksTableProofs` | theorems about `ATLinks` | |
| `ATSerial` | the serial part of `loop()`, with the host | one action per branch: `ReadPayload`, `CertByte`, `CertRejected`, `CertLoaded`, `CertFailed`, `ReadLine`, `RefuseLine`, `ProcessCommandBuffer`, `DiscardByte`; the host sends a line, waits, sends data after the prompt. `style` is the sort of host, chosen once; `ahead` remembers that an overflow was answered before the host's line was read to its end |
| `ATSerialProofs`, `ATPayloadProofs` | theorems about `ATSerial` | |
| `ATStation` | station mode, scans, the busy flag, what is stored in flash | one action per handler and outcome; `Connected` is the connecting part of `loop()`, `PrintScanResult` the callback; `status` is `wifi_station_get_connect_status()`, moved by `AttemptEnds`, `ConnectionLost`, `Retry`; `fault` is what may go wrong beside a failing attempt; a scan start or a `WiFi.begin()` that the SDK refuses is `CwLapRefused` and a branch of `CwJap`, and `refused` remembers it as long as the module waits |
| `ATStationProofs` | theorems about `ATStation` | |
| `SettingsStore` | what the settings in flash promise | abstract: one setting changes at a time or all go back to the defaults; a loss of power before a change is settled loses all |
| `ATSettings` | the record in EEPROM, its setters, and the addresses the SDK is given | one action per command; a handler's getters and setters wait in `todo` and are taken one by one, each as erase and write (`flash`, `image`); `Reset` anywhere; `SetDhcpMode`, `SetDns`, `ApplyCipAp` at the end of a handler and of `setup()`; `CwJap` is what `WiFi.begin()` does to mode and DHCP client, `JoinEnds` the connecting part of `loop()` with its DNS servers; `dhcpc`, `staIp`, `dns`, `apIp` are the SDK's, `begun` remembers that `WiFi.begin()` came after the address was set |
| `ATSettingsProofs` | theorems about `ATSettings` | |
| `ATCerts` | what a TLS server is checked with | `lists[id]` is the content of an `X509List` object, `CAcert` and a link's `check` point to one; one action per command (`CIPSSLAUTH`, `CIPSSLFP`, `CIPSSLCERTMAX`, `CIPSSLCERT`, its DELETE, `CIPSTART`) and one per branch of the certificate loader, byte by byte |
| `ATCertsProofs` | theorems about `ATCerts` | |
| `Calibration` | the calibration wizard of the Leanbot robot | one action per line of `handleCommand`, one per turn of the loops inside `PrintCalibrationResult` and `setLedMode`, `Save` and `NoTouch` for the end of `loop()`; the page sends lines in pieces (`BeginLine`, `EndLine`); `shown` remembers the result shown last, none before the first one |
| `CalibrationProofs` | theorems about `Calibration` | |

The firmware's modules are independent views of one `loop()` and each has its own abstraction of the
others. ATLinks has the serial part as "a payload byte or a command"; ATSerial has links as "the link of the
payload may close", and commands by their kind, i.e. by what they make the serial side do next;
ATStation has a command as an action that `gsFlag_Busy` must allow; ATSettings takes the mode from
ATStation's CWMODE and CWJAP as a value and has what these handlers do to addresses, DHCP client and DNS servers, which
ATStation leaves out; ATCerts has the
bytes of a certificate that ATSerial treats as a body and an end, and of the link table one TLS link.

In a module an operator marked "mutant of X" is X with a plausible mistake. It is not used by the
specification: it is there to show that the property listed with it fails when the code has that mistake.

### Abstractions

* ATLinks: bytes are counted, not looked at. A step boundary is put wherever the code lets the network
  stack run. `available()` lets it run after it has looked and found nothing, so that data may arrive between
  its 0 and the deletion it decides; when it returns something, the bytes stay, and it is one step with what follows.
  A reset keeps nothing of this state and begins a new behaviour from `Init`.
* ATSerial: a byte is a letter for its role ("A", "c", "LF", "p", ...) and its place. Commands are three
  bytes long, payloads four, certificates two. `inputBuffer` has three, the length of a line and less than a payload, as in the code
  (200 bytes against payloads up to 2048); each buffer can be met half-way, exactly full and overflowed. The end marker of a certificate is one byte; the treatment of newlines
  is in ATCerts.
* ATStation: an access point is a model value; addresses are in ATSettings; the five seconds CWJAP waits after
  a disconnect are one step with two outcomes, over or not over.
  A scan start first disconnects a station that is neither joined nor idle; whether the SDK then forgets its AP is a choice. What CWAUTOCONN stores decides how the next
  start begins, and is a choice of `Init`.
* ATSettings: gateway and mask are one value: given, one of them 0, never assigned, or one the SDK refuses. The
  checksum is what it is for: a record is whole or not valid. A write of the sector is one step behind its
  erasing: flash is written in pages, and a record with a part of its bytes is not valid either.
* ATCerts: a certificate's body is one byte, its end marker another; the four ways a newline can come (`\r`,
  `\n` and both characters of an escape) are bytes of their own.
* Calibration: left and right gripper are always set together and are one value; the LED pattern, beeps and
  printed text are left out. The page is not in the repository: it may send any line at any time. A line `L`
  without a space, in which the sketch would search for ever, is not sent.

## Runs

| Run | Asks | Bounds, and why they are enough |
| --- | --- | --- |
| `ATLinks_send` | Is a payload always collected for an open link and inside the buffer? Is a free slot clean? Does a scan ever give up data it has seen? | 2 links, one server, a two-byte buffer with sizes 0, 2 and 3 (none, full, too long; a payload of two bytes can be abandoned half-way), both receive modes, the timeout on, failed allocation. Two links are what a stale link id needs; a timeout of 1 against idle times up to 2 has both sides of the comparison. |
| `ATLinks_server` | Are the locals the accept loop uses right when they are used? Are limits, ports and modes kept? Does the table implement `LinkTable`? | 2 links, 2 server slots, 2 ports, limits 1, 2 and the initial 5: below, at and above the number of links. |
| `ATLinks_live` | Are gone and quiet links closed, for ever after? Does active mode forward everything? | 2 links, 1 server, no mode switch, the timeout on or switched off. |
| `ATLinks_wrap` | (refuted) Is unread data always announced again? | 1 link, passive mode, counter width 4. |
| `ATSerial` | Do a patient host and the module agree on every byte, and is every command answered? Is a payload intact after an earlier one was cut short by the peer? With a hasty host, do buffers hold and are lines heard again, whatever was left unfinished? | three styles of host in one run, chosen at the start; an input buffer of three for lines of three and seven and for the rest of a payload of four, a certificate buffer of three for texts of two, a UART of three. |
| `ATSerial_overflow` | (refuted) Is every payload intact, also when the rest of an earlier one has overflowed `inputBuffer`? | the host whose peer closes, the sizes of `ATSerial`. |
| `ATStation` | Has busy an owner, unless the SDK refused to start what is waited for? Is one result pending at most, is OK about this AP, do `_CUR` commands leave flash alone? Does every CWJAP and CWLAP the SDK has started end, but for a station that stays associated without an address? | 2 APs (the one asked for and another), every boot configuration, one of two faults in each behaviour: an SDK that refuses to start an attempt or a scan, a station that stays connected. After a refusal the module really stops (it is busy for ever), so deadlock is not checked. |
| `ATStation_stay` | (refuted) `_CUR` leaves flash alone, with a disconnect that is not over in time. | |
| `ATStation_sort` | (refuted) `BusyHasOwner` with CWLAPOPT values other than 0 and 1. | |
| `ATSettings` | Is the record whole or lost, never changed in part? Is what is used what is stored? Are the addresses in force those of the commands, after any path of commands, modes, joins, boots and leases? | addresses 0 and two others, one DNS configuration beside none, power that may go at every step. Two hosts: one uses the commands of the station's addresses, one those of the UART, the SoftAP and the certificates; the two groups touch different settings and meet in CWMODE and RESTORE, which both have. |
| `ATCerts` | Are lists free of duplicates, within the maximum, and kept while a link points to them? Is a server ever left unchecked? Is the text the decoder gets normalised? | 2 certificates, one of them built in, maxima 1 and 3, a buffer of 3 for texts of up to 4 bytes, 3 lists between two resets (the first, one after a DELETE, and one more). |
| `Calibration` | Once a result was shown, is what is saved the one shown last, but for an open position measured since? Do the loops inside handlers give way to a line? | positions 0 and 10, two lines ahead and one in pieces, any first content of the EEPROM, power cycles at any time. Positions are only copied and compared; two tell a stale one from a new one. |

The passing runs fire every action of their modules between them: `ATLinks_send` and `ATLinks_server`
together those of ATLinks, the others each those of their module.

Four modules also state a promise without the exceptions that the code makes necessary. They are not in a run,
because the property beside them says what does hold; TLC refutes each with the configuration of its module and the
change named here:

| Promise | Is refuted with | Beside it stands |
| --- | --- | --- |
| `NoDataDropped` (ATLinks): a scan closes only links with nothing unread, as long as the peer is connected | `ATLinks_send.cfg` as it is | `SeenDataKept`, of what the scan has seen |
| `CertOver` (ATSerial): loading is over when the host has its result | `ATSerial.cfg` with `Styles = {"failing"}` | `HeardAgain`: the loader is left again |
| `DhcpOffMeansOff` (ATSettings): DHCP reported off is off | `ATSettings.cfg` as it is | `DhcpAsReported`, which excepts a `WiFi.begin()` without a static address |
| `ScanWillPrint` (ATStation): a module busy with CWLAP has a scan that will be printed | `ATStation.cfg` as it is | `BusyHasOwner`, which excepts a refusal of the SDK |

### Fairness

* ATLinks: `loop()` is called for ever and each of its steps terminates (weak fairness of the steps of the
  scan, the accept loop and the end of the serial part). The scan is skipped when the UART has no room;
  the UART drains at its baud rate, so it is not skipped for ever (strong fairness of `PollStart`). Time
  passes. Nothing is assumed of the host or the peers.
* ATSerial: `loop()` goes on; a host finishes what it has begun to send, has always another command and,
  if it is one that gives up, does so in the end; a join or a scan ends if `loop()` passes its test
  again and again.
* ATStation: a scan that was started ends; the SDK holds a result long enough for `loop()` to see one of them
  in the end (strong fairness of `Connected`). That an attempt ends is not assumed: the station may stay in
  `STATION_CONNECTING`, and `BusyEnds` says so.
* Calibration: the sketch runs. Nothing is assumed of the page, the user, or the LED timeout.
* ATSettings and ATCerts state no liveness: every handler runs to its end, and what follows is a command of the host.

## What is proved

All theorems hold for every value of the constants that satisfies the named assumptions of the module
(positive sizes, link numbers below 255, inputs in the sets the parsers accept), plus the hypotheses
stated with them.

| Theorem | Says | Argument |
| --- | --- | --- |
| `TypeCorrect` | `ATLinks` types, with every index in its range | inductive by itself |
| `SingleLinkModeCorrect` | in single-link mode only link 0 is open and no server listens | inductive with the types |
| `FreeLinkCorrect` | `FreeLinkIsFree` | `FreeLinkInv` adds that outside the scan and the accept loop the locals are gone: a command may open the very link `freeLinkId` named, and only because the value is dead by then this is harmless |
| `SendTargetCorrect` | `SendTargetLive`, for hosts that name existing links (`LinkArgs` within `Link`) | inductive with the types: every deletion takes the pending CIPSEND along |
| `ServerCountCorrect`, `AcceptWithinLimitCorrect` | the accept loop compares the exact number of server links with the limit, and never exceeds it | `CountInv`: in the middle of the scan the count is the number of server links among those already passed (`Passed(n)`), which cannot change behind the scan's back, because only commands change `servers` and only the accept loop adds server links |
| `EmptySlotCleanCorrect`, `SeenDataKeptCorrect` | `EmptySlotClean`; `SeenDataKept`: data the scan has found on a link is not deleted by it | the first is inductive with the types: every way to close a link clears its slot. For the second, `SeenInv`: between a test and its deletion the scan remembers what `available()` returned, and it returned 0 |
| `DistinctServersCorrect` | one slot per listening port | inductive with the types |
| `LinkTableImplemented` | `ATLinks` implements `LinkTable` (`LinkArgs` within `Link`) | step simulation under all the invariants above; a scan step maps to `Close` or a stutter, an accept to `Accept`, a payload byte to a stutter or to the end of the send |
| `InSyncCorrect` | `InSync`: a host that waits and the module never disagree on what the next byte is; no byte of its payload or certificate is lost | `SyncInv` says for every phase of the host where its bytes are: what `loop()` has read, what the UART holds and what is still to be sent are, joined, the line, the payload or the certificate of its command. `InSync` alone is not inductive: that the UART is empty while a job runs, when data is asked for, and behind a completed line is what makes the discarding after a command harmless |
| `SerialTypeCorrect` | types of `ATSerial` with any host, the hasty one included: no line and no certificate runs over its buffer | inductive by itself: each reader tests the length in the step that stores the byte |
| `PayloadIntactCorrect` | `PayloadIntact`: what is written to a link is the host's payload for it, whole, also after the peer ended an earlier link in the middle of its payload, for every size of the buffers and the payload; excepted is a host that has got an answer before its line was read to the end (`ahead`), which is what an overflow can do | `SyncInv` for the patient host. For the other, `DesertedInv` says, phase by phase, what may be under way as long as the host is not ahead: between commands a rest of a payload without an end of line, then that rest and exactly one line. So a rest only spoils the next line, which is answered once, and nothing of it is left when a payload is awaited. That there is nothing to discard up to the `A` of the next command is a part of it: otherwise a rest would be thrown away at a time nobody counts |
| `StationTypeCorrect`, `OneResultCorrect` | types; the connecting part and the callback never clear each other's busy flag | inductive; commands are accepted only while no result is pending |
| `OkMeansJoinedCorrect` | an OK of CWJAP is about the AP asked for | `JoinInv`: whenever the station has an address, `joined` is the AP it is configured for, as long as an attempt is awaited; it fails as soon as CWJAP does not read the status again after the disconnect |
| `BusyHasOwnerCorrect` | `BusyHasOwner`, for CWLAPOPT values 0 and 1: busy without a scan that will be printed or an attempt with an AP is a refusal of the SDK and nothing else | `OwnerInv` adds that `sort_enable` is a known value, that the AP is configured while an attempt is awaited, and that a retry stays enabled |
| `CurLeavesFlashCorrect` | `CurLeavesFlash`: where disconnects are over in time | `persistent` is off between any two steps, unless the station stays connected |
| `SettingsTypeCorrect` | types of `ATSettings`; a commit belongs to a getter or setter under way | inductive by itself |
| `ImplementsSettingsStoreCorrect` | `ATSettings` implements `SettingsStore` | step simulation: the erasing of the sector maps to the change, its writing to `Settle`, a loss of power to `Lose` or a stutter |
| `StaticInForceCorrect`, `DhcpAsReportedCorrect`, `ApInForceCorrect` | the address configuration in force is that of the commands; for the DHCP client, what CWDHCP reports, but for a `WiFi.begin()` without a static address and an address `WiFi.config` refuses | one invariant about the time between commands and one about the inside of handlers: what is still `todo` and `after` will restore the first |
| `InUseIsStoredCorrect`, `AddressBeforeDhcpOffCorrect` | between commands what is in use is what is stored, but for what a `_CUR` set; CIPSTA stores its address before it stores that DHCP is off, so that a loss of power between the two leaves DHCP on | `StoredInv`: for the inside of a handler, what its steps still to come have to write so that the promise holds again (`PromiseInv`), that a commit under way writes what its setter sets (`ImageInv`), and in which order address and DHCP are still to be written (`AddressInv`) |
| `UnassignedNeverUsedCorrect` | gateway and mask that were never assigned do not reach the SDK | the address they belong to is 0, and each user of them tests it |
| `CertsTypeCorrect` | types of `ATCerts`, the text within its buffer | inductive by itself |
| `NoDuplicatesCorrect`, `ServerCheckedCorrect` | no certificate is twice in a list; a link opened under fingerprint or certificate authentication has something to check the server with | `TrustInv` is the two together with where a link may point: to the list in use or an earlier one, never to one still to be made |
| `AnchorsStayCorrect`, `WithinMaximumCorrect` | the list of an open link only grows; loading stays within the maximum | from `TrustInv`; and `RoomInv`: while loading goes on, the room tested at its beginning is still there, because no command is executed in between |
| `TextNormalisedCorrect` | `TextNormalised`: what the decoder gets is the host's text with each run of newlines, in whatever form, made one and none at the beginning, for texts of any length | `TextInv` adds how the text ends compared with how the received bytes end, also for a last backslash that may turn out to begin an escape: the loader decides about a byte from the last one or two it kept, never from what it received |
| `CalibrationTypeCorrect` | types of `Calibration` | inductive by itself |
| `ShownIsSavedCorrect` | `ShownIsSaved`, for every order of lines and power cycles: once a result was shown, what is saved is that result but for an open position measured since | `Shown`: what was measured and what was shown differ at most in the open position, and not at all from Step3 until Step1; it fails as soon as Step2 measures when one comes back to it |

Only model-checked: every liveness property (`GoneLinkReaped`, `QuietServerLinkClosed` and `ActiveForwards` of ATLinks;
`Answered` and `HeardAgain` of ATSerial; those of ATStation and Calibration), because the prover has no rules
for fairness, and of course what is refuted. Every safety invariant and action property the passing runs check is proved.

The hypotheses are needed: each names an input or an answer of the SDK with which TLC refutes the property
(`LinkArgs` with the number after the last link, `SortArgs` with 2, a station that stays connected). So are the exceptions
inside the properties: without them they are the refuted run `ATSerial_overflow` and the refuted promises listed with the runs.

## What the checks found

* `lastAvailableBytes` wraps below zero when CIPRECVDATA reads bytes that were not announced yet; the link's
  data is then ignored (`ATLinks_wrap`). In the same place the count of passive mode survives a switch back
  to active mode and holds data back (`ActiveForwards` with `RecvModes = {0, 1}`).
* CIPSEND accepts link id 5, one past the table (`SendTargetLive` with `LinkArgs = {0, 1, 2}`, `MaxLink = 1`).
* A certificate that does not decode leaves the loader on after ERROR (`CertOver`).
* A line that arrives while the module is busy is refused in pieces; the piece that comes after the end of
  the job is executed as a command. A line too long for the buffer is answered twice: once for the overflow,
  once for its tail, and the host is then one answer ahead.
* CWJAP's failing path leaves `WiFi.persistent(true)` in force (`ATStation_stay`); CWLAPOPT takes a number
  with which the scan callback never ends the busy state (`ATStation_sort`); a `WiFi.begin()` that refuses
  makes the module busy for ever (`refused`, which `BusyHasOwner` excepts).
* The rest of a payload whose link the peer ended early overflows `inputBuffer` as a command line: ERROR comes at once,
  another one for the tail, and a host that takes the second one for the answer to its next command may send a
  command that is read as a payload (`ATSerial_overflow`).
* The scan decides to delete a quiet link, or one whose peer has gone, when `available()` has returned 0, and `available()`
  lets the network run after it has looked: what arrives then is deleted with the link, the peer perhaps
  still connected (`NoDataDropped`).
* CWJAP starts the DHCP client when no static address was handed to the SDK, and CWDHCP goes on to report it off
  (`DhcpOffMeansOff`).
* The result of the scan start is not looked at: when the SDK refuses it, CWLAP makes the module busy for ever
  (`ScanWillPrint`). A station that is associated and gets no lease stays in `STATION_CONNECTING`, on which `loop()`
  (FW/ESP_ATMod.ino:539) waits without a timeout: the module is busy as long as that lasts.
* CIPSEND=0 is accepted and takes the first byte of the next line, which is then no command (the hasty host).
* `WiFi.config` refuses a gateway in another subnet and nobody looks at its result: CIPSTA answers OK, the DHCP
  client goes on, and CWDHCP reports it off (`DhcpAsReported` excepts such an address).
* CIPSSLSIZE=16384 is kept as 0 and CIPSTART compares with 16384, so that the largest size asked for gives the
  smallest buffers. A certificate text that fills its buffer is terminated one byte behind it.
* The calibration wizard saves what nobody has shown: after power-on, Step4 and a touch save zeros, and Step1, Step2, Step4 and a
  touch a new open position with the closed one 0 (`ShownIsSaved` speaks of the time after the first result). Its save stays armed: a touch after the measurement was begun again saves a new open
  position with the old closed one. A line within five seconds of an LED choice leaves the motors running.

## Plan

Done, in this order: `LinkTable`, `ATLinks`, their proofs; `ATStation` and its proofs; `ATSerial` and its proofs (types, agreement, payloads);
`SettingsStore`, `ATSettings` and their proofs; `ATCerts` and its proofs; `Calibration` and its proofs.

What would come next, the most important first:

1. Composition of ATSerial and ATLinks: the payload path from the host's byte to the link.
2. The parsers (readNumber, readStringFromBuffer, readIpAddress, readHex) and the ASN.1 walker as functions over
   bounded inputs, against reference definitions.
3. The command loop of `DEMO_V5`/`demoandtest`, the BLE probe, the ring of heart rates.

## Not modelled

PROJECT.json lists every part. Left out for good: the query commands, SNTP and the event printer (they print
state or hand a parameter to the SDK), CIPSSLMFLN and CIPSSLSTA (queries), SendData's blocks and its wait for
room in the UART (no state of their own; the bytes it takes from a link are in ATLinks), debug output, the
vendored bootloader files, and the test sketches that exercise one part each in a straight line. `canhtay` and
`dong_co` walk once through fixed steps. BearSSL, lwIP, the EEPROM library, the Leanbot library and the SDK
are modelled only as the code uses them and are marked external in the map.
