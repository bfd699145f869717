----------------------------- MODULE ATSettings -----------------------------
(***************************************************************************)
(* The settings of the ESP_ATMod firmware: the record in EEPROM with its   *)
(* checksum (settings.cpp), the commands that change it (UART, CWDHCP,     *)
(* CIPSTA, CIPAP, CIPDNS, CIPSSLCERTMAX, RESTORE), the globals they load,  *)
(* and the addresses setDhcpMode, setDns and applyCipAp hand to the SDK;   *)
(* with what CWMODE and CWJAP do to them.                                  *)
(* A setter reads the whole record, changes one value and writes it back:  *)
(* the sector is erased and then written, and power may go at any moment.  *)
(***************************************************************************)
EXTENDS Integers, Sequences

CONSTANTS
  Ips,          \* addresses the host may give, 0 among them
  DnsServers,   \* DNS configurations the host may give
  BaudRates, UartConfigs, MaxCerts,   \* arguments of UART and CIPSSLCERTMAX
  Hosts         \* sets of commands: a host uses the commands of one of them

WIFI_OFF == 0
WIFI_STA == 1
WIFI_AP  == 2
WIFI_AP_STA == 3

NoDns      == "0.0.0.0"
DefaultDns == "64.6.64.6"
Lease      == "lease"       \* what a DHCP server gives

\* An address with its gateway and mask (rest): both not 0 ("set"), one of them 0
\* ("zero"), never assigned ("undef"), or a gateway that is in another subnet
\* ("alien"), which the SDK refuses.
NoConfig == [ip |-> 0, rest |-> "zero"]

\* An address without gateway and mask: both are derived from it, unless it is 0.
IpOnly(ip) == [ip |-> ip, rest |-> IF ip # 0 THEN "set" ELSE "undef"]

\* All the host can give.  Of an address 0 nobody looks at gateway and mask: what
\* counts is whether they were given.
Configs ==
  {NoConfig} \cup {IpOnly(ip) : ip \in Ips}
             \cup [ip : Ips \ {0}, rest : {"set", "zero", "alien"}]

Fields == {"uartBaudRate", "uartConfig", "dhcpMode", "netConfig", "dnsConfig",
           "apIpConfig", "maximumCertificates"}

Defaults ==
  [uartBaudRate |-> 115200, uartConfig |-> "8N1", dhcpMode |-> 3,
   netConfig |-> NoConfig, dnsConfig |-> NoDns, apIpConfig |-> NoConfig,
   maximumCertificates |-> 5]

Values(f) ==
  CASE f = "uartBaudRate" -> BaudRates \cup {115200}
    [] f = "uartConfig"   -> UartConfigs \cup {"8N1"}
    [] f = "dhcpMode"     -> {1, 3}
    [] f = "dnsConfig"    -> DnsServers \cup {NoDns}
    [] f = "maximumCertificates" -> MaxCerts \cup {5}
    [] OTHER              -> Configs

\* Flash whose checksum does not match.
NoData == [f \in {} |-> 0]

\* The record of eepromData_t.
IsData(d) == d = [f \in Fields |-> d[f]] /\ \A f \in Fields : d[f] \in Values(f)

Commands == {"UART", "CWDHCP", "CIPSTA", "CIPAP", "CIPDNS", "CIPSSLCERTMAX", "RESTORE", "CWMODE",
             "CWJAP"}

ASSUME SettingsAssumption ==
  /\ 0 \in Ips /\ Ips \subseteq Nat
  /\ \A h \in Hosts : h \subseteq Commands

VARIABLES
  host,                 \* the commands the host uses (external)
  flash,                \* the record, or NoData
  image,                \* what a commit under way is to write
  todo,                 \* getters and setters the handler has still to call
  after,                \* what it does behind them
  arg,                  \* its ipConfig_t or dnsConfig_t
  gsCwDhcp, gsCipStaCfg, gsCipDnsCfg, gsCipApCfg, maximumCertificates,
  uart,                 \* speed and format of Serial (external)
  mode,                 \* WiFi.getMode() (external)
  dhcpc,                \* does the SDK's DHCP client run? (external)
  staIp, dns, apIp,     \* addresses in force (external)
  begun,                \* history: WiFi.begin has run since setDhcpMode did
  cur                   \* history: settings whose last command was a _CUR

globals == <<gsCwDhcp, gsCipStaCfg, gsCipDnsCfg, gsCipApCfg, maximumCertificates>>
network == <<mode, dhcpc, staIp, dns, apIp, begun>>
eeprom  == <<flash, image>>
vars    == <<host, eeprom, todo, after, arg, globals, uart, network, cur>>

-----------------------------------------------------------------------------
(***************************************************************************)
(* The EEPROM record                                                       *)
(***************************************************************************)

\* EEPROMData(): a record that is not valid is replaced by the defaults.
Read == IF flash = NoData THEN Defaults ELSE flash

\* Mutant of Updated: the record is written with the defaults in its other values.
UpdatedFromDefaults(data, u) ==
  [f \in Fields |-> IF f \in DOMAIN u THEN u[f] ELSE Defaults[f]]

Updated(data, u) == [f \in Fields |-> IF f \in DOMAIN u THEN u[f] ELSE data[f]]

\* A getter changes nothing, but writes the defaults when the record is not valid.
Get == [f \in {} |-> 0]
Set(f, v) == [g \in {f} |-> v]
Updates == {Get, Defaults} \cup UNION {{Set(f, v) : v \in Values(f)} : f \in Fields}

Erased == image # NoData

\* ~EEPROMData(): nothing to write.
Unchanged ==
  /\ todo # <<>> /\ ~Erased
  /\ Updated(Read, Head(todo)) = flash
  /\ todo' = Tail(todo)
  /\ UNCHANGED <<host, eeprom, after, arg, globals, uart, network, cur>>

Erase ==
  /\ todo # <<>> /\ ~Erased
  /\ Updated(Read, Head(todo)) # flash
  /\ image' = Updated(Read, Head(todo))
  /\ flash' = NoData
  /\ UNCHANGED <<host, todo, after, arg, globals, uart, network, cur>>

Write ==
  /\ Erased
  /\ flash' = image /\ image' = NoData
  /\ todo' = Tail(todo)
  /\ UNCHANGED <<host, after, arg, globals, uart, network, cur>>

-----------------------------------------------------------------------------
(***************************************************************************)
(* setDns, setDhcpMode, applyCipAp.  Each operator is given the globals as *)
(* the handler has set them.                                               *)
(***************************************************************************)

WithStation(m) == IF m = WIFI_OFF THEN WIFI_STA ELSE IF m = WIFI_AP THEN WIFI_AP_STA ELSE m
WithSoftAp(m)  == IF m = WIFI_OFF THEN WIFI_AP ELSE IF m = WIFI_STA THEN WIFI_AP_STA ELSE m

SetDns(servers) == IF servers = NoDns THEN DefaultDns ELSE servers

\* Mutant of Usable: the address is not looked at.
UsableRest(cfg) == cfg.rest # "zero"
Usable(cfg) == cfg.ip # 0 /\ cfg.rest # "zero"

\* The station's side of the network: what setDhcpMode makes of it.
Station == [mode : WIFI_OFF..WIFI_AP_STA, dhcpc : BOOLEAN, ip : Configs,
            dns : DnsServers \cup {DefaultDns, Lease}, begun : BOOLEAN]

DhcpOn(n) == [n EXCEPT !.mode = WithStation(n.mode), !.dhcpc = TRUE, !.ip = NoConfig]

\* Mutant of StaticOn: the DNS servers are not set again.
StaticWithoutDns(n, cfg, servers) ==
  IF cfg.rest = "alien"
  THEN [n EXCEPT !.mode = WithStation(n.mode)]
  ELSE [n EXCEPT !.mode = WithStation(n.mode), !.dhcpc = FALSE, !.ip = cfg]

\* WiFi.config refuses a gateway in another subnet and leaves the DHCP client as
\* it is; its result is not looked at.
StaticOn(n, cfg, servers) ==
  IF cfg.rest = "alien"
  THEN [n EXCEPT !.mode = WithStation(n.mode), !.dns = SetDns(servers)]
  ELSE [n EXCEPT !.mode = WithStation(n.mode), !.dhcpc = FALSE, !.ip = cfg,
                 !.dns = SetDns(servers)]

SetDhcpMode(before, dhcp, cfg, servers) ==
  LET n == [before EXCEPT !.begun = FALSE]
  IN  CASE dhcp = 3                 -> DhcpOn(n)
        [] dhcp # 3 /\ Usable(cfg)  -> StaticOn(n, cfg, servers)
        [] dhcp # 3 /\ ~Usable(cfg) -> [n EXCEPT !.dhcpc = FALSE]

Now == [mode |-> mode, dhcpc |-> dhcpc, ip |-> staIp, dns |-> dns, begun |-> begun]

StationBecomes(n) ==
  mode' = n.mode /\ dhcpc' = n.dhcpc /\ staIp' = n.ip /\ dns' = n.dns /\ begun' = n.begun

\* For which modes setup() and CWMODE apply the addresses; mutants: only when there
\* is just one interface.
StationAlone(m) == m = WIFI_STA
ForStation(m)   == m # WIFI_AP
SoftApAlone(m)  == m = WIFI_AP
ForSoftAp(m)    == m # WIFI_STA

\* applyCipAp in mode m.
Applies(cfg) == cfg.ip # 0 /\ cfg # apIp
ModeWithAp(m, cfg) == IF Applies(cfg) THEN WithSoftAp(m) ELSE m
ApplyCipAp(cfg) == apIp' = IF Applies(cfg) /\ cfg.rest # "alien" THEN cfg ELSE apIp

\* The station's side becomes n, and the SoftAP's follows for mode m.
NetworkBecomes(n, m, cfg) ==
  IF ForSoftAp(m)
  THEN StationBecomes([n EXCEPT !.mode = ModeWithAp(n.mode, cfg)]) /\ ApplyCipAp(cfg)
  ELSE StationBecomes(n) /\ UNCHANGED apIp

-----------------------------------------------------------------------------
(***************************************************************************)
(* Start                                                                   *)
(***************************************************************************)

\* The globals as the C runtime sets them, the SDK as it starts with the mode it
\* has stored.
Cleared(m) ==
  /\ gsCwDhcp' = 3 /\ gsCipStaCfg' = NoConfig /\ gsCipDnsCfg' = NoDns
  /\ gsCipApCfg' = NoConfig /\ maximumCertificates' = 0
  /\ mode' = m /\ dhcpc' = TRUE /\ staIp' = NoConfig /\ dns' = Lease /\ apIp' = NoConfig
  /\ begun' = FALSE
  /\ uart' = <<115200, "8N1">>
  /\ image' = NoData /\ cur' = {}
  /\ todo' = <<Get>> /\ after' = "setup" /\ arg' = NoConfig

Init ==
  /\ host \in Hosts
  /\ flash = NoData /\ image = NoData
  /\ todo = <<Get>> /\ after = "setup" /\ arg = NoConfig
  /\ gsCwDhcp = 3 /\ gsCipStaCfg = NoConfig /\ gsCipDnsCfg = NoDns
  /\ gsCipApCfg = NoConfig /\ maximumCertificates = 0
  /\ mode \in WIFI_OFF..WIFI_AP_STA
  /\ dhcpc = TRUE /\ staIp = NoConfig /\ dns = Lease /\ apIp = NoConfig /\ begun = FALSE
  /\ uart = <<115200, "8N1">>
  /\ cur = {}

\* Power is lost, or AT+RST.
Reset ==
  /\ \E m \in WIFI_OFF..WIFI_AP_STA : Cleared(m)
  /\ UNCHANGED <<host, flash>>

\* setup() behind its first getter, which has left a valid record: the others find
\* it and write nothing.  The UART settings are read by nobody.
Setup ==
  /\ todo = <<>> /\ after = "setup"
  /\ after' = "none"
  /\ gsCipStaCfg' = Read.netConfig /\ gsCipDnsCfg' = Read.dnsConfig
  /\ gsCwDhcp' = Read.dhcpMode /\ gsCipApCfg' = Read.apIpConfig
  /\ maximumCertificates' = Read.maximumCertificates
  /\ LET n == IF ForStation(mode)
              THEN SetDhcpMode([Now EXCEPT !.dns = SetDns(Read.dnsConfig)],
                               Read.dhcpMode, Read.netConfig, Read.dnsConfig)
              ELSE Now
     IN  NetworkBecomes(n, n.mode, Read.apIpConfig)
  /\ uart' = <<57600, "8N1">>
  /\ UNCHANGED <<host, eeprom, todo, arg, cur>>

-----------------------------------------------------------------------------
(***************************************************************************)
(* Commands.  A handler runs its getters and setters one by one (todo) and *)
(* then what is left of it (after).                                        *)
(***************************************************************************)

Accepts(command) == command \in host /\ todo = <<>> /\ after = "none"

\* The setters of a command that is not a _CUR.
Saves(c, updates, fields) ==
  /\ todo' = IF c THEN <<>> ELSE updates
  /\ cur' = IF c THEN cur \cup fields ELSE cur \ fields

\* OK is printed and Serial restarted before anything is saved.
Uart(baud, config, c) ==
  /\ Accepts("UART")
  /\ uart' = <<baud, config>>
  /\ Saves(c, <<Set("uartBaudRate", baud), Set("uartConfig", config)>>, {})
  /\ UNCHANGED <<host, eeprom, after, arg, globals, network>>

\* Mutant of DhcpMode: the SoftAP's bit is lost.
DhcpBit(en)  == 2 * en
DhcpMode(en) == 1 + 2 * en

\* The mode the host names is the current one: AT+CWDHCP has no number for
\* WIFI_OFF.
CwDhcp(en, c) ==
  /\ Accepts("CWDHCP") /\ mode # WIFI_OFF
  /\ gsCwDhcp' = DhcpMode(en)
  /\ StationBecomes(SetDhcpMode(Now, DhcpMode(en), gsCipStaCfg, gsCipDnsCfg))
  /\ Saves(c, <<Set("dhcpMode", DhcpMode(en))>>, {"dhcpMode"})
  /\ UNCHANGED <<host, eeprom, after, arg, gsCipStaCfg, gsCipDnsCfg, gsCipApCfg,
                 maximumCertificates, uart, apIp>>

\* Mutant of CipStaUpdates: DHCP is switched off first.
CipStaDhcpFirst(cfg) == <<Set("dhcpMode", 1), Set("netConfig", cfg)>>
CipStaUpdates(cfg)   == <<Set("netConfig", cfg), Set("dhcpMode", 1)>>

CipSta(cfg, c) ==
  /\ Accepts("CIPSTA") /\ mode # WIFI_AP
  /\ Saves(c, CipStaUpdates(cfg), {"netConfig", "dhcpMode"})
  /\ after' = "CIPSTA" /\ arg' = cfg
  /\ UNCHANGED <<host, eeprom, globals, uart, network>>

\* Mutant of CipStaEnds: the DHCP mode in use is left as it was.
CipStaDhcpStays ==
  /\ todo = <<>> /\ after = "CIPSTA"
  /\ gsCipStaCfg' = arg
  /\ StationBecomes(SetDhcpMode(Now, gsCwDhcp, arg, gsCipDnsCfg))
  /\ after' = "none" /\ arg' = NoConfig
  /\ UNCHANGED <<host, eeprom, todo, gsCwDhcp, gsCipDnsCfg, gsCipApCfg, maximumCertificates,
                 uart, apIp, cur>>

\* The answer is OK whatever WiFi.config says.
CipStaEnds ==
  /\ todo = <<>> /\ after = "CIPSTA"
  /\ gsCipStaCfg' = arg /\ gsCwDhcp' = 1
  /\ StationBecomes(SetDhcpMode(Now, 1, arg, gsCipDnsCfg))
  /\ after' = "none" /\ arg' = NoConfig
  /\ UNCHANGED <<host, eeprom, todo, gsCipDnsCfg, gsCipApCfg, maximumCertificates,
                 uart, apIp, cur>>

CipAp(cfg, c) ==
  /\ Accepts("CIPAP") /\ mode # WIFI_STA
  /\ gsCipApCfg' = cfg
  /\ Saves(c, <<Set("apIpConfig", cfg)>>, {"apIpConfig"})
  /\ after' = "CIPAP"
  /\ UNCHANGED <<host, eeprom, arg, gsCwDhcp, gsCipStaCfg, gsCipDnsCfg,
                 maximumCertificates, uart, network>>

CipApEnds ==
  /\ todo = <<>> /\ after = "CIPAP"
  /\ mode' = ModeWithAp(mode, gsCipApCfg)
  /\ ApplyCipAp(gsCipApCfg)
  /\ after' = "none"
  /\ UNCHANGED <<host, eeprom, todo, arg, globals, uart, dhcpc, staIp, dns, begun, cur>>

CipDns(servers, c) ==
  /\ Accepts("CIPDNS")
  /\ Saves(c, <<Set("dnsConfig", servers)>>, {"dnsConfig"})
  /\ after' = "CIPDNS" /\ arg' = servers
  /\ UNCHANGED <<host, eeprom, globals, uart, network>>

CipDnsEnds ==
  /\ todo = <<>> /\ after = "CIPDNS"
  /\ gsCipDnsCfg' = arg
  /\ dns' = SetDns(arg)
  /\ after' = "none" /\ arg' = NoConfig
  /\ UNCHANGED <<host, eeprom, todo, gsCwDhcp, gsCipStaCfg, gsCipApCfg, maximumCertificates,
                 uart, mode, dhcpc, staIp, apIp, begun, cur>>

CipSslCertMax(max) ==
  /\ Accepts("CIPSSLCERTMAX")
  /\ maximumCertificates' = max
  /\ Saves(FALSE, <<Set("maximumCertificates", max)>>, {"maximumCertificates"})
  /\ UNCHANGED <<host, eeprom, after, arg, gsCwDhcp, gsCipStaCfg, gsCipDnsCfg, gsCipApCfg,
                 uart, network>>

\* OK is printed first; the reset follows the commit.
Restore ==
  /\ Accepts("RESTORE")
  /\ todo' = <<Defaults>> /\ after' = "reset"
  /\ UNCHANGED <<host, eeprom, arg, globals, uart, network, cur>>

\* The queries of _DEF read the record.
Query ==
  /\ todo = <<>> /\ after = "none"
  /\ todo' = <<Get>>
  /\ UNCHANGED <<host, eeprom, after, arg, globals, uart, network, cur>>

\* WiFi.mode may fail (ERROR); the addresses are applied for the mode asked for all
\* the same.
CwMode(m) ==
  /\ Accepts("CWMODE")
  /\ \E new \in {m, mode} :
       LET n == IF ForStation(m)
                THEN SetDhcpMode([Now EXCEPT !.mode = new, !.dns = SetDns(gsCipDnsCfg)],
                                 gsCwDhcp, gsCipStaCfg, gsCipDnsCfg)
                ELSE [Now EXCEPT !.mode = new]
       IN  NetworkBecomes(n, m, gsCipApCfg)
  /\ UNCHANGED <<host, eeprom, todo, after, arg, globals, uart, cur>>

\* Mutant of CwJap: WiFi.begin starts the DHCP client in any case.
JoinStartsDhcp ==
  /\ Accepts("CWJAP") /\ mode # WIFI_AP
  /\ mode' = WithStation(mode) /\ dhcpc' = TRUE /\ begun' = TRUE
  /\ after' = "CWJAP"
  /\ UNCHANGED <<host, eeprom, todo, arg, globals, uart, staIp, dns, apIp, cur>>

\* WiFi.begin switches the station on and, unless it refuses its arguments, starts the
\* DHCP client when no static address is in force.  The module is busy until the join
\* ends.
CwJap ==
  /\ Accepts("CWJAP") /\ mode # WIFI_AP
  /\ \/ mode' = WithStation(mode) /\ dhcpc' = (dhcpc \/ staIp = NoConfig) /\ begun' = TRUE
     \/ mode' \in {mode, WithStation(mode)} /\ UNCHANGED <<dhcpc, begun>>
  /\ after' = "CWJAP"
  /\ UNCHANGED <<host, eeprom, todo, arg, globals, uart, staIp, dns, apIp, cur>>

\* When the station has its address, the DNS servers of CIPDNS are set again.
JoinEnds ==
  /\ todo = <<>> /\ after = "CWJAP"
  /\ dns' \in {dns, IF gsCipDnsCfg = NoDns THEN dns ELSE SetDns(gsCipDnsCfg)}
  /\ after' = "none"
  /\ UNCHANGED <<host, eeprom, todo, arg, globals, uart, mode, dhcpc, staIp, apIp, begun, cur>>

-----------------------------------------------------------------------------
\* A DHCP server answers: its DNS servers replace what setDns has set.
LeaseGot ==
  /\ dhcpc /\ mode \in {WIFI_STA, WIFI_AP_STA}
  /\ dns' = Lease
  /\ UNCHANGED <<host, eeprom, todo, after, arg, globals, uart, mode, dhcpc, staIp, apIp, begun,
                 cur>>

\* CWLAP or CWSAP switches on an interface when both are off.
InterfaceOn ==
  /\ todo = <<>> /\ after = "none"
  /\ mode = WIFI_OFF /\ mode' \in {WIFI_STA, WIFI_AP}
  /\ UNCHANGED <<host, eeprom, todo, after, arg, globals, uart, dhcpc, staIp, dns, apIp, begun,
                 cur>>

Eeprom == Unchanged \/ Erase \/ Write

Command ==
  \/ \E baud \in BaudRates, config \in UartConfigs, c \in BOOLEAN : Uart(baud, config, c)
  \/ \E en \in {0, 1}, c \in BOOLEAN : CwDhcp(en, c)
  \/ \E cfg \in Configs, c \in BOOLEAN : CipSta(cfg, c) \/ CipAp(cfg, c)
  \/ \E servers \in DnsServers \cup {NoDns}, c \in BOOLEAN : CipDns(servers, c)
  \/ \E max \in MaxCerts : CipSslCertMax(max)
  \/ \E m \in WIFI_OFF..WIFI_AP_STA : CwMode(m)
  \/ Restore \/ Query \/ CwJap

Next ==
  \/ Reset \/ Setup \/ Eeprom \/ Command
  \/ CipStaEnds \/ CipApEnds \/ CipDnsEnds \/ JoinEnds
  \/ LeaseGot \/ InterfaceOn

Spec == Init /\ [][Next]_vars

-----------------------------------------------------------------------------
(***************************************************************************)
(* Properties                                                              *)
(***************************************************************************)

\* The types.
TypeOK ==
  /\ host \in Hosts
  /\ flash = NoData \/ IsData(flash)
  /\ image = NoData \/ IsData(image)
  /\ todo \in Seq(Updates)
  /\ after \in {"setup", "none", "CIPSTA", "CIPAP", "CIPDNS", "reset", "CWJAP"}
  /\ after = "CIPSTA" => arg \in Configs
  /\ after = "CIPDNS" => arg \in DnsServers \cup {NoDns}
  /\ gsCwDhcp \in {1, 3} /\ gsCipStaCfg \in Configs /\ gsCipApCfg \in Configs
  /\ gsCipDnsCfg \in DnsServers \cup {NoDns}
  /\ maximumCertificates \in MaxCerts \cup {0, 5}
  /\ Now \in Station /\ apIp \in Configs
  /\ cur \subseteq Fields

Idle == todo = <<>> /\ after = "none"

\* Once a handler is done, what the module works with is what is stored, except
\* where the last command was a _CUR: no path through the commands, the boot and
\* the resets between their steps leaves the two apart.
InUse == [dhcpMode |-> gsCwDhcp, netConfig |-> gsCipStaCfg, dnsConfig |-> gsCipDnsCfg,
          apIpConfig |-> gsCipApCfg, maximumCertificates |-> maximumCertificates]

InUseIsStored ==
  Idle => \A f \in (DOMAIN InUse) \ cur : InUse[f] = Read[f]

\* CIPSTA stores the address before it stores that DHCP is off: a module that
\* starts without DHCP because of it has the address.
AddressBeforeDhcpOff ==
  [][after = "CIPSTA" /\ image' # image /\ Erased' /\ Read.dhcpMode = 3 /\ image'.dhcpMode = 1
       => image'.netConfig = arg]_vars

HasStation == mode \in {WIFI_STA, WIFI_AP_STA}

\* With DHCP off and an address the SDK takes, that address and the DNS servers of
\* CIPDNS are in force, whichever command, boot or mode change came last; no
\* lease overrides the servers.
StaticInForce ==
  /\ Idle /\ HasStation /\ gsCwDhcp = 1
  /\ Usable(gsCipStaCfg) /\ gsCipStaCfg.rest # "alien"
  => ~dhcpc /\ staIp = gsCipStaCfg /\ dns = SetDns(gsCipDnsCfg)

\* The DHCP client runs when CWDHCP says so.  When CWDHCP says it does not, it does not,
\* unless the SDK has refused the address, or a CWJAP has come since the client was
\* stopped and no static address was ever taken.
DhcpAsReported ==
  Idle /\ HasStation =>
    /\ gsCwDhcp = 3 => dhcpc
    /\ gsCwDhcp = 1 /\ dhcpc => gsCipStaCfg.rest = "alien" \/ (begun /\ staIp = NoConfig)

\* "Enables/Disables DHCP" (AT+CWDHCP): while DHCP is off the client does not run,
\* unless the SDK has refused the address.  The code breaks it: WiFi.begin of a later
\* CWJAP starts it.
DhcpOffMeansOff ==
  Idle /\ HasStation /\ gsCwDhcp = 1 /\ gsCipStaCfg.rest # "alien" => ~dhcpc

\* The SoftAP has the address of CIPAP, unless the SDK has refused it.
ApInForce ==
  Idle /\ mode \in {WIFI_AP, WIFI_AP_STA} /\ gsCipApCfg.ip # 0 /\ gsCipApCfg.rest # "alien"
  => apIp = gsCipApCfg

\* Gateway and mask of an address 0 that was given alone are never assigned, but
\* stored and read back: they never reach the SDK.
UnassignedNeverUsed == "undef" \notin {staIp.rest, apIp.rest}

\* The record implements the store of SettingsStore: of a commit that loses power
\* all settings are lost, but never some of them, and never when no commit is
\* under way, the first start and a second loss during the repair included.
Store == INSTANCE SettingsStore
           WITH stored  <- IF Erased THEN image ELSE Read,
                settled <- Erased => image = Defaults

ImplementsSettingsStore == Store!Spec
=============================================================================
