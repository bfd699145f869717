-------------------------- MODULE ATSettingsProofs --------------------------
(***************************************************************************)
(* Proofs about ATSettings: its types, that the record in EEPROM is a      *)
(* SettingsStore, and that the addresses in force are those of the         *)
(* globals, for any addresses, arguments and hosts.                        *)
(***************************************************************************)
EXTENDS ATSettings, TLAPS

-----------------------------------------------------------------------------
(***************************************************************************)
(* Records and updates                                                     *)
(***************************************************************************)

LEMMA NoConfigTyped == NoConfig \in Configs
  BY DEF Configs

LEMMA DefaultsTyped == IsData(Defaults)
  <1>1. Defaults = [f \in Fields |-> Defaults[f]]
    BY DEF Defaults, Fields
  <1>2. ASSUME NEW f \in Fields PROVE Defaults[f] \in Values(f)
    BY <1>2, NoConfigTyped DEF Defaults, Fields, Values
  <1> QED  BY <1>1, <1>2 DEF IsData

LEMMA DataIsNotNoData ==
  ASSUME NEW d, IsData(d)
  PROVE  d # NoData
  <1>1. DOMAIN d = Fields
    BY DEF IsData
  <1>2. DOMAIN NoData = {}
    BY DEF NoData
  <1> QED  BY <1>1, <1>2 DEF Fields

LEMMA ReadTyped ==
  ASSUME TypeOK
  PROVE  IsData(Read)
  BY DefaultsTyped DEF TypeOK, Read

LEMMA SetTyped ==
  ASSUME NEW f \in Fields, NEW v \in Values(f)
  PROVE  Set(f, v) \in Updates
  BY DEF Updates

LEMMA GetTyped == Get \in Updates
  BY DEF Updates

LEMMA RestoreTyped == Defaults \in Updates
  BY DEF Updates

\* What a getter or setter writes is a record, the old one but for the value set.
LEMMA UpdatedTyped ==
  ASSUME NEW d, IsData(d), NEW u \in Updates
  PROVE  /\ IsData(Updated(d, u))
         /\ \/ Updated(d, u) = d
            \/ Updated(d, u) = Defaults
            \/ \E f \in Fields : \A g \in Fields \ {f} : Updated(d, u)[g] = d[g]
  <1>1. CASE u = Get
    <2>1. DOMAIN u = {}
      BY <1>1 DEF Get
    <2>2. Updated(d, u) = [f \in Fields |-> d[f]]
      BY <2>1 DEF Updated
    <2> QED  BY <2>2 DEF IsData
  <1>2. CASE u = Defaults
    <2>1. DOMAIN u = Fields /\ u = [f \in Fields |-> u[f]]
      BY <1>2, DefaultsTyped DEF IsData
    <2>2. Updated(d, u) = Defaults
      BY <2>1, <1>2 DEF Updated
    <2> QED  BY <2>2, DefaultsTyped
  <1>3. CASE \E f \in Fields : \E v \in Values(f) : u = Set(f, v)
    <2>0. PICK f \in Fields : \E v \in Values(f) : u = Set(f, v)
      BY <1>3
    <2>1. PICK v \in Values(f) : u = Set(f, v)
      BY <2>0
    <2>2. DOMAIN u = {f} /\ u[f] = v
      BY <2>1 DEF Set
    <2>3. \A g \in Fields : Updated(d, u)[g] = IF g = f THEN v ELSE d[g]
      BY <2>2 DEF Updated
    <2>4. IsData(Updated(d, u))
      <3>1. Updated(d, u) = [g \in Fields |-> Updated(d, u)[g]]
        BY DEF Updated
      <3>2. \A g \in Fields : Updated(d, u)[g] \in Values(g)
        BY <2>3 DEF IsData
      <3> QED  BY <3>1, <3>2 DEF IsData
    <2> QED  BY <2>3, <2>4
  <1> QED  BY <1>1, <1>2, <1>3 DEF Updates

-----------------------------------------------------------------------------
(***************************************************************************)
(* The network                                                             *)
(***************************************************************************)

Servers == DnsServers \cup {NoDns}

LEMMA SetDnsTyped ==
  ASSUME NEW servers \in Servers
  PROVE  SetDns(servers) \in DnsServers \cup {DefaultDns, Lease}
  BY DEF SetDns, Servers

LEMMA WithTyped ==
  ASSUME NEW m \in WIFI_OFF..WIFI_AP_STA
  PROVE  WithStation(m) \in WIFI_OFF..WIFI_AP_STA /\ WithSoftAp(m) \in WIFI_OFF..WIFI_AP_STA
  BY DEF WithStation, WithSoftAp, WIFI_OFF, WIFI_STA, WIFI_AP, WIFI_AP_STA

LEMMA SetDhcpModeTyped ==
  ASSUME NEW n \in Station, NEW dhcp \in {1, 3}, NEW cfg \in Configs, NEW servers \in Servers
  PROVE  SetDhcpMode(n, dhcp, cfg, servers) \in Station
  <1> DEFINE k == [n EXCEPT !.begun = FALSE]
  <1>0. k \in Station
    BY DEF Station
  <1> HIDE DEF k
  <1>1. WithStation(k.mode) \in WIFI_OFF..WIFI_AP_STA
    BY <1>0, WithTyped DEF Station
  <1>2. DhcpOn(k) \in Station
    BY <1>0, <1>1, NoConfigTyped DEF DhcpOn, Station
  <1>3. StaticOn(k, cfg, servers) \in Station
    BY <1>0, <1>1, SetDnsTyped DEF StaticOn, Station
  <1>4. [k EXCEPT !.dhcpc = FALSE] \in Station
    BY <1>0 DEF Station
  <1> QED  BY <1>2, <1>3, <1>4 DEF SetDhcpMode, k

LEMMA StationBecomesTyped ==
  ASSUME NEW n \in Station, StationBecomes(n)
  PROVE  Now' = n
  BY DEF StationBecomes, Now, Station

LEMMA NetworkBecomesTyped ==
  ASSUME NEW n \in Station, NEW m, NEW cfg \in Configs, apIp \in Configs,
         NetworkBecomes(n, m, cfg)
  PROVE  Now' \in Station /\ apIp' \in Configs
  <1>1. ModeWithAp(n.mode, cfg) \in WIFI_OFF..WIFI_AP_STA
    BY WithTyped DEF ModeWithAp, Station
  <1>2. [n EXCEPT !.mode = ModeWithAp(n.mode, cfg)] \in Station
    BY <1>1 DEF Station
  <1> QED  BY <1>2, StationBecomesTyped DEF NetworkBecomes, ApplyCipAp

-----------------------------------------------------------------------------
(***************************************************************************)
(* Type correctness, with what holds while a commit is under way           *)
(***************************************************************************)

CommitInv == Erased => flash = NoData /\ todo # <<>>

LEMMA InitTyped ==
  ASSUME SettingsAssumption, Init
  PROVE  TypeOK /\ CommitInv
  <1>1. <<Get>> \in Seq(Updates)
    BY GetTyped
  <1>2. dhcpc \in BOOLEAN /\ begun \in BOOLEAN
    <2>1. dhcpc = TRUE /\ begun = FALSE
      BY SMT DEF Init
    <2> QED  BY <2>1, Zenon
  <1>3. Now \in Station
    BY <1>2, NoConfigTyped DEF Init, Now, Station, WIFI_OFF, WIFI_AP_STA
  <1> QED  BY NoConfigTyped, <1>1, <1>3 DEF Init, TypeOK, CommitInv, Erased

LEMMA TodoTyped ==
  ASSUME TypeOK, todo # <<>>
  PROVE  Head(todo) \in Updates /\ Tail(todo) \in Seq(Updates)
  BY DEF TypeOK

\* What a command's setters are given is of their types, and nothing is under way
\* when it begins.
LEMMA AcceptsIdle ==
  ASSUME CommitInv, NEW command, Accepts(command)
  PROVE  ~Erased /\ todo = <<>> /\ after = "none"
  BY DEF Accepts, CommitInv

LEMMA SavesTyped ==
  ASSUME NEW c \in BOOLEAN, NEW updates \in Seq(Updates), NEW fields \in SUBSET Fields,
         cur \subseteq Fields, Saves(c, updates, fields)
  PROVE  todo' \in Seq(Updates) /\ cur' \subseteq Fields
  BY DEF Saves

LEMMA EepromTyped ==
  ASSUME TypeOK, CommitInv, Eeprom
  PROVE  TypeOK' /\ CommitInv'
  <1>1. todo # <<>>
    BY DEF Eeprom, Unchanged, Erase, Write, CommitInv
  <1>2. Head(todo) \in Updates /\ Tail(todo) \in Seq(Updates)
    BY <1>1, TodoTyped
  <1>3. IsData(Updated(Read, Head(todo)))
    BY <1>2, ReadTyped, UpdatedTyped
  <1>4. Now' = Now
    BY DEF Eeprom, Unchanged, Erase, Write, network, Now
  <1>5. CASE Unchanged
    BY <1>2, <1>4, <1>5 DEF Unchanged, TypeOK, CommitInv, Erased, eeprom, globals, network
  <1>6. CASE Erase
    BY <1>1, <1>2, <1>3, <1>4, <1>6 DEF Erase, TypeOK, CommitInv, Erased, globals, network
  <1>7. CASE Write
    BY <1>2, <1>4, <1>7 DEF Write, TypeOK, CommitInv, Erased, globals, network
  <1> QED  BY <1>5, <1>6, <1>7 DEF Eeprom

LEMMA ResetTyped ==
  ASSUME SettingsAssumption, TypeOK, CommitInv, Reset
  PROVE  TypeOK' /\ CommitInv'
  <1>1. <<Get>> \in Seq(Updates)
    BY GetTyped
  <1>2. PICK m \in WIFI_OFF..WIFI_AP_STA : Cleared(m)
    BY DEF Reset
  <1>3. dhcpc' \in BOOLEAN /\ begun' \in BOOLEAN
    <2>1. dhcpc' = TRUE /\ begun' = FALSE
      BY <1>2, SMT DEF Cleared
    <2> QED  BY <2>1, Zenon
  <1>4. Now' \in Station
    BY <1>2, <1>3, NoConfigTyped DEF Cleared, Now, Station
  <1> QED  BY <1>1, <1>2, <1>4, NoConfigTyped DEF Reset, Cleared, TypeOK, CommitInv, Erased

LEMMA SetupTyped ==
  ASSUME TypeOK, CommitInv, Setup
  PROVE  TypeOK' /\ CommitInv'
  <1> DEFINE n == IF ForStation(mode)
                  THEN SetDhcpMode([Now EXCEPT !.dns = SetDns(Read.dnsConfig)],
                                   Read.dhcpMode, Read.netConfig, Read.dnsConfig)
                  ELSE Now
  <1>1. /\ Read.dnsConfig \in Servers /\ Read.dhcpMode \in {1, 3}
        /\ Read.netConfig \in Configs /\ Read.apIpConfig \in Configs
        /\ Read.maximumCertificates \in MaxCerts \cup {5}
    BY ReadTyped DEF IsData, Fields, Values, Servers
  <1>2. [Now EXCEPT !.dns = SetDns(Read.dnsConfig)] \in Station
    BY <1>1, SetDnsTyped DEF TypeOK, Station
  <1>3. n \in Station
    BY <1>1, <1>2, SetDhcpModeTyped DEF TypeOK
  <1>4. NetworkBecomes(n, n.mode, Read.apIpConfig)
    BY DEF Setup
  <1>5. Now' \in Station /\ apIp' \in Configs
    BY <1>1, <1>3, <1>4, NetworkBecomesTyped DEF TypeOK
  <1> QED  BY <1>1, <1>5 DEF Setup, TypeOK, CommitInv, Erased, eeprom, Servers

LEMMA CwModeTyped ==
  ASSUME TypeOK, CommitInv, NEW m \in WIFI_OFF..WIFI_AP_STA, CwMode(m)
  PROVE  TypeOK' /\ CommitInv'
  <1>1. PICK new \in {m, mode} :
          LET n == IF ForStation(m)
                   THEN SetDhcpMode([Now EXCEPT !.mode = new, !.dns = SetDns(gsCipDnsCfg)],
                                    gsCwDhcp, gsCipStaCfg, gsCipDnsCfg)
                   ELSE [Now EXCEPT !.mode = new]
          IN  NetworkBecomes(n, m, gsCipApCfg)
    BY DEF CwMode
  <1> DEFINE n == IF ForStation(m)
                  THEN SetDhcpMode([Now EXCEPT !.mode = new, !.dns = SetDns(gsCipDnsCfg)],
                                   gsCwDhcp, gsCipStaCfg, gsCipDnsCfg)
                  ELSE [Now EXCEPT !.mode = new]
  <1>2. new \in WIFI_OFF..WIFI_AP_STA
    BY DEF TypeOK, Now, Station
  <1>3. /\ [Now EXCEPT !.mode = new, !.dns = SetDns(gsCipDnsCfg)] \in Station
        /\ [Now EXCEPT !.mode = new] \in Station
    BY <1>2, SetDnsTyped DEF TypeOK, Station, Servers
  <1>4. n \in Station
    BY <1>3, SetDhcpModeTyped DEF TypeOK, Servers
  <1>5. Now' \in Station /\ apIp' \in Configs
    BY <1>1, <1>4, NetworkBecomesTyped DEF TypeOK
  <1> QED  BY <1>5 DEF CwMode, TypeOK, CommitInv, Erased, eeprom, globals

LEMMA CwDhcpTyped ==
  ASSUME TypeOK, CommitInv, NEW en \in {0, 1}, NEW c \in BOOLEAN, CwDhcp(en, c)
  PROVE  TypeOK' /\ CommitInv'
  <1>1. DhcpMode(en) \in {1, 3}
    BY DEF DhcpMode
  <1>2. SetDhcpMode(Now, DhcpMode(en), gsCipStaCfg, gsCipDnsCfg) \in Station
    BY <1>1, SetDhcpModeTyped DEF TypeOK, Servers
  <1>3. Now' \in Station
    BY <1>2, StationBecomesTyped DEF CwDhcp
  <1>4. <<Set("dhcpMode", DhcpMode(en))>> \in Seq(Updates)
    BY <1>1, SetTyped DEF Fields, Values
  <1>5. todo' \in Seq(Updates) /\ cur' \subseteq Fields
    BY <1>4, SavesTyped DEF CwDhcp, TypeOK, Fields
  <1>6. ~Erased /\ after = "none"
    BY AcceptsIdle DEF CwDhcp
  <1> QED  BY <1>1, <1>3, <1>5, <1>6 DEF CwDhcp, TypeOK, CommitInv, Erased, eeprom

LEMMA CipStaTyped ==
  ASSUME TypeOK, CommitInv, NEW cfg \in Configs, NEW c \in BOOLEAN, CipSta(cfg, c)
  PROVE  TypeOK' /\ CommitInv'
  <1>1. CipStaUpdates(cfg) \in Seq(Updates)
    BY SetTyped DEF CipStaUpdates, Fields, Values
  <1>2. todo' \in Seq(Updates) /\ cur' \subseteq Fields
    BY <1>1, SavesTyped DEF CipSta, TypeOK, Fields
  <1>3. ~Erased /\ Now' = Now
    BY AcceptsIdle DEF CipSta, network, Now
  <1> QED  BY <1>2, <1>3 DEF CipSta, TypeOK, CommitInv, Erased, eeprom, globals, network

LEMMA CipStaEndsTyped ==
  ASSUME TypeOK, CommitInv, CipStaEnds
  PROVE  TypeOK' /\ CommitInv'
  <1>1. SetDhcpMode(Now, 1, arg, gsCipDnsCfg) \in Station
    BY SetDhcpModeTyped DEF TypeOK, Servers, CipStaEnds
  <1>2. Now' \in Station
    BY <1>1, StationBecomesTyped DEF CipStaEnds
  <1> QED  BY <1>2 DEF CipStaEnds, TypeOK, CommitInv, Erased, eeprom

LEMMA CipApTyped ==
  ASSUME TypeOK, CommitInv, NEW cfg \in Configs, NEW c \in BOOLEAN, CipAp(cfg, c)
  PROVE  TypeOK' /\ CommitInv'
  <1>1. <<Set("apIpConfig", cfg)>> \in Seq(Updates)
    BY SetTyped DEF Fields, Values
  <1>2. todo' \in Seq(Updates) /\ cur' \subseteq Fields
    BY <1>1, SavesTyped DEF CipAp, TypeOK, Fields
  <1>3. ~Erased /\ Now' = Now
    BY AcceptsIdle DEF CipAp, network, Now
  <1> QED  BY <1>2, <1>3 DEF CipAp, TypeOK, CommitInv, Erased, eeprom, network

LEMMA CipApEndsTyped ==
  ASSUME TypeOK, CommitInv, CipApEnds
  PROVE  TypeOK' /\ CommitInv'
  <1>1. ModeWithAp(mode, gsCipApCfg) \in WIFI_OFF..WIFI_AP_STA
    BY WithTyped DEF ModeWithAp, TypeOK, Now, Station
  <1>2. Now' \in Station /\ apIp' \in Configs
    BY <1>1 DEF CipApEnds, ApplyCipAp, TypeOK, Now, Station
  <1> QED  BY <1>2 DEF CipApEnds, TypeOK, CommitInv, Erased, eeprom, globals

LEMMA CipDnsTyped ==
  ASSUME TypeOK, CommitInv, NEW servers \in DnsServers \cup {NoDns}, NEW c \in BOOLEAN,
         CipDns(servers, c)
  PROVE  TypeOK' /\ CommitInv'
  <1>1. <<Set("dnsConfig", servers)>> \in Seq(Updates)
    BY SetTyped DEF Fields, Values
  <1>2. todo' \in Seq(Updates) /\ cur' \subseteq Fields
    BY <1>1, SavesTyped DEF CipDns, TypeOK, Fields
  <1>3. ~Erased /\ Now' = Now
    BY AcceptsIdle DEF CipDns, network, Now
  <1> QED  BY <1>2, <1>3 DEF CipDns, TypeOK, CommitInv, Erased, eeprom, globals, network

LEMMA CipDnsEndsTyped ==
  ASSUME TypeOK, CommitInv, CipDnsEnds
  PROVE  TypeOK' /\ CommitInv'
  <1>1. Now' \in Station
    BY SetDnsTyped DEF CipDnsEnds, TypeOK, Now, Station, Servers
  <1> QED  BY <1>1 DEF CipDnsEnds, TypeOK, CommitInv, Erased, eeprom

LEMMA UartTyped ==
  ASSUME TypeOK, CommitInv, NEW baud \in BaudRates, NEW config \in UartConfigs,
         NEW c \in BOOLEAN, Uart(baud, config, c)
  PROVE  TypeOK' /\ CommitInv'
  <1>1. <<Set("uartBaudRate", baud), Set("uartConfig", config)>> \in Seq(Updates)
    <2>1. Set("uartBaudRate", baud) \in Updates
      BY SetTyped DEF Fields, Values
    <2>2. Set("uartConfig", config) \in Updates
      BY SetTyped DEF Fields, Values
    <2> QED  BY <2>1, <2>2
  <1>2. todo' \in Seq(Updates) /\ cur' \subseteq Fields
    <2>1. Saves(c, <<Set("uartBaudRate", baud), Set("uartConfig", config)>>, {})
      BY DEF Uart
    <2>2. cur \subseteq Fields /\ {} \in SUBSET Fields
      BY DEF TypeOK
    <2> QED  BY <1>1, <2>1, <2>2, SavesTyped
  <1>3. ~Erased /\ Now' = Now /\ after = "none"
    BY AcceptsIdle DEF Uart, network, Now
  <1> QED  BY <1>2, <1>3 DEF Uart, TypeOK, CommitInv, Erased, eeprom, globals, network

LEMMA CipSslCertMaxTyped ==
  ASSUME TypeOK, CommitInv, NEW max \in MaxCerts, CipSslCertMax(max)
  PROVE  TypeOK' /\ CommitInv'
  <1>1. <<Set("maximumCertificates", max)>> \in Seq(Updates)
    BY SetTyped DEF Fields, Values
  <1>2. todo' \in Seq(Updates) /\ cur' \subseteq Fields
    BY <1>1, SavesTyped DEF CipSslCertMax, TypeOK, Fields
  <1>3. ~Erased /\ Now' = Now /\ after = "none"
    BY AcceptsIdle DEF CipSslCertMax, network, Now
  <1> QED  BY <1>2, <1>3 DEF CipSslCertMax, TypeOK, CommitInv, Erased, eeprom, network

LEMMA CwJapTyped ==
  ASSUME TypeOK, CommitInv, CwJap
  PROVE  TypeOK' /\ CommitInv'
  <1>1. mode' \in WIFI_OFF..WIFI_AP_STA
    BY WithTyped DEF CwJap, TypeOK, Now, Station
  <1>2. dhcpc' \in BOOLEAN /\ begun' \in BOOLEAN
    BY Zenon DEF CwJap, TypeOK, Now, Station
  <1>3. Now' \in Station
    BY <1>1, <1>2 DEF CwJap, TypeOK, Now, Station
  <1>4. ~Erased
    BY AcceptsIdle DEF CwJap
  <1> QED  BY <1>3, <1>4 DEF CwJap, TypeOK, CommitInv, Erased, eeprom, globals

LEMMA JoinEndsTyped ==
  ASSUME TypeOK, CommitInv, JoinEnds
  PROVE  TypeOK' /\ CommitInv'
  <1>1. Now' \in Station
    BY SetDnsTyped DEF JoinEnds, TypeOK, Now, Station, Servers
  <1> QED  BY <1>1 DEF JoinEnds, TypeOK, CommitInv, Erased, eeprom, globals

LEMMA OtherTyped ==
  ASSUME TypeOK, CommitInv, Restore \/ Query \/ LeaseGot \/ InterfaceOn
  PROVE  TypeOK' /\ CommitInv'
  <1>1. <<Defaults>> \in Seq(Updates) /\ <<Get>> \in Seq(Updates)
    BY RestoreTyped, GetTyped
  <1>2. CASE Restore
    BY <1>1, <1>2, AcceptsIdle DEF Restore, TypeOK, CommitInv, Erased, eeprom, globals, network, Now
  <1>3. CASE Query
    BY <1>1, <1>3 DEF Query, TypeOK, CommitInv, Erased, eeprom, globals, network, Now
  <1>4. CASE LeaseGot
    BY <1>4 DEF LeaseGot, TypeOK, CommitInv, Erased, eeprom, globals, Now, Station
  <1>5. CASE InterfaceOn
    BY <1>5 DEF InterfaceOn, TypeOK, CommitInv, Erased, eeprom, globals, Now, Station,
               WIFI_OFF, WIFI_STA, WIFI_AP, WIFI_AP_STA
  <1> QED  BY <1>2, <1>3, <1>4, <1>5

LEMMA NextTyped ==
  ASSUME SettingsAssumption, TypeOK, CommitInv, [Next]_vars
  PROVE  TypeOK' /\ CommitInv'
  <1>1. CASE Command
    BY <1>1, UartTyped, CwDhcpTyped, CipStaTyped, CipApTyped, CipDnsTyped, CipSslCertMaxTyped,
       CwModeTyped, CwJapTyped, OtherTyped DEF Command
  <1>2. CASE UNCHANGED vars
    BY <1>2 DEF vars, TypeOK, CommitInv, Erased, eeprom, globals, network, Now
  <1> QED
    BY <1>1, <1>2, ResetTyped, SetupTyped, EepromTyped, CipStaEndsTyped, CipApEndsTyped,
       CipDnsEndsTyped, JoinEndsTyped, OtherTyped DEF Next

\* Type correctness of ATSettings: the record is one at every moment, and a commit
\* has a setter or getter it belongs to.
THEOREM SettingsTypeCorrect ==
  ASSUME SettingsAssumption
  PROVE  Spec => [](TypeOK /\ CommitInv)
  <1>1. Init => TypeOK /\ CommitInv
    BY InitTyped
  <1>2. TypeOK /\ CommitInv /\ [Next]_vars => TypeOK' /\ CommitInv'
    BY NextTyped
  <1> QED  BY <1>1, <1>2, PTL DEF Spec

-----------------------------------------------------------------------------
(***************************************************************************)
(* Refinement: the record is a SettingsStore                               *)
(***************************************************************************)

Stored  == IF Erased THEN image ELSE Read
Settled == Erased => image = Defaults

LEMMA StoreInit ==
  ASSUME Init
  PROVE  Store!Init
  BY DEF Init, Store!Init, Erased, Read

\* Erasing the sector is the change: from then on the new record is on its way.
LEMMA EraseChanges ==
  ASSUME TypeOK, CommitInv, Erase
  PROVE  Store!Next \/ (Stored' = Stored /\ Settled' = Settled)
  <1> DEFINE new == Updated(Read, Head(todo))
  <1>1. ~Erased /\ todo # <<>> /\ new # flash /\ image' = new /\ flash' = NoData
    BY DEF Erase
  <1>2. Head(todo) \in Updates
    BY <1>1, TodoTyped
  <1>3. /\ IsData(new)
        /\ \/ new = Read
           \/ new = Defaults
           \/ \E f \in Fields : \A g \in Fields \ {f} : new[g] = Read[g]
    BY <1>2, ReadTyped, UpdatedTyped
  <1>4. Erased' /\ Stored = Read /\ Settled /\ Stored' = new /\ (Settled' <=> new = Defaults)
    BY <1>1, <1>3, DataIsNotNoData DEF Erased, Stored, Settled
  <1>5. CASE new = Read
    <2>1. flash = NoData
      BY <1>1, <1>5 DEF Read
    <2>2. new = Defaults
      BY <2>1, <1>5 DEF Read
    <2> QED  BY <2>2, <1>4, <1>5
  <1>6. CASE new # Read
    <2>1. Settled /\ (Settled' <=> (Stored' = Defaults))
      BY <1>4
    <2>2. CASE new = Defaults
      BY <2>1, <2>2, <1>4 DEF Store!Next, Store!Change, Stored, Settled
    <2>3. CASE \E f \in Fields : \A g \in Fields \ {f} : new[g] = Read[g]
      <3>1. PICK f \in Fields : \A g \in Fields \ {f} : new[g] = Read[g]
        BY <2>3
      <3>2. DOMAIN new = Fields
        BY <1>3 DEF IsData
      <3>3. Store!OneChanged
        BY <3>1, <3>2, <1>4, <1>6 DEF Store!OneChanged, Stored
      <3> QED  BY <3>3, <2>1 DEF Store!Next, Store!Change, Stored, Settled
    <2> QED  BY <1>3, <1>6, <2>2, <2>3
  <1> QED  BY <1>5, <1>6

LEMMA WriteSettles ==
  ASSUME TypeOK, CommitInv, Write
  PROVE  Store!Next \/ (Stored' = Stored /\ Settled' = Settled)
  <1>1. ~Erased' /\ Stored = image /\ Stored' = image /\ Settled'
    BY DEF Write, Erased, Stored, Settled, Read
  <1>2. Store!Settle \/ Settled
    BY <1>1 DEF Store!Settle, Stored, Settled
  <1> QED  BY <1>1, <1>2 DEF Store!Next

\* A loss of power: of an erased sector the defaults are left.
LEMMA ResetLoses ==
  ASSUME TypeOK, CommitInv, Reset
  PROVE  Store!Next \/ (Stored' = Stored /\ Settled' = Settled)
  <1>1. image' = NoData /\ flash' = flash
    BY DEF Reset, Cleared
  <1>2. ~Erased' /\ Settled' /\ Stored' = Read
    BY <1>1 DEF Erased, Settled, Stored, Read
  <1>3. CASE ~Erased
    BY <1>2, <1>3 DEF Stored, Settled
  <1>4. CASE Erased
    <2>1. Stored' = Defaults /\ Stored = image
      BY <1>2, <1>4 DEF CommitInv, Read, Stored
    <2>2. Store!Lose \/ Settled
      BY <2>1, <1>2, <1>4 DEF Store!Lose, Stored, Settled
    <2> QED  BY <2>1, <2>2, <1>2, <1>4 DEF Store!Next, Settled
  <1> QED  BY <1>3, <1>4

LEMMA StoreStep ==
  ASSUME TypeOK, CommitInv, [Next]_vars
  PROVE  Store!Next \/ (Stored' = Stored /\ Settled' = Settled)
  <1>1. CASE UNCHANGED eeprom
    BY <1>1 DEF eeprom, Stored, Settled, Erased, Read
  <1>2. ASSUME Command PROVE UNCHANGED eeprom
    <2>1. ASSUME NEW cfg, NEW c, CipSta(cfg, c) \/ CipAp(cfg, c) PROVE UNCHANGED eeprom
      BY <2>1 DEF CipSta, CipAp
    <2>2. ASSUME NEW m, CwMode(m) PROVE UNCHANGED eeprom
      BY <2>2 DEF CwMode
    <2>3. ASSUME NEW en, NEW c, CwDhcp(en, c) PROVE UNCHANGED eeprom
      BY <2>3 DEF CwDhcp
    <2>4. ASSUME NEW baud, NEW config, NEW c, Uart(baud, config, c) PROVE UNCHANGED eeprom
      BY <2>4 DEF Uart
    <2>5. ASSUME NEW servers, NEW c, CipDns(servers, c) PROVE UNCHANGED eeprom
      BY <2>5 DEF CipDns
    <2>6. ASSUME NEW max, CipSslCertMax(max) PROVE UNCHANGED eeprom
      BY <2>6 DEF CipSslCertMax
    <2>7. Restore \/ Query \/ CwJap => UNCHANGED eeprom
      BY DEF Restore, Query, CwJap
    <2> QED  BY <1>2, <2>1, <2>2, <2>3, <2>4, <2>5, <2>6, <2>7 DEF Command
  <1>3. ASSUME Setup \/ CipStaEnds \/ CipApEnds \/ CipDnsEnds \/ JoinEnds \/ LeaseGot
               \/ InterfaceOn \/ Unchanged
        PROVE  UNCHANGED eeprom
    BY <1>3 DEF Setup, CipStaEnds, CipApEnds, CipDnsEnds, JoinEnds, LeaseGot, InterfaceOn,
                Unchanged
  <1>4. UNCHANGED vars => UNCHANGED eeprom
    BY DEF vars
  <1>5. Reset \/ Erase \/ Write \/ UNCHANGED eeprom
    BY <1>2, <1>3, <1>4 DEF Next, Eeprom
  <1> QED  BY <1>1, <1>5, EraseChanges, WriteSettles, ResetLoses

\* Whatever is saved and whenever power is lost, the settings change one at a time,
\* and are lost altogether or not at all, and only while one of them is written.
THEOREM ImplementsSettingsStoreCorrect ==
  ASSUME SettingsAssumption
  PROVE  Spec => ImplementsSettingsStore
  <1>1. Init => Store!Init
    BY StoreInit
  <1>2. TypeOK /\ CommitInv /\ [Next]_vars
          => [Store!Next]_<<IF Erased THEN image ELSE Read, Erased => image = Defaults>>
    BY StoreStep DEF Stored, Settled
  <1> QED  BY <1>1, <1>2, SettingsTypeCorrect, PTL DEF Spec, ImplementsSettingsStore, Store!Spec

-----------------------------------------------------------------------------
(***************************************************************************)
(* The addresses in force.  The properties are stated for an idle module;  *)
(* what is inductive holds in the middle of a handler as well, except of   *)
(* the SoftAP between the first and the last part of CIPAP, and for every  *)
(* mode but that of the other interface alone.                             *)
(***************************************************************************)

AsSetDhcpMode(n, dhcp, cfg, servers) ==
  /\ dhcp = 3 => n.dhcpc = TRUE
  /\ dhcp = 1 /\ n.dhcpc => cfg.rest = "alien" \/ (n.begun /\ n.ip = NoConfig)
  /\ dhcp = 1 /\ Usable(cfg) /\ cfg.rest # "alien"
       => n.dhcpc = FALSE /\ n.ip = cfg /\ n.dns = SetDns(servers)

StationInv ==
  after # "setup" /\ mode # WIFI_AP => AsSetDhcpMode(Now, gsCwDhcp, gsCipStaCfg, gsCipDnsCfg)

ApApplied(ip, cfg) == cfg.ip # 0 /\ cfg.rest # "alien" => ip = cfg

ApInv == after \notin {"setup", "CIPAP"} /\ mode # WIFI_STA => ApApplied(apIp, gsCipApCfg)

NetworkInv == StationInv /\ ApInv /\ UnassignedNeverUsed

LEMMA UnassignedIsZero ==
  ASSUME NEW cfg \in Configs, cfg.ip # 0
  PROVE  cfg.rest # "undef"
  <1>1. CASE cfg = NoConfig
    BY <1>1 DEF NoConfig
  <1>2. CASE \E ip \in Ips : cfg = IpOnly(ip)
    BY <1>2 DEF IpOnly
  <1>3. CASE cfg \in [ip : Ips \ {0}, rest : {"set", "zero", "alien"}]
    BY <1>3
  <1> QED  BY <1>1, <1>2, <1>3 DEF Configs

LEMMA SetDhcpModeApplies ==
  ASSUME NEW n \in Station, NEW dhcp \in {1, 3}, NEW cfg \in Configs, NEW servers \in Servers
  PROVE  /\ AsSetDhcpMode(SetDhcpMode(n, dhcp, cfg, servers), dhcp, cfg, servers)
         /\ n.ip.rest # "undef" => SetDhcpMode(n, dhcp, cfg, servers).ip.rest # "undef"
         /\ n.mode \in {WIFI_STA, WIFI_AP_STA}
              => SetDhcpMode(n, dhcp, cfg, servers).mode = n.mode
  <1> DEFINE k == [n EXCEPT !.begun = FALSE]
  <1>k. k \in Station /\ k.mode = n.mode /\ k.dhcpc = n.dhcpc /\ k.ip = n.ip /\ k.begun = FALSE
    BY DEF Station
  <1>0. n.mode \in {WIFI_STA, WIFI_AP_STA} => WithStation(k.mode) = n.mode
    BY <1>k DEF WithStation, WIFI_OFF, WIFI_STA, WIFI_AP, WIFI_AP_STA
  <1>1. CASE dhcp = 3
    <2>1. SetDhcpMode(n, dhcp, cfg, servers) = DhcpOn(k)
      BY <1>1 DEF SetDhcpMode
    <2> HIDE DEF k
    <2>2. /\ DhcpOn(k).mode = WithStation(k.mode) /\ DhcpOn(k).dhcpc = TRUE
          /\ DhcpOn(k).ip = NoConfig
      BY <1>k DEF DhcpOn, Station
    <2> QED  BY <1>0, <1>1, <2>1, <2>2 DEF AsSetDhcpMode, NoConfig
  <1>2. CASE dhcp = 1 /\ Usable(cfg)
    <2>1. SetDhcpMode(n, dhcp, cfg, servers) = StaticOn(k, cfg, servers)
      BY <1>2 DEF SetDhcpMode
    <2> HIDE DEF k
    <2>2. cfg.rest # "undef"
      BY <1>2, UnassignedIsZero DEF Usable
    <2>3. CASE cfg.rest = "alien"
      <3>1. StaticOn(k, cfg, servers) = [mode |-> WithStation(k.mode), dhcpc |-> k.dhcpc,
                                         ip |-> k.ip, dns |-> SetDns(servers), begun |-> k.begun]
        BY <1>k, <2>3 DEF StaticOn, Station
      <3> QED  BY <1>0, <1>k, <1>2, <2>1, <2>3, <3>1 DEF AsSetDhcpMode
    <2>4. CASE cfg.rest # "alien"
      <3>1. StaticOn(k, cfg, servers) = [mode |-> WithStation(k.mode), dhcpc |-> FALSE,
                                         ip |-> cfg, dns |-> SetDns(servers), begun |-> k.begun]
        BY <1>k, <2>4 DEF StaticOn, Station
      <3> QED  BY <1>0, <1>2, <2>1, <2>2, <3>1 DEF AsSetDhcpMode
    <2> QED  BY <2>3, <2>4
  <1>3. CASE dhcp = 1 /\ ~Usable(cfg)
    <2>1. SetDhcpMode(n, dhcp, cfg, servers) = [k EXCEPT !.dhcpc = FALSE]
      BY <1>3 DEF SetDhcpMode
    <2> HIDE DEF k
    <2>2. /\ [k EXCEPT !.dhcpc = FALSE].dhcpc = FALSE /\ [k EXCEPT !.dhcpc = FALSE].ip = k.ip
          /\ [k EXCEPT !.dhcpc = FALSE].mode = k.mode
      BY <1>k DEF Station
    <2> DEFINE j == [k EXCEPT !.dhcpc = FALSE]
    <2>3. ~j.dhcpc /\ SetDhcpMode(n, dhcp, cfg, servers) = j
      BY <2>1, <2>2
    <2>4. AsSetDhcpMode(j, dhcp, cfg, servers)
      <3> HIDE DEF j
      <3> QED  BY <1>3, <2>3 DEF AsSetDhcpMode
    <2> QED  BY <1>k, <2>2, <2>3, <2>4
  <1> QED  BY <1>1, <1>2, <1>3

\* Only switching on the SoftAP changes the mode there.
LEMMA NetworkBecomesApplies ==
  ASSUME NEW n \in Station, NEW m, NEW cfg \in Configs, NetworkBecomes(n, m, cfg)
  PROVE  /\ dhcpc' = n.dhcpc /\ staIp' = n.ip /\ dns' = n.dns /\ begun' = n.begun
         /\ mode' # WIFI_AP => n.mode # WIFI_AP
         /\ m # WIFI_STA => ApApplied(apIp', cfg)
         /\ m = WIFI_STA => apIp' = apIp /\ mode' = n.mode
         /\ apIp.rest # "undef" => apIp'.rest # "undef"
  <1>1. [n EXCEPT !.mode = ModeWithAp(n.mode, cfg)].mode = ModeWithAp(n.mode, cfg)
    BY DEF Station
  <1>2. ModeWithAp(n.mode, cfg) # WIFI_AP => n.mode # WIFI_AP
    BY DEF ModeWithAp, WithSoftAp, WIFI_OFF, WIFI_STA, WIFI_AP, WIFI_AP_STA
  <1>3. Applies(cfg) => cfg.rest # "undef"
    BY UnassignedIsZero DEF Applies
  <1>4. ApplyCipAp(cfg) => ApApplied(apIp', cfg) /\ (apIp.rest # "undef" => apIp'.rest # "undef")
    BY <1>3 DEF ApplyCipAp, Applies, ApApplied
  <1>5. CASE m = WIFI_STA
    BY <1>5 DEF NetworkBecomes, ForSoftAp, StationBecomes
  <1>6. CASE m # WIFI_STA
    <2>1. StationBecomes([n EXCEPT !.mode = ModeWithAp(n.mode, cfg)]) /\ ApplyCipAp(cfg)
      BY <1>6 DEF NetworkBecomes, ForSoftAp
    <2> QED  BY <1>1, <1>2, <1>4, <1>6, <2>1 DEF StationBecomes, Station
  <1> QED  BY <1>5, <1>6

LEMMA InitNetwork ==
  ASSUME Init
  PROVE  NetworkInv
  BY DEF Init, NetworkInv, StationInv, ApInv, UnassignedNeverUsed, NoConfig

LEMMA SetupNetwork ==
  ASSUME TypeOK, NetworkInv, Setup
  PROVE  NetworkInv'
  <1> DEFINE m0 == [Now EXCEPT !.dns = SetDns(Read.dnsConfig)]
             n == IF ForStation(mode)
                  THEN SetDhcpMode(m0, Read.dhcpMode, Read.netConfig, Read.dnsConfig)
                  ELSE Now
  <1>1. /\ Read.dnsConfig \in Servers /\ Read.dhcpMode \in {1, 3}
        /\ Read.netConfig \in Configs /\ Read.apIpConfig \in Configs
    BY ReadTyped DEF IsData, Fields, Values, Servers
  <1>2. m0 \in Station /\ Now \in Station /\ m0.ip = staIp /\ m0.mode = mode
    BY <1>1, SetDnsTyped DEF TypeOK, Station, Now
  <1>3. n \in Station
    BY <1>1, <1>2, SetDhcpModeTyped
  <1>4. NetworkBecomes(n, n.mode, Read.apIpConfig)
    BY DEF Setup
  <1>5. /\ gsCwDhcp' = Read.dhcpMode /\ gsCipStaCfg' = Read.netConfig
        /\ gsCipDnsCfg' = Read.dnsConfig /\ gsCipApCfg' = Read.apIpConfig
    BY DEF Setup
  <1>6. n.ip.rest # "undef"
    BY <1>1, <1>2, SetDhcpModeApplies DEF NetworkInv, UnassignedNeverUsed, Now
  <1>7. mode # WIFI_AP => AsSetDhcpMode(n, Read.dhcpMode, Read.netConfig, Read.dnsConfig)
    BY <1>1, <1>2, SetDhcpModeApplies DEF ForStation
  <1>8. n.mode # WIFI_AP => mode # WIFI_AP
    BY DEF ForStation, Now
  <1>9. /\ dhcpc' = n.dhcpc /\ staIp' = n.ip /\ dns' = n.dns /\ begun' = n.begun
        /\ mode' # WIFI_AP => n.mode # WIFI_AP
        /\ n.mode # WIFI_STA => ApApplied(apIp', Read.apIpConfig)
        /\ n.mode = WIFI_STA => apIp' = apIp /\ mode' = n.mode
        /\ apIp.rest # "undef" => apIp'.rest # "undef"
    BY <1>1, <1>3, <1>4, NetworkBecomesApplies
  <1> HIDE DEF n
  <1>10. StationInv'
    BY <1>5, <1>7, <1>8, <1>9 DEF StationInv, AsSetDhcpMode, Now
  <1>11. ApInv'
    BY <1>5, <1>9 DEF ApInv
  <1>12. UnassignedNeverUsed'
    BY <1>6, <1>9 DEF NetworkInv, UnassignedNeverUsed
  <1> QED  BY <1>10, <1>11, <1>12 DEF NetworkInv

LEMMA CwModeNetwork ==
  ASSUME TypeOK, NetworkInv, NEW m \in WIFI_OFF..WIFI_AP_STA, CwMode(m)
  PROVE  NetworkInv'
  <1>1. PICK new \in {m, mode} :
          LET n == IF ForStation(m)
                   THEN SetDhcpMode([Now EXCEPT !.mode = new, !.dns = SetDns(gsCipDnsCfg)],
                                    gsCwDhcp, gsCipStaCfg, gsCipDnsCfg)
                   ELSE [Now EXCEPT !.mode = new]
          IN  NetworkBecomes(n, m, gsCipApCfg)
    BY DEF CwMode
  <1> DEFINE m0 == [Now EXCEPT !.mode = new, !.dns = SetDns(gsCipDnsCfg)]
             m1 == [Now EXCEPT !.mode = new]
             n == IF ForStation(m)
                  THEN SetDhcpMode(m0, gsCwDhcp, gsCipStaCfg, gsCipDnsCfg)
                  ELSE m1
  <1>2. new \in WIFI_OFF..WIFI_AP_STA
    BY DEF TypeOK, Now, Station
  <1>3. /\ m0 \in Station /\ m1 \in Station
        /\ m0.ip = staIp /\ m1.ip = staIp /\ m1.mode = new /\ m1.dhcpc = dhcpc /\ m1.dns = dns
        /\ m1.begun = begun
        /\ m0.mode = new
    BY <1>2, SetDnsTyped DEF TypeOK, Station, Servers, Now
  <1>4. /\ gsCwDhcp \in {1, 3} /\ gsCipStaCfg \in Configs /\ gsCipDnsCfg \in Servers
        /\ gsCipApCfg \in Configs
    BY DEF TypeOK, Servers
  <1>5. n \in Station
    BY <1>3, <1>4, SetDhcpModeTyped
  <1>6. NetworkBecomes(n, m, gsCipApCfg)
    BY <1>1
  <1>7. UNCHANGED globals /\ after = "none" /\ after' = "none"
    BY DEF CwMode, Accepts
  <1>8. n.ip.rest # "undef"
    <2>1. staIp.rest # "undef"
      BY DEF NetworkInv, UnassignedNeverUsed
    <2> HIDE DEF m0, m1
    <2>2. SetDhcpMode(m0, gsCwDhcp, gsCipStaCfg, gsCipDnsCfg).ip.rest # "undef"
      BY <2>1, <1>3, <1>4, SetDhcpModeApplies
    <2> QED  BY <2>1, <2>2, <1>3
  <1>9. n.mode # WIFI_AP => AsSetDhcpMode(n, gsCwDhcp, gsCipStaCfg, gsCipDnsCfg)
    <2>1. CASE ForStation(m)
      BY <2>1, <1>3, <1>4, SetDhcpModeApplies
    <2>2. CASE ~ForStation(m) /\ new # WIFI_AP
      <3>1. mode # WIFI_AP
        BY <2>2 DEF ForStation
      <3>2. AsSetDhcpMode(Now, gsCwDhcp, gsCipStaCfg, gsCipDnsCfg)
        BY <3>1, <1>7 DEF NetworkInv, StationInv
      <3> QED  BY <3>2, <2>2, <1>3 DEF AsSetDhcpMode, Now
    <2>3. CASE ~ForStation(m) /\ new = WIFI_AP
      BY <2>3, <1>3
    <2> QED  BY <2>1, <2>2, <2>3
  <1>10. m = WIFI_STA /\ n.mode # WIFI_STA => mode # WIFI_STA
    <2>1. SUFFICES ASSUME m = WIFI_STA, mode = WIFI_STA PROVE n.mode = WIFI_STA
      OBVIOUS
    <2>2. m0.mode = WIFI_STA
      BY <1>1, <1>3, <2>1
    <2>3. SetDhcpMode(m0, gsCwDhcp, gsCipStaCfg, gsCipDnsCfg).mode = WIFI_STA
      BY <2>2, <1>3, <1>4, SetDhcpModeApplies
    <2> HIDE DEF m0, m1
    <2> QED  BY <2>1, <2>3 DEF ForStation, WIFI_STA, WIFI_AP
  <1> HIDE DEF n
  <1>11. /\ dhcpc' = n.dhcpc /\ staIp' = n.ip /\ dns' = n.dns /\ begun' = n.begun
         /\ mode' # WIFI_AP => n.mode # WIFI_AP
         /\ m # WIFI_STA => ApApplied(apIp', gsCipApCfg)
         /\ m = WIFI_STA => apIp' = apIp /\ mode' = n.mode
         /\ apIp.rest # "undef" => apIp'.rest # "undef"
    BY <1>4, <1>5, <1>6, NetworkBecomesApplies
  <1>12. StationInv'
    BY <1>7, <1>9, <1>11 DEF StationInv, AsSetDhcpMode, Now, globals
  <1>13. ApInv'
    BY <1>7, <1>10, <1>11 DEF NetworkInv, ApInv, globals
  <1>14. UnassignedNeverUsed'
    BY <1>8, <1>11 DEF NetworkInv, UnassignedNeverUsed
  <1> QED  BY <1>12, <1>13, <1>14 DEF NetworkInv

LEMMA CwDhcpNetwork ==
  ASSUME TypeOK, NetworkInv, NEW en \in {0, 1}, NEW c, CwDhcp(en, c)
  PROVE  NetworkInv'
  <1> DEFINE n == SetDhcpMode(Now, DhcpMode(en), gsCipStaCfg, gsCipDnsCfg)
  <1>1. /\ DhcpMode(en) \in {1, 3} /\ gsCipStaCfg \in Configs /\ gsCipDnsCfg \in Servers
        /\ Now \in Station /\ Now.ip = staIp /\ Now.mode = mode
    BY DEF DhcpMode, TypeOK, Servers, Now
  <1>2. /\ AsSetDhcpMode(n, DhcpMode(en), gsCipStaCfg, gsCipDnsCfg)
        /\ n.ip.rest # "undef"
        /\ mode \in {WIFI_STA, WIFI_AP_STA} => n.mode = mode
    BY <1>1, SetDhcpModeApplies DEF NetworkInv, UnassignedNeverUsed
  <1>3. /\ gsCwDhcp' = DhcpMode(en) /\ StationBecomes(n) /\ apIp' = apIp
        /\ gsCipStaCfg' = gsCipStaCfg /\ gsCipDnsCfg' = gsCipDnsCfg /\ gsCipApCfg' = gsCipApCfg
        /\ after' = "none" /\ after = "none" /\ mode # WIFI_OFF
    BY DEF CwDhcp, Accepts
  <1> HIDE DEF n
  <1>4. StationInv'
    BY <1>2, <1>3 DEF StationInv, AsSetDhcpMode, Now, StationBecomes
  <1>5. ApInv'
    BY <1>1, <1>2, <1>3 DEF NetworkInv, ApInv, StationBecomes, TypeOK, Now, Station,
                            WIFI_OFF, WIFI_STA, WIFI_AP, WIFI_AP_STA
  <1>6. UnassignedNeverUsed'
    BY <1>2, <1>3 DEF NetworkInv, UnassignedNeverUsed, StationBecomes
  <1> QED  BY <1>4, <1>5, <1>6 DEF NetworkInv

LEMMA CipStaEndsNetwork ==
  ASSUME TypeOK, NetworkInv, CipStaEnds
  PROVE  NetworkInv'
  <1> DEFINE n == SetDhcpMode(Now, 1, arg, gsCipDnsCfg)
  <1>1. /\ arg \in Configs /\ gsCipDnsCfg \in Servers
        /\ Now \in Station /\ Now.ip = staIp /\ Now.mode = mode
    BY DEF CipStaEnds, TypeOK, Servers, Now
  <1>2. /\ AsSetDhcpMode(n, 1, arg, gsCipDnsCfg)
        /\ n.ip.rest # "undef"
        /\ mode \in {WIFI_STA, WIFI_AP_STA} => n.mode = mode
    BY <1>1, SetDhcpModeApplies DEF NetworkInv, UnassignedNeverUsed
  <1>3. /\ gsCwDhcp' = 1 /\ StationBecomes(n) /\ apIp' = apIp
        /\ gsCipStaCfg' = arg /\ gsCipDnsCfg' = gsCipDnsCfg /\ gsCipApCfg' = gsCipApCfg
        /\ after' = "none" /\ after = "CIPSTA"
    BY DEF CipStaEnds
  <1> HIDE DEF n
  <1>4. StationInv'
    BY <1>2, <1>3 DEF StationInv, AsSetDhcpMode, Now, StationBecomes
  <1>5. mode' # WIFI_STA => mode # WIFI_STA
    BY <1>2, <1>3 DEF StationBecomes
  <1>6. ApInv'
    BY <1>3, <1>5 DEF NetworkInv, ApInv
  <1>7. UnassignedNeverUsed'
    BY <1>2, <1>3 DEF NetworkInv, UnassignedNeverUsed, StationBecomes
  <1> QED  BY <1>4, <1>6, <1>7 DEF NetworkInv

LEMMA CipApEndsNetwork ==
  ASSUME TypeOK, NetworkInv, CipApEnds
  PROVE  NetworkInv'
  <1>1. gsCipApCfg \in Configs
    BY DEF TypeOK
  <1>2. Applies(gsCipApCfg) => gsCipApCfg.rest # "undef"
    BY <1>1, UnassignedIsZero DEF Applies
  <1>3. mode' # WIFI_AP => mode # WIFI_AP
    BY DEF CipApEnds, ModeWithAp, WithSoftAp, WIFI_OFF, WIFI_STA, WIFI_AP, WIFI_AP_STA
  <1>4. StationInv'
    BY <1>3 DEF CipApEnds, NetworkInv, StationInv, AsSetDhcpMode, Now, globals
  <1>5. ApInv'
    BY DEF CipApEnds, ApplyCipAp, Applies, ApInv, ApApplied, globals
  <1>6. UnassignedNeverUsed'
    BY <1>2 DEF CipApEnds, ApplyCipAp, NetworkInv, UnassignedNeverUsed
  <1> QED  BY <1>4, <1>5, <1>6 DEF NetworkInv

LEMMA CipDnsEndsNetwork ==
  ASSUME TypeOK, NetworkInv, CipDnsEnds
  PROVE  NetworkInv'
  BY DEF CipDnsEnds, NetworkInv, StationInv, AsSetDhcpMode, Now, ApInv, UnassignedNeverUsed

\* WiFi.begin starts the client only when no static address is in force.
LEMMA CwJapNetwork ==
  ASSUME TypeOK, NetworkInv, CwJap
  PROVE  NetworkInv'
  <1>1. /\ mode # WIFI_AP /\ after = "none" /\ after' = "CWJAP"
        /\ UNCHANGED globals /\ UNCHANGED <<staIp, dns, apIp>>
    BY DEF CwJap, Accepts
  <1>2. AsSetDhcpMode(Now, gsCwDhcp, gsCipStaCfg, gsCipDnsCfg)
    BY <1>1 DEF NetworkInv, StationInv
  <1>3. Usable(gsCipStaCfg) => gsCipStaCfg # NoConfig
    BY DEF Usable, NoConfig
  <1>4. AsSetDhcpMode(Now, gsCwDhcp, gsCipStaCfg, gsCipDnsCfg)'
    <2>1. CASE UNCHANGED <<dhcpc, begun>>
      BY <1>1, <1>2, <2>1 DEF AsSetDhcpMode, Now, globals
    <2>2. CASE dhcpc' = (dhcpc \/ staIp = NoConfig) /\ begun' = TRUE
      <3>1. dhcpc \in BOOLEAN
        BY DEF TypeOK, Now, Station
      <3> QED  BY <1>1, <1>2, <1>3, <2>2, <3>1 DEF AsSetDhcpMode, Now, globals
    <2> QED  BY <2>1, <2>2 DEF CwJap
  <1>5. mode' # WIFI_STA => mode # WIFI_STA
    BY DEF CwJap, WithStation, WIFI_OFF, WIFI_STA, WIFI_AP
  <1>6. ApInv'
    BY <1>1, <1>5 DEF NetworkInv, ApInv, globals
  <1> QED  BY <1>1, <1>4, <1>6 DEF NetworkInv, StationInv, UnassignedNeverUsed

\* The servers set behind a join are those of CIPDNS.
LEMMA JoinEndsNetwork ==
  ASSUME TypeOK, NetworkInv, JoinEnds
  PROVE  NetworkInv'
  <1>1. /\ after = "CWJAP" /\ after' = "none" /\ UNCHANGED globals
        /\ UNCHANGED <<mode, dhcpc, staIp, apIp, begun>>
        /\ dns' = dns \/ dns' = SetDns(gsCipDnsCfg)
    BY DEF JoinEnds
  <1>2. StationInv'
    BY <1>1 DEF NetworkInv, StationInv, AsSetDhcpMode, Now, globals
  <1> QED  BY <1>1, <1>2 DEF NetworkInv, ApInv, UnassignedNeverUsed, globals

\* A lease comes when the client runs: with DHCP on, an address refused or none taken.
LEMMA LeaseNetwork ==
  ASSUME TypeOK, NetworkInv, LeaseGot
  PROVE  NetworkInv'
  <1>1. gsCipStaCfg \in Configs /\ mode # WIFI_AP
    BY DEF LeaseGot, TypeOK, WIFI_STA, WIFI_AP, WIFI_AP_STA
  <1>2. StationInv'
    BY <1>1 DEF LeaseGot, NetworkInv, StationInv, AsSetDhcpMode, Now, globals
  <1> QED  BY <1>2 DEF LeaseGot, NetworkInv, ApInv, UnassignedNeverUsed, globals

LEMMA InterfaceOnNetwork ==
  ASSUME TypeOK, NetworkInv, InterfaceOn
  PROVE  NetworkInv'
  BY DEF InterfaceOn, NetworkInv, StationInv, AsSetDhcpMode, Now, ApInv, UnassignedNeverUsed,
         globals, WIFI_OFF, WIFI_STA, WIFI_AP

\* What leaves the network and its globals alone.
LEMMA KeptNetwork ==
  ASSUME NetworkInv, UNCHANGED network,
         UNCHANGED <<gsCwDhcp, gsCipStaCfg, gsCipDnsCfg>>,
         after' = "setup" => after = "setup",
         after = "setup" => after' = "setup",
         gsCipApCfg' = gsCipApCfg \/ after' = "CIPAP",
         after = "CIPAP" => after' = "CIPAP"
  PROVE  NetworkInv'
  BY DEF NetworkInv, StationInv, AsSetDhcpMode, Now, ApInv, UnassignedNeverUsed, network

LEMMA ResetNetwork ==
  ASSUME Reset
  PROVE  NetworkInv'
  BY DEF Reset, Cleared, NetworkInv, StationInv, ApInv, UnassignedNeverUsed, NoConfig

LEMMA CommandNetwork ==
  ASSUME TypeOK, NetworkInv, Command
  PROVE  NetworkInv'
  <1>1. ASSUME NEW baud \in BaudRates, NEW config \in UartConfigs, NEW c \in BOOLEAN,
               Uart(baud, config, c)
        PROVE  NetworkInv'
    BY <1>1, KeptNetwork DEF Uart, globals
  <1>2. ASSUME NEW cfg \in Configs, NEW c \in BOOLEAN, CipSta(cfg, c)
        PROVE  NetworkInv'
    BY <1>2, KeptNetwork DEF CipSta, globals, Accepts
  <1>3. ASSUME NEW cfg \in Configs, NEW c \in BOOLEAN, CipAp(cfg, c)
        PROVE  NetworkInv'
    BY <1>3, KeptNetwork DEF CipAp, Accepts
  <1>4. ASSUME NEW servers, NEW c \in BOOLEAN, CipDns(servers, c)
        PROVE  NetworkInv'
    BY <1>4, KeptNetwork DEF CipDns, globals, Accepts
  <1>5. ASSUME NEW max \in MaxCerts, CipSslCertMax(max)
        PROVE  NetworkInv'
    BY <1>5, KeptNetwork DEF CipSslCertMax
  <1>6. ASSUME Restore \/ Query PROVE NetworkInv'
    BY <1>6, KeptNetwork DEF Restore, Query, Accepts, globals
  <1> QED  BY <1>1, <1>2, <1>3, <1>4, <1>5, <1>6, CwModeNetwork, CwDhcpNetwork, CwJapNetwork
           DEF Command

LEMMA NextNetwork ==
  ASSUME TypeOK, NetworkInv, [Next]_vars
  PROVE  NetworkInv'
  <1>1. CASE Eeprom
    BY <1>1, KeptNetwork DEF Eeprom, Unchanged, Erase, Write, globals
  <1>2. CASE UNCHANGED vars
    BY <1>2, KeptNetwork DEF vars, globals
  <1> QED
    BY <1>1, <1>2, ResetNetwork, SetupNetwork, CommandNetwork, CipStaEndsNetwork,
       CipApEndsNetwork, CipDnsEndsNetwork, JoinEndsNetwork, LeaseNetwork, InterfaceOnNetwork
       DEF Next

LEMMA NetworkCorrect ==
  ASSUME SettingsAssumption
  PROVE  Spec => []NetworkInv
  <1>1. Init => NetworkInv
    BY InitNetwork
  <1>2. TypeOK /\ NetworkInv /\ [Next]_vars => NetworkInv'
    BY NextNetwork
  <1> QED  BY <1>1, <1>2, SettingsTypeCorrect, PTL DEF Spec

\* A static address and the DNS servers set with it are in force when DHCP is off,
\* whatever commands, mode changes, boots and leases came before.
THEOREM StaticInForceCorrect ==
  ASSUME SettingsAssumption
  PROVE  Spec => []StaticInForce
  <1>1. TypeOK /\ NetworkInv => StaticInForce
    BY DEF NetworkInv, StationInv, AsSetDhcpMode, Now, StaticInForce, Idle, HasStation,
           WIFI_STA, WIFI_AP, WIFI_AP_STA
  <1> QED  BY <1>1, SettingsTypeCorrect, NetworkCorrect, PTL

\* The DHCP client runs when CWDHCP reports it; when CWDHCP reports it off, only behind
\* an address the SDK refused, or a join made while no static address was in force.
THEOREM DhcpAsReportedCorrect ==
  ASSUME SettingsAssumption
  PROVE  Spec => []DhcpAsReported
  <1>1. TypeOK /\ NetworkInv => DhcpAsReported
    BY DEF TypeOK, NetworkInv, StationInv, AsSetDhcpMode, Now, Station, DhcpAsReported, Idle,
           HasStation, WIFI_STA, WIFI_AP, WIFI_AP_STA
  <1> QED  BY <1>1, SettingsTypeCorrect, NetworkCorrect, PTL

\* The SoftAP has the address of CIPAP, unless it was refused.
THEOREM ApInForceCorrect ==
  ASSUME SettingsAssumption
  PROVE  Spec => []ApInForce
  <1>1. NetworkInv => ApInForce
    BY DEF NetworkInv, ApInv, ApApplied, ApInForce, Idle, WIFI_STA, WIFI_AP, WIFI_AP_STA
  <1> QED  BY <1>1, NetworkCorrect, PTL

\* Gateway and mask that were never assigned are stored, but never used.
THEOREM UnassignedNeverUsedCorrect ==
  ASSUME SettingsAssumption
  PROVE  Spec => []UnassignedNeverUsed
  <1>1. NetworkInv => UnassignedNeverUsed
    BY DEF NetworkInv
  <1> QED  BY <1>1, NetworkCorrect, PTL

-----------------------------------------------------------------------------
(***************************************************************************)
(* What is in use is what is stored.  Between commands that is the whole   *)
(* invariant; inside a handler it is a promise: what the globals will hold *)
(* when the handler is done is what the record will hold when its setters  *)
(* have been called.                                                       *)
(***************************************************************************)

UsedFields == {"dhcpMode", "netConfig", "dnsConfig", "apIpConfig", "maximumCertificates"}

\* What the global of f will hold when the handler is done.
Promised(f) ==
  IF after = "CIPSTA" /\ f = "netConfig" THEN arg
  ELSE IF after = "CIPSTA" /\ f = "dhcpMode" THEN 1
  ELSE IF after = "CIPDNS" /\ f = "dnsConfig" THEN arg
  ELSE InUse[f]

\* The setters to be called that write f, and what the record will hold.
Writers(f) == {i \in 1..Len(todo) : f \in DOMAIN todo[i]}
WillStore(f, v) ==
  IF Writers(f) = {} THEN Stored[f] = v ELSE \A i \in Writers(f) : todo[i][f] = v

PromiseInv ==
  after \notin {"setup", "reset"} => \A f \in UsedFields \ cur : WillStore(f, Promised(f))

\* What a commit writes has what its setter sets.
ImageInv == Erased => \A f \in DOMAIN Head(todo) : image[f] = Head(todo)[f]

\* CIPSTA has its address stored before its DHCP mode.
AddressInv ==
  after = "CIPSTA" =>
    \/ todo = <<>>
    \/ "netConfig" \notin cur /\ todo \in {CipStaUpdates(arg), <<Set("dhcpMode", 1)>>}

StoredInv == PromiseInv /\ ImageInv /\ AddressInv

LEMMA UsedFieldsAreFields == UsedFields \subseteq Fields
  BY DEF UsedFields, Fields

LEMMA InUseDomain == DOMAIN InUse = UsedFields
  BY DEF InUse, UsedFields

LEMMA SetFacts ==
  ASSUME NEW f, NEW v
  PROVE  DOMAIN Set(f, v) = {f} /\ Set(f, v)[f] = v
  BY DEF Set

LEMMA UpdateDomain ==
  ASSUME NEW u \in Updates
  PROVE  DOMAIN u \subseteq Fields
  <1>1. DOMAIN Get = {} /\ DOMAIN Defaults = Fields
    BY DefaultsTyped DEF Get, IsData
  <1>2. ASSUME NEW f \in Fields, NEW v \in Values(f) PROVE DOMAIN Set(f, v) \subseteq Fields
    BY DEF Set
  <1> QED  BY <1>1, <1>2 DEF Updates

\* A field of the updated record, and of one that need not be written.
LEMMA UpdatedField ==
  ASSUME NEW d, NEW u, NEW f \in Fields
  PROVE  /\ f \in DOMAIN u => Updated(d, u)[f] = u[f]
         /\ f \notin DOMAIN u => Updated(d, u)[f] = d[f]
  BY DEF Updated

\* The first setter of several: the others are those of its tail.
LEMMA TailWriters ==
  ASSUME todo \in Seq(Updates), todo # <<>>, todo' = Tail(todo), NEW f
  PROVE  /\ \A i \in Writers(f)' : i + 1 \in Writers(f) /\ todo'[i] = todo[i + 1]
         /\ \A i \in Writers(f) : i = 1 \/ i - 1 \in Writers(f)'
         /\ 1 \in Writers(f) <=> f \in DOMAIN Head(todo)
         /\ todo[1] = Head(todo)
  <1>1. Len(todo) \in Nat /\ Len(todo) >= 1 /\ Len(Tail(todo)) = Len(todo) - 1
    OBVIOUS
  <1>2. \A i \in 1..Len(Tail(todo)) : Tail(todo)[i] = todo[i + 1] /\ i + 1 \in 1..Len(todo)
    BY <1>1
  <1>3. ASSUME NEW i \in 1..Len(todo), i # 1
        PROVE  i - 1 \in 1..Len(Tail(todo)) /\ Tail(todo)[i - 1] = todo[i]
    <2>1. i - 1 \in 1..Len(Tail(todo)) /\ (i - 1) + 1 = i
      BY <1>1, <1>3
    <2> QED  BY <1>2, <2>1
  <1>4. ASSUME NEW i \in Writers(f)'
        PROVE  i + 1 \in Writers(f) /\ todo'[i] = todo[i + 1]
    BY <1>2, <1>4 DEF Writers
  <1>5. ASSUME NEW i \in Writers(f), i # 1
        PROVE  i - 1 \in Writers(f)'
    BY <1>3, <1>5 DEF Writers
  <1>6. todo[1] = Head(todo) /\ (1 \in Writers(f) <=> f \in DOMAIN Head(todo))
    BY <1>1 DEF Writers
  <1> HIDE DEF Writers
  <1> QED  BY <1>4, <1>5, <1>6, Zenon

\* A setter that is done has left its values in the record.
LEMMA SetterDone ==
  ASSUME todo \in Seq(Updates), todo # <<>>, todo' = Tail(todo), NEW f, NEW v,
         Stored'[f] = IF f \in DOMAIN Head(todo) THEN Head(todo)[f] ELSE Stored[f],
         WillStore(f, v)
  PROVE  IF Writers(f)' = {} THEN Stored'[f] = v ELSE \A i \in Writers(f)' : todo'[i][f] = v
  <1>1. CASE Writers(f)' # {}
    <2>1. Writers(f) # {}
      BY <1>1, TailWriters
    <2>2. \A i \in Writers(f) : todo[i][f] = v
      BY <2>1 DEF WillStore
    <2>3. \A i \in Writers(f)' : todo'[i][f] = v
      BY <2>2, TailWriters
    <2> QED  BY <1>1, <2>3
  <1>2. CASE Writers(f)' = {}
    <2>1. CASE f \in DOMAIN Head(todo)
      <3>1. 1 \in Writers(f) /\ todo[1] = Head(todo)
        BY <2>1, TailWriters
      <3>2. Head(todo)[f] = v
        BY <3>1 DEF WillStore
      <3> QED  BY <1>2, <2>1, <3>2
    <2>2. CASE f \notin DOMAIN Head(todo)
      <3>1. Writers(f) = {}
        BY <1>2, <2>2, TailWriters
      <3> QED  BY <1>2, <2>2, <3>1 DEF WillStore
    <2> QED  BY <2>1, <2>2
  <1> QED  BY <1>1, <1>2

LEMMA TailOfAddress ==
  ASSUME AddressInv, todo # <<>>, todo' = Tail(todo), UNCHANGED <<after, arg, cur>>
  PROVE  AddressInv'
  <1>1. Tail(CipStaUpdates(arg)) = <<Set("dhcpMode", 1)>> /\ Tail(<<Set("dhcpMode", 1)>>) = <<>>
    BY DEF CipStaUpdates
  <1> QED  BY <1>1 DEF AddressInv

-----------------------------------------------------------------------------
(* The steps of a getter or setter                                         *)

LEMMA HeadFacts ==
  ASSUME TypeOK, todo # <<>>
  PROVE  /\ Head(todo) \in Updates /\ DOMAIN Head(todo) \subseteq Fields
         /\ todo \in Seq(Updates)
  BY TodoTyped, UpdateDomain DEF TypeOK

LEMMA UnchangedStored ==
  ASSUME TypeOK, StoredInv, Unchanged
  PROVE  StoredInv'
  <1>1. /\ todo # <<>> /\ ~Erased /\ Updated(Read, Head(todo)) = flash /\ todo' = Tail(todo)
        /\ UNCHANGED <<eeprom, after, arg, globals, cur>>
    BY DEF Unchanged
  <1>2. Head(todo) \in Updates /\ DOMAIN Head(todo) \subseteq Fields /\ todo \in Seq(Updates)
    BY <1>1, HeadFacts
  <1>3. Read = flash
    BY <1>1, <1>2, ReadTyped, UpdatedTyped, DataIsNotNoData DEF Read
  <1>4. Stored = flash /\ Stored' = flash
    <2>1. ~Erased' /\ Read' = Read
      BY <1>1 DEF Erased, Read, eeprom
    <2> QED  BY <1>1, <1>3, <2>1 DEF Stored
  <1>5. ASSUME NEW f \in Fields
        PROVE  Stored'[f] = IF f \in DOMAIN Head(todo) THEN Head(todo)[f] ELSE Stored[f]
    BY <1>1, <1>3, <1>4, UpdatedField
  <1>6. ASSUME NEW f \in UsedFields, NEW v, WillStore(f, v)
        PROVE  WillStore(f, v)'
    BY <1>1, <1>2, <1>5, <1>6, SetterDone, UsedFieldsAreFields DEF WillStore
  <1>7. PromiseInv'
    <2>1. \A f : Promised(f)' = Promised(f)
      BY <1>1 DEF Promised, InUse, globals
    <2> QED  BY <1>1, <1>6, <2>1 DEF StoredInv, PromiseInv
  <1>8. ImageInv'
    BY <1>1 DEF ImageInv, Erased, eeprom
  <1>9. AddressInv'
    BY <1>1, TailOfAddress DEF StoredInv
  <1> QED  BY <1>7, <1>8, <1>9 DEF StoredInv

LEMMA EraseStored ==
  ASSUME TypeOK, CommitInv, StoredInv, Erase
  PROVE  StoredInv'
  <1>1. /\ todo # <<>> /\ ~Erased /\ image' = Updated(Read, Head(todo))
        /\ UNCHANGED <<todo, after, arg, globals, cur>>
    BY DEF Erase
  <1>2. Head(todo) \in Updates /\ DOMAIN Head(todo) \subseteq Fields /\ todo \in Seq(Updates)
    BY <1>1, HeadFacts
  <1>3. Stored = Read /\ Stored' = image'
    BY <1>1, <1>2, ReadTyped, UpdatedTyped, DataIsNotNoData DEF Stored, Erased
  <1>4. ASSUME NEW f \in UsedFields, NEW v, WillStore(f, v)
        PROVE  WillStore(f, v)'
    <2>1. Writers(f)' = Writers(f)
      BY <1>1 DEF Writers
    <2>2. CASE Writers(f) # {}
      BY <1>1, <1>4, <2>1, <2>2 DEF WillStore
    <2>3. CASE Writers(f) = {}
      <3>1. f \notin DOMAIN Head(todo)
        BY <1>1, <1>2, <2>3 DEF Writers
      <3>2. Stored'[f] = Read[f]
        BY <1>1, <1>3, <3>1, UpdatedField, UsedFieldsAreFields
      <3> QED  BY <1>3, <1>4, <2>1, <2>3, <3>2 DEF WillStore
    <2> QED  BY <2>2, <2>3
  <1>5. PromiseInv'
    <2>1. \A f : Promised(f)' = Promised(f)
      BY <1>1 DEF Promised, InUse, globals
    <2> QED  BY <1>1, <1>4, <2>1 DEF StoredInv, PromiseInv
  <1>6. ImageInv'
    BY <1>1, <1>2, UpdatedField DEF ImageInv
  <1>7. AddressInv'
    BY <1>1 DEF StoredInv, AddressInv
  <1> QED  BY <1>5, <1>6, <1>7 DEF StoredInv

LEMMA WriteStored ==
  ASSUME TypeOK, CommitInv, StoredInv, Write
  PROVE  StoredInv'
  <1>1. /\ Erased /\ flash' = image /\ image' = NoData /\ todo' = Tail(todo) /\ todo # <<>>
        /\ UNCHANGED <<after, arg, globals, cur>>
    BY DEF Write, CommitInv
  <1>2. Head(todo) \in Updates /\ DOMAIN Head(todo) \subseteq Fields /\ todo \in Seq(Updates)
    BY <1>1, HeadFacts
  <1>3. Stored = image /\ Stored' = image
    BY <1>1 DEF Stored, Erased, Read
  <1>4. ASSUME NEW f
        PROVE  Stored'[f] = IF f \in DOMAIN Head(todo) THEN Head(todo)[f] ELSE Stored[f]
    BY <1>1, <1>3 DEF StoredInv, ImageInv
  <1>5. ASSUME NEW f \in UsedFields, NEW v, WillStore(f, v)
        PROVE  WillStore(f, v)'
    BY <1>1, <1>2, <1>4, <1>5, SetterDone DEF WillStore
  <1>6. PromiseInv'
    <2>1. \A f : Promised(f)' = Promised(f)
      BY <1>1 DEF Promised, InUse, globals
    <2> QED  BY <1>1, <1>5, <2>1 DEF StoredInv, PromiseInv
  <1>7. ImageInv'
    BY <1>1 DEF ImageInv, Erased
  <1>8. AddressInv'
    BY <1>1, TailOfAddress DEF StoredInv
  <1> QED  BY <1>6, <1>7, <1>8 DEF StoredInv

-----------------------------------------------------------------------------
(* The steps of the commands                                               *)

\* A command makes its promise: what it changes is what its setters write, or is
\* marked as changed for the moment only.
LEMMA SavesPromise ==
  ASSUME TypeOK, StoredInv, ~Erased, todo = <<>>, after = "none", UNCHANGED eeprom,
         NEW c \in BOOLEAN, NEW updates \in Seq(Updates), NEW fields \in SUBSET UsedFields,
         Saves(c, updates, fields),
         \A f \in UsedFields \ fields : Promised(f)' = InUse[f],
         \A f \in UsedFields \ fields : \A i \in 1..Len(updates) : f \notin DOMAIN updates[i],
         \A f \in fields : /\ \E i \in 1..Len(updates) : f \in DOMAIN updates[i]
                           /\ \A i \in 1..Len(updates) :
                                f \in DOMAIN updates[i] => updates[i][f] = Promised(f)'
  PROVE  PromiseInv' /\ ImageInv'
  <1>1. ~Erased' /\ Stored' = Stored
    BY DEF Erased, Stored, Read, eeprom
  <1>2. ASSUME NEW f \in UsedFields \ cur PROVE Stored[f] = InUse[f]
    <2>1. Writers(f) = {}
      BY DEF Writers
    <2>2. Promised(f) = InUse[f]
      BY DEF Promised
    <2> QED  BY <1>2, <2>1, <2>2 DEF StoredInv, PromiseInv, WillStore
  <1>3. ASSUME NEW f \in UsedFields \ cur'
        PROVE  WillStore(f, Promised(f))'
    <2>1. CASE c
      <3>1. todo' = <<>> /\ f \notin fields /\ f \notin cur
        BY <1>3, <2>1 DEF Saves
      <3>2. Writers(f)' = {}
        BY <3>1 DEF Writers
      <3>3. Stored'[f] = Promised(f)'
        BY <1>1, <1>2, <1>3, <3>1
      <3> QED  BY <3>2, <3>3 DEF WillStore
    <2>2. CASE ~c /\ f \in fields
      <3>1. todo' = updates
        BY <2>2 DEF Saves
      <3>2. Writers(f)' # {} /\ \A i \in Writers(f)' : todo'[i][f] = Promised(f)'
        BY <2>2, <3>1 DEF Writers
      <3> QED  BY <3>2 DEF WillStore
    <2>3. CASE ~c /\ f \notin fields
      <3>1. todo' = updates /\ f \notin cur
        BY <1>3, <2>3 DEF Saves
      <3>2. Writers(f)' = {}
        BY <1>3, <2>3, <3>1 DEF Writers
      <3>3. Stored'[f] = Promised(f)'
        BY <1>1, <1>2, <1>3, <2>3, <3>1
      <3> QED  BY <3>2, <3>3 DEF WillStore
    <2> QED  BY <2>1, <2>2, <2>3
  <1>4. PromiseInv'
    BY <1>3 DEF PromiseInv
  <1>5. ImageInv'
    BY <1>1 DEF ImageInv
  <1> QED  BY <1>4, <1>5

\* The one setter of most commands.
LEMMA OneSetter ==
  ASSUME NEW f \in Fields, NEW v \in Values(f), NEW updates, updates = <<Set(f, v)>>
  PROVE  /\ updates \in Seq(Updates)
         /\ \A g \in UsedFields \ {f} : \A i \in 1..Len(updates) : g \notin DOMAIN updates[i]
         /\ \E i \in 1..Len(updates) : f \in DOMAIN updates[i]
         /\ \A i \in 1..Len(updates) : updates[i][f] = v
  <1>1. Set(f, v) \in Updates
    BY SetTyped
  <1>2. Len(updates) = 1 /\ updates[1] = Set(f, v) /\ updates \in Seq(Updates)
    BY <1>1
  <1>3. \A i \in 1..Len(updates) : i = 1
    BY <1>2
  <1>4. DOMAIN updates[1] = {f} /\ updates[1][f] = v /\ 1 \in 1..Len(updates)
    BY <1>2 DEF Set
  <1> HIDE DEF Updates
  <1> QED  BY <1>2, <1>3, <1>4, Zenon

LEMMA CwDhcpStored ==
  ASSUME TypeOK, CommitInv, StoredInv, NEW en \in {0, 1}, NEW c \in BOOLEAN, CwDhcp(en, c)
  PROVE  StoredInv'
  <1> DEFINE updates == <<Set("dhcpMode", DhcpMode(en))>>
  <1>1. ~Erased /\ todo = <<>> /\ after = "none" /\ after' = "none" /\ UNCHANGED eeprom
    BY AcceptsIdle DEF CwDhcp
  <1>2. Saves(c, updates, {"dhcpMode"}) /\ {"dhcpMode"} \in SUBSET UsedFields
    BY DEF CwDhcp, UsedFields
  <1>3. "dhcpMode" \in Fields /\ DhcpMode(en) \in Values("dhcpMode")
    BY DEF Fields, Values, DhcpMode
  <1>4. Promised("dhcpMode")' = DhcpMode(en)
    BY <1>1 DEF CwDhcp, Promised, InUse
  <1>5. \A f \in UsedFields \ {"dhcpMode"} : Promised(f)' = InUse[f]
    BY <1>1 DEF CwDhcp, Promised, InUse, UsedFields
  <1> HIDE DEF updates
  <1>6. PromiseInv' /\ ImageInv'
    BY <1>1, <1>2, <1>3, <1>4, <1>5, OneSetter, SavesPromise DEF updates
  <1> QED  BY <1>1, <1>6 DEF StoredInv, AddressInv

LEMMA CipApStored ==
  ASSUME TypeOK, CommitInv, StoredInv, NEW cfg \in Configs, NEW c \in BOOLEAN, CipAp(cfg, c)
  PROVE  StoredInv'
  <1> DEFINE updates == <<Set("apIpConfig", cfg)>>
  <1>1. ~Erased /\ todo = <<>> /\ after = "none" /\ after' = "CIPAP" /\ UNCHANGED eeprom
    BY AcceptsIdle DEF CipAp
  <1>2. Saves(c, updates, {"apIpConfig"}) /\ {"apIpConfig"} \in SUBSET UsedFields
    BY DEF CipAp, UsedFields
  <1>3. "apIpConfig" \in Fields /\ cfg \in Values("apIpConfig")
    BY DEF Fields, Values
  <1>4. Promised("apIpConfig")' = cfg
    BY <1>1 DEF CipAp, Promised, InUse
  <1>5. \A f \in UsedFields \ {"apIpConfig"} : Promised(f)' = InUse[f]
    BY <1>1 DEF CipAp, Promised, InUse, UsedFields
  <1> HIDE DEF updates
  <1>6. PromiseInv' /\ ImageInv'
    BY <1>1, <1>2, <1>3, <1>4, <1>5, OneSetter, SavesPromise DEF updates
  <1> QED  BY <1>1, <1>6 DEF StoredInv, AddressInv

LEMMA CipDnsStored ==
  ASSUME TypeOK, CommitInv, StoredInv, NEW servers \in DnsServers \cup {NoDns},
         NEW c \in BOOLEAN, CipDns(servers, c)
  PROVE  StoredInv'
  <1> DEFINE updates == <<Set("dnsConfig", servers)>>
  <1>1. ~Erased /\ todo = <<>> /\ after = "none" /\ after' = "CIPDNS" /\ UNCHANGED eeprom
    BY AcceptsIdle DEF CipDns
  <1>2. Saves(c, updates, {"dnsConfig"}) /\ {"dnsConfig"} \in SUBSET UsedFields
    BY DEF CipDns, UsedFields
  <1>3. "dnsConfig" \in Fields /\ servers \in Values("dnsConfig")
    BY DEF Fields, Values
  <1>4. Promised("dnsConfig")' = servers
    BY <1>1 DEF CipDns, Promised
  <1>5. \A f \in UsedFields \ {"dnsConfig"} : Promised(f)' = InUse[f]
    BY <1>1 DEF CipDns, Promised, InUse, UsedFields, globals
  <1> HIDE DEF updates
  <1>6. PromiseInv' /\ ImageInv'
    BY <1>1, <1>2, <1>3, <1>4, <1>5, OneSetter, SavesPromise DEF updates
  <1> QED  BY <1>1, <1>6 DEF StoredInv, AddressInv

LEMMA CipSslCertMaxStored ==
  ASSUME TypeOK, CommitInv, StoredInv, NEW max \in MaxCerts, CipSslCertMax(max)
  PROVE  StoredInv'
  <1> DEFINE updates == <<Set("maximumCertificates", max)>>
  <1>1. ~Erased /\ todo = <<>> /\ after = "none" /\ after' = "none" /\ UNCHANGED eeprom
    BY AcceptsIdle DEF CipSslCertMax
  <1>2. {"maximumCertificates"} \in SUBSET UsedFields
    BY DEF UsedFields
  <1>3. "maximumCertificates" \in Fields /\ max \in Values("maximumCertificates")
    BY DEF Fields, Values
  <1>7. PICK c \in BOOLEAN : Saves(c, updates, {"maximumCertificates"})
    BY DEF CipSslCertMax, Saves
  <1>4. Promised("maximumCertificates")' = max
    BY <1>1 DEF CipSslCertMax, Promised, InUse
  <1>5. \A f \in UsedFields \ {"maximumCertificates"} : Promised(f)' = InUse[f]
    BY <1>1 DEF CipSslCertMax, Promised, InUse, UsedFields
  <1> HIDE DEF updates
  <1>8. /\ updates \in Seq(Updates)
        /\ \A f \in UsedFields \ {"maximumCertificates"} :
             \A i \in 1..Len(updates) : f \notin DOMAIN updates[i]
        /\ \E i \in 1..Len(updates) : "maximumCertificates" \in DOMAIN updates[i]
        /\ \A i \in 1..Len(updates) : updates[i]["maximumCertificates"] = max
    BY <1>3, OneSetter DEF updates
  <1>6. PromiseInv' /\ ImageInv'
    BY <1>1, <1>2, <1>4, <1>5, <1>7, <1>8, SavesPromise
  <1> QED  BY <1>1, <1>6 DEF StoredInv, AddressInv

\* CIPSTA has two: the address first.
LEMMA CipStaStored ==
  ASSUME TypeOK, CommitInv, StoredInv, NEW cfg \in Configs, NEW c \in BOOLEAN, CipSta(cfg, c)
  PROVE  StoredInv'
  <1> DEFINE updates == CipStaUpdates(cfg)
             fields  == {"netConfig", "dhcpMode"}
  <1>1. /\ ~Erased /\ todo = <<>> /\ after = "none" /\ after' = "CIPSTA" /\ arg' = cfg
        /\ UNCHANGED eeprom
    BY AcceptsIdle DEF CipSta
  <1>2. Saves(c, updates, fields) /\ fields \in SUBSET UsedFields
    BY DEF CipSta, UsedFields
  <1>3. updates = <<Set("netConfig", cfg), Set("dhcpMode", 1)>>
    BY DEF CipStaUpdates
  <1>4. /\ DOMAIN Set("netConfig", cfg) = {"netConfig"} /\ Set("netConfig", cfg)["netConfig"] = cfg
        /\ DOMAIN Set("dhcpMode", 1) = {"dhcpMode"} /\ Set("dhcpMode", 1)["dhcpMode"] = 1
    BY SetFacts
  <1>5. Set("netConfig", cfg) \in Updates /\ Set("dhcpMode", 1) \in Updates
    BY SetTyped DEF Fields, Values
  <1>6. /\ updates \in Seq(Updates) /\ Len(updates) = 2
        /\ updates[1] = Set("netConfig", cfg) /\ updates[2] = Set("dhcpMode", 1)
        /\ \A i \in 1..Len(updates) : i = 1 \/ i = 2
        /\ 1 \in 1..Len(updates) /\ 2 \in 1..Len(updates)
    BY <1>3, <1>5
  <1>7. Promised("netConfig")' = cfg /\ Promised("dhcpMode")' = 1
    BY <1>1 DEF Promised
  <1>8. \A f \in UsedFields \ fields : Promised(f)' = InUse[f]
    BY <1>1 DEF CipSta, Promised, InUse, UsedFields, globals
  <1> HIDE DEF updates
  <1>9. \A f \in UsedFields \ fields : \A i \in 1..Len(updates) : f \notin DOMAIN updates[i]
    BY <1>4, <1>6
  <1>10. \A f \in fields : /\ \E i \in 1..Len(updates) : f \in DOMAIN updates[i]
                           /\ \A i \in 1..Len(updates) :
                                f \in DOMAIN updates[i] => updates[i][f] = Promised(f)'
    BY <1>4, <1>6, <1>7
  <1> HIDE DEF fields
  <1>11. PromiseInv' /\ ImageInv'
    BY <1>1, <1>2, <1>6, <1>8, <1>9, <1>10, SavesPromise
  <1>12. AddressInv'
    BY <1>1, <1>2 DEF AddressInv, Saves, updates, fields
  <1> QED  BY <1>11, <1>12 DEF StoredInv

\* What the setters of the UART write nobody uses.
LEMMA UartStored ==
  ASSUME TypeOK, CommitInv, StoredInv, NEW baud \in BaudRates, NEW config \in UartConfigs,
         NEW c \in BOOLEAN, Uart(baud, config, c)
  PROVE  StoredInv'
  <1> DEFINE updates == <<Set("uartBaudRate", baud), Set("uartConfig", config)>>
  <1>1. ~Erased /\ todo = <<>> /\ after = "none" /\ after' = "none" /\ UNCHANGED eeprom
    BY AcceptsIdle DEF Uart
  <1>2. Saves(c, updates, {})
    BY DEF Uart
  <1>3. /\ DOMAIN Set("uartBaudRate", baud) = {"uartBaudRate"}
        /\ DOMAIN Set("uartConfig", config) = {"uartConfig"}
    BY SetFacts
  <1>4. Set("uartBaudRate", baud) \in Updates /\ Set("uartConfig", config) \in Updates
    BY SetTyped DEF Fields, Values
  <1>5. /\ updates \in Seq(Updates) /\ Len(updates) = 2
        /\ updates[1] = Set("uartBaudRate", baud) /\ updates[2] = Set("uartConfig", config)
        /\ \A i \in 1..Len(updates) : i = 1 \/ i = 2
    BY <1>4
  <1>6. \A f \in UsedFields \ {} : Promised(f)' = InUse[f]
    BY <1>1 DEF Uart, Promised, InUse, UsedFields, globals
  <1> HIDE DEF updates
  <1>7. \A f \in UsedFields \ {} : \A i \in 1..Len(updates) : f \notin DOMAIN updates[i]
    BY <1>3, <1>5 DEF UsedFields
  <1>8. PromiseInv' /\ ImageInv'
    <2>1. {} \in SUBSET UsedFields
      OBVIOUS
    <2> QED  BY <1>1, <1>2, <1>5, <1>6, <1>7, <2>1, SavesPromise
  <1> QED  BY <1>1, <1>8 DEF StoredInv, AddressInv

-----------------------------------------------------------------------------
(* The other steps                                                         *)

\* What leaves the record and its setters alone and keeps the promise.
LEMMA KeptStored ==
  ASSUME StoredInv, UNCHANGED <<eeprom, todo, cur>>,
         after' \in {"setup", "reset"} \/
           (after \notin {"setup", "reset"} /\ \A f \in UsedFields : Promised(f)' = Promised(f)),
         after' = "CIPSTA" => after = "CIPSTA" /\ arg' = arg
  PROVE  StoredInv'
  <1>1. \A f : Writers(f)' = Writers(f)
    BY DEF Writers
  <1>2. Stored' = Stored /\ (Erased' <=> Erased)
    BY DEF Stored, Erased, Read, eeprom
  <1>3. \A f, v : WillStore(f, v) => WillStore(f, v)'
    BY <1>1, <1>2 DEF WillStore
  <1>4. PromiseInv'
    BY <1>3 DEF StoredInv, PromiseInv
  <1>5. ImageInv'
    BY <1>2 DEF StoredInv, ImageInv, eeprom
  <1>6. AddressInv'
    BY DEF StoredInv, AddressInv
  <1> QED  BY <1>4, <1>5, <1>6 DEF StoredInv

\* The promise is kept.
LEMMA EndsStored ==
  ASSUME TypeOK, StoredInv, CipStaEnds \/ CipApEnds \/ CipDnsEnds
  PROVE  StoredInv'
  <1>1. CASE CipStaEnds
    <2>1. \A f \in UsedFields : Promised(f)' = Promised(f)
      BY <1>1 DEF CipStaEnds, Promised, InUse, UsedFields
    <2> QED  BY <1>1, <2>1, KeptStored DEF CipStaEnds
  <1>2. CASE CipApEnds
    <2>1. \A f \in UsedFields : Promised(f)' = Promised(f)
      BY <1>2 DEF CipApEnds, Promised, InUse, UsedFields, globals
    <2> QED  BY <1>2, <2>1, KeptStored DEF CipApEnds
  <1>3. CASE CipDnsEnds
    <2>1. \A f \in UsedFields : Promised(f)' = Promised(f)
      BY <1>3 DEF CipDnsEnds, Promised, InUse, UsedFields
    <2> QED  BY <1>3, <2>1, KeptStored DEF CipDnsEnds
  <1> QED  BY <1>1, <1>2, <1>3

\* setup() loads every global from the record.
LEMMA SetupStored ==
  ASSUME TypeOK, CommitInv, StoredInv, Setup
  PROVE  StoredInv'
  <1>1. /\ todo = <<>> /\ todo' = <<>> /\ after' = "none" /\ UNCHANGED eeprom
        /\ gsCipStaCfg' = Read.netConfig /\ gsCipDnsCfg' = Read.dnsConfig
        /\ gsCwDhcp' = Read.dhcpMode /\ gsCipApCfg' = Read.apIpConfig
        /\ maximumCertificates' = Read.maximumCertificates
    BY DEF Setup
  <1>2. ~Erased' /\ Stored' = Read
    BY <1>1 DEF CommitInv, Erased, Stored, Read, eeprom
  <1>3. \A f \in UsedFields : Promised(f)' = Read[f]
    BY <1>1 DEF Promised, InUse, UsedFields
  <1>4. \A f : Writers(f)' = {}
    BY <1>1 DEF Writers
  <1>5. PromiseInv'
    BY <1>2, <1>3, <1>4 DEF PromiseInv, WillStore
  <1> QED  BY <1>1, <1>2, <1>5 DEF StoredInv, ImageInv, AddressInv

LEMMA QueryStored ==
  ASSUME TypeOK, CommitInv, StoredInv, Query
  PROVE  StoredInv'
  <1>1. /\ todo = <<>> /\ todo' = <<Get>> /\ after = "none" /\ after' = "none"
        /\ UNCHANGED <<eeprom, arg, globals, cur>>
    BY DEF Query
  <1>2. DOMAIN Get = {}
    BY DEF Get
  <1>3. \A f : Writers(f)' = {} /\ Writers(f) = {}
    BY <1>1, <1>2 DEF Writers
  <1>4. ~Erased' /\ Stored' = Stored
    BY <1>1 DEF CommitInv, Erased, Stored, Read, eeprom
  <1>5. \A f : Promised(f)' = Promised(f)
    BY <1>1 DEF Promised, InUse, globals
  <1>6. PromiseInv'
    BY <1>1, <1>3, <1>4, <1>5 DEF StoredInv, PromiseInv, WillStore
  <1> QED  BY <1>1, <1>4, <1>6 DEF StoredInv, ImageInv, AddressInv

LEMMA RestartStored ==
  ASSUME CommitInv, Reset \/ Restore
  PROVE  StoredInv'
  <1>1. after' \in {"setup", "reset"} /\ ~Erased'
    BY AcceptsIdle DEF Reset, Restore, Cleared, Erased, eeprom
  <1> QED  BY <1>1 DEF StoredInv, PromiseInv, ImageInv, AddressInv

LEMMA OtherStored ==
  ASSUME TypeOK, StoredInv, UNCHANGED <<eeprom, todo, after, arg, globals, cur>>
  PROVE  StoredInv'
  <1>1. \A f : Promised(f)' = Promised(f)
    BY DEF Promised, InUse, globals
  <1> QED  BY <1>1, KeptStored

\* A join changes neither the globals nor the record.
LEMMA JoinStored ==
  ASSUME TypeOK, StoredInv, CwJap \/ JoinEnds
  PROVE  StoredInv'
  <1>1. /\ after \in {"none", "CWJAP"} /\ after' \in {"none", "CWJAP"}
        /\ UNCHANGED <<eeprom, todo, arg, globals, cur>>
    BY DEF CwJap, JoinEnds, Accepts
  <1>2. \A f : Promised(f)' = Promised(f)
    BY <1>1 DEF Promised, InUse, globals
  <1> QED  BY <1>1, <1>2, KeptStored

LEMMA InitStored ==
  ASSUME Init
  PROVE  StoredInv
  BY DEF Init, StoredInv, PromiseInv, ImageInv, AddressInv, Erased

LEMMA NextStored ==
  ASSUME TypeOK, CommitInv, StoredInv, [Next]_vars
  PROVE  StoredInv'
  <1>1. CASE Command
    <2>1. ASSUME NEW m \in WIFI_OFF..WIFI_AP_STA, CwMode(m) PROVE StoredInv'
      BY <2>1, OtherStored DEF CwMode
    <2> QED
      BY <1>1, <2>1, UartStored, CwDhcpStored, CipStaStored, CipApStored, CipDnsStored,
         CipSslCertMaxStored, RestartStored, QueryStored, JoinStored DEF Command
  <1>2. CASE Eeprom
    BY <1>2, UnchangedStored, EraseStored, WriteStored DEF Eeprom
  <1>3. CASE LeaseGot \/ InterfaceOn \/ UNCHANGED vars
    BY <1>3, OtherStored DEF LeaseGot, InterfaceOn, vars
  <1> QED
    BY <1>1, <1>2, <1>3, RestartStored, SetupStored, EndsStored, JoinStored DEF Next

LEMMA StoredInvCorrect ==
  ASSUME SettingsAssumption
  PROVE  Spec => []StoredInv
  <1>1. Init => StoredInv
    BY InitStored
  <1>2. TypeOK /\ CommitInv /\ StoredInv /\ [Next]_vars => StoredInv'
    BY NextStored
  <1> QED  BY <1>1, <1>2, SettingsTypeCorrect, PTL DEF Spec

\* What the module works with when no command is under way is what is stored, but
\* for the settings whose last command was a _CUR: of every host, for every order
\* of commands, losses of power between and within their commits, and restarts.
THEOREM InUseIsStoredCorrect ==
  ASSUME SettingsAssumption
  PROVE  Spec => []InUseIsStored
  <1>1. TypeOK /\ CommitInv /\ StoredInv => InUseIsStored
    <2> SUFFICES ASSUME CommitInv, StoredInv, Idle, NEW f \in UsedFields \ cur
                 PROVE  InUse[f] = Read[f]
      BY InUseDomain DEF InUseIsStored
    <2>1. todo = <<>> /\ after = "none" /\ Stored = Read
      BY DEF Idle, CommitInv, Stored
    <2>2. Writers(f) = {} /\ Promised(f) = InUse[f]
      BY <2>1 DEF Writers, Promised
    <2> QED  BY <2>1, <2>2 DEF StoredInv, PromiseInv, WillStore
  <1> QED  BY <1>1, SettingsTypeCorrect, StoredInvCorrect, PTL

LEMMA AddressStep ==
  ASSUME TypeOK, CommitInv, StoredInv, [Next]_vars,
         after = "CIPSTA", image' # image, Erased', Read.dhcpMode = 3, image'.dhcpMode = 1
  PROVE  image'.netConfig = arg
  <1>1. Erase
    <2>1. ASSUME NEW m, CwMode(m) PROVE UNCHANGED eeprom
      BY <2>1 DEF CwMode
    <2>2. ~Reset /\ ~Write /\ ~UNCHANGED image
      BY DEF Reset, Cleared, Write, Erased
    <2>3. ~Command
      BY <2>1, <2>2 DEF Command, Uart, CwDhcp, CipSta, CipAp, CipDns, CipSslCertMax, Restore,
                        Query, CwJap, Accepts, eeprom
    <2> QED  BY <2>2, <2>3 DEF Next, Eeprom, Setup, Unchanged, CipStaEnds, CipApEnds,
                CipDnsEnds, JoinEnds, LeaseGot, InterfaceOn, eeprom, vars
  <1>2. todo # <<>> /\ ~Erased /\ image' = Updated(Read, Head(todo))
    BY <1>1 DEF Erase
  <1>3. "dhcpMode" \in Fields /\ "netConfig" \in Fields /\ "netConfig" \in UsedFields
    BY DEF Fields, UsedFields
  <1>4. CASE todo = CipStaUpdates(arg)
    <2>1. Head(todo) = Set("netConfig", arg)
      BY <1>4 DEF CipStaUpdates
    <2>2. "dhcpMode" \notin DOMAIN Head(todo)
      BY <2>1 DEF Set
    <2>3. image'.dhcpMode = 3
      BY <1>2, <1>3, <2>2, UpdatedField
    <2> QED  BY <2>3
  <1>5. CASE todo = <<Set("dhcpMode", 1)>> /\ "netConfig" \notin cur
    <2>1. Len(todo) = 1 /\ todo[1] = Set("dhcpMode", 1) /\ Head(todo) = Set("dhcpMode", 1)
      BY <1>5
    <2>2. "netConfig" \notin DOMAIN Set("dhcpMode", 1)
      BY DEF Set
    <2>3. Writers("netConfig") = {}
      BY <2>1, <2>2 DEF Writers
    <2>4. WillStore("netConfig", Promised("netConfig")) /\ Promised("netConfig") = arg
      BY <1>3, <1>5 DEF StoredInv, PromiseInv, Promised
    <2>5. Read["netConfig"] = arg
      BY <1>2, <2>3, <2>4 DEF WillStore, Stored
    <2> QED  BY <1>2, <1>3, <2>1, <2>2, <2>5, UpdatedField
  <1> QED  BY <1>2, <1>4, <1>5 DEF StoredInv, AddressInv

\* CIPSTA never stores that DHCP is off before its address is stored, whatever the
\* record held and whatever was lost before.
THEOREM AddressBeforeDhcpOffCorrect ==
  ASSUME SettingsAssumption
  PROVE  Spec => AddressBeforeDhcpOff
  <1>1. TypeOK /\ CommitInv /\ StoredInv /\ [Next]_vars
          => [after = "CIPSTA" /\ image' # image /\ Erased' /\ Read.dhcpMode = 3
                /\ image'.dhcpMode = 1 => image'.netConfig = arg]_vars
    BY AddressStep
  <1> QED  BY <1>1, SettingsTypeCorrect, StoredInvCorrect, PTL DEF Spec, AddressBeforeDhcpOff

=============================================================================
