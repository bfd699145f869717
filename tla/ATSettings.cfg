SPECIFICATION Spec

CONSTANTS
  Ips = {0, 1, 2}
  DnsServers = {"10.0.0.1"}
  BaudRates = {115200, 9600}
  UartConfigs = {"8N1", "7E1"}
  MaxCerts = {3}
  Hosts = {{"CIPSTA", "CWDHCP", "CIPDNS", "CWMODE", "RESTORE", "CWJAP"},
           {"UART", "CIPAP", "CIPSSLCERTMAX", "CWMODE", "RESTORE"}}

INVARIANTS
  TypeOK
  InUseIsStored
  StaticInForce
  DhcpAsReported
  ApInForce
  UnassignedNeverUsed

PROPERTIES
  AddressBeforeDhcpOff
  ImplementsSettingsStore
