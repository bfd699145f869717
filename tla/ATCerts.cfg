SPECIFICATION Spec

CONSTANTS
  Certs = {c1, c2}
  BuiltIn = c1
  Fingerprints = {f1}
  Maxima = {1, 3}
  SslSizes = {16384}
  MAX_PEM_CERT_LENGTH = 3
  MaxReceived = 4
  MaxLists = 3
  None = None

INVARIANTS
  TypeOK
  NoDuplicates
  ServerChecked
  TextNormalised

PROPERTIES
  AnchorsStay
  WithinMaximum
