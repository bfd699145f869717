SPECIFICATION FairSpec

CONSTANTS
  Styles = {"patient", "deserted", "hasty"}
  INPUT_BUFFER_LEN = 3
  MAX_PEM_CERT_LENGTH = 3
  SendLength = 4
  UartSize = 3

INVARIANTS
  TypeOK
  InSync

PROPERTIES
  PayloadIntact
  Answered
  HeardAgain
