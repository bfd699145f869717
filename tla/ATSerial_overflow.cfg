SPECIFICATION Spec

CONSTANTS
  Styles = {"deserted"}
  INPUT_BUFFER_LEN = 3
  MAX_PEM_CERT_LENGTH = 3
  SendLength = 4
  UartSize = 3

PROPERTY PayloadSent
