CONSTANTS
  Leaves = {"OP_SD_READ", "OP_USB_WRITE"}
SPECIFICATION Spec
INVARIANTS
  TypeOK
  WatchdogSound
  RecordsTrue
PROPERTIES
  NoFalseReset
  HangEndsInReset
