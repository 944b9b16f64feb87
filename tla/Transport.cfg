CONSTANTS
  Kinds = {"serial", "net"}
  PayLen = 2
  RxSize = 2
  PipeSize = 2
  TxSize = 2
  Sizes <- MCSizes
SPECIFICATION Spec
INVARIANTS
  AnswersExact
  FramesStayAligned
  ArchivePromise
PROPERTIES
  RawStreamClean
  CommandConsumed
