SPECIFICATION Spec
CONSTANTS
  kDataSize = 13
  kRecordHeaderLen = 3
  kCmdRecordLenMax = 4
  kFrameRecordLen = 6
  kStateRecordLen = 4
  SeqMod = 64
  Budget = 9
  MaxSeq = 6
  MaxResets = 1
  MaxBootExtras = 1
INVARIANTS RingSound RepliesExact
PROPERTIES ImplementsLog LiveBytesUntouched RingLeftToHeap
