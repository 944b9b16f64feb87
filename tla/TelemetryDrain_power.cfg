SPECIFICATION FairDrainSpec
CONSTANTS
  SeqMod = 64
  Capacity = 3
  BlockRecords = 2
  LateReplies = FALSE
  MaxInFlight = 1
  MaxSeq = 5
  MaxPowerCycles = 1
INVARIANTS HostLogExact
PROPERTY EventuallyStored
