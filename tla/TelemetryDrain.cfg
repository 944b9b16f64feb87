SPECIFICATION FairDrainSpec
CONSTANTS
  SeqMod = 64
  Capacity = 3
  BlockRecords = 2
  LateReplies = TRUE
  MaxInFlight = 2
  MaxSeq = 5
  MaxPowerCycles = 1
INVARIANT NothingSilentlyLost
PROPERTY FreesOnlyStored
