SPECIFICATION Spec
CONSTANTS
  Names = {1, 2, 3}
  Pat = {1, 2}
  MaxCount = 2
  Sources = {"net", "serial"}
  Dropping = {"net"}
  InitFiles = {1, 2}
  Chunks = 2
INVARIANTS CardSound TransfersKeepTheirFile
PROPERTIES ReadersUndisturbed IndexStable SourceServedAgain
