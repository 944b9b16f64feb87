SPECIFICATION Spec
CONSTANTS
  Names = {1, 2, 3}
  Pat = {1, 2}
  MaxCount = 3
  MaxFiles = 3
INVARIANT OpensItsPattern
