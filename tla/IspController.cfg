CONSTANTS
  Pages = 2
  Images = {"a", "b"}
  Corrupt = "x"
  Clocks = {10, 20}
  BootClock = 10
SPECIFICATION Spec
INVARIANTS
  IspSound
  NeverBricked
PROPERTIES
  ReportIsTrue
  CommandEnds
