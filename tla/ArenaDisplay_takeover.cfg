SPECIFICATION Spec
CONSTANTS
  Patterns = {1, 2}
  Frames <- MCFrames
  Gray <- MCGray
  DisplayModes = {1}
  Duties = {0}
  TrialModes = {"OPEN_LOOP", "SHOW_FRAME", "CLOSED_LOOP"}
  Durations = {FALSE}
  Indices = {0, 1, 2}
  ExplicitRates = {50}
  Commands = {"STOP", "SET_PATTERN_ID", "SET_FRAME_POSITION", "ALL_ON", "DISPLAY_PSRAM_INDEX", "PSRAM_PLAY", "STREAM_FRAME", "SET_REFRESH_RATE", "TRANSFER", "REFUSED"}
  SupersededMax = 1
  TimerCanFail = FALSE
INVARIANTS CachedFactsTrue
PROPERTIES SupersededExact UsesClock
