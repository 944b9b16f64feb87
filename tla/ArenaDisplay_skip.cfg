SPECIFICATION Spec
CONSTANTS
  Patterns = {1}
  Frames <- MCFrames
  Gray <- MCGray
  DisplayModes = {0}
  Duties = {0, 9}
  TrialModes = {"SHOW_FRAME"}
  Durations = {FALSE}
  Indices = {0, 1}
  ExplicitRates = {}
  Commands = {"STOP", "TRIAL_PARAMS", "SET_FRAME_POSITION", "SET_PANEL_DISPLAY_MODE", "SET_AO_MODE", "SET_AO_VOLTAGE", "SET_AO_LUT", "SET_SD_DIAG", "DELETE_PATTERN"}
  SupersededMax = 0
  TimerCanFail = FALSE
INVARIANT SkipIsSound
