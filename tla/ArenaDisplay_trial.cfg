SPECIFICATION FairSpec
CONSTANTS
  Patterns = {1}
  Frames <- MCFrames
  Gray <- MCGray
  DisplayModes = {1}
  Duties = {0}
  TrialModes = {"OPEN_LOOP"}
  Durations = {TRUE}
  Indices = {0, 1}
  ExplicitRates = {}
  Commands = {"STOP", "TRIAL_PARAMS", "SET_FRAME_POSITION"}
  SupersededMax = 0
  TimerCanFail = TRUE
INVARIANTS DisplaySound
PROPERTIES DisplaysEnd LoadedFrameShown
