----------------------------- MODULE ArenaDisplay -----------------------------
(***************************************************************************)
(* CommandProcessor's display state machine: the commands that start,      *)
(* change and stop the display, the frame buffer they share, the refresh   *)
(* timer they arm, and serviceDisplay(), which loop() runs after the       *)
(* commands of each pass.  The handlers and serviceDisplay() run to        *)
(* completion in loop(); only the timer's tick comes from an interrupt.    *)
(*                                                                         *)
(* The state the C++ functions share is one record, d, and each function   *)
(* is an operator from such a record to the next one, so that a handler    *)
(* that calls three of them is their composition.  Pixels are abstracted   *)
(* to where a frame came from; time to the fact that a deadline passes.    *)
(***************************************************************************)
EXTENDS Naturals, FiniteSets

CONSTANTS
  Patterns,         \* ids of the patterns on the card
  Frames,           \* frames of each pattern
  Gray,             \* "gs2" or "gs16", the block size of each pattern
  DisplayModes,     \* panel display modes in use, out of 0 .. 3
  Duties,           \* trial duties in use; 0 = the stored one
  TrialModes,       \* the play states TRIAL_PARAMS asks for
  Durations,        \* subset of BOOLEAN: a trial may get a deadline; a duration gives
                    \* none when millis() + duration is 0 (mod 2^32)
  Indices,          \* frame positions the host asks for
  ExplicitRates,    \* rates SET_REFRESH_RATE sets
  Commands,         \* the commands the host uses
  SupersededMax,    \* 0xFF: superseded_pending_ saturates
  TimerCanFail      \* IntervalTimer::begin() may find no free channel

Bytes == 0 .. 255

ASSUME DisplayAssumption ==
  /\ Patterns \subseteq Nat \ {0}
  /\ Frames \in [Patterns -> Nat \ {0}]
  /\ \A p \in Patterns : Frames[p] <= 65535     \* frame_count is a uint16_t
  /\ Gray \in [Patterns -> {"gs2", "gs16"}]
  /\ DisplayModes \subseteq 0 .. 3
  /\ Duties \subseteq Bytes
  /\ TrialModes \subseteq {"OPEN_LOOP", "SHOW_FRAME", "CLOSED_LOOP"}
  /\ Durations \subseteq BOOLEAN /\ Indices \subseteq Nat
  /\ ExplicitRates \subseteq Nat \ {0}
  /\ SupersededMax \in Nat
  /\ TimerCanFail \in BOOLEAN

VARIABLE d

PlayStates == {"OPEN_LOOP", "SHOW_FRAME", "CLOSED_LOOP"}
States == PlayStates \cup {"ALL_OFF", "ALL_ON", "STREAMING_FRAME", "PSRAM_PLAY", "ERROR_DISPLAY"}
Strides == {"gs2", "gs16", "psram"}

defaultRefreshFor(stride) == IF stride = "gs2" THEN 1000 ELSE 300
Rates == {300, 1000} \cup ExplicitRates

None    == 65535   \* tel_last_frame_ / tel_last_pattern_: nothing recorded yet
Garbled == 256     \* a mode or duty byte patched at the wrong stride

\* What frame_buf_ holds: where it came from, the block size it was written
\* with, and the display mode and duty its blocks carry.
Content(kind, pat, idx, stride, mode) ==
  [kind |-> kind, pat |-> pat, idx |-> idx, stride |-> stride, mode |-> mode, duty |-> 0]

Dark == Content("dark", 0, 0, "gs2", 1)

\* What the panels hold, as far as the properties tell it apart.
Shown(content) == [kind |-> content.kind, pat |-> content.pat, idx |-> content.idx]

Init ==
  d = [state      |-> "ALL_OFF",
       block      |-> "gs2",       \* block_byte_count_
       refresh    |-> 300,         \* refresh_rate_hz_
       explicit   |-> FALSE,       \* refresh_rate_explicit_
       mode       |-> 1,           \* panel_disp_mode_
       armed      |-> 0,           \* the timer's rate
       tick       |-> FALSE,       \* refreshFlag
       open       |-> 0,           \* the pattern file SdManager has open
       pattern    |-> 0,           \* pattern_id_
       count      |-> 0,           \* frame_count_
       cur        |-> 0,           \* cur_frame_index_
       moving     |-> FALSE,       \* frame_rate_hz_ # 0
       many       |-> FALSE,       \* psram_play_count_ > 1
       duty       |-> 0,           \* trial_duty_
       deadline   |-> FALSE,       \* trial_end_ms_ # 0
       buf        |-> Dark,        \* frame_buf_
       filled     |-> FALSE,       \* frame_byte_count_ # 0
       isFrame    |-> FALSE,       \* frame_buf_is_frame_
       cacheOk    |-> FALSE,       \* sd_cache_ok_
       presented  |-> FALSE,       \* buf_presented_
       superseded |-> 0,           \* superseded_pending_
       telFrame   |-> None,        \* tel_last_frame_
       telPattern |-> None,        \* tel_last_pattern_
       skip       |-> TRUE,        \* sd_skip_same_index_
       ao         |-> "programmable",
       dac        |-> None,        \* the frame the DAC level stands for
       lateBlank  |-> TRUE,        \* late_boot_blank_pending_
       busy       |-> FALSE,       \* dl_active_, ul_active_ or ar_active_
       \* history: what the panels hold, whether they got the buffer's
       \* content, the writes to the buffer (mod 3: one handler makes at most
       \* two), and whether the trial the deadline was set for is what the
       \* display is doing
       panel      |-> Shown(Dark),
       seen       |-> TRUE,
       gen        |-> 0,
       timed      |-> FALSE]

\* What the environment decides during one call: the timer has a free
\* channel, the SD read and its CRC succeed, the DAC acknowledges.  EnvOf
\* leaves out the answers that the call cannot ask for.
Arms == IF TimerCanFail THEN BOOLEAN ELSE {TRUE}
Env  == [arm : Arms, read : BOOLEAN, dac : BOOLEAN]

EnvOf(reads) ==
  [arm : Arms, read : IF reads THEN BOOLEAN ELSE {TRUE},
   dac : IF reads /\ d.ao \in {"frame_number", "lut_frame"} THEN BOOLEAN ELSE {TRUE}]

----------------------------------------------------------------------------
(* The timer, as FrameClock has it. *)

\* Mutant: a tick that is already there survives the timer.
disarm_KeepsTick(x) == [x EXCEPT !.armed = 0]

disarm(x) == [x EXCEPT !.armed = 0, !.tick = FALSE]

\* Fails only when a stopped timer finds no channel.
armOk(x, e) == x.armed # 0 \/ e.arm

arm(x, hz, e) == IF armOk(x, e) THEN [x EXCEPT !.armed = hz] ELSE x

----------------------------------------------------------------------------
(* The frame buffer. *)

Write(x, content) ==
  [x EXCEPT !.buf = content, !.seen = FALSE, !.gen = (@ + 1) % 3]

\* An SD frame that is replaced before any transfer is counted.
countSuperseded(x) ==
  IF x.isFrame /\ ~x.presented /\ x.superseded < SupersededMax
    THEN x.superseded + 1 ELSE x.superseded

\* Mutant: the buffer changes hands without being disowned.
invalidateFrameBuf_KeepsFrame(x) ==
  [x EXCEPT !.superseded = countSuperseded(x), !.cacheOk = FALSE, !.presented = FALSE]

invalidateFrameBuf(x) ==
  [x EXCEPT !.superseded = countSuperseded(x),
            !.isFrame = FALSE, !.cacheOk = FALSE, !.presented = FALSE]

\* Rewrites the mode in every block, at the stride in force.
patchDispMode(x) ==
  IF ~x.filled THEN x
  ELSE [x EXCEPT !.buf.mode = IF x.block = x.buf.stride THEN x.mode ELSE Garbled]

patchTrialDuty(x) ==
  IF x.duty = 0 \/ x.block = "psram" THEN x
  ELSE [x EXCEPT !.buf.duty = IF x.block = x.buf.stride THEN x.duty ELSE Garbled]

\* transferFrame(): the panels get the buffer.
transferFrame(x) == [x EXCEPT !.panel = Shown(x.buf), !.seen = TRUE]

----------------------------------------------------------------------------
(* Transitions. *)

\* Mutant: the dark frame is built and never sent.
enterAllOff_NoTransfer(x) ==
  [Write(invalidateFrameBuf(disarm(x)), Dark)
     EXCEPT !.block = "gs2", !.state = "ALL_OFF", !.filled = FALSE, !.duty = 0, !.timed = FALSE]

enterAllOff(x) ==
  LET dark == Write(invalidateFrameBuf(disarm(x)), Dark)
  IN  [transferFrame(dark) EXCEPT !.block = "gs2", !.state = "ALL_OFF", !.filled = FALSE,
                                  !.duty = 0, !.timed = FALSE]

\* buildErrorFrame() writes one-shot GS16 blocks whatever the display mode.
showError(x, e) ==
  LET glyph == Write(invalidateFrameBuf(disarm(x)), Content("glyph", 0, 0, "gs16", 0))
      shown == [glyph EXCEPT !.block = "gs16", !.filled = TRUE, !.state = "ERROR_DISPLAY",
                             !.timed = FALSE]
  IN  arm(shown, IF x.explicit THEN x.refresh ELSE defaultRefreshFor("gs16"), e)

setDefaultRefresh(x) ==
  IF x.explicit THEN x ELSE [x EXCEPT !.refresh = defaultRefreshFor(x.block)]

enterAllOn(x, e) ==
  LET y == setDefaultRefresh([disarm(x) EXCEPT !.block = "gs16"])
      z == Write(invalidateFrameBuf(y), Content("on", 0, 0, "gs16", x.mode))
  IN  arm([z EXCEPT !.filled = TRUE, !.state = "ALL_ON", !.timed = FALSE], z.refresh, e)

\* The read fails when the file is closed or the index is beyond its end.
readOk(x, index, e) == x.open # 0 /\ index < Frames[x.open] /\ e.read

\* Mutant: a DAC write that failed leaves the frame reusable.
deriveOutputs_IgnoresError(x, index, e) ==
  IF x.ao \in {"frame_number", "lut_frame"}
    THEN [x EXCEPT !.dac = IF e.dac THEN index ELSE @, !.cacheOk = TRUE]
    ELSE [x EXCEPT !.cacheOk = TRUE]

\* The outputs derived from the frame index; reuse needs them written.
deriveOutputs(x, index, e) ==
  IF x.ao \in {"frame_number", "lut_frame"}
    THEN [x EXCEPT !.dac = IF e.dac THEN index ELSE @, !.cacheOk = e.dac]
    ELSE [x EXCEPT !.cacheOk = TRUE]

loadFrame(x, index, e) ==
  LET y == [x EXCEPT !.superseded = countSuperseded(x), !.isFrame = FALSE, !.presented = FALSE]
      z == [Write(y, Content("sd", x.open, index, Gray[x.open], 1))
              EXCEPT !.filled = TRUE, !.isFrame = TRUE]
  IN  IF ~readOk(x, index, e) THEN showError(y, e)
      ELSE deriveOutputs(patchTrialDuty(patchDispMode(z)), index, e)

\* SdManager::openPattern(): a pattern that is open is reused, or reopened
\* when the seek mode changed; otherwise the open file is closed first.  No
\* card: the open file is kept.
openOutcomes(x, p) ==
  IF x.open = p THEN {p, 0} ELSE {p, 0, x.open}

\* result: the file open afterwards; the open succeeded when it is p.
enterPatternMode(x, target, p, moves, init, lasts, result, e) ==
  LET left   == invalidateFrameBuf(disarm(x))
      opened == [left EXCEPT !.open = p, !.pattern = p, !.count = Frames[p], !.block = Gray[p],
                             !.moving = moves, !.cur = init % Frames[p]]
      loaded == loadFrame(opened, opened.cur, e)
      begun  == [setDefaultRefresh(loaded) EXCEPT !.deadline = lasts, !.state = target]
  IN  IF result # p THEN showError([left EXCEPT !.open = result], e)
      ELSE IF ~readOk(opened, opened.cur, e) THEN loaded
      ELSE IF ~armOk(begun, e) THEN enterAllOff(begun)
      ELSE [arm(begun, begun.refresh, e) EXCEPT !.telFrame = None, !.telPattern = None]

----------------------------------------------------------------------------
(* The host's commands. *)

Sends(command) == command \in Commands

StopDisplay == Sends("STOP") /\ d' = enterAllOff(d)

AllOn(e) == Sends("ALL_ON") /\ ~d.busy /\ d' = enterAllOn(d, e)

\* Trial start in Mode 2, 3 or 4.  A trial that fails to start takes its
\* duty back.
TrialParams(target, p, moves, init, duty, lasts, result, e) ==
  /\ Sends("TRIAL_PARAMS") /\ ~d.busy
  /\ LET x == enterPatternMode([d EXCEPT !.duty = duty], target, p, moves, init,
                               lasts, result, e)
     IN  d' = IF x.state = target THEN [x EXCEPT !.timed = lasts]
                                  ELSE [x EXCEPT !.duty = 0]

SetPatternId(p, result, e) ==
  /\ Sends("SET_PATTERN_ID") /\ ~d.busy
  /\ d' = LET x == enterPatternMode([d EXCEPT !.duty = 0], "SHOW_FRAME", p, FALSE, 0,
                                    FALSE, result, e)
          IN  [x EXCEPT !.timed = FALSE]

\* The frame asked for is the one in the buffer, with its outputs applied
\* and the timer running at the current rate: no SD read.
sameFrameHeld(x, index) ==
  /\ x.skip /\ x.state = "SHOW_FRAME" /\ x.isFrame /\ x.cacheOk
  /\ index = x.cur /\ x.armed = x.refresh

\* Mutant: the timer is stopped and restarted for every position.
takePosition_Disarms(x, index) == [disarm(x) EXCEPT !.cur = index]

\* The running timer is left alone while the buffer is refilled.
takePosition(x, index) == [x EXCEPT !.cur = index]

SetFramePosition(index, e) ==
  /\ Sends("SET_FRAME_POSITION")
  /\ d' = IF d.open = 0 \/ index >= d.count THEN showError(d, e)
          ELSE IF sameFrameHeld(d, index) THEN d
          ELSE LET asked == takePosition(d, index)
                   shown == setDefaultRefresh([loadFrame(asked, index, e)
                                                 EXCEPT !.state = "SHOW_FRAME"])
               IN  IF readOk(asked, index, e) THEN arm(shown, shown.refresh, e)
                                              ELSE loadFrame(asked, index, e)

\* One frame of identical "display PSRAM index" blocks.
buildPsramFrame(x) ==
  [Write(invalidateFrameBuf(x), Content("psram", 0, 0, "psram", x.mode))
     EXCEPT !.block = "psram", !.filled = TRUE]

DisplayPsramIndex(e) ==
  /\ Sends("DISPLAY_PSRAM_INDEX")
  /\ LET x == setDefaultRefresh([buildPsramFrame(d) EXCEPT !.many = FALSE,
                                 !.state = "PSRAM_PLAY", !.timed = FALSE])
     IN  d' = arm(x, x.refresh, e)

\* Arms at the default rate without making it the current one.
PsramPlay(moves, many, e) ==
  /\ Sends("PSRAM_PLAY")
  /\ LET x == [buildPsramFrame(d) EXCEPT !.many = many, !.moving = moves,
                                         !.state = "PSRAM_PLAY", !.timed = FALSE]
     IN  d' = arm(x, IF x.explicit THEN x.refresh ELSE defaultRefreshFor("psram"), e)

\* A streamed frame re-arms on entry or when the default rate changes; one of
\* a size that is neither GS2 nor GS16 stops the display.
StreamFrame(stride, e) ==
  /\ Sends("STREAM_FRAME")
  /\ LET held  == patchDispMode([Write(invalidateFrameBuf(d), Content("stream", 0, 0, stride, 1))
                                   EXCEPT !.filled = TRUE, !.block = stride])
         rated == setDefaultRefresh(held)
         rearm == d.state # "STREAMING_FRAME" \/ rated.refresh # d.refresh
         shown == [disarm(rated) EXCEPT !.state = "STREAMING_FRAME", !.timed = FALSE]
     IN  d' = IF stride \notin {"gs2", "gs16"} THEN enterAllOff(d)
              ELSE IF rearm THEN arm(shown, shown.refresh, e)
              ELSE rated

SetRefreshRate(hz, e) ==
  /\ Sends("SET_REFRESH_RATE")
  /\ LET x == [d EXCEPT !.refresh = hz, !.explicit = TRUE]
     IN  d' = IF d.state = "ALL_OFF" THEN x ELSE arm(x, hz, e)

SetPanelDisplayMode(mode) ==
  /\ Sends("SET_PANEL_DISPLAY_MODE")
  /\ d' = patchDispMode([d EXCEPT !.mode = mode])

SetAoMode(mode, e) ==
  /\ Sends("SET_AO_MODE")
  /\ d' = [d EXCEPT !.cacheOk = FALSE,
                    !.ao = IF mode = 1 THEN "frame_number"
                           ELSE IF @ = "frame_number" THEN "programmable" ELSE @,
                    !.dac = IF mode = 1 /\ d.count > 0 /\ e.dac THEN d.cur ELSE @]

SetAoVoltage(e) ==
  /\ Sends("SET_AO_VOLTAGE") /\ d.ao # "frame_number" /\ e.dac
  /\ d' = [d EXCEPT !.ao = "programmable", !.dac = None]

\* The reuse gate drops even when the table is refused.
SetAoLut(lut, accepted, e) ==
  /\ Sends("SET_AO_LUT")
  /\ d' = IF d.ao = "frame_number" \/ ~accepted THEN [d EXCEPT !.cacheOk = FALSE]
          ELSE IF ~e.dac THEN [d EXCEPT !.cacheOk = FALSE, !.ao = "programmable"]
          ELSE [d EXCEPT !.cacheOk = FALSE, !.ao = lut,
                         !.dac = IF lut = "lut_frame" THEN 0 ELSE None]

SetSdDiag(skip) ==
  /\ Sends("SET_SD_DIAG")
  /\ d' = [d EXCEPT !.skip = skip, !.cacheOk = @ /\ skip]

\* An unknown opcode, or a display command whose length or mode is refused.
Refused(e) == Sends("REFUSED") /\ d' = showError(d, e)

\* Deleting or renaming the pattern that is open closes its file, whatever
\* the display is doing.
CloseOpenPattern ==
  /\ Sends("DELETE_PATTERN") /\ d.open # 0
  /\ d' = [d EXCEPT !.open = 0]

\* Downloads, uploads and archives start only from ALL_OFF.
TransferBegins ==
  /\ Sends("TRANSFER") /\ d.state = "ALL_OFF" /\ ~d.busy
  /\ d' = [d EXCEPT !.busy = TRUE]

TransferEnds == d.busy /\ d' = [d EXCEPT !.busy = FALSE]

----------------------------------------------------------------------------
(* The loop's own work, and the interrupt. *)

\* Mutant: the transfer does not mark the buffer as presented.
transmitOnRefresh_NotPresented(x) ==
  LET sent == [transferFrame(x) EXCEPT !.tick = FALSE]
  IN  IF ~x.tick THEN x
      ELSE IF x.cur = x.telFrame /\ x.pattern = x.telPattern THEN sent
      ELSE [sent EXCEPT !.telFrame = x.cur, !.telPattern = x.pattern, !.superseded = 0]

\* One FRAME record per change of index or pattern.
transmitOnRefresh(x) ==
  LET sent == [transferFrame(x) EXCEPT !.tick = FALSE, !.presented = TRUE]
  IN  IF ~x.tick THEN x
      ELSE IF x.cur = x.telFrame /\ x.pattern = x.telPattern THEN sent
      ELSE [sent EXCEPT !.telFrame = x.cur, !.telPattern = x.pattern, !.superseded = 0]

\* Moves by steps frames and loads once; steps = 0 when not due or static.
advance(x, steps, e) ==
  IF steps = 0 THEN x
  ELSE LET cur == (x.cur + steps) % x.count
       IN  loadFrame([x EXCEPT !.cur = cur], cur, e)

\* How far the pass may move the frame index.  Mode 2 clamps to a full turn;
\* Mode 4 may come back to the frame it left.
stepsOf(x) ==
  CASE x.state = "OPEN_LOOP" /\ x.moving /\ x.count > 1 -> 0 .. x.count
    [] x.state = "CLOSED_LOOP" /\ x.count > 0 -> 0 .. x.count
    [] x.state = "PSRAM_PLAY" /\ x.moving /\ x.many -> {0, 1}
    [] OTHER -> {0}

\* Mutant: only the mode that advances by itself looks at the deadline.
trialOver_OpenLoop(x, due) == x.deadline /\ due /\ x.state = "OPEN_LOOP"

\* serviceTrialTimer(), in every state.
trialOver(x, due) == x.deadline /\ due

\* The glyph is refreshed, and given up once it has been held long enough.
serviceError(x, held) ==
  IF held THEN enterAllOff(transmitOnRefresh(x)) ELSE transmitOnRefresh(x)

\* serviceDisplay(): due, the trial deadline has passed; held, the glyph has
\* been shown long enough.
ServiceDisplay(due, held, steps, e) ==
  d' = IF trialOver(d, due) THEN enterAllOff([d EXCEPT !.deadline = FALSE])
       ELSE CASE d.state = "ALL_OFF" -> d
              [] d.state \in {"ALL_ON", "STREAMING_FRAME", "SHOW_FRAME"} -> transmitOnRefresh(d)
              [] d.state \in {"OPEN_LOOP", "CLOSED_LOOP"} -> transmitOnRefresh(advance(d, steps, e))
              [] d.state = "PSRAM_PLAY" ->
                   transmitOnRefresh(IF steps = 0 THEN d ELSE buildPsramFrame(d))
              [] d.state = "ERROR_DISPLAY" -> serviceError(d, held)

\* The boot blank is repeated once, unless the host has started something.
LateBootBlank ==
  /\ d.lateBlank
  /\ d' = LET x == [d EXCEPT !.lateBlank = FALSE]
          IN  IF d.state = "ALL_OFF" /\ ~d.busy THEN enterAllOff(x) ELSE x

RefreshTick == d.armed # 0 /\ ~d.tick /\ d' = [d EXCEPT !.tick = TRUE]

----------------------------------------------------------------------------
\* Both residues of an initial position, in and out of the pattern's range.
InitialPositions(p) == {0, Frames[p] + 1}

StartTrial ==
  \E target \in TrialModes, p \in Patterns, duty \in Duties, lasts \in Durations, e \in EnvOf(TRUE) :
    \E moves \in IF target = "OPEN_LOOP" THEN BOOLEAN ELSE {FALSE},
       init \in InitialPositions(p), result \in openOutcomes(d, p) :
      TrialParams(target, p, moves, init, duty, lasts, result, e)

HostCommand ==
  \/ StopDisplay
  \/ \E e \in EnvOf(FALSE) : AllOn(e)
  \/ StartTrial
  \/ \E p \in Patterns, e \in EnvOf(TRUE) :
       \E result \in openOutcomes(d, p) : SetPatternId(p, result, e)
  \/ \E index \in Indices, e \in EnvOf(TRUE) : SetFramePosition(index, e)
  \/ \E e \in EnvOf(FALSE) : DisplayPsramIndex(e)
  \/ \E moves \in BOOLEAN, many \in BOOLEAN, e \in EnvOf(FALSE) : PsramPlay(moves, many, e)
  \/ \E stride \in {"gs2", "gs16", "other"}, e \in EnvOf(FALSE) : StreamFrame(stride, e)
  \/ \E hz \in ExplicitRates, e \in EnvOf(FALSE) : SetRefreshRate(hz, e)
  \/ \E mode \in DisplayModes : SetPanelDisplayMode(mode)
  \/ \E mode \in {0, 1}, e \in Env : SetAoMode(mode, e)
  \/ \E e \in Env : SetAoVoltage(e)
  \/ \E lut \in {"lut_frame", "lut_time"}, accepted \in BOOLEAN, e \in Env :
       SetAoLut(lut, accepted, e)
  \/ \E skip \in BOOLEAN : SetSdDiag(skip)
  \/ \E e \in EnvOf(FALSE) : Refused(e)
  \/ CloseOpenPattern
  \/ TransferBegins

Service ==
  \E due \in {FALSE, d.deadline}, held \in {FALSE, d.state = "ERROR_DISPLAY"},
     steps \in stepsOf(d) :
    \E e \in EnvOf(steps > 0) : ServiceDisplay(due, held, steps, e)

Next == HostCommand \/ Service \/ LateBootBlank \/ TransferEnds \/ RefreshTick

Spec == Init /\ [][Next]_d

\* loop() runs for ever and a running timer ticks.  A trial's deadline and the
\* end of the glyph's hold are reached, unless the host keeps moving them: the
\* properties that rest on those two exclude such a host.
Fairness ==
  /\ WF_d(RefreshTick)
  /\ WF_d(Service)
  /\ WF_d(d.deadline /\ Service /\ ~d'.deadline)
  /\ WF_d(d.state = "ERROR_DISPLAY" /\ Service /\ d'.state = "ALL_OFF")

FairSpec == Spec /\ Fairness

----------------------------------------------------------------------------
(* Properties. *)

ContentType ==
  [kind : {"sd", "dark", "on", "stream", "psram", "glyph"}, pat : Patterns \cup {0}, idx : Nat,
   stride : Strides, mode : 0 .. 3 \cup {Garbled}, duty : Bytes \cup {Garbled}]

TypeOK ==
  /\ d.state \in States
  /\ d.block \in Strides
  /\ d.refresh \in Rates /\ d.armed \in Rates \cup {0}
  /\ {d.open, d.pattern} \subseteq Patterns \cup {0}
  /\ d.cur \in Nat /\ (d.count > 0 => d.cur < d.count)
  /\ d.buf \in ContentType
  /\ d.superseded \in 0 .. SupersededMax
  /\ d.ao \in {"programmable", "frame_number", "lut_frame", "lut_time"}

\* ALL_OFF means dark and quiet: the panels hold the dark frame, the timer is
\* stopped and no tick is left that a later display would start with.
DarkWhenOff ==
  d.state = "ALL_OFF" => d.panel.kind = "dark" /\ d.armed = 0 /\ ~d.tick

\* frame_buf_is_frame_ tells the truth: the buffer holds frame
\* cur_frame_index_ of pattern_id_, whoever wrote to the buffer in between.
HeldFrameIsCurrent ==
  d.isFrame => d.buf.kind = "sd" /\ d.buf.pat = d.pattern /\ d.buf.idx = d.cur

\* The same-index shortcut of SET_FRAME_POSITION is sound: when it applies,
\* the buffer is the frame asked for, of the open pattern, with the duty of
\* the trial and the panel display mode in force (as far as the buffer was
\* patched at its own stride), and the analog output stands for that frame.
SkipIsSound ==
  \A index \in Indices : d.open # 0 /\ sameFrameHeld(d, index) =>
    /\ d.buf.kind = "sd" /\ d.buf.pat = d.open /\ d.buf.idx = index
    /\ d.block = d.buf.stride => d.buf.mode = d.mode /\ d.buf.duty = d.duty
    /\ d.ao \in {"frame_number", "lut_frame"} => d.dac = index

\* GET_REFRESH_RATE reports the rate in force while a frame is displayed,
\* and with a timer at hand a display that is on is always being refreshed.
RateInForce ==
  /\ d.state \in PlayStates \cup {"ALL_ON", "STREAMING_FRAME"} /\ d.armed # 0
       => d.armed = d.refresh
  /\ d.state # "ALL_OFF" /\ ~TimerCanFail => d.armed # 0

AtMost(n) == IF n > SupersededMax THEN SupersededMax ELSE n

\* This step writes a FRAME record (a trial start resets telFrame to None).
Records ==
  /\ d'.telFrame # None
  /\ <<d'.telFrame, d'.telPattern>> # <<d.telFrame, d.telPattern>>

\* superseded_pending_ counts every SD frame that is replaced before any
\* transfer, once, whichever of the buffer's writers replaces it, and is
\* handed over to the FRAME record that comes next.  A handler writes the
\* buffer twice when a trial has loaded its first frame and then finds no
\* timer: that frame is lost as well.
SupersededExact ==
  [][LET writes == (d'.gen + 3 - d.gen) % 3
         lost   == (IF d.buf.kind = "sd" /\ ~d.seen /\ writes # 0 THEN 1 ELSE 0)
                     + (IF writes = 2 THEN 1 ELSE 0)
     IN  d'.superseded = IF Records THEN 0 ELSE AtMost(d.superseded + lost)]_d

\* Every use of the refresh timer is a step of the clock it promises.
Clock == INSTANCE FrameClock WITH rate <- d.armed, tick <- d.tick

UsesClock == Clock!ClockSpec

\* A trial is started: a step that fills the buffer anew, as every start does.
NewTrial == d'.gen # d.gen /\ StartTrial

\* Once the host stops restarting trials, a frame loaded from the card
\* reaches the panels or is replaced by something else, unless the timer
\* could not be armed: a stream of SET_FRAME_POSITIONs cannot starve the
\* display.
LoadedFrameShown ==
  <>[][~NewTrial]_d
    => (d.isFrame /\ ~d.seen ~> d.seen \/ ~d.isFrame \/ d.armed = 0)

\* Once no new error comes up, the glyph gives way to the dark arena or to what
\* the host starts.
GlyphEnds ==
  <>[][d'.gen # d.gen => d'.buf.kind # "glyph"]_d
    => (d.state = "ERROR_DISPLAY" ~> d.state # "ERROR_DISPLAY")

\* Once the host stops restarting trials, a trial that got a deadline
\* ends, whatever frame positions the host goes on asking for.
TrialEnds == <>[][~NewTrial]_d => (d.timed ~> ~d.timed)

\* What the handlers take for granted is true whichever mode takes over from
\* which: the frame in the buffer and the rate of the timer.
CachedFactsTrue == HeldFrameIsCurrent /\ RateInForce

\* ALL_OFF is dark, after whatever failure led there, and no frame index leaves
\* its pattern.
DisplaySound == TypeOK /\ DarkWhenOff

\* What has an end ends: a trial with a deadline and an error glyph.
DisplaysEnd == TrialEnds /\ GlyphEnds
=============================================================================
