-------------------------- MODULE ArenaDisplayProofs --------------------------
(***************************************************************************)
(* The display's safety for every library of patterns, every set of modes  *)
(* and commands, and with or without a timer that can fail.  The handlers  *)
(* are compositions of operators on the record d, so the proofs are, too:  *)
(* one lemma per operator says what it does to the parts of the invariant, *)
(* on any record of the right type, and a step is their composition.       *)
(***************************************************************************)
EXTENDS ArenaDisplay, TLAPS

AoModes == {"programmable", "frame_number", "lut_frame", "lut_time"}
Panels  == [kind : {"sd", "dark", "on", "stream", "psram", "glyph"}, pat : Patterns \cup {0}, idx : Nat]

\* The type of d.
Display ==
  [state : States, block : Strides, refresh : Rates, explicit : BOOLEAN, mode : 0 .. 3,
   armed : Rates \cup {0}, tick : BOOLEAN, open : Patterns \cup {0}, pattern : Patterns \cup {0},
   count : Nat, cur : Nat, moving : BOOLEAN, many : BOOLEAN, duty : Bytes,
   deadline : BOOLEAN, buf : ContentType, filled : BOOLEAN, isFrame : BOOLEAN, cacheOk : BOOLEAN,
   presented : BOOLEAN, superseded : 0 .. SupersededMax, telFrame : Nat, telPattern : Nat,
   skip : BOOLEAN, ao : AoModes, dac : Nat, lateBlank : BOOLEAN, busy : BOOLEAN, panel : Panels,
   seen : BOOLEAN, gen : 0 .. 2, timed : BOOLEAN]

\* The open file is the current pattern's, or none; the frame count is the
\* current pattern's and the frame index is inside it (and so never the
\* "nothing recorded yet" of tel_last_frame_).
Library(x) ==
  /\ x.open \in {0, x.pattern}
  /\ x.count = IF x.pattern = 0 THEN 0 ELSE Frames[x.pattern]
  /\ x.count > 0 => x.cur < x.count
  /\ x.cur < None

\* frame_buf_is_frame_ is true exactly while the buffer holds an SD frame:
\* the current one, with the trial's duty and the display mode in force if
\* it was patched at its own stride, presented exactly if the panels got it;
\* and the analog output stands for it when the outputs were applied.
Held(x) ==
  /\ x.isFrame <=> x.buf.kind = "sd"
  /\ x.isFrame => /\ x.filled
                  /\ x.buf.pat = x.pattern /\ x.buf.idx = x.cur
                  /\ x.block = x.buf.stride => x.buf.mode = x.mode /\ x.buf.duty = x.duty
                  /\ x.presented <=> x.seen
                  /\ x.cacheOk /\ x.ao \in {"frame_number", "lut_frame"} => x.dac = x.cur

\* Off is dark and quiet, and no SD frame is held behind the glyph.
Quiet(x) ==
  /\ x.state = "ALL_OFF" => x.panel.kind = "dark" /\ x.armed = 0 /\ x.tick = FALSE
  /\ x.state = "ERROR_DISPLAY" => ~x.isFrame

\* The timer runs at the current rate.
Rated(x) ==
  /\ x.state \in PlayStates \cup {"ALL_ON", "STREAMING_FRAME"} /\ x.armed # 0
       => x.armed = x.refresh
  /\ x.state # "ALL_OFF" /\ ~TimerCanFail => x.armed # 0

IInv == d \in Display /\ Library(d) /\ Held(d) /\ Quiet(d) /\ Rated(d)

-----------------------------------------------------------------------------
(* Types. *)

LEMMA RatesNonzero == Rates \subseteq Nat \ {0} /\ {300, 1000} \subseteq Rates
BY DisplayAssumption DEF Rates

LEMMA Members ==
  /\ {"ALL_OFF", "ALL_ON", "STREAMING_FRAME", "PSRAM_PLAY", "ERROR_DISPLAY", "SHOW_FRAME"} \subseteq States
  /\ {"gs2", "gs16", "psram"} \subseteq Strides
  /\ 0 \in Bytes /\ 0 \in 0 .. SupersededMax /\ 0 \in 0 .. 3 /\ 1 \in 0 .. 3
  /\ Patterns \cup {0} \subseteq Nat
BY DisplayAssumption DEF States, PlayStates, Strides, Bytes

LEMMA PatternFacts ==
  ASSUME NEW p \in Patterns
  PROVE  /\ p \in Nat /\ p # 0 /\ Gray[p] \in {"gs2", "gs16"}
         /\ Frames[p] \in Nat /\ Frames[p] > 0 /\ Frames[p] <= 65535
BY DisplayAssumption

LEMMA DisarmType ==
  ASSUME NEW x \in Display
  PROVE  disarm(x) \in Display
BY DEF Display, disarm

LEMMA ArmType ==
  ASSUME NEW x \in Display, NEW hz \in Rates, NEW e
  PROVE  arm(x, hz, e) \in Display
BY DEF Display, arm

LEMMA GenType == \A g \in 0 .. 2 : (g + 1) % 3 \in 0 .. 2 /\ (g + 1) % 3 # g
OBVIOUS

LEMMA WriteType ==
  ASSUME NEW x \in Display, NEW c \in ContentType
  PROVE  Write(x, c) \in Display
<1>1. x.gen \in 0 .. 2 /\ (x.gen + 1) % 3 \in 0 .. 2
  BY GenType DEF Display
<1>. QED
  BY <1>1 DEF Display, Write

LEMMA CountSupersededType ==
  ASSUME NEW x \in Display
  PROVE  countSuperseded(x) \in 0 .. SupersededMax
BY DisplayAssumption DEF Display, countSuperseded

LEMMA InvalidateType ==
  ASSUME NEW x \in Display
  PROVE  invalidateFrameBuf(x) \in Display
BY CountSupersededType, ZenonT(60) DEF Display, invalidateFrameBuf

LEMMA ContentIsTyped ==
  ASSUME NEW k \in {"sd", "dark", "on", "stream", "psram", "glyph"}, NEW p \in Patterns \cup {0},
         NEW i \in Nat, NEW s \in Strides, NEW m \in 0 .. 3
  PROVE  Content(k, p, i, s, m) \in ContentType
BY DEF Content, ContentType, Bytes

LEMMA PatchDispModeType ==
  ASSUME NEW x \in Display
  PROVE  patchDispMode(x) \in Display
BY DEF Display, ContentType, patchDispMode

LEMMA PatchTrialDutyType ==
  ASSUME NEW x \in Display
  PROVE  patchTrialDuty(x) \in Display
BY DEF Display, ContentType, patchTrialDuty

LEMMA TransferFrameType ==
  ASSUME NEW x \in Display
  PROVE  transferFrame(x) \in Display
BY ZenonT(60) DEF Display, ContentType, Panels, Shown, transferFrame

LEMMA SetDefaultRefreshType ==
  ASSUME NEW x \in Display
  PROVE  setDefaultRefresh(x) \in Display
BY RatesNonzero DEF Display, setDefaultRefresh, defaultRefreshFor

LEMMA DeriveOutputsType ==
  ASSUME NEW x \in Display, NEW i \in Nat, NEW e \in Env
  PROVE  deriveOutputs(x, i, e) \in Display
BY ZenonT(60) DEF Display, Env, deriveOutputs

LEMMA TransmitType ==
  ASSUME NEW x \in Display
  PROVE  transmitOnRefresh(x) \in Display
<1>1. x.cur \in Nat /\ x.pattern \in Nat /\ 0 \in 0 .. SupersededMax
  <2>1. x.cur \in Nat /\ x.pattern \in Patterns \cup {0}
    BY DEF Display
  <2>. QED  BY <2>1, Members
<1>2. transferFrame(x) \in Display
  BY TransferFrameType
<1>3. [transferFrame(x) EXCEPT !.tick = FALSE, !.presented = TRUE] \in Display
  BY <1>2, ZenonT(60) DEF Display
<1>. DEFINE sent == [transferFrame(x) EXCEPT !.tick = FALSE, !.presented = TRUE]
<1>4. [sent EXCEPT !.telFrame = x.cur, !.telPattern = x.pattern, !.superseded = 0] \in Display
  <2>. HIDE DEF sent
  <2>. QED  BY <1>1, <1>3, ZenonT(60) DEF Display, sent
<1>. QED
  BY <1>3, <1>4 DEF transmitOnRefresh

-----------------------------------------------------------------------------
(* What the transitions establish, whatever they start from. *)

LEMMA DarkIsTyped == Dark \in ContentType
BY ContentIsTyped DEF Dark, Strides

\* enterAllOff(): the display is off, dark and quiet; nothing is held.
LEMMA EnterAllOffInv ==
  ASSUME NEW x \in Display, Library(x),
         NEW y, y = enterAllOff(x)
  PROVE  /\ y \in Display /\ Library(y) /\ Held(y) /\ Quiet(y) /\ Rated(y)
         /\ y.state = "ALL_OFF" /\ ~y.isFrame
<1>. DEFINE dark == Write(invalidateFrameBuf(disarm(x)), Dark)
<1>1. dark \in Display
  BY DisarmType, InvalidateType, WriteType, DarkIsTyped
<1>2. transferFrame(dark) \in Display
  BY <1>1, TransferFrameType
<1>3. y \in Display
  <2>. DEFINE sent == transferFrame(dark)
              off == [sent EXCEPT !.block = "gs2", !.state = "ALL_OFF", !.filled = FALSE]
  <2>1. y = [off EXCEPT !.duty = 0, !.timed = FALSE]
    BY DEF enterAllOff
  <2>2. sent \in Display
    BY <1>2
  <2>. HIDE DEF sent
  <2>3. "ALL_OFF" \in States /\ "gs2" \in Strides /\ 0 \in Bytes
    BY Members
  <2>4. off \in Display
    BY <2>2, <2>3, ZenonT(60) DEF Display
  <2>. HIDE DEF off
  <2>5. [off EXCEPT !.duty = 0, !.timed = FALSE] \in Display
    BY <2>3, <2>4, ZenonT(60) DEF Display
  <2>. QED  BY <2>1, <2>5
<1>4. /\ y.open = x.open /\ y.pattern = x.pattern /\ y.count = x.count /\ y.cur = x.cur
      /\ ~y.isFrame /\ y.buf = Dark /\ y.state = "ALL_OFF" /\ y.armed = 0 /\ y.tick = FALSE
      /\ y.panel = Shown(Dark)
  BY DEF Display, enterAllOff, transferFrame, Write, invalidateFrameBuf, disarm
<1>. QED
  BY <1>3, <1>4 DEF Library, Held, Quiet, Rated, Dark, Content, Shown, PlayStates

\* The timer is there when no failure is possible.
LEMMA ArmOk ==
  ASSUME NEW x, NEW e \in Env, ~TimerCanFail
  PROVE  armOk(x, e)
BY DEF armOk, Env, Arms

\* showError(): the glyph is refreshed whenever a timer is to be had.
LEMMA ShowErrorInv ==
  ASSUME NEW x \in Display, NEW e \in Env, Library(x),
         NEW y, y = showError(x, e)
  PROVE  /\ y \in Display /\ Library(y) /\ Held(y) /\ Quiet(y) /\ Rated(y)
         /\ y.state = "ERROR_DISPLAY" /\ y.tick = FALSE /\ ~y.isFrame
<1>. DEFINE c == Content("glyph", 0, 0, "gs16", 0)
            glyph == Write(invalidateFrameBuf(disarm(x)), c)
            shown == [glyph EXCEPT !.block = "gs16", !.filled = TRUE, !.state = "ERROR_DISPLAY",
                                   !.timed = FALSE]
            hz == IF x.explicit THEN x.refresh ELSE defaultRefreshFor("gs16")
<1>1. glyph \in Display
  <2>1. c \in ContentType
    BY ContentIsTyped, Members
  <2>. HIDE DEF c
  <2>. QED  BY <2>1, DisarmType, InvalidateType, WriteType
<1>2. shown \in Display
  <2>. HIDE DEF glyph
  <2>. QED  BY <1>1, Members, ZenonT(60) DEF Display
<1>3. hz \in Rates /\ hz # 0
  BY RatesNonzero DEF Display, defaultRefreshFor
<1>4. y = arm(shown, hz, e)
  BY DEF showError
<1>5. y \in Display
  BY <1>2, <1>3, <1>4, ArmType
<1>6. /\ shown.open = x.open /\ shown.pattern = x.pattern /\ shown.count = x.count
      /\ shown.cur = x.cur /\ ~shown.isFrame /\ shown.buf = c /\ shown.state = "ERROR_DISPLAY"
      /\ shown.tick = FALSE /\ shown.armed = 0
  BY DEF Display, Write, invalidateFrameBuf, disarm
<1>7. /\ y.open = x.open /\ y.pattern = x.pattern /\ y.count = x.count
      /\ y.cur = x.cur /\ ~y.isFrame /\ y.buf = c /\ y.state = "ERROR_DISPLAY"
      /\ y.tick = FALSE /\ (~TimerCanFail => y.armed # 0)
  <2>. HIDE DEF shown, hz
  <2>. QED  BY <1>2, <1>3, <1>4, <1>6, ArmOk DEF Display, arm
<1>. QED
  BY <1>5, <1>7 DEF Library, Held, Quiet, Rated, Content, PlayStates

\* enterAllOn()
LEMMA EnterAllOnInv ==
  ASSUME NEW x \in Display, NEW e \in Env, Library(x),
         NEW y, y = enterAllOn(x, e)
  PROVE  y \in Display /\ Library(y) /\ Held(y) /\ Quiet(y) /\ Rated(y)
<1>. DEFINE u == setDefaultRefresh([disarm(x) EXCEPT !.block = "gs16"])
            c == Content("on", 0, 0, "gs16", x.mode)
            z == Write(invalidateFrameBuf(u), c)
            on == [z EXCEPT !.filled = TRUE, !.state = "ALL_ON", !.timed = FALSE]
<1>1. c \in ContentType
  <2>1. x.mode \in 0 .. 3
    BY DEF Display
  <2>. QED  BY <2>1, ContentIsTyped, Members
<1>2. u \in Display
  <2>1. disarm(x) \in Display
    BY DisarmType
  <2>2. [disarm(x) EXCEPT !.block = "gs16"] \in Display
    BY <2>1, Members DEF Display
  <2>. QED  BY <2>2, SetDefaultRefreshType
<1>3. z \in Display
  <2>. HIDE DEF u, c
  <2>. QED  BY <1>1, <1>2, InvalidateType, WriteType
<1>4. on \in Display
  <2>. HIDE DEF z
  <2>. QED  BY <1>3, Members, ZenonT(60) DEF Display
<1>5. z.refresh \in Rates /\ z.refresh # 0
  <2>. HIDE DEF z
  <2>. QED  BY <1>3, RatesNonzero DEF Display
<1>6. y = arm(on, z.refresh, e)
  BY DEF enterAllOn
<1>7. y \in Display
  <2>. HIDE DEF z, on
  <2>. QED  BY <1>4, <1>5, <1>6, ArmType
<1>8. /\ u.open = x.open /\ u.pattern = x.pattern /\ u.count = x.count /\ u.cur = x.cur
      /\ u.tick = FALSE /\ u.armed = 0
  BY DEF Display, disarm, setDefaultRefresh
<1>9. /\ on.open = x.open /\ on.pattern = x.pattern /\ on.count = x.count /\ on.cur = x.cur
      /\ ~on.isFrame /\ on.buf = c /\ on.state = "ALL_ON" /\ on.armed = 0
      /\ on.refresh = z.refresh
  <2>. HIDE DEF u, c
  <2>. QED  BY <1>2, <1>8 DEF Display, Write, invalidateFrameBuf
<1>10. /\ y.open = x.open /\ y.pattern = x.pattern /\ y.count = x.count /\ y.cur = x.cur
       /\ ~y.isFrame /\ y.buf = c /\ y.state = "ALL_ON"
       /\ y.armed \in {0, y.refresh} /\ (~TimerCanFail => y.armed # 0)
  <2>. HIDE DEF z, on
  <2>. QED  BY <1>4, <1>5, <1>6, <1>9, ArmOk DEF Display, arm
<1>. QED
  BY <1>7, <1>10 DEF Library, Held, Quiet, Rated, Content, PlayStates

-----------------------------------------------------------------------------
(* Loading a frame. *)

\* loadFrame(): either the frame is in the buffer, patched, and its outputs
\* are applied, or the error glyph is up.
LEMMA LoadFrameInv ==
  ASSUME NEW x \in Display, NEW e \in Env, Library(x),
         NEW y, y = loadFrame(x, x.cur, e)
  PROVE  /\ y \in Display /\ Library(y) /\ Held(y)
         /\ readOk(x, x.cur, e) =>
              /\ y.state = x.state /\ y.armed = x.armed /\ y.tick = x.tick
              /\ y.refresh = x.refresh /\ y.explicit = x.explicit /\ y.panel = x.panel
         /\ ~readOk(x, x.cur, e) =>
              /\ Quiet(y) /\ Rated(y)
              /\ y.state = "ERROR_DISPLAY" /\ y.tick = FALSE /\ ~y.isFrame
<1>. DEFINE i == x.cur
            y0 == [x EXCEPT !.superseded = countSuperseded(x), !.isFrame = FALSE,
                            !.presented = FALSE]
<1>1. y0 \in Display
  BY CountSupersededType DEF Display
<1>2. CASE ~readOk(x, i, e)
  <2>1. Library(y0)
    BY DEF Library, Display
  <2>2. y = showError(y0, e)
    BY <1>2 DEF loadFrame
  <2>. HIDE DEF y0
  <2>. QED
    BY <1>1, <1>2, <2>1, <2>2, ShowErrorInv
<1>3. CASE readOk(x, i, e)
  <2>. DEFINE c == Content("sd", x.open, i, Gray[x.open], 1)
              w == Write(y0, c)
              z == [w EXCEPT !.filled = TRUE, !.isFrame = TRUE]
              m == patchDispMode(z)
              t == patchTrialDuty(m)
  <2>1. x.open \in Patterns /\ x.open = x.pattern /\ i \in Nat
    BY <1>3 DEF readOk, Library, Display
  <2>2. Gray[x.open] \in {"gs2", "gs16"}
    BY <2>1, PatternFacts
  <2>3. c \in ContentType
    BY <2>1, <2>2, ContentIsTyped, Members
  <2>4. w \in Display
    <3>. HIDE DEF y0, c
    <3>. QED  BY <1>1, <2>3, WriteType
  <2>5. z \in Display
    <3>. HIDE DEF w
    <3>. QED  BY <2>4 DEF Display
  <2>6. m \in Display
    <3>. HIDE DEF z
    <3>. QED  BY <2>5, PatchDispModeType
  <2>7. t \in Display
    <3>. HIDE DEF m
    <3>. QED  BY <2>6, PatchTrialDutyType
  <2>8. y = deriveOutputs(t, i, e)
    BY <1>3 DEF loadFrame
  <2>9. y \in Display
    <3>. HIDE DEF t
    <3>. QED  BY <2>1, <2>7, <2>8, DeriveOutputsType
  <2>10. /\ z.state = x.state /\ z.armed = x.armed /\ z.tick = x.tick /\ z.refresh = x.refresh
         /\ z.explicit = x.explicit /\ z.panel = x.panel /\ z.open = x.open
         /\ z.pattern = x.pattern /\ z.count = x.count /\ z.cur = x.cur /\ z.block = x.block
         /\ z.duty = x.duty /\ z.mode = x.mode /\ z.filled /\ z.isFrame
         /\ z.presented = FALSE /\ z.seen = FALSE /\ z.buf = c
    <3>. HIDE DEF c
    <3>. QED  BY DEF Display, Write
  <2>11. /\ m.state = x.state /\ m.armed = x.armed /\ m.tick = x.tick /\ m.refresh = x.refresh
         /\ m.explicit = x.explicit /\ m.panel = x.panel /\ m.open = x.open
         /\ m.pattern = x.pattern /\ m.count = x.count /\ m.cur = x.cur /\ m.block = x.block
         /\ m.duty = x.duty /\ m.mode = x.mode /\ m.filled /\ m.isFrame
         /\ m.presented = FALSE /\ m.seen = FALSE
    <3>. HIDE DEF z, c
    <3>. QED  BY <2>5, <2>10 DEF Display, patchDispMode
  <2>12. /\ m.buf.kind = "sd" /\ m.buf.pat = x.pattern /\ m.buf.idx = x.cur /\ m.buf.duty = 0
         /\ m.buf.stride = Gray[x.open] /\ (m.block = m.buf.stride => m.buf.mode = x.mode)
    <3>1. /\ c.kind = "sd" /\ c.pat = x.pattern /\ c.idx = x.cur /\ c.stride = Gray[x.open]
          /\ c.duty = 0
      BY <2>1 DEF Content
    <3>. HIDE DEF z, c
    <3>. QED  BY <2>3, <2>5, <2>10, <3>1 DEF Display, ContentType, patchDispMode
  <2>13. /\ t.state = x.state /\ t.armed = x.armed /\ t.tick = x.tick /\ t.refresh = x.refresh
         /\ t.explicit = x.explicit /\ t.panel = x.panel /\ t.open = x.open
         /\ t.pattern = x.pattern /\ t.count = x.count /\ t.cur = x.cur /\ t.block = x.block
         /\ t.duty = x.duty /\ t.mode = x.mode /\ t.filled /\ t.isFrame
         /\ t.presented = FALSE /\ t.seen = FALSE
    <3>. HIDE DEF m
    <3>. QED  BY <2>6, <2>11 DEF Display, patchTrialDuty
  <2>14. /\ t.buf.kind = "sd" /\ t.buf.pat = x.pattern /\ t.buf.idx = x.cur
         /\ t.block = t.buf.stride => t.buf.mode = x.mode /\ t.buf.duty = x.duty
    <3>. HIDE DEF m
    <3>. QED  BY <2>2, <2>6, <2>11, <2>12 DEF Display, ContentType, patchTrialDuty
  <2>15. /\ y.state = x.state /\ y.armed = x.armed /\ y.tick = x.tick /\ y.refresh = x.refresh
         /\ y.explicit = x.explicit /\ y.panel = x.panel /\ y.open = x.open
         /\ y.pattern = x.pattern /\ y.count = x.count /\ y.cur = x.cur /\ y.block = x.block
         /\ y.duty = x.duty /\ y.mode = x.mode /\ y.filled /\ y.isFrame
         /\ y.presented = FALSE /\ y.seen = FALSE /\ y.buf = t.buf
    <3>. HIDE DEF t
    <3>. QED  BY <2>7, <2>8, <2>13 DEF Display, deriveOutputs
  <2>16. y.cacheOk /\ y.ao \in {"frame_number", "lut_frame"} => y.dac = x.cur
    <3>. HIDE DEF t
    <3>. QED  BY <2>7, <2>8 DEF Display, deriveOutputs
  <2>. HIDE DEF t, m, z, w, c
  <2>17. Library(y)
    BY <2>15 DEF Library
  <2>18. Held(y)
    BY <2>13, <2>14, <2>15, <2>16 DEF Held
  <2>. QED
    BY <1>3, <2>9, <2>15, <2>17, <2>18
<1>. QED
  BY <1>2, <1>3

-----------------------------------------------------------------------------
(* The operators that leave the held frame alone. *)

LEMMA ArmInv ==
  ASSUME NEW x \in Display, NEW hz \in Rates, NEW e \in Env, Library(x), Held(x),
         NEW y, y = arm(x, hz, e)
  PROVE  /\ y \in Display /\ Library(y) /\ Held(y)
         /\ y.state = x.state /\ y.tick = x.tick /\ y.panel = x.panel /\ y.refresh = x.refresh
         /\ y.armed = (IF armOk(x, e) THEN hz ELSE 0) /\ y.isFrame = x.isFrame
<1>1. y \in Display
  BY ArmType
<1>2. /\ y.state = x.state /\ y.tick = x.tick /\ y.panel = x.panel /\ y.refresh = x.refresh
      /\ y.armed = IF armOk(x, e) THEN hz ELSE 0
  BY DEF Display, arm, armOk
<1>3. /\ y.open = x.open /\ y.pattern = x.pattern /\ y.count = x.count /\ y.cur = x.cur
      /\ y.isFrame = x.isFrame /\ y.buf = x.buf /\ y.filled = x.filled /\ y.block = x.block
      /\ y.mode = x.mode /\ y.duty = x.duty /\ y.presented = x.presented /\ y.seen = x.seen
      /\ y.cacheOk = x.cacheOk /\ y.ao = x.ao /\ y.dac = x.dac
  BY DEF Display, arm
<1>. QED
  BY <1>1, <1>2, <1>3 DEF Library, Held

LEMMA SetDefaultRefreshInv ==
  ASSUME NEW x \in Display, Library(x), Held(x),
         NEW y, y = setDefaultRefresh(x)
  PROVE  /\ y \in Display /\ Library(y) /\ Held(y)
         /\ y.state = x.state /\ y.tick = x.tick /\ y.panel = x.panel /\ y.armed = x.armed
         /\ y.refresh \in Rates
<1>1. y \in Display
  BY SetDefaultRefreshType
<1>2. /\ y.state = x.state /\ y.tick = x.tick /\ y.panel = x.panel /\ y.armed = x.armed
  BY DEF Display, setDefaultRefresh
<1>3. /\ y.open = x.open /\ y.pattern = x.pattern /\ y.count = x.count /\ y.cur = x.cur
      /\ y.isFrame = x.isFrame /\ y.buf = x.buf /\ y.filled = x.filled /\ y.block = x.block
      /\ y.mode = x.mode /\ y.duty = x.duty /\ y.presented = x.presented /\ y.seen = x.seen
      /\ y.cacheOk = x.cacheOk /\ y.ao = x.ao /\ y.dac = x.dac
  BY DEF Display, setDefaultRefresh
<1>4. y.refresh \in Rates
  BY <1>1 DEF Display
<1>. QED
  BY <1>1, <1>2, <1>3, <1>4 DEF Library, Held

\* transmitOnRefresh(): whatever is on stays on, and what it holds was seen.
LEMMA TransmitInv ==
  ASSUME NEW x \in Display, Library(x), Held(x), Quiet(x), Rated(x), x.state # "ALL_OFF",
         NEW y, y = transmitOnRefresh(x)
  PROVE  y \in Display /\ Library(y) /\ Held(y) /\ Quiet(y) /\ Rated(y)
<1>1. y \in Display
  BY TransmitType
<1>2. y.state = x.state /\ y.refresh = x.refresh /\ y.armed = x.armed
  BY DEF Display, transmitOnRefresh, transferFrame
<1>3. /\ y.open = x.open /\ y.pattern = x.pattern /\ y.count = x.count /\ y.cur = x.cur
      /\ y.isFrame = x.isFrame /\ y.buf = x.buf /\ y.filled = x.filled /\ y.block = x.block
      /\ y.mode = x.mode /\ y.duty = x.duty
      /\ y.cacheOk = x.cacheOk /\ y.ao = x.ao /\ y.dac = x.dac
  BY DEF Display, transmitOnRefresh, transferFrame
<1>4. \/ y.presented = x.presented /\ y.seen = x.seen
      \/ y.presented = TRUE /\ y.seen = TRUE
  BY DEF Display, transmitOnRefresh, transferFrame
<1>. QED
  BY <1>1, <1>2, <1>3, <1>4 DEF Library, Held, Quiet, Rated

\* buildPsramFrame() takes the buffer over.
LEMMA BuildPsramInv ==
  ASSUME NEW x \in Display, Library(x),
         NEW y, y = buildPsramFrame(x)
  PROVE  /\ y \in Display /\ Library(y) /\ Held(y)
         /\ y.state = x.state /\ y.armed = x.armed /\ y.refresh = x.refresh
         /\ ~y.isFrame /\ y.buf.kind = "psram"
<1>. DEFINE c == Content("psram", 0, 0, "psram", x.mode)
            w == Write(invalidateFrameBuf(x), c)
<1>1. c \in ContentType
  <2>1. x.mode \in 0 .. 3
    BY DEF Display
  <2>. QED  BY <2>1, ContentIsTyped, Members
<1>2. w \in Display
  <2>. HIDE DEF c
  <2>. QED  BY <1>1, InvalidateType, WriteType
<1>3. y \in Display
  <2>1. y = [w EXCEPT !.block = "psram", !.filled = TRUE]
    BY DEF buildPsramFrame
  <2>. HIDE DEF w
  <2>2. [w EXCEPT !.block = "psram", !.filled = TRUE] \in Display
    BY <1>2, Members DEF Display
  <2>. QED  BY <2>1, <2>2
<1>4. /\ y.open = x.open /\ y.pattern = x.pattern /\ y.count = x.count /\ y.cur = x.cur
      /\ ~y.isFrame /\ y.buf = c /\ y.state = x.state /\ y.armed = x.armed
      /\ y.refresh = x.refresh
  <2>. HIDE DEF c
  <2>. QED  BY DEF Display, buildPsramFrame, Write, invalidateFrameBuf, c
<1>. QED
  BY <1>3, <1>4 DEF Library, Held, Content

\* patchDispMode() after a change of display mode: a frame held at its own
\* stride follows.
LEMMA PatchDispModeInv ==
  ASSUME NEW x \in Display, NEW m \in 0 .. 3, Library(x), Held(x), Quiet(x), Rated(x),
         NEW y, y = patchDispMode([x EXCEPT !.mode = m])
  PROVE  y \in Display /\ Library(y) /\ Held(y) /\ Quiet(y) /\ Rated(y)
<1>. DEFINE u == [x EXCEPT !.mode = m]
<1>1. u \in Display
  BY DEF Display
<1>2. /\ u.open = x.open /\ u.pattern = x.pattern /\ u.count = x.count /\ u.cur = x.cur
      /\ u.isFrame = x.isFrame /\ u.buf = x.buf /\ u.filled = x.filled /\ u.block = x.block
      /\ u.mode = m /\ u.duty = x.duty /\ u.presented = x.presented /\ u.seen = x.seen
      /\ u.cacheOk = x.cacheOk /\ u.ao = x.ao /\ u.dac = x.dac /\ u.state = x.state
      /\ u.tick = x.tick /\ u.panel = x.panel /\ u.armed = x.armed /\ u.refresh = x.refresh
  BY DEF Display
<1>. HIDE DEF u
<1>3. y = patchDispMode(u)
  BY DEF u
<1>4. y \in Display
  BY <1>1, <1>3, PatchDispModeType
<1>5. /\ y.open = x.open /\ y.pattern = x.pattern /\ y.count = x.count /\ y.cur = x.cur
      /\ y.isFrame = x.isFrame /\ y.filled = x.filled /\ y.block = x.block
      /\ y.mode = m /\ y.duty = x.duty /\ y.presented = x.presented /\ y.seen = x.seen
      /\ y.cacheOk = x.cacheOk /\ y.ao = x.ao /\ y.dac = x.dac /\ y.state = x.state
      /\ y.tick = x.tick /\ y.panel = x.panel /\ y.armed = x.armed /\ y.refresh = x.refresh
  BY <1>1, <1>2, <1>3 DEF Display, patchDispMode
<1>6. /\ y.buf.kind = x.buf.kind /\ y.buf.pat = x.buf.pat /\ y.buf.idx = x.buf.idx
      /\ y.buf.stride = x.buf.stride /\ y.buf.duty = x.buf.duty
      /\ x.filled /\ x.block = x.buf.stride => y.buf.mode = m
  BY <1>1, <1>2, <1>3 DEF Display, ContentType, patchDispMode
<1>. QED
  BY <1>4, <1>5, <1>6 DEF Library, Held, Quiet, Rated

-----------------------------------------------------------------------------
(* Starting a pattern. *)

LEMMA OpenedType ==
  ASSUME NEW x \in Display, NEW p \in Patterns, NEW moves \in BOOLEAN, NEW i, i \in Nat
  PROVE  [x EXCEPT !.open = p, !.pattern = p, !.count = Frames[p],
                   !.block = Gray[p], !.moving = moves, !.cur = i] \in Display
<1>1. Gray[p] \in Strides /\ Frames[p] \in Nat /\ p \in Patterns \cup {0}
  BY PatternFacts, Members
<1>. DEFINE n == Frames[p]
            g == Gray[p]
            u == [x EXCEPT !.open = p, !.pattern = p, !.count = n]
<1>2. n \in Nat /\ g \in Strides
  BY <1>1
<1>. HIDE DEF n, g
<1>3. u \in Display
  BY <1>1, <1>2 DEF Display
<1>. HIDE DEF u
<1>4. [u EXCEPT !.block = g, !.moving = moves, !.cur = i] \in Display
  BY <1>2, <1>3, ZenonT(60) DEF Display
<1>. QED  BY <1>4 DEF u, n, g

LEMMA PutTrial ==
  ASSUME NEW x \in Display, NEW t \in BOOLEAN, NEW s \in States
  PROVE  [x EXCEPT !.deadline = t, !.state = s] \in Display
BY DEF Display

LEMMA PutNoRecord ==
  ASSUME NEW x \in Display
  PROVE  [x EXCEPT !.telFrame = None, !.telPattern = None] \in Display
<1>1. None \in Nat
  BY DEF None
<1>. QED  BY <1>1 DEF Display

LEMMA ModRange ==
  ASSUME NEW a \in Nat, NEW n \in Nat, n > 0
  PROVE  a % n \in Nat /\ a % n < n
OBVIOUS

\* enterPatternMode(): the pattern plays and its frame is held, or nothing is
\* held and the display shows the glyph or is off.
LEMMA EnterPatternModeInv ==
  ASSUME NEW x \in Display, Library(x), NEW target \in PlayStates, NEW p \in Patterns,
         NEW moves \in BOOLEAN, NEW init \in Nat, NEW lasts \in BOOLEAN,
         NEW result \in {p, 0, x.open}, NEW e \in Env,
         NEW y, y = enterPatternMode(x, target, p, moves, init, lasts, result, e)
  PROVE  /\ y \in Display /\ Library(y) /\ Held(y) /\ Quiet(y) /\ Rated(y)
         /\ y.state # target => ~y.isFrame
<1>. DEFINE i      == init % Frames[p]
            left   == invalidateFrameBuf(disarm(x))
            opened == [left EXCEPT !.open = p, !.pattern = p, !.count = Frames[p],
                                   !.block = Gray[p], !.moving = moves, !.cur = i]
            loaded == loadFrame(opened, opened.cur, e)
            rated  == setDefaultRefresh(loaded)
            begun  == [rated EXCEPT !.deadline = lasts, !.state = target]
<1>1. left \in Display
  BY DisarmType, InvalidateType
<1>2. /\ left.open = x.open /\ left.pattern = x.pattern /\ left.count = x.count
      /\ left.cur = x.cur /\ left.armed = 0 /\ left.tick = FALSE
  BY DEF Display, disarm, invalidateFrameBuf
<1>3. CASE result # p
  <2>. DEFINE kept == [left EXCEPT !.open = result]
  <2>1. result \in {0, x.open} /\ result \in Patterns \cup {0}
    BY <1>3 DEF Display
  <2>2. y = showError(kept, e)
    BY <1>3 DEF enterPatternMode
  <2>. HIDE DEF left
  <2>3. kept \in Display
    BY <1>1, <2>1 DEF Display
  <2>4. Library(kept)
    BY <1>1, <1>2, <2>1 DEF Display, Library
  <2>. HIDE DEF kept
  <2>. QED
    BY <2>2, <2>3, <2>4, ShowErrorInv DEF PlayStates
<1>4. CASE result = p
  <2>1. /\ p \in Nat /\ p # 0 /\ Gray[p] \in Strides /\ Frames[p] \in Nat /\ Frames[p] > 0
        /\ Frames[p] <= 65535 /\ i \in Nat /\ i < Frames[p]
    BY PatternFacts, Members, ModRange
  <2>2. y = IF ~readOk(opened, opened.cur, e) THEN loaded
            ELSE IF ~armOk(begun, e) THEN enterAllOff(begun)
            ELSE [arm(begun, begun.refresh, e) EXCEPT !.telFrame = None, !.telPattern = None]
    BY <1>4 DEF enterPatternMode
  <2>. HIDE DEF left, i
  <2>3. opened \in Display
    <3>1. left \in Display /\ i \in Nat
      BY <1>1, <2>1
    <3>. QED  BY <3>1, OpenedType, Zenon
  <2>4. /\ opened.open = p /\ opened.pattern = p /\ opened.count = Frames[p]
        /\ opened.cur = i /\ opened.armed = 0 /\ opened.tick = FALSE
    BY <1>1, <1>2 DEF Display
  <2>5. Library(opened)
    BY <2>1, <2>4 DEF Library, None
  <2>. HIDE DEF opened
  <2>6. /\ loaded \in Display /\ Library(loaded) /\ Held(loaded)
        /\ readOk(opened, opened.cur, e) => loaded.armed = 0 /\ loaded.tick = FALSE
        /\ ~readOk(opened, opened.cur, e) =>
             Quiet(loaded) /\ Rated(loaded) /\ loaded.state = "ERROR_DISPLAY" /\ ~loaded.isFrame
    <3>1. loaded = loadFrame(opened, opened.cur, e)
      OBVIOUS
    <3>. HIDE DEF loaded
    <3>2. /\ loaded \in Display /\ Library(loaded) /\ Held(loaded)
          /\ readOk(opened, opened.cur, e) =>
               loaded.armed = opened.armed /\ loaded.tick = opened.tick
          /\ ~readOk(opened, opened.cur, e) =>
               Quiet(loaded) /\ Rated(loaded) /\ loaded.state = "ERROR_DISPLAY" /\ ~loaded.isFrame
      BY <2>3, <2>5, <3>1, LoadFrameInv, ZenonT(60)
    <3>. QED  BY <2>4, <3>2
  <2>. HIDE DEF loaded
  <2>7. CASE ~readOk(opened, opened.cur, e)
    BY <2>2, <2>6, <2>7
  <2>8. CASE readOk(opened, opened.cur, e)
    <3>1. /\ rated \in Display /\ Library(rated) /\ Held(rated)
          /\ rated.armed = 0 /\ rated.tick = FALSE
      BY <2>6, <2>8, SetDefaultRefreshInv
    <3>. HIDE DEF rated
    <3>2. target \in States
      BY DEF States
    <3>3. begun \in Display
      BY <3>1, <3>2, PutTrial
    <3>4. /\ Library(begun) /\ Held(begun) /\ begun.armed = 0 /\ begun.tick = FALSE
          /\ begun.state = target /\ begun.refresh \in Rates
      BY <3>1 DEF Display, Library, Held
    <3>. HIDE DEF begun
    <3>5. CASE ~armOk(begun, e)
      BY <2>2, <2>8, <3>3, <3>4, <3>5, EnterAllOffInv
    <3>6. CASE armOk(begun, e)
      <4>. DEFINE run == arm(begun, begun.refresh, e)
      <4>1. /\ run \in Display /\ Library(run) /\ Held(run) /\ run.state = target
            /\ run.refresh = begun.refresh /\ run.armed = begun.refresh
        BY <3>3, <3>4, <3>6, ArmInv
      <4>2. y = [run EXCEPT !.telFrame = None, !.telPattern = None]
        BY <2>2, <2>8, <3>6
      <4>. HIDE DEF run
      <4>3. [run EXCEPT !.telFrame = None, !.telPattern = None] \in Display
        BY <4>1, PutNoRecord
      <4>4. y \in Display
        BY <4>2, <4>3
      <4>5. /\ y.state = target /\ y.refresh = begun.refresh /\ y.armed = begun.refresh
        BY <4>1, <4>2 DEF Display
      <4>6. Library(y) /\ Held(y)
        BY <4>1, <4>2 DEF Display, Library, Held
      <4>7. begun.refresh # 0
        BY <3>4, RatesNonzero
      <4>. QED
        BY <4>4, <4>5, <4>6, <4>7 DEF Quiet, Rated, PlayStates
    <3>. QED  BY <3>5, <3>6
  <2>. QED  BY <2>7, <2>8
<1>. QED
  BY <1>3, <1>4

-----------------------------------------------------------------------------
(* The steps. *)

Good(x) == x \in Display /\ Library(x) /\ Held(x) /\ Quiet(x) /\ Rated(x)

LEMMA EnvOfEnv == EnvOf(TRUE) \subseteq Env /\ EnvOf(FALSE) \subseteq Env
BY DEF EnvOf, Env

LEMMA PutDuty ==
  ASSUME NEW x \in Display, NEW n \in Bytes
  PROVE  [x EXCEPT !.duty = n] \in Display
BY DEF Display

LEMMA PutTimed ==
  ASSUME NEW x, Good(x), NEW t \in BOOLEAN
  PROVE  Good([x EXCEPT !.timed = t])
<1>1. [x EXCEPT !.timed = t] \in Display
  BY DEF Good, Display
<1>. QED
  BY <1>1 DEF Good, Display, Library, Held, Quiet, Rated

\* TRIAL_PARAMS
LEMMA TrialParamsInv ==
  ASSUME IInv, NEW target \in TrialModes, NEW p \in Patterns, NEW moves \in BOOLEAN,
         NEW init \in Nat, NEW duty \in Duties, NEW lasts \in Durations,
         NEW result \in openOutcomes(d, p), NEW e \in Env,
         TrialParams(target, p, moves, init, duty, lasts, result, e)
  PROVE  IInv'
<1>. DEFINE u == [d EXCEPT !.duty = duty]
            x == enterPatternMode(u, target, p, moves, init, lasts, result, e)
<1>1. target \in PlayStates /\ lasts \in BOOLEAN /\ duty \in Bytes
  BY DisplayAssumption DEF PlayStates
<1>2. u \in Display /\ u.open = d.open
  BY <1>1 DEF IInv, Display
<1>3. Library(u)
  BY DEF IInv, Display, Library
<1>4. result \in {p, 0, u.open}
  BY <1>2 DEF openOutcomes
<1>5. d' = IF x.state = target THEN [x EXCEPT !.timed = lasts] ELSE [x EXCEPT !.duty = 0]
  BY DEF TrialParams
<1>. HIDE DEF u
<1>6. Good(x) /\ (x.state # target => ~x.isFrame)
  <2>1. x = enterPatternMode(u, target, p, moves, init, lasts, result, e)
    OBVIOUS
  <2>. HIDE DEF x
  <2>. QED
    BY <1>1, <1>2, <1>3, <1>4, <2>1, EnterPatternModeInv DEF Good
<1>. HIDE DEF x
<1>7. CASE x.state = target
  BY <1>1, <1>5, <1>6, <1>7, PutTimed DEF IInv, Good
<1>8. CASE x.state # target
  <2>. DEFINE w == [x EXCEPT !.duty = 0]
  <2>1. w \in Display
    BY <1>6, Members, PutDuty DEF Good
  <2>2. Library(w) /\ Held(w) /\ Quiet(w) /\ Rated(w)
    BY <1>6, <1>8 DEF Good, Display, Library, Held, Quiet, Rated
  <2>3. d' = w
    BY <1>5, <1>8
  <2>. HIDE DEF w
  <2>. QED
    BY <2>1, <2>2, <2>3 DEF IInv
<1>. QED  BY <1>7, <1>8

\* SET_PATTERN_ID
LEMMA SetPatternIdInv ==
  ASSUME IInv, NEW p \in Patterns, NEW result \in openOutcomes(d, p), NEW e \in Env,
         SetPatternId(p, result, e)
  PROVE  IInv'
<1>. DEFINE u == [d EXCEPT !.duty = 0]
            x == enterPatternMode(u, "SHOW_FRAME", p, FALSE, 0, FALSE, result, e)
<1>2. u \in Display /\ u.open = d.open
  BY Members DEF IInv, Display
<1>3. Library(u)
  BY DEF IInv, Display, Library
<1>4. result \in {p, 0, u.open}
  BY <1>2 DEF openOutcomes
<1>5. d' = [x EXCEPT !.timed = FALSE]
  BY DEF SetPatternId
<1>. HIDE DEF u
<1>6. Good(x)
  <2>1. x = enterPatternMode(u, "SHOW_FRAME", p, FALSE, 0, FALSE, result, e)
    OBVIOUS
  <2>2. "SHOW_FRAME" \in PlayStates /\ FALSE \in BOOLEAN /\ 0 \in Nat
    BY DEF PlayStates
  <2>. HIDE DEF x
  <2>. QED
    BY <1>2, <1>3, <1>4, <2>1, <2>2, EnterPatternModeInv DEF Good
<1>. HIDE DEF x
<1>. QED
  BY <1>5, <1>6, PutTimed DEF IInv, Good

\* SET_FRAME_POSITION
LEMMA SetFramePositionInv ==
  ASSUME IInv, NEW index \in Indices, NEW e \in Env, SetFramePosition(index, e)
  PROVE  IInv'
<1>. DEFINE asked == [d EXCEPT !.cur = index]
            loaded == loadFrame(asked, index, e)
            there == [loaded EXCEPT !.state = "SHOW_FRAME"]
            shown == setDefaultRefresh(there)
<1>1. index \in Nat
  BY DisplayAssumption
<1>2. CASE d.open = 0 \/ index >= d.count
  BY <1>2, ShowErrorInv DEF IInv, SetFramePosition
<1>3. CASE d' = d
  BY <1>3 DEF IInv
<1>4. CASE /\ d.open # 0 /\ index < d.count
           /\ d' = IF readOk(asked, index, e) THEN arm(shown, shown.refresh, e) ELSE loaded
  <2>1. asked \in Display /\ asked.cur = index
    BY <1>1 DEF IInv, Display
  <2>2. Library(asked)
    <3>1. d.count <= 65535
      <4>1. d.pattern \in Patterns /\ d.count = Frames[d.pattern]
        BY <1>4 DEF IInv, Display, Library
      <4>. QED  BY <4>1, PatternFacts
    <3>. QED  BY <1>1, <1>4, <3>1 DEF IInv, Display, Library, None
  <2>. HIDE DEF asked
  <2>3. /\ loaded \in Display /\ Library(loaded) /\ Held(loaded)
        /\ ~readOk(asked, index, e) => Quiet(loaded) /\ Rated(loaded)
    <3>1. loaded = loadFrame(asked, asked.cur, e)
      BY <2>1
    <3>. HIDE DEF loaded
    <3>. QED  BY <2>1, <2>2, <3>1, LoadFrameInv
  <2>. HIDE DEF loaded
  <2>4. CASE ~readOk(asked, index, e)
    BY <1>4, <2>3, <2>4 DEF IInv
  <2>5. CASE readOk(asked, index, e)
    <3>1. there \in Display
      BY <2>3, Members DEF Display
    <3>2. Library(there) /\ Held(there) /\ there.state = "SHOW_FRAME"
      BY <2>3 DEF Display, Library, Held
    <3>. HIDE DEF there
    <3>3. /\ shown \in Display /\ Library(shown) /\ Held(shown) /\ shown.state = "SHOW_FRAME"
          /\ shown.refresh \in Rates
      BY <3>1, <3>2, SetDefaultRefreshInv
    <3>. HIDE DEF shown
    <3>4. d' = arm(shown, shown.refresh, e)
      BY <1>4, <2>5
    <3>5. /\ d' \in Display /\ Library(d') /\ Held(d') /\ d'.state = "SHOW_FRAME"
          /\ d'.refresh = shown.refresh
          /\ d'.armed = IF armOk(shown, e) THEN shown.refresh ELSE 0
      BY <3>3, <3>4, ArmInv
    <3>6. shown.refresh # 0
      BY <3>3, RatesNonzero
    <3>. QED
      BY <3>5, <3>6, ArmOk DEF IInv, Quiet, Rated
  <2>. QED  BY <2>4, <2>5
<1>. QED
  <2>1. index >= d.count \/ index < d.count
    BY <1>1 DEF IInv, Display
  <2>. QED
    BY <1>2, <1>3, <1>4, <2>1 DEF SetFramePosition, takePosition

\* DISPLAY_PSRAM_INDEX and PSRAM_PLAY
LEMMA DisplayPsramIndexInv ==
  ASSUME IInv, NEW e \in Env, DisplayPsramIndex(e)
  PROVE  IInv'
<1>. DEFINE b == buildPsramFrame(d)
            u == [b EXCEPT !.many = FALSE, !.state = "PSRAM_PLAY", !.timed = FALSE]
            x == setDefaultRefresh(u)
<1>1. d' = arm(x, x.refresh, e)
  BY DEF DisplayPsramIndex
<1>2. b \in Display /\ Library(b) /\ Held(b)
  BY BuildPsramInv DEF IInv
<1>. HIDE DEF b
<1>3. u \in Display
  BY <1>2, Members DEF Display
<1>4. Library(u) /\ Held(u) /\ u.state = "PSRAM_PLAY"
  BY <1>2 DEF Display, Library, Held
<1>. HIDE DEF u
<1>5. /\ x \in Display /\ Library(x) /\ Held(x) /\ x.state = "PSRAM_PLAY" /\ x.refresh \in Rates
  BY <1>3, <1>4, SetDefaultRefreshInv
<1>. HIDE DEF x
<1>6. /\ d' \in Display /\ Library(d') /\ Held(d') /\ d'.state = "PSRAM_PLAY"
      /\ d'.armed = IF armOk(x, e) THEN x.refresh ELSE 0
  BY <1>1, <1>5, ArmInv
<1>. QED
  BY <1>5, <1>6, ArmOk, RatesNonzero DEF IInv, Quiet, Rated, PlayStates

LEMMA PsramPlayInv ==
  ASSUME IInv, NEW moves \in BOOLEAN, NEW many \in BOOLEAN, NEW e \in Env,
         PsramPlay(moves, many, e)
  PROVE  IInv'
<1>. DEFINE b == buildPsramFrame(d)
            x == [b EXCEPT !.many = many, !.moving = moves, !.state = "PSRAM_PLAY",
                           !.timed = FALSE]
            hz == IF x.explicit THEN x.refresh ELSE defaultRefreshFor("psram")
<1>1. d' = arm(x, hz, e)
  BY DEF PsramPlay
<1>2. b \in Display /\ Library(b) /\ Held(b)
  BY BuildPsramInv DEF IInv
<1>. HIDE DEF b
<1>3. x \in Display
  BY <1>2, Members, ZenonT(60) DEF Display
<1>4. Library(x) /\ Held(x) /\ x.state = "PSRAM_PLAY"
  BY <1>2 DEF Display, Library, Held
<1>. HIDE DEF x
<1>5. hz \in Rates /\ hz # 0
  BY <1>3, RatesNonzero DEF Display, defaultRefreshFor
<1>. HIDE DEF hz
<1>6. /\ d' \in Display /\ Library(d') /\ Held(d') /\ d'.state = "PSRAM_PLAY"
      /\ d'.armed = IF armOk(x, e) THEN hz ELSE 0
  BY <1>1, <1>3, <1>4, <1>5, ArmInv
<1>. QED
  BY <1>5, <1>6, ArmOk DEF IInv, Quiet, Rated, PlayStates

\* STREAM_FRAME
LEMMA StreamFrameInv ==
  ASSUME IInv, NEW stride \in {"gs2", "gs16", "other"}, NEW e \in Env, StreamFrame(stride, e)
  PROVE  IInv'
<1>1. CASE stride \notin {"gs2", "gs16"}
  BY <1>1, EnterAllOffInv DEF IInv, StreamFrame
<1>2. CASE stride \in {"gs2", "gs16"}
  <2>. DEFINE c == Content("stream", 0, 0, stride, 1)
              w == Write(invalidateFrameBuf(d), c)
              f == [w EXCEPT !.filled = TRUE, !.block = stride]
              held  == patchDispMode(f)
              rated == setDefaultRefresh(held)
              rearm == d.state # "STREAMING_FRAME" \/ rated.refresh # d.refresh
              shown == [disarm(rated) EXCEPT !.state = "STREAMING_FRAME", !.timed = FALSE]
  <2>1. d' = IF rearm THEN arm(shown, shown.refresh, e) ELSE rated
    BY <1>2 DEF StreamFrame
  <2>2. stride \in Strides /\ c \in ContentType /\ c.kind = "stream"
    <3>1. stride \in Strides
      BY <1>2, Members
    <3>2. c \in ContentType
      BY <3>1, ContentIsTyped, Members
    <3>. QED  BY <3>1, <3>2 DEF Content
  <2>. HIDE DEF c
  <2>3. w \in Display
    BY <2>2, InvalidateType, WriteType DEF IInv
  <2>4. /\ w.open = d.open /\ w.pattern = d.pattern /\ w.count = d.count /\ w.cur = d.cur
        /\ w.isFrame = FALSE /\ w.buf = c /\ w.state = d.state /\ w.armed = d.armed
        /\ w.tick = d.tick /\ w.panel = d.panel
    BY DEF IInv, Display, Write, invalidateFrameBuf
  <2>. HIDE DEF w
  <2>5. f \in Display
    BY <2>2, <2>3 DEF Display
  <2>6. /\ f.open = d.open /\ f.pattern = d.pattern /\ f.count = d.count /\ f.cur = d.cur
        /\ f.isFrame = FALSE /\ f.buf = c /\ f.state = d.state /\ f.armed = d.armed
        /\ f.tick = d.tick /\ f.panel = d.panel
    BY <2>3, <2>4 DEF Display
  <2>. HIDE DEF f
  <2>7. held \in Display
    BY <2>5, PatchDispModeType
  <2>8. /\ held.open = d.open /\ held.pattern = d.pattern /\ held.count = d.count
        /\ held.cur = d.cur /\ held.isFrame = FALSE /\ held.buf.kind = "stream"
        /\ held.state = d.state /\ held.armed = d.armed /\ held.tick = d.tick
        /\ held.panel = d.panel
    BY <2>2, <2>5, <2>6 DEF Display, ContentType, patchDispMode
  <2>. HIDE DEF held
  <2>9. Library(held) /\ Held(held)
    BY <2>8 DEF IInv, Library, Held
  <2>10. /\ rated \in Display /\ Library(rated) /\ Held(rated)
         /\ rated.state = d.state /\ rated.tick = d.tick /\ rated.panel = d.panel
         /\ rated.armed = d.armed /\ rated.refresh \in Rates
    BY <2>7, <2>8, <2>9, SetDefaultRefreshInv
  <2>. HIDE DEF rated
  <2>11. CASE rearm
    <3>1. disarm(rated) \in Display
      BY <2>10, DisarmType
    <3>2. shown \in Display
      BY <3>1, Members DEF Display
    <3>3. /\ Library(shown) /\ Held(shown) /\ shown.state = "STREAMING_FRAME"
          /\ shown.refresh \in Rates
      BY <2>10 DEF Display, Library, Held, disarm
    <3>. HIDE DEF shown
    <3>4. /\ d' \in Display /\ Library(d') /\ Held(d') /\ d'.state = "STREAMING_FRAME"
          /\ d'.refresh = shown.refresh
          /\ d'.armed = IF armOk(shown, e) THEN shown.refresh ELSE 0
      BY <2>1, <2>11, <3>2, <3>3, ArmInv
    <3>. QED
      BY <3>3, <3>4, ArmOk, RatesNonzero DEF IInv, Quiet, Rated, PlayStates
  <2>12. CASE ~rearm
    <3>1. d' = rated
      BY <2>1, <2>12
    <3>2. d.state = "STREAMING_FRAME" /\ rated.refresh = d.refresh
      BY <2>12
    <3>. HIDE DEF rearm
    <3>. QED
      BY <2>10, <3>1, <3>2 DEF IInv, Quiet, Rated
  <2>. QED  BY <2>11, <2>12
<1>. QED  BY <1>1, <1>2

\* SET_REFRESH_RATE
LEMMA SetRefreshRateInv ==
  ASSUME IInv, NEW hz \in ExplicitRates, NEW e \in Env, SetRefreshRate(hz, e)
  PROVE  IInv'
<1>. DEFINE x == [d EXCEPT !.refresh = hz, !.explicit = TRUE]
<1>1. d' = IF d.state = "ALL_OFF" THEN x ELSE arm(x, hz, e)
  BY DEF SetRefreshRate
<1>2. hz \in Rates /\ hz # 0
  BY DisplayAssumption DEF Rates
<1>3. x \in Display
  BY <1>2 DEF IInv, Display
<1>4. /\ Library(x) /\ Held(x) /\ Quiet(x) /\ x.state = d.state /\ x.refresh = hz
  BY DEF IInv, Display, Library, Held, Quiet
<1>. HIDE DEF x
<1>5. CASE d.state = "ALL_OFF"
  BY <1>1, <1>3, <1>4, <1>5 DEF IInv, Rated, PlayStates
<1>6. CASE d.state # "ALL_OFF"
  <2>1. d' = arm(x, hz, e)
    BY <1>1, <1>6
  <2>2. /\ d' \in Display /\ Library(d') /\ Held(d') /\ d'.state = d.state /\ d'.refresh = hz
        /\ d'.armed = (IF armOk(x, e) THEN hz ELSE 0) /\ d'.isFrame = x.isFrame
    BY <1>2, <1>3, <1>4, <2>1, ArmInv
  <2>. QED
    BY <1>2, <1>4, <1>6, <2>2, ArmOk DEF IInv, Quiet, Rated
<1>. QED  BY <1>5, <1>6

\* SET_AO_MODE, SET_AO_VOLTAGE and SET_AO_LUT: a changed output is never
\* taken for the frame's.
LEMMA SetAoModeInv ==
  ASSUME IInv, NEW mode \in {0, 1}, NEW e \in Env, SetAoMode(mode, e)
  PROVE  IInv'
<1>. DEFINE ao == IF mode = 1 THEN "frame_number"
                  ELSE IF d.ao = "frame_number" THEN "programmable" ELSE d.ao
            dac == IF mode = 1 /\ d.count > 0 /\ e.dac THEN d.cur ELSE d.dac
            y == [d EXCEPT !.cacheOk = FALSE, !.ao = ao, !.dac = dac]
<1>1. ao \in AoModes /\ dac \in Nat
  BY DEF IInv, Display, AoModes
<1>2. d' = y
  BY DEF SetAoMode
<1>. HIDE DEF ao, dac
<1>3. y \in Display
  BY <1>1 DEF IInv, Display
<1>4. Library(y) /\ Held(y) /\ Quiet(y) /\ Rated(y)
  BY DEF IInv, Display, Library, Held, Quiet, Rated
<1>. QED  BY <1>2, <1>3, <1>4 DEF IInv

LEMMA SetAoVoltageInv ==
  ASSUME IInv, NEW e \in Env, SetAoVoltage(e)
  PROVE  IInv'
<1>. DEFINE y == [d EXCEPT !.ao = "programmable", !.dac = None]
<1>1. "programmable" \in AoModes /\ None \in Nat
  BY DEF AoModes, None
<1>2. d' = y
  BY DEF SetAoVoltage
<1>3. y \in Display
  BY <1>1 DEF IInv, Display
<1>4. Library(y) /\ Held(y) /\ Quiet(y) /\ Rated(y)
  BY DEF IInv, Display, Library, Held, Quiet, Rated
<1>. QED  BY <1>2, <1>3, <1>4 DEF IInv

LEMMA SetAoLutInv ==
  ASSUME IInv, NEW lut \in {"lut_frame", "lut_time"}, NEW accepted \in BOOLEAN, NEW e \in Env,
         SetAoLut(lut, accepted, e)
  PROVE  IInv'
<1>1. PICK ao \in AoModes, dac \in Nat : d' = [d EXCEPT !.cacheOk = FALSE, !.ao = ao, !.dac = dac]
  <2>1. d.ao \in AoModes /\ d.dac \in Nat /\ d.ao = d.ao
    BY DEF IInv, Display
  <2>2. CASE d.ao = "frame_number" \/ ~accepted
    <3>1. d' = [d EXCEPT !.cacheOk = FALSE]
      BY <2>2 DEF SetAoLut
    <3>2. [d EXCEPT !.cacheOk = FALSE] = [d EXCEPT !.cacheOk = FALSE, !.ao = d.ao, !.dac = d.dac]
      BY DEF IInv, Display
    <3>. QED  BY <2>1, <3>1, <3>2
  <2>3. CASE ~(d.ao = "frame_number" \/ ~accepted) /\ ~e.dac
    <3>1. d' = [d EXCEPT !.cacheOk = FALSE, !.ao = "programmable"]
      BY <2>3 DEF SetAoLut
    <3>2. [d EXCEPT !.cacheOk = FALSE, !.ao = "programmable"]
            = [d EXCEPT !.cacheOk = FALSE, !.ao = "programmable", !.dac = d.dac]
      BY DEF IInv, Display
    <3>3. "programmable" \in AoModes
      BY DEF AoModes
    <3>. QED  BY <2>1, <3>1, <3>2, <3>3
  <2>4. CASE ~(d.ao = "frame_number" \/ ~accepted) /\ e.dac
    <3>. DEFINE v == IF lut = "lut_frame" THEN 0 ELSE None
    <3>1. d' = [d EXCEPT !.cacheOk = FALSE, !.ao = lut, !.dac = v]
      BY <2>4 DEF SetAoLut
    <3>2. lut \in AoModes /\ v \in Nat
      BY DEF AoModes, None
    <3>. QED  BY <3>1, <3>2
  <2>. QED  BY <2>2, <2>3, <2>4
<1>. DEFINE y == [d EXCEPT !.cacheOk = FALSE, !.ao = ao, !.dac = dac]
<1>2. y \in Display
  BY DEF IInv, Display
<1>3. Library(y) /\ Held(y) /\ Quiet(y) /\ Rated(y)
  BY DEF IInv, Display, Library, Held, Quiet, Rated
<1>. QED  BY <1>1, <1>2, <1>3 DEF IInv

LEMMA SetSdDiagInv ==
  ASSUME IInv, NEW skip \in BOOLEAN, SetSdDiag(skip)
  PROVE  IInv'
<1>. DEFINE ok == d.cacheOk /\ skip
            y == [d EXCEPT !.skip = skip, !.cacheOk = ok]
<1>1. ok \in BOOLEAN /\ (ok => d.cacheOk)
  BY DEF IInv, Display
<1>2. d' = y
  BY DEF SetSdDiag
<1>. HIDE DEF ok
<1>3. y \in Display
  BY <1>1 DEF IInv, Display
<1>4. Library(y) /\ Held(y) /\ Quiet(y) /\ Rated(y)
  BY <1>1 DEF IInv, Display, Library, Held, Quiet, Rated
<1>. QED  BY <1>2, <1>3, <1>4 DEF IInv

\* A file closed behind the display's back, a transfer, the boot's second
\* blank and the interrupt.
LEMMA CloseOpenPatternInv ==
  ASSUME IInv, CloseOpenPattern
  PROVE  IInv'
<1>. DEFINE y == [d EXCEPT !.open = 0]
<1>1. y \in Display
  BY DEF IInv, Display
<1>2. Library(y) /\ Held(y) /\ Quiet(y) /\ Rated(y)
  BY DEF IInv, Display, Library, Held, Quiet, Rated
<1>. QED  BY <1>1, <1>2 DEF IInv, CloseOpenPattern

LEMMA TransferInv ==
  ASSUME IInv, NEW b \in BOOLEAN, d' = [d EXCEPT !.busy = b]
  PROVE  IInv'
<1>. DEFINE y == [d EXCEPT !.busy = b]
<1>1. y \in Display
  BY DEF IInv, Display
<1>2. Library(y) /\ Held(y) /\ Quiet(y) /\ Rated(y)
  BY DEF IInv, Display, Library, Held, Quiet, Rated
<1>. QED  BY <1>1, <1>2 DEF IInv

LEMMA LateBootBlankInv ==
  ASSUME IInv, LateBootBlank
  PROVE  IInv'
<1>. DEFINE x == [d EXCEPT !.lateBlank = FALSE]
<1>1. x \in Display
  BY DEF IInv, Display
<1>2. Library(x) /\ Held(x) /\ Quiet(x) /\ Rated(x)
  BY DEF IInv, Display, Library, Held, Quiet, Rated
<1>3. d' = enterAllOff(x) \/ d' = x
  BY DEF LateBootBlank
<1>. HIDE DEF x
<1>. QED  BY <1>1, <1>2, <1>3, EnterAllOffInv DEF IInv

LEMMA RefreshTickInv ==
  ASSUME IInv, RefreshTick
  PROVE  IInv'
<1>. DEFINE y == [d EXCEPT !.tick = TRUE]
<1>1. y \in Display
  BY DEF IInv, Display
<1>2. Library(y) /\ Held(y) /\ Quiet(y) /\ Rated(y)
  BY DEF IInv, Display, Library, Held, Quiet, Rated, RefreshTick
<1>. QED  BY <1>1, <1>2 DEF IInv, RefreshTick

-----------------------------------------------------------------------------
(* serviceDisplay(). *)

LEMMA StepsFacts ==
  ASSUME d \in Display, NEW steps \in stepsOf(d)
  PROVE  /\ steps \in Nat
         /\ d.state \in {"OPEN_LOOP", "CLOSED_LOOP"} /\ steps # 0 => d.count > 0
<1>1. CASE d.state = "OPEN_LOOP" /\ d.moving /\ d.count > 1
  BY <1>1 DEF stepsOf, Display
<1>2. CASE d.state = "CLOSED_LOOP" /\ d.count > 0
  BY <1>2 DEF stepsOf, Display
<1>3. CASE d.state = "PSRAM_PLAY" /\ d.moving /\ d.many
  BY <1>3 DEF stepsOf, Display
<1>4. CASE /\ ~(d.state = "OPEN_LOOP" /\ d.moving /\ d.count > 1)
           /\ ~(d.state = "CLOSED_LOOP" /\ d.count > 0)
           /\ ~(d.state = "PSRAM_PLAY" /\ d.moving /\ d.many)
  BY <1>4 DEF stepsOf, Display
<1>. QED  BY <1>1, <1>2, <1>3, <1>4

\* The mode that moves by itself: it keeps playing, or the glyph is up.
LEMMA AdvanceInv ==
  ASSUME IInv, NEW steps \in stepsOf(d), NEW e \in Env,
         d.state \in {"OPEN_LOOP", "CLOSED_LOOP"}, NEW y, y = advance(d, steps, e)
  PROVE  Good(y) /\ y.state # "ALL_OFF"
<1>1. CASE steps = 0
  BY <1>1 DEF IInv, advance, Good
<1>2. CASE steps # 0
  <2>. DEFINE cur == (d.cur + steps) % d.count
              x == [d EXCEPT !.cur = cur]
  <2>1. steps \in Nat /\ d.count \in Nat /\ d.count > 0 /\ d.cur \in Nat
    BY <1>2, StepsFacts DEF IInv, Display
  <2>2. cur \in Nat /\ cur < d.count
    BY <2>1, ModRange
  <2>3. d.count <= 65535
    <3>1. d.pattern \in Patterns /\ d.count = Frames[d.pattern]
      BY <2>1 DEF IInv, Display, Library
    <3>. QED  BY <3>1, PatternFacts
  <2>4. y = loadFrame(x, cur, e)
    BY <1>2 DEF advance
  <2>. HIDE DEF cur
  <2>5. x \in Display /\ x.cur = cur
    BY <2>2 DEF IInv, Display
  <2>6. Library(x)
    BY <2>1, <2>2, <2>3 DEF IInv, Display, Library, None
  <2>7. /\ x.state = d.state /\ x.armed = d.armed /\ x.refresh = d.refresh
    BY DEF IInv, Display
  <2>. HIDE DEF x
  <2>8. /\ y \in Display /\ Library(y) /\ Held(y)
        /\ readOk(x, x.cur, e) =>
             y.state = x.state /\ y.armed = x.armed /\ y.refresh = x.refresh
        /\ ~readOk(x, x.cur, e) => Quiet(y) /\ Rated(y) /\ y.state = "ERROR_DISPLAY"
    <3>1. y = loadFrame(x, x.cur, e)
      BY <2>4, <2>5
    <3>. QED  BY <2>5, <2>6, <3>1, LoadFrameInv, ZenonT(60)
  <2>9. CASE readOk(x, x.cur, e)
    BY <2>7, <2>8, <2>9 DEF IInv, Good, Quiet, Rated
  <2>10. CASE ~readOk(x, x.cur, e)
    BY <2>8, <2>10 DEF Good
  <2>. QED  BY <2>9, <2>10
<1>. QED  BY <1>1, <1>2

LEMMA ServiceDisplayInv ==
  ASSUME IInv, NEW due \in BOOLEAN, NEW held \in BOOLEAN, NEW steps \in stepsOf(d),
         NEW e \in Env, ServiceDisplay(due, held, steps, e)
  PROVE  IInv'
<1>1. CASE trialOver(d, due)
  <2>. DEFINE x == [d EXCEPT !.deadline = FALSE]
  <2>1. x \in Display /\ Library(x)
    BY ZenonT(60) DEF IInv, Display, Library
  <2>2. d' = enterAllOff(x)
    BY <1>1 DEF ServiceDisplay
  <2>. HIDE DEF x
  <2>. QED  BY <2>1, <2>2, EnterAllOffInv DEF IInv
<1>2. CASE ~trialOver(d, due) /\ d.state = "ALL_OFF"
  BY <1>2 DEF IInv, ServiceDisplay
<1>3. CASE ~trialOver(d, due) /\ d.state \in {"ALL_ON", "STREAMING_FRAME", "SHOW_FRAME"}
  <2>1. d' = transmitOnRefresh(d)
    BY <1>3 DEF ServiceDisplay
  <2>. QED  BY <1>3, <2>1, TransmitInv DEF IInv
<1>4. CASE ~trialOver(d, due) /\ d.state \in {"OPEN_LOOP", "CLOSED_LOOP"}
  <2>. DEFINE x == advance(d, steps, e)
  <2>1. d' = transmitOnRefresh(x)
    BY <1>4 DEF ServiceDisplay
  <2>2. Good(x) /\ x.state # "ALL_OFF"
    BY <1>4, AdvanceInv
  <2>. HIDE DEF x
  <2>. QED  BY <2>1, <2>2, TransmitInv DEF IInv, Good
<1>5. CASE ~trialOver(d, due) /\ d.state = "PSRAM_PLAY"
  <2>. DEFINE x == IF steps = 0 THEN d ELSE buildPsramFrame(d)
  <2>1. d' = transmitOnRefresh(x)
    BY <1>5 DEF ServiceDisplay
  <2>2. /\ x \in Display /\ Library(x) /\ Held(x) /\ Quiet(x) /\ Rated(x)
        /\ x.state = "PSRAM_PLAY"
    BY <1>5, BuildPsramInv DEF IInv, Quiet, Rated
  <2>. HIDE DEF x
  <2>. QED  BY <2>1, <2>2, TransmitInv DEF IInv
<1>6. CASE ~trialOver(d, due) /\ d.state = "ERROR_DISPLAY"
  <2>. DEFINE x == transmitOnRefresh(d)
  <2>1. d' = enterAllOff(x) \/ d' = x
    BY <1>6 DEF ServiceDisplay, serviceError
  <2>2. Good(x)
    BY <1>6, TransmitInv DEF IInv, Good
  <2>. HIDE DEF x
  <2>. QED  BY <2>1, <2>2, EnterAllOffInv DEF IInv, Good
<1>. QED
  <2>1. d.state \in States
    BY DEF IInv, Display
  <2>. QED
    BY <1>1, <1>2, <1>3, <1>4, <1>5, <1>6, <2>1 DEF States, PlayStates

-----------------------------------------------------------------------------
(* The invariant and what it gives. *)

LEMMA InitIInv == Init => IInv
<1>. SUFFICES ASSUME Init PROVE IInv
  OBVIOUS
<1>1. /\ 300 \in Rates /\ 0 \in Rates \cup {0} /\ 1 \in 0 .. 3 /\ 0 \in 0 .. 2
      /\ "ALL_OFF" \in States /\ "gs2" \in Strides /\ 0 \in Bytes /\ 0 \in 0 .. SupersededMax
      /\ "programmable" \in AoModes /\ None \in Nat /\ 0 \in Patterns \cup {0}
  BY Members, RatesNonzero DEF AoModes, None
<1>2. Dark \in ContentType /\ Shown(Dark) \in Panels
  BY DarkIsTyped DEF Shown, Dark, Content, Panels
<1>3. Dark.kind = "dark" /\ Shown(Dark).kind = "dark"
  BY DEF Dark, Content, Shown
<1>4. d \in Display
  BY <1>1, <1>2 DEF Init, Display
<1>5. /\ d.open = 0 /\ d.pattern = 0 /\ d.count = 0 /\ d.cur = 0 /\ d.isFrame = FALSE
      /\ d.buf = Dark /\ d.state = "ALL_OFF" /\ d.panel = Shown(Dark) /\ d.armed = 0
      /\ d.tick = FALSE
  BY DEF Init
<1>. QED
  BY <1>3, <1>4, <1>5 DEF IInv, Library, Held, Quiet, Rated, PlayStates, None

LEMMA StartTrialInv == IInv /\ StartTrial => IInv'
<1>. SUFFICES ASSUME IInv, StartTrial PROVE IInv'
  OBVIOUS
<1>1. PICK target \in TrialModes, p \in Patterns, duty \in Duties, lasts \in Durations,
           e \in EnvOf(TRUE) :
        \E moves \in IF target = "OPEN_LOOP" THEN BOOLEAN ELSE {FALSE},
           init \in InitialPositions(p), result \in openOutcomes(d, p) :
          TrialParams(target, p, moves, init, duty, lasts, result, e)
  BY DEF StartTrial
<1>2. PICK moves \in IF target = "OPEN_LOOP" THEN BOOLEAN ELSE {FALSE},
           init \in InitialPositions(p), result \in openOutcomes(d, p) :
        TrialParams(target, p, moves, init, duty, lasts, result, e)
  BY <1>1
<1>3. moves \in BOOLEAN /\ init \in Nat /\ e \in Env
  <2>1. moves \in BOOLEAN
    OBVIOUS
  <2>2. e \in Env
    BY EnvOfEnv
  <2>3. init \in {0, Frames[p] + 1}
    BY DEF InitialPositions
  <2>4. Frames[p] \in Nat
    BY PatternFacts
  <2>5. init \in Nat
    BY <2>3, <2>4
  <2>. QED  BY <2>1, <2>2, <2>5
<1>. QED
  BY <1>2, <1>3, TrialParamsInv

LEMMA HostCommandInv == IInv /\ HostCommand => IInv'
<1>. SUFFICES ASSUME IInv, HostCommand PROVE IInv'
  OBVIOUS
<1>1. CASE StopDisplay
  BY <1>1, EnterAllOffInv DEF IInv, StopDisplay
<1>2. ASSUME NEW e \in EnvOf(FALSE), AllOn(e) PROVE IInv'
  BY <1>2, EnvOfEnv, EnterAllOnInv DEF IInv, AllOn
<1>3. CASE StartTrial
  BY <1>3, StartTrialInv
<1>4. ASSUME NEW p \in Patterns, NEW e \in EnvOf(TRUE), NEW result \in openOutcomes(d, p),
             SetPatternId(p, result, e)
      PROVE  IInv'
  BY <1>4, EnvOfEnv, SetPatternIdInv
<1>5. ASSUME NEW index \in Indices, NEW e \in EnvOf(TRUE), SetFramePosition(index, e) PROVE IInv'
  BY <1>5, EnvOfEnv, SetFramePositionInv
<1>6. ASSUME NEW e \in EnvOf(FALSE), DisplayPsramIndex(e) PROVE IInv'
  BY <1>6, EnvOfEnv, DisplayPsramIndexInv
<1>7. ASSUME NEW moves \in BOOLEAN, NEW many \in BOOLEAN, NEW e \in EnvOf(FALSE),
             PsramPlay(moves, many, e)
      PROVE  IInv'
  BY <1>7, EnvOfEnv, PsramPlayInv
<1>8. ASSUME NEW stride \in {"gs2", "gs16", "other"}, NEW e \in EnvOf(FALSE),
             StreamFrame(stride, e)
      PROVE  IInv'
  BY <1>8, EnvOfEnv, StreamFrameInv
<1>9. ASSUME NEW hz \in ExplicitRates, NEW e \in EnvOf(FALSE), SetRefreshRate(hz, e) PROVE IInv'
  BY <1>9, EnvOfEnv, SetRefreshRateInv
<1>10. ASSUME NEW mode \in DisplayModes, SetPanelDisplayMode(mode) PROVE IInv'
  <2>1. mode \in 0 .. 3
    BY DisplayAssumption
  <2>. QED  BY <1>10, <2>1, PatchDispModeInv DEF IInv, SetPanelDisplayMode
<1>11. ASSUME NEW mode \in {0, 1}, NEW e \in Env, SetAoMode(mode, e) PROVE IInv'
  BY <1>11, SetAoModeInv
<1>12. ASSUME NEW e \in Env, SetAoVoltage(e) PROVE IInv'
  BY <1>12, SetAoVoltageInv
<1>13. ASSUME NEW lut \in {"lut_frame", "lut_time"}, NEW accepted \in BOOLEAN, NEW e \in Env,
              SetAoLut(lut, accepted, e)
       PROVE  IInv'
  BY <1>13, SetAoLutInv
<1>14. ASSUME NEW skip \in BOOLEAN, SetSdDiag(skip) PROVE IInv'
  BY <1>14, SetSdDiagInv
<1>15. ASSUME NEW e \in EnvOf(FALSE), Refused(e) PROVE IInv'
  BY <1>15, EnvOfEnv, ShowErrorInv DEF IInv, Refused
<1>16. CASE CloseOpenPattern
  BY <1>16, CloseOpenPatternInv
<1>17. CASE TransferBegins
  BY <1>17, TransferInv DEF TransferBegins
<1>. QED
  BY <1>1, <1>2, <1>3, <1>4, <1>5, <1>6, <1>7, <1>8, <1>9, <1>10, <1>11, <1>12, <1>13, <1>14,
     <1>15, <1>16, <1>17 DEF HostCommand

LEMMA ServiceInv == IInv /\ Service => IInv'
<1>. SUFFICES ASSUME IInv, Service PROVE IInv'
  OBVIOUS
<1>1. PICK due \in {FALSE, d.deadline}, held \in {FALSE, d.state = "ERROR_DISPLAY"},
           steps \in stepsOf(d) :
        \E e \in EnvOf(steps > 0) : ServiceDisplay(due, held, steps, e)
  BY DEF Service
<1>2. PICK e \in EnvOf(steps > 0) : ServiceDisplay(due, held, steps, e)
  BY <1>1
<1>3. e \in Env
  BY EnvOfEnv DEF EnvOf, Env
<1>4. due \in BOOLEAN /\ held \in BOOLEAN
  BY DEF IInv, Display
<1>. QED
  BY <1>2, <1>3, <1>4, ServiceDisplayInv

LEMMA NextIInv == IInv /\ [Next]_d => IInv'
<1>. SUFFICES ASSUME IInv, [Next]_d PROVE IInv'
  OBVIOUS
<1>1. CASE HostCommand
  BY <1>1, HostCommandInv
<1>2. CASE Service
  BY <1>2, ServiceInv
<1>3. CASE LateBootBlank
  BY <1>3, LateBootBlankInv
<1>4. CASE TransferEnds
  BY <1>4, TransferInv DEF TransferEnds
<1>5. CASE RefreshTick
  BY <1>5, RefreshTickInv
<1>6. CASE UNCHANGED d
  BY <1>6 DEF IInv
<1>. QED
  BY <1>1, <1>2, <1>3, <1>4, <1>5, <1>6 DEF Next

\* The inductive invariant: every handler, every pass of the loop and every
\* interrupt keeps the types, the library, the held frame, the dark arena and
\* the rate in step.
THEOREM Invariance == Spec => []IInv
<1>1. Init => IInv
  BY InitIInv
<1>2. IInv /\ [Next]_d => IInv'
  BY NextIInv
<1>. QED
  BY <1>1, <1>2, PTL DEF Spec

\* The display's state keeps its type, no frame index leaves its pattern, and
\* ALL_OFF is dark with the timer stopped and no tick left, after whatever
\* sequence of commands, failed reads, failed opens and missing timers.
THEOREM DisplayIsSound == Spec => []DisplaySound
<1>1. IInv => DisplaySound
  <2>. SUFFICES ASSUME IInv PROVE DisplaySound
    OBVIOUS
  <2>1. d.cur \in Nat /\ (d.count > 0 => d.cur < d.count)
    BY DEF IInv, Display, Library
  <2>2. TypeOK
    BY <2>1 DEF IInv, Display, TypeOK, AoModes
  <2>3. DarkWhenOff
    BY DEF IInv, Quiet, DarkWhenOff
  <2>. QED  BY <2>2, <2>3 DEF DisplaySound
<1>. QED
  BY <1>1, Invariance, PTL

\* What the handlers take for granted holds whichever mode took over from
\* which: the frame in the buffer and the rate of the timer.
THEOREM CachedFactsHold == Spec => []CachedFactsTrue
<1>1. IInv => CachedFactsTrue
  <2>. SUFFICES ASSUME IInv PROVE CachedFactsTrue
    OBVIOUS
  <2>1. HeldFrameIsCurrent
    BY DEF IInv, Held, HeldFrameIsCurrent
  <2>2. RateInForce
    BY DEF IInv, Rated, RateInForce
  <2>. QED  BY <2>1, <2>2 DEF CachedFactsTrue
<1>. QED
  BY <1>1, Invariance, PTL

\* The same-index shortcut of SET_FRAME_POSITION leaves the panels, the duty,
\* the display mode and the analog output as a fresh load would have.
THEOREM ShortcutIsSound == Spec => []SkipIsSound
<1>1. IInv => SkipIsSound
  <2>. SUFFICES ASSUME IInv, NEW index \in Indices, d.open # 0, sameFrameHeld(d, index)
                PROVE  /\ d.buf.kind = "sd" /\ d.buf.pat = d.open /\ d.buf.idx = index
                       /\ d.block = d.buf.stride => d.buf.mode = d.mode /\ d.buf.duty = d.duty
                       /\ d.ao \in {"frame_number", "lut_frame"} => d.dac = index
    BY DEF SkipIsSound
  <2>. QED
    BY DEF IInv, Library, Held, sameFrameHeld
<1>. QED
  BY <1>1, Invariance, PTL

-----------------------------------------------------------------------------
(* What the operators do to the refresh flag and to superseded_pending_.   *)
(* These lemmas need no more of a record than its fields.                  *)

Fields ==
  {"state", "block", "refresh", "explicit", "mode", "armed", "tick", "open", "pattern", "count",
   "cur", "moving", "many", "duty", "deadline", "buf", "filled", "isFrame", "cacheOk",
   "presented", "superseded", "telFrame", "telPattern", "skip", "ao", "dac", "lateBlank", "busy",
   "panel", "seen", "gen", "timed"}

\* A tick that is there afterwards was there before, and the timer that
\* raised it has not been stopped since.
TickKept(x, y) ==
  y.tick = FALSE \/ (y.tick = x.tick /\ (y.armed # 0 \/ y.armed = x.armed))

SameRecord(x, y) == y.telFrame = x.telFrame /\ y.telPattern = x.telPattern

\* The buffer was not written, or written once, and counted accordingly.
Unwritten(x, y) == y.gen = x.gen /\ y.superseded = x.superseded /\ SameRecord(x, y)
Written(x, y) ==
  y.gen = (x.gen + 1) % 3 /\ y.superseded = countSuperseded(x) /\ SameRecord(x, y)

LEMMA DisplayFields == \A x \in Display : DOMAIN x = Fields
BY DEF Display, Fields

LEMMA ArmBooks ==
  ASSUME NEW x, DOMAIN x = Fields, NEW hz, NEW e, NEW y, y = arm(x, hz, e)
  PROVE  /\ DOMAIN y = Fields /\ Unwritten(x, y) /\ y.tick = x.tick
         /\ y.armed \in {hz, x.armed} /\ y.refresh = x.refresh
BY DEF Fields, arm, Unwritten, SameRecord

LEMMA RateBooks ==
  ASSUME NEW x, DOMAIN x = Fields, NEW y, y = setDefaultRefresh(x)
  PROVE  /\ DOMAIN y = Fields /\ Unwritten(x, y) /\ y.tick = x.tick /\ y.armed = x.armed
         /\ y.isFrame = x.isFrame /\ y.presented = x.presented
BY DEF Fields, setDefaultRefresh, Unwritten, SameRecord

LEMMA AllOffBooks ==
  ASSUME NEW x, DOMAIN x = Fields, NEW y, y = enterAllOff(x)
  PROVE  DOMAIN y = Fields /\ Written(x, y) /\ y.tick = FALSE
<1>. DEFINE u == disarm(x)
            v == invalidateFrameBuf(u)
<1>1. DOMAIN u = Fields /\ Unwritten(x, u) /\ u.tick = FALSE /\ countSuperseded(u) = countSuperseded(x)
  BY DEF Fields, disarm, Unwritten, SameRecord, countSuperseded
<1>. HIDE DEF u
<1>2. /\ DOMAIN v = Fields /\ v.tick = FALSE /\ v.gen = x.gen
      /\ v.superseded = countSuperseded(x) /\ SameRecord(x, v)
  BY <1>1 DEF Fields, invalidateFrameBuf, Unwritten, SameRecord
<1>3. y = [transferFrame(Write(v, Dark)) EXCEPT !.block = "gs2", !.state = "ALL_OFF",
              !.filled = FALSE, !.duty = 0, !.timed = FALSE]
  BY DEF enterAllOff, u
<1>. HIDE DEF v
<1>. QED
  BY <1>2, <1>3, ZenonT(60) DEF Fields, transferFrame, Write, Written, SameRecord

LEMMA ErrorBooks ==
  ASSUME NEW x, DOMAIN x = Fields, NEW e, NEW y, y = showError(x, e)
  PROVE  DOMAIN y = Fields /\ Written(x, y) /\ y.tick = FALSE
<1>. DEFINE u == disarm(x)
            v == invalidateFrameBuf(u)
            c == Content("glyph", 0, 0, "gs16", 0)
            w == [Write(v, c) EXCEPT !.block = "gs16", !.filled = TRUE, !.state = "ERROR_DISPLAY",
                                     !.timed = FALSE]
            hz == IF x.explicit THEN x.refresh ELSE defaultRefreshFor("gs16")
<1>1. DOMAIN u = Fields /\ Unwritten(x, u) /\ u.tick = FALSE /\ countSuperseded(u) = countSuperseded(x)
  BY DEF Fields, disarm, Unwritten, SameRecord, countSuperseded
<1>2. y = arm(w, hz, e)
  BY DEF showError
<1>. HIDE DEF u
<1>3. /\ DOMAIN v = Fields /\ v.tick = FALSE /\ v.gen = x.gen
      /\ v.superseded = countSuperseded(x) /\ SameRecord(x, v)
  BY <1>1 DEF Fields, invalidateFrameBuf, Unwritten, SameRecord
<1>. HIDE DEF v, c, hz
<1>4. DOMAIN w = Fields /\ Written(x, w) /\ w.tick = FALSE
  BY <1>3 DEF Fields, Write, Written, SameRecord
<1>. HIDE DEF w
<1>. QED
  BY <1>2, <1>4, ArmBooks DEF Written, Unwritten, SameRecord

\* The frame came in, and nothing has been transferred yet.
Fresh(x, y) ==
  y.isFrame = TRUE /\ y.presented = FALSE /\ y.tick = x.tick /\ y.armed = x.armed

LEMMA LoadBooks ==
  ASSUME NEW x, DOMAIN x = Fields, NEW i, NEW e,
         NEW y, y = loadFrame(x, i, e)
  PROVE  /\ DOMAIN y = Fields /\ Written(x, y) /\ TickKept(x, y)
         /\ readOk(x, i, e) => Fresh(x, y)
<1>. DEFINE y0 == [x EXCEPT !.superseded = countSuperseded(x), !.isFrame = FALSE,
                            !.presented = FALSE]
<1>1. /\ DOMAIN y0 = Fields /\ y0.superseded = countSuperseded(x) /\ y0.gen = x.gen
      /\ SameRecord(x, y0) /\ y0.tick = x.tick /\ y0.armed = x.armed
      /\ y0.isFrame = FALSE /\ y0.presented = FALSE
  BY DEF Fields, SameRecord
<1>2. CASE ~readOk(x, i, e)
  <2>1. y = showError(y0, e)
    BY <1>2 DEF loadFrame
  <2>. HIDE DEF y0
  <2>2. DOMAIN y = Fields /\ Written(y0, y) /\ y.tick = FALSE
    BY <1>1, <2>1, ErrorBooks
  <2>3. countSuperseded(y0) = y0.superseded
    BY <1>1 DEF countSuperseded
  <2>. QED
    BY <1>1, <1>2, <2>2, <2>3 DEF Written, SameRecord, TickKept
<1>3. CASE readOk(x, i, e)
  <2>. DEFINE c == Content("sd", x.open, i, Gray[x.open], 1)
              z == [Write(y0, c) EXCEPT !.filled = TRUE, !.isFrame = TRUE]
              m == patchDispMode(z)
              t == patchTrialDuty(m)
  <2>1. y = deriveOutputs(t, i, e)
    BY <1>3 DEF loadFrame
  <2>. HIDE DEF y0, c
  <2>2. /\ DOMAIN z = Fields /\ Written(x, z) /\ z.tick = x.tick /\ z.armed = x.armed
        /\ z.isFrame = TRUE /\ z.presented = y0.presented
    BY <1>1 DEF Fields, Write, Written, SameRecord
  <2>. HIDE DEF z
  <2>3. /\ DOMAIN m = Fields /\ Written(x, m) /\ m.tick = x.tick /\ m.armed = x.armed
        /\ m.isFrame = TRUE /\ m.presented = y0.presented
    BY <2>2 DEF Fields, patchDispMode, Written, SameRecord
  <2>. HIDE DEF m
  <2>4. /\ DOMAIN t = Fields /\ Written(x, t) /\ t.tick = x.tick /\ t.armed = x.armed
        /\ t.isFrame = TRUE /\ t.presented = y0.presented
    BY <2>3 DEF Fields, patchTrialDuty, Written, SameRecord
  <2>. HIDE DEF t
  <2>5. /\ DOMAIN y = Fields /\ Written(x, y) /\ y.tick = x.tick /\ y.armed = x.armed
        /\ y.isFrame = TRUE /\ y.presented = y0.presented
    BY <2>1, <2>4 DEF Fields, deriveOutputs, Written, SameRecord
  <2>. QED
    BY <1>1, <1>3, <2>5 DEF TickKept, Fresh
<1>. QED  BY <1>2, <1>3

LEMMA AllOnBooks ==
  ASSUME NEW x, DOMAIN x = Fields, NEW e, NEW y, y = enterAllOn(x, e)
  PROVE  Written(x, y) /\ y.tick = FALSE
<1>. DEFINE a == [disarm(x) EXCEPT !.block = "gs16"]
            u == setDefaultRefresh(a)
            c == Content("on", 0, 0, "gs16", x.mode)
            v == invalidateFrameBuf(u)
            z == Write(v, c)
            w == [z EXCEPT !.filled = TRUE, !.state = "ALL_ON", !.timed = FALSE]
<1>1. y = arm(w, z.refresh, e)
  BY DEF enterAllOn
<1>2. /\ DOMAIN a = Fields /\ Unwritten(x, a) /\ a.tick = FALSE
      /\ a.isFrame = x.isFrame /\ a.presented = x.presented
  BY DEF Fields, disarm, Unwritten, SameRecord
<1>. HIDE DEF a
<1>3. /\ DOMAIN u = Fields /\ Unwritten(x, u) /\ u.tick = FALSE
      /\ u.isFrame = x.isFrame /\ u.presented = x.presented
  <2>1. /\ DOMAIN u = Fields /\ Unwritten(a, u) /\ u.tick = a.tick
        /\ u.isFrame = a.isFrame /\ u.presented = a.presented
    BY <1>2, RateBooks
  <2>. HIDE DEF u
  <2>. QED  BY <1>2, <2>1 DEF Unwritten, SameRecord
<1>. HIDE DEF u
<1>4. countSuperseded(u) = countSuperseded(x)
  BY <1>3 DEF countSuperseded, Unwritten
<1>5. /\ DOMAIN v = Fields /\ v.tick = FALSE /\ v.gen = x.gen
      /\ v.superseded = countSuperseded(x) /\ SameRecord(x, v)
  BY <1>3, <1>4 DEF Fields, invalidateFrameBuf, Unwritten, SameRecord
<1>. HIDE DEF v, c
<1>6. DOMAIN w = Fields /\ Written(x, w) /\ w.tick = FALSE
  BY <1>5 DEF Fields, Write, Written, SameRecord
<1>. HIDE DEF w, z
<1>. QED
  BY <1>1, <1>6, ArmBooks DEF Written, Unwritten, SameRecord

LEMMA PsramBooks ==
  ASSUME NEW x, DOMAIN x = Fields, NEW y, y = buildPsramFrame(x)
  PROVE  DOMAIN y = Fields /\ Written(x, y) /\ y.tick = x.tick /\ y.armed = x.armed
<1>. DEFINE v == invalidateFrameBuf(x)
            c == Content("psram", 0, 0, "psram", x.mode)
<1>1. y = [Write(v, c) EXCEPT !.block = "psram", !.filled = TRUE]
  BY DEF buildPsramFrame
<1>2. /\ DOMAIN v = Fields /\ v.tick = x.tick /\ v.armed = x.armed /\ v.gen = x.gen
      /\ v.superseded = countSuperseded(x) /\ SameRecord(x, v)
  BY DEF Fields, invalidateFrameBuf, SameRecord
<1>. HIDE DEF v, c
<1>. QED
  BY <1>1, <1>2 DEF Fields, Write, Written, SameRecord

\* A transfer writes nothing; it keeps superseded_pending_ or hands it to the
\* FRAME record it writes.
LEMMA TransmitBooks ==
  ASSUME NEW x, DOMAIN x = Fields, NEW y, y = transmitOnRefresh(x)
  PROVE  /\ DOMAIN y = Fields /\ y.gen = x.gen /\ y.armed = x.armed /\ y.isFrame = x.isFrame
         /\ y.tick = FALSE \/ y.tick = x.tick
         /\ \/ Unwritten(x, y)
            \/ /\ y.telFrame = x.cur /\ ~SameRecord(x, y) /\ y.superseded = 0
               /\ y.presented = TRUE
BY DEF Fields, transmitOnRefresh, transferFrame, Unwritten, SameRecord

\* No FRAME record: a trial's start forgets the last one.
Unrecorded(x, y) ==
  /\ y.telFrame = None \/ SameRecord(x, y)
  /\ \/ y.gen = x.gen /\ y.superseded = x.superseded
     \/ y.gen = (x.gen + 1) % 3 /\ y.superseded = countSuperseded(x)
     \/ y.gen = (((x.gen + 1) % 3) + 1) % 3 /\ y.superseded = AtMost(countSuperseded(x) + 1)

LEMMA PatternModeBooks ==
  ASSUME NEW x \in Display, NEW target, NEW p,
         NEW moves, NEW init, NEW lasts, NEW result, NEW e,
         NEW y, y = enterPatternMode(x, target, p, moves, init, lasts, result, e)
  PROVE  DOMAIN y = Fields /\ y.tick = FALSE /\ Unrecorded(x, y)
<1>. DEFINE u      == disarm(x)
            left   == invalidateFrameBuf(u)
            i      == init % Frames[p]
            opened == [left EXCEPT !.open = p, !.pattern = p, !.count = Frames[p],
                                   !.block = Gray[p], !.moving = moves, !.cur = i]
            loaded == loadFrame(opened, opened.cur, e)
            rated  == setDefaultRefresh(loaded)
            begun  == [rated EXCEPT !.deadline = lasts, !.state = target]
<1>1. y = IF result # p THEN showError([left EXCEPT !.open = result], e)
          ELSE IF ~readOk(opened, opened.cur, e) THEN loaded
          ELSE IF ~armOk(begun, e) THEN enterAllOff(begun)
          ELSE [arm(begun, begun.refresh, e) EXCEPT !.telFrame = None, !.telPattern = None]
  BY DEF enterPatternMode
<1>0. DOMAIN x = Fields /\ x.superseded \in 0 .. SupersededMax
  <2>1. x.superseded \in 0 .. SupersededMax
    BY DEF Display
  <2>. QED  BY <2>1, DisplayFields
<1>2. /\ DOMAIN u = Fields /\ Unwritten(x, u) /\ u.tick = FALSE
      /\ u.isFrame = x.isFrame /\ u.presented = x.presented
  BY <1>0 DEF Fields, disarm, Unwritten, SameRecord
<1>. HIDE DEF u, i
<1>3. countSuperseded(u) = countSuperseded(x)
  BY <1>2 DEF countSuperseded, Unwritten
<1>4. /\ DOMAIN left = Fields /\ left.tick = FALSE /\ left.gen = x.gen /\ left.isFrame = FALSE
      /\ left.superseded = countSuperseded(x) /\ SameRecord(x, left)
  BY <1>2, <1>3 DEF Fields, invalidateFrameBuf, Unwritten, SameRecord
<1>. HIDE DEF left
<1>5. CASE result # p
  <2>. DEFINE kept == [left EXCEPT !.open = result]
  <2>1. /\ DOMAIN kept = Fields /\ kept.gen = x.gen /\ kept.isFrame = FALSE
        /\ kept.superseded = countSuperseded(x) /\ SameRecord(x, kept)
    BY <1>4 DEF Fields, SameRecord
  <2>2. y = showError(kept, e)
    BY <1>1, <1>5
  <2>. HIDE DEF kept
  <2>3. countSuperseded(kept) = kept.superseded
    BY <2>1 DEF countSuperseded
  <2>4. DOMAIN y = Fields /\ Written(kept, y) /\ y.tick = FALSE
    BY <2>1, <2>2, ErrorBooks
  <2>. QED
    BY <2>1, <2>3, <2>4 DEF Written, Unrecorded, SameRecord
<1>6. CASE result = p
  <2>1. /\ DOMAIN opened = Fields /\ opened.tick = FALSE /\ opened.gen = x.gen
        /\ opened.isFrame = FALSE /\ opened.superseded = countSuperseded(x)
        /\ SameRecord(x, opened)
    BY <1>4 DEF Fields, SameRecord
  <2>. HIDE DEF opened
  <2>2. countSuperseded(opened) = opened.superseded
    BY <2>1 DEF countSuperseded
  <2>3. /\ DOMAIN loaded = Fields /\ Written(opened, loaded) /\ loaded.tick = FALSE
        /\ readOk(opened, opened.cur, e) => Fresh(opened, loaded)
    <3>1. loaded = loadFrame(opened, opened.cur, e)
      OBVIOUS
    <3>. HIDE DEF loaded
    <3>2. /\ DOMAIN loaded = Fields /\ Written(opened, loaded) /\ TickKept(opened, loaded)
          /\ readOk(opened, opened.cur, e) => Fresh(opened, loaded)
      BY <2>1, <3>1, LoadBooks
    <3>. QED  BY <2>1, <3>2 DEF TickKept
  <2>. HIDE DEF loaded
  <2>4. loaded.gen = (x.gen + 1) % 3 /\ loaded.superseded = countSuperseded(x) /\ SameRecord(x, loaded)
    BY <2>1, <2>2, <2>3 DEF Written, SameRecord
  <2>5. CASE ~readOk(opened, opened.cur, e)
    BY <1>1, <1>6, <2>3, <2>4, <2>5 DEF Unrecorded
  <2>6. CASE readOk(opened, opened.cur, e)
    <3>1. /\ DOMAIN rated = Fields /\ Unwritten(loaded, rated) /\ rated.tick = FALSE
          /\ rated.isFrame = TRUE /\ rated.presented = FALSE
      BY <2>3, <2>6, RateBooks DEF Fresh
    <3>. HIDE DEF rated
    <3>2. /\ DOMAIN begun = Fields /\ begun.tick = FALSE /\ begun.isFrame = TRUE /\ begun.presented = FALSE
          /\ begun.gen = (x.gen + 1) % 3 /\ begun.superseded = countSuperseded(x)
          /\ SameRecord(x, begun)
      BY <2>4, <3>1 DEF Fields, Unwritten, SameRecord
    <3>. HIDE DEF begun
    <3>3. CASE ~armOk(begun, e)
      <4>1. y = enterAllOff(begun)
        BY <1>1, <1>6, <2>6, <3>3
      <4>2. DOMAIN y = Fields /\ Written(begun, y) /\ y.tick = FALSE
        BY <3>2, <4>1, AllOffBooks
      <4>3. countSuperseded(begun) = AtMost(countSuperseded(x) + 1)
        <5>1. countSuperseded(x) \in 0 .. SupersededMax
          BY CountSupersededType
        <5>. QED  BY <3>2, <5>1, DisplayAssumption DEF countSuperseded, AtMost
      <4>. QED
        BY <3>2, <4>2, <4>3 DEF Written, Unrecorded, SameRecord
    <3>4. CASE armOk(begun, e)
      <4>. DEFINE run == arm(begun, begun.refresh, e)
      <4>1. y = [run EXCEPT !.telFrame = None, !.telPattern = None]
        BY <1>1, <1>6, <2>6, <3>4
      <4>2. DOMAIN run = Fields /\ Unwritten(begun, run) /\ run.tick = FALSE
        BY <3>2, ArmBooks
      <4>. HIDE DEF run
      <4>3. /\ DOMAIN y = Fields /\ y.tick = FALSE /\ y.telFrame = None
            /\ y.gen = run.gen /\ y.superseded = run.superseded
        BY <4>1, <4>2 DEF Fields
      <4>. QED
        BY <3>2, <4>2, <4>3 DEF Unwritten, Unrecorded
    <3>. QED  BY <3>3, <3>4
  <2>. QED  BY <2>5, <2>6
<1>. QED  BY <1>5, <1>6

\* Every command of the host keeps the tick's promise and counts.
LEMMA SetFramePositionBooks ==
  ASSUME IInv, IInv', NEW index, NEW e, SetFramePosition(index, e)
  PROVE  TickKept(d, d') /\ Unrecorded(d, d')
<1>. DEFINE asked == [d EXCEPT !.cur = index]
            loaded == loadFrame(asked, index, e)
            there == [loaded EXCEPT !.state = "SHOW_FRAME"]
            shown == setDefaultRefresh(there)
<1>1. DOMAIN d = Fields /\ d'.refresh # 0
  <2>1. d \in Display /\ d'.refresh \in Rates
    BY DEF IInv, Display
  <2>. QED  BY <2>1, DisplayFields, RatesNonzero
<1>2. CASE d' = showError(d, e)
  BY <1>1, <1>2, ErrorBooks DEF TickKept, Written, Unrecorded
<1>3. CASE d' = d
  BY <1>3 DEF TickKept, Unrecorded, SameRecord
<1>4. CASE d' = IF readOk(asked, index, e) THEN arm(shown, shown.refresh, e) ELSE loaded
  <2>1. /\ DOMAIN asked = Fields /\ Unwritten(d, asked) /\ asked.tick = d.tick
        /\ asked.armed = d.armed /\ countSuperseded(asked) = countSuperseded(d)
    BY <1>1 DEF Fields, Unwritten, SameRecord, countSuperseded
  <2>. HIDE DEF asked
  <2>2. /\ DOMAIN loaded = Fields /\ Written(asked, loaded) /\ TickKept(asked, loaded)
        /\ readOk(asked, index, e) => Fresh(asked, loaded)
    <3>1. loaded = loadFrame(asked, index, e)
      OBVIOUS
    <3>. HIDE DEF loaded
    <3>. QED  BY <2>1, <3>1, LoadBooks
  <2>. HIDE DEF loaded
  <2>3. CASE ~readOk(asked, index, e)
    BY <1>4, <2>1, <2>2, <2>3 DEF TickKept, Written, Unwritten, Unrecorded, SameRecord
  <2>4. CASE readOk(asked, index, e)
    <3>1. /\ DOMAIN there = Fields /\ Unwritten(loaded, there) /\ there.tick = d.tick
          /\ there.armed = d.armed
      BY <2>1, <2>2, <2>4 DEF Fields, Unwritten, SameRecord, Fresh
    <3>. HIDE DEF there
    <3>2. /\ DOMAIN shown = Fields /\ Unwritten(there, shown) /\ shown.tick = d.tick
          /\ shown.armed = d.armed
      BY <3>1, RateBooks
    <3>. HIDE DEF shown
    <3>3. d' = arm(shown, shown.refresh, e)
      BY <1>4, <2>4
    <3>4. Unwritten(shown, d') /\ d'.tick = d.tick /\ d'.armed \in {d'.refresh, d.armed}
      BY <3>2, <3>3, ArmBooks
    <3>5. Unrecorded(d, d')
      BY <2>1, <2>2, <3>1, <3>2, <3>4 DEF Written, Unwritten, Unrecorded, SameRecord
    <3>6. TickKept(d, d')
      BY <1>1, <3>4 DEF TickKept
    <3>. QED  BY <3>5, <3>6
  <2>. QED  BY <2>3, <2>4
<1>. QED
  BY <1>2, <1>3, <1>4 DEF SetFramePosition, takePosition

LEMMA PsramIndexBooks ==
  ASSUME IInv, IInv', NEW e, DisplayPsramIndex(e)
  PROVE  TickKept(d, d') /\ Unrecorded(d, d')
<1>. DEFINE b == buildPsramFrame(d)
            u == [b EXCEPT !.many = FALSE, !.state = "PSRAM_PLAY", !.timed = FALSE]
            x == setDefaultRefresh(u)
<1>1. DOMAIN d = Fields /\ d'.refresh # 0
  <2>1. d \in Display /\ d'.refresh \in Rates
    BY DEF IInv, Display
  <2>. QED  BY <2>1, DisplayFields, RatesNonzero
<1>2. d' = arm(x, x.refresh, e)
  BY DEF DisplayPsramIndex
<1>3. DOMAIN b = Fields /\ Written(d, b) /\ b.tick = d.tick /\ b.armed = d.armed
  BY <1>1, PsramBooks
<1>. HIDE DEF b
<1>4. DOMAIN u = Fields /\ Unwritten(b, u) /\ u.tick = d.tick /\ u.armed = d.armed
  BY <1>3 DEF Fields, Unwritten, SameRecord
<1>. HIDE DEF u
<1>5. DOMAIN x = Fields /\ Unwritten(u, x) /\ x.tick = d.tick /\ x.armed = d.armed
  BY <1>4, RateBooks
<1>. HIDE DEF x
<1>6. Unwritten(x, d') /\ d'.tick = d.tick /\ d'.armed \in {d'.refresh, d.armed}
  BY <1>2, <1>5, ArmBooks
<1>7. Unrecorded(d, d')
  BY <1>3, <1>4, <1>5, <1>6 DEF Written, Unwritten, Unrecorded, SameRecord
<1>8. TickKept(d, d')
  BY <1>1, <1>6 DEF TickKept
<1>. QED  BY <1>7, <1>8

LEMMA PsramPlayBooks ==
  ASSUME IInv, NEW moves, NEW many, NEW e, PsramPlay(moves, many, e)
  PROVE  TickKept(d, d') /\ Unrecorded(d, d')
<1>. DEFINE b == buildPsramFrame(d)
            x == [b EXCEPT !.many = many, !.moving = moves, !.state = "PSRAM_PLAY",
                           !.timed = FALSE]
            hz == IF x.explicit THEN x.refresh ELSE defaultRefreshFor("psram")
<1>1. DOMAIN d = Fields
  BY DisplayFields DEF IInv
<1>2. d' = arm(x, hz, e)
  BY DEF PsramPlay
<1>3. DOMAIN b = Fields /\ Written(d, b) /\ b.tick = d.tick /\ b.armed = d.armed
  BY <1>1, PsramBooks
<1>4. b.refresh # 0
  <2>1. b \in Display
    BY BuildPsramInv DEF IInv
  <2>. HIDE DEF b
  <2>2. b.refresh \in Rates
    BY <2>1 DEF Display
  <2>. QED  BY <2>2, RatesNonzero
<1>. HIDE DEF b
<1>5. /\ DOMAIN x = Fields /\ Unwritten(b, x) /\ x.tick = d.tick /\ x.armed = d.armed
      /\ x.refresh # 0
  BY <1>3, <1>4 DEF Fields, Unwritten, SameRecord
<1>. HIDE DEF x
<1>6. hz # 0
  BY <1>5 DEF defaultRefreshFor
<1>. HIDE DEF hz
<1>7. Unwritten(x, d') /\ d'.tick = d.tick /\ d'.armed \in {hz, d.armed}
  BY <1>2, <1>5, ArmBooks
<1>8. Unrecorded(d, d')
  BY <1>3, <1>5, <1>7 DEF Written, Unwritten, Unrecorded, SameRecord
<1>9. TickKept(d, d')
  BY <1>6, <1>7 DEF TickKept
<1>. QED  BY <1>8, <1>9

LEMMA StreamFrameBooks ==
  ASSUME IInv, NEW stride, NEW e, StreamFrame(stride, e)
  PROVE  TickKept(d, d') /\ Unrecorded(d, d')
<1>1. DOMAIN d = Fields
  BY DisplayFields DEF IInv
<1>2. CASE stride \notin {"gs2", "gs16"}
  <2>1. d' = enterAllOff(d)
    BY <1>2 DEF StreamFrame
  <2>. QED  BY <1>1, <2>1, AllOffBooks DEF TickKept, Written, Unrecorded
<1>3. CASE stride \in {"gs2", "gs16"}
  <2>. DEFINE c == Content("stream", 0, 0, stride, 1)
              v == invalidateFrameBuf(d)
              f == [Write(v, c) EXCEPT !.filled = TRUE, !.block = stride]
              held  == patchDispMode(f)
              rated == setDefaultRefresh(held)
              rearm == d.state # "STREAMING_FRAME" \/ rated.refresh # d.refresh
              shown == [disarm(rated) EXCEPT !.state = "STREAMING_FRAME", !.timed = FALSE]
  <2>1. d' = IF rearm THEN arm(shown, shown.refresh, e) ELSE rated
    BY <1>3 DEF StreamFrame
  <2>2. /\ DOMAIN v = Fields /\ v.tick = d.tick /\ v.armed = d.armed /\ v.gen = d.gen
        /\ v.superseded = countSuperseded(d) /\ SameRecord(d, v)
    BY <1>1 DEF Fields, invalidateFrameBuf, SameRecord
  <2>. HIDE DEF v, c
  <2>3. DOMAIN f = Fields /\ Written(d, f) /\ f.tick = d.tick /\ f.armed = d.armed
    BY <2>2 DEF Fields, Write, Written, SameRecord
  <2>. HIDE DEF f
  <2>4. DOMAIN held = Fields /\ Written(d, held) /\ held.tick = d.tick /\ held.armed = d.armed
    BY <2>3 DEF Fields, patchDispMode, Written, SameRecord
  <2>. HIDE DEF held
  <2>5. /\ DOMAIN rated = Fields /\ Unwritten(held, rated) /\ rated.tick = d.tick
        /\ rated.armed = d.armed
    BY <2>4, RateBooks
  <2>. HIDE DEF rated
  <2>6. Written(d, rated)
    BY <2>4, <2>5 DEF Written, Unwritten, SameRecord
  <2>7. CASE rearm
    <3>1. DOMAIN shown = Fields /\ Unwritten(rated, shown) /\ shown.tick = FALSE
      BY <2>5 DEF Fields, disarm, Unwritten, SameRecord
    <3>. HIDE DEF shown
    <3>2. d' = arm(shown, shown.refresh, e)
      BY <2>1, <2>7
    <3>3. Unwritten(shown, d') /\ d'.tick = FALSE
      BY <3>1, <3>2, ArmBooks
    <3>4. Written(d, d')
      BY <2>6, <3>1, <3>3 DEF Written, Unwritten, SameRecord
    <3>. QED
      BY <3>3, <3>4 DEF TickKept, Written, Unrecorded
  <2>8. CASE ~rearm
    <3>1. d' = rated
      BY <2>1, <2>8
    <3>. HIDE DEF rearm
    <3>. QED
      BY <2>5, <2>6, <3>1 DEF TickKept, Written, Unrecorded
  <2>. QED  BY <2>7, <2>8
<1>. QED  BY <1>2, <1>3

LEMMA SetRefreshRateBooks ==
  ASSUME IInv, NEW hz \in ExplicitRates, NEW e, SetRefreshRate(hz, e)
  PROVE  TickKept(d, d') /\ Unrecorded(d, d')
<1>. DEFINE x == [d EXCEPT !.refresh = hz, !.explicit = TRUE]
<1>1. DOMAIN d = Fields /\ hz # 0
  BY DisplayFields, DisplayAssumption DEF IInv
<1>2. DOMAIN x = Fields /\ Unwritten(d, x) /\ x.tick = d.tick /\ x.armed = d.armed
  BY <1>1 DEF Fields, Unwritten, SameRecord
<1>3. d' = x \/ d' = arm(x, hz, e)
  BY DEF SetRefreshRate
<1>. HIDE DEF x
<1>4. CASE d' = x
  BY <1>2, <1>4 DEF TickKept, Unwritten, Unrecorded
<1>5. CASE d' = arm(x, hz, e)
  <2>1. Unwritten(x, d') /\ d'.tick = d.tick /\ d'.armed \in {hz, d.armed}
    BY <1>2, <1>5, ArmBooks
  <2>2. Unrecorded(d, d')
    BY <1>2, <2>1 DEF Unwritten, Unrecorded, SameRecord
  <2>. QED  BY <1>1, <2>1, <2>2 DEF TickKept
<1>. QED  BY <1>3, <1>4, <1>5

\* A trial: the duty is the only thing set before, and the timed flag or the
\* duty the only thing set after.
LEMMA TrialBooks ==
  ASSUME IInv, NEW n \in Bytes, NEW target, NEW p, NEW moves, NEW init, NEW lasts, NEW result, NEW e,
         NEW x, x = enterPatternMode([d EXCEPT !.duty = n], target, p, moves, init, lasts, result, e),
         NEW t, \/ d' = [x EXCEPT !.timed = t]
                \/ d' = [x EXCEPT !.duty = t]
  PROVE  TickKept(d, d') /\ Unrecorded(d, d')
<1>. DEFINE u == [d EXCEPT !.duty = n]
<1>1. DOMAIN d = Fields
  BY DisplayFields DEF IInv
<1>2. /\ DOMAIN u = Fields /\ u.superseded = d.superseded /\ u.gen = d.gen /\ SameRecord(d, u)
      /\ u.isFrame = d.isFrame /\ u.presented = d.presented
  BY <1>1 DEF Fields, SameRecord
<1>. HIDE DEF u
<1>3. DOMAIN x = Fields /\ x.tick = FALSE /\ Unrecorded(u, x)
  <2>1. x = enterPatternMode(u, target, p, moves, init, lasts, result, e)
    BY DEF u
  <2>2. u \in Display
    BY PutDuty DEF IInv, u
  <2>. QED  BY <2>1, <2>2, PatternModeBooks
<1>4. countSuperseded(u) = countSuperseded(d)
  BY <1>2 DEF countSuperseded
<1>5. Unrecorded(d, x)
  BY <1>2, <1>3, <1>4 DEF Unrecorded, SameRecord
<1>6. d'.tick = FALSE /\ d'.gen = x.gen /\ d'.superseded = x.superseded /\ SameRecord(x, d')
  BY <1>3 DEF Fields, SameRecord
<1>. QED
  BY <1>5, <1>6 DEF TickKept, Unrecorded, SameRecord

\* Steps that set fields of their own.
LEMMA OtherBooks ==
  ASSUME IInv,
         \/ \E mode \in DisplayModes : SetPanelDisplayMode(mode)
         \/ \E mode \in {0, 1}, e \in Env : SetAoMode(mode, e)
         \/ \E e \in Env : SetAoVoltage(e)
         \/ \E lut \in {"lut_frame", "lut_time"}, accepted \in BOOLEAN, e \in Env :
              SetAoLut(lut, accepted, e)
         \/ \E skip \in BOOLEAN : SetSdDiag(skip)
         \/ CloseOpenPattern \/ TransferBegins \/ TransferEnds
  PROVE  Unwritten(d, d') /\ d'.tick = d.tick /\ d'.armed = d.armed
<1>1. DOMAIN d = Fields
  BY DisplayFields DEF IInv
<1>2. ASSUME NEW mode \in DisplayModes, SetPanelDisplayMode(mode)
      PROVE  Unwritten(d, d') /\ d'.tick = d.tick /\ d'.armed = d.armed
  <2>. DEFINE u == [d EXCEPT !.mode = mode]
  <2>1. DOMAIN u = Fields /\ Unwritten(d, u) /\ u.tick = d.tick /\ u.armed = d.armed
    BY <1>1 DEF Fields, Unwritten, SameRecord
  <2>2. d' = patchDispMode(u)
    BY <1>2 DEF SetPanelDisplayMode
  <2>. HIDE DEF u
  <2>. QED  BY <2>1, <2>2 DEF Fields, patchDispMode, Unwritten, SameRecord
<1>3. ASSUME NEW mode \in {0, 1}, NEW e \in Env, SetAoMode(mode, e)
      PROVE  Unwritten(d, d') /\ d'.tick = d.tick /\ d'.armed = d.armed
  BY <1>1, <1>3 DEF Fields, SetAoMode, Unwritten, SameRecord
<1>4. ASSUME NEW e \in Env, SetAoVoltage(e)
      PROVE  Unwritten(d, d') /\ d'.tick = d.tick /\ d'.armed = d.armed
  BY <1>1, <1>4 DEF Fields, SetAoVoltage, Unwritten, SameRecord
<1>5. ASSUME NEW lut \in {"lut_frame", "lut_time"}, NEW accepted \in BOOLEAN, NEW e \in Env,
             SetAoLut(lut, accepted, e)
      PROVE  Unwritten(d, d') /\ d'.tick = d.tick /\ d'.armed = d.armed
  BY <1>1, <1>5 DEF Fields, SetAoLut, Unwritten, SameRecord
<1>6. ASSUME NEW skip \in BOOLEAN, SetSdDiag(skip)
      PROVE  Unwritten(d, d') /\ d'.tick = d.tick /\ d'.armed = d.armed
  BY <1>1, <1>6 DEF Fields, SetSdDiag, Unwritten, SameRecord
<1>7. ASSUME CloseOpenPattern \/ TransferBegins \/ TransferEnds
      PROVE  Unwritten(d, d') /\ d'.tick = d.tick /\ d'.armed = d.armed
  BY <1>1, <1>7 DEF Fields, CloseOpenPattern, TransferBegins, TransferEnds, Unwritten, SameRecord
<1>. QED
  BY <1>2, <1>3, <1>4, <1>5, <1>6, <1>7

LEMMA HostBooks ==
  ASSUME IInv, IInv', HostCommand
  PROVE  TickKept(d, d') /\ Unrecorded(d, d')
<1>. DEFINE Goal == TickKept(d, d') /\ Unrecorded(d, d')
<1>0. DOMAIN d = Fields
  BY DisplayFields DEF IInv
<1>1. CASE StopDisplay
  <2>1. d' = enterAllOff(d)
    BY <1>1 DEF StopDisplay
  <2>. QED  BY <1>0, <2>1, AllOffBooks DEF TickKept, Written, Unrecorded
<1>2. ASSUME NEW e, AllOn(e) PROVE Goal
  <2>1. d' = enterAllOn(d, e)
    BY <1>2 DEF AllOn
  <2>. QED  BY <1>0, <2>1, AllOnBooks DEF TickKept, Written, Unrecorded
<1>3. CASE StartTrial
  <2>9. PICK target \in TrialModes, p \in Patterns, duty \in Duties, lasts \in Durations,
             e \in EnvOf(TRUE) :
          \E moves \in IF target = "OPEN_LOOP" THEN BOOLEAN ELSE {FALSE},
             init \in InitialPositions(p), result \in openOutcomes(d, p) :
            TrialParams(target, p, moves, init, duty, lasts, result, e)
    BY <1>3 DEF StartTrial
  <2>1. PICK moves, init, result : TrialParams(target, p, moves, init, duty, lasts, result, e)
    BY <2>9
  <2>0. duty \in Bytes
    BY DisplayAssumption
  <2>. DEFINE x == enterPatternMode([d EXCEPT !.duty = duty], target, p, moves, init, lasts,
                                    result, e)
  <2>2. x = enterPatternMode([d EXCEPT !.duty = duty], target, p, moves, init, lasts, result, e)
    OBVIOUS
  <2>3. d' = [x EXCEPT !.timed = lasts] \/ d' = [x EXCEPT !.duty = 0]
    BY <2>1 DEF TrialParams
  <2>. HIDE DEF x
  <2>4. CASE d' = [x EXCEPT !.timed = lasts]
    BY <2>0, <2>2, <2>4, TrialBooks
  <2>5. CASE d' = [x EXCEPT !.duty = 0]
    BY <2>0, <2>2, <2>5, TrialBooks
  <2>. QED  BY <2>3, <2>4, <2>5
<1>4. ASSUME NEW p, NEW e, NEW result, SetPatternId(p, result, e) PROVE Goal
  <2>. DEFINE x == enterPatternMode([d EXCEPT !.duty = 0], "SHOW_FRAME", p, FALSE, 0, FALSE,
                                    result, e)
  <2>1. x = enterPatternMode([d EXCEPT !.duty = 0], "SHOW_FRAME", p, FALSE, 0, FALSE, result, e)
    OBVIOUS
  <2>2. d' = [x EXCEPT !.timed = FALSE]
    BY <1>4 DEF SetPatternId
  <2>. HIDE DEF x
  <2>. QED  BY <2>1, <2>2, Members, TrialBooks
<1>5. ASSUME NEW index, NEW e, SetFramePosition(index, e) PROVE Goal
  BY <1>5, SetFramePositionBooks
<1>6. ASSUME NEW e, DisplayPsramIndex(e) PROVE Goal
  BY <1>6, PsramIndexBooks
<1>7. ASSUME NEW moves, NEW many, NEW e, PsramPlay(moves, many, e) PROVE Goal
  BY <1>7, PsramPlayBooks
<1>8. ASSUME NEW stride, NEW e, StreamFrame(stride, e) PROVE Goal
  BY <1>8, StreamFrameBooks
<1>9. ASSUME NEW hz \in ExplicitRates, NEW e, SetRefreshRate(hz, e) PROVE Goal
  BY <1>9, SetRefreshRateBooks
<1>10. ASSUME Unwritten(d, d'), d'.tick = d.tick, d'.armed = d.armed PROVE Goal
  BY <1>10 DEF TickKept, Unwritten, Unrecorded
<1>11. ASSUME NEW e, Refused(e) PROVE Goal
  <2>1. d' = showError(d, e)
    BY <1>11 DEF Refused
  <2>. QED  BY <1>0, <2>1, ErrorBooks DEF TickKept, Written, Unrecorded
<1>. HIDE DEF Goal
<1>12. Goal
  BY <1>1, <1>2, <1>3, <1>4, <1>5, <1>6, <1>7, <1>8, <1>9, <1>10, <1>11, OtherBooks
     DEF HostCommand, Goal
<1>. QED  BY <1>12 DEF Goal

\* A step writes no FRAME record, or one that takes superseded_pending_ along.
Accounted(x, y) ==
  \/ Unrecorded(x, y)
  \/ y.telFrame # None /\ ~SameRecord(x, y) /\ y.superseded = 0

LEMMA TransmitAccounts ==
  ASSUME NEW w, NEW x, DOMAIN x = Fields, x.cur # None, TickKept(w, x),
         Unwritten(w, x) \/ Written(w, x), NEW y, y = transmitOnRefresh(x)
  PROVE  TickKept(w, y) /\ Accounted(w, y)
<1>1. /\ y.gen = x.gen /\ y.armed = x.armed
      /\ y.tick = FALSE \/ y.tick = x.tick
      /\ \/ Unwritten(x, y)
         \/ y.telFrame = x.cur /\ ~SameRecord(x, y) /\ y.superseded = 0
  BY TransmitBooks
<1>2. TickKept(w, y)
  BY <1>1 DEF TickKept
<1>3. SameRecord(w, x)
  BY DEF Unwritten, Written
<1>4. CASE Unwritten(x, y)
  <2>1. y.gen = x.gen /\ y.superseded = x.superseded /\ SameRecord(w, y)
    BY <1>3, <1>4 DEF Unwritten, SameRecord
  <2>. QED  BY <1>2, <2>1, Zenon DEF Accounted, Unrecorded, Unwritten, Written
<1>5. CASE y.telFrame = x.cur /\ ~SameRecord(x, y) /\ y.superseded = 0
  <2>1. ~SameRecord(w, y)
    BY <1>3, <1>5 DEF SameRecord
  <2>2. y.telFrame # None
    BY <1>5
  <2>. QED  BY <1>2, <1>5, <2>1, <2>2 DEF Accounted
<1>. QED  BY <1>1, <1>2, <1>4, <1>5

LEMMA ServiceDisplayBooks ==
  ASSUME IInv, NEW due \in BOOLEAN, NEW held \in BOOLEAN, NEW steps \in stepsOf(d),
         NEW e \in Env, ServiceDisplay(due, held, steps, e)
  PROVE  TickKept(d, d') /\ Accounted(d, d')
<1>0. DOMAIN d = Fields /\ d.cur # None
  <2>1. DOMAIN d = Fields
    BY DisplayFields DEF IInv
  <2>2. d.cur \in Nat /\ d.cur < None
    BY DEF IInv, Display, Library
  <2>. QED  BY <2>1, <2>2 DEF None
<1>a. Unwritten(d, d) /\ TickKept(d, d)
  BY DEF Unwritten, SameRecord, TickKept
<1>1. CASE trialOver(d, due)
  <2>. DEFINE x == [d EXCEPT !.deadline = FALSE]
  <2>1. /\ DOMAIN x = Fields /\ Unwritten(d, x) /\ x.isFrame = d.isFrame
        /\ x.presented = d.presented
    BY <1>0 DEF Fields, Unwritten, SameRecord
  <2>2. d' = enterAllOff(x)
    BY <1>1 DEF ServiceDisplay
  <2>. HIDE DEF x
  <2>3. countSuperseded(x) = countSuperseded(d)
    BY <2>1 DEF countSuperseded, Unwritten
  <2>4. Written(x, d') /\ d'.tick = FALSE
    BY <2>1, <2>2, AllOffBooks
  <2>. QED
    BY <2>1, <2>3, <2>4 DEF TickKept, Accounted, Unrecorded, Unwritten, Written, SameRecord
<1>2. CASE ~trialOver(d, due) /\ d.state = "ALL_OFF"
  <2>1. d' = d
    BY <1>2 DEF ServiceDisplay
  <2>. QED  BY <1>a, <2>1 DEF TickKept, Accounted, Unrecorded, Unwritten, SameRecord
<1>3. CASE ~trialOver(d, due) /\ d.state \in {"ALL_ON", "STREAMING_FRAME", "SHOW_FRAME"}
  <2>1. d' = transmitOnRefresh(d)
    BY <1>3 DEF ServiceDisplay
  <2>. QED  BY <1>0, <1>a, <2>1, TransmitAccounts
<1>4. CASE ~trialOver(d, due) /\ d.state \in {"OPEN_LOOP", "CLOSED_LOOP"}
  <2>. DEFINE x == advance(d, steps, e)
  <2>1. d' = transmitOnRefresh(x)
    BY <1>4 DEF ServiceDisplay
  <2>2. x \in Display /\ Library(x)
    BY <1>4, AdvanceInv DEF Good
  <2>3. (Unwritten(d, x) \/ Written(d, x)) /\ TickKept(d, x)
    <3>1. CASE steps = 0
      <4>1. x = d
        BY <3>1 DEF advance
      <4>. QED  BY <1>a, <4>1
    <3>2. CASE steps # 0
      <4>. DEFINE cur == (d.cur + steps) % d.count
                  u == [d EXCEPT !.cur = cur]
      <4>1. x = loadFrame(u, cur, e)
        BY <3>2 DEF advance
      <4>2. /\ DOMAIN u = Fields /\ Unwritten(d, u) /\ u.isFrame = d.isFrame
            /\ u.presented = d.presented /\ u.tick = d.tick /\ u.armed = d.armed
        BY <1>0 DEF Fields, Unwritten, SameRecord
      <4>. HIDE DEF u, x, cur
      <4>3. Written(u, x) /\ TickKept(u, x)
        BY <4>1, <4>2, LoadBooks
      <4>4. countSuperseded(u) = countSuperseded(d)
        BY <4>2 DEF countSuperseded, Unwritten
      <4>5. Written(d, x)
        BY <4>2, <4>3, <4>4 DEF Written, Unwritten, SameRecord
      <4>6. TickKept(d, x)
        BY <4>2, <4>3 DEF TickKept
      <4>. QED  BY <4>5, <4>6
    <3>. QED  BY <3>1, <3>2
  <2>. HIDE DEF x
  <2>4. DOMAIN x = Fields
    BY <2>2, DisplayFields
  <2>5. x.cur # None
    BY <2>2 DEF Display, Library, None
  <2>. QED  BY <2>1, <2>3, <2>4, <2>5, TransmitAccounts
<1>5. CASE ~trialOver(d, due) /\ d.state = "PSRAM_PLAY"
  <2>. DEFINE x == IF steps = 0 THEN d ELSE buildPsramFrame(d)
  <2>1. d' = transmitOnRefresh(x)
    BY <1>5 DEF ServiceDisplay
  <2>2. (Unwritten(d, x) \/ Written(d, x)) /\ TickKept(d, x) /\ DOMAIN x = Fields
    BY <1>0, <1>a, PsramBooks DEF TickKept
  <2>3. x.cur # None
    <3>1. CASE steps = 0
      BY <1>0, <3>1
    <3>2. CASE steps # 0
      <4>1. x.cur = d.cur
        BY <1>0, <3>2 DEF Fields, buildPsramFrame, invalidateFrameBuf, Write
      <4>. QED  BY <1>0, <4>1
    <3>. QED  BY <3>1, <3>2
  <2>. HIDE DEF x
  <2>. QED  BY <2>1, <2>2, <2>3, TransmitAccounts
<1>6. CASE ~trialOver(d, due) /\ d.state = "ERROR_DISPLAY"
  <2>. DEFINE x == transmitOnRefresh(d)
  <2>0. x = transmitOnRefresh(d)
    OBVIOUS
  <2>1. d' = enterAllOff(x) \/ d' = x
    BY <1>6 DEF ServiceDisplay, serviceError
  <2>2. TickKept(d, x) /\ Accounted(d, x)
    BY <1>0, <1>a, TransmitAccounts
  <2>3. d.isFrame = FALSE
    BY <1>6 DEF IInv, Quiet, Display
  <2>. HIDE DEF x
  <2>4. DOMAIN x = Fields /\ x.isFrame = FALSE /\ x.gen = d.gen
    BY <1>0, <2>0, <2>3, TransmitBooks, ZenonT(60)
  <2>5. /\ \/ Unwritten(d, x)
           \/ x.telFrame = d.cur /\ ~SameRecord(d, x) /\ x.superseded = 0
    BY <1>0, <2>0, TransmitBooks
  <2>6. countSuperseded(x) = x.superseded /\ countSuperseded(d) = d.superseded
    BY <2>3, <2>4 DEF countSuperseded
  <2>7. CASE d' = enterAllOff(x)
    <3>1. Written(x, d') /\ d'.tick = FALSE
      BY <2>4, <2>7, AllOffBooks
    <3>2. CASE Unwritten(d, x)
      BY <2>6, <3>1, <3>2
         DEF TickKept, Accounted, Unrecorded, Unwritten, Written, SameRecord
    <3>3. CASE x.telFrame = d.cur /\ ~SameRecord(d, x) /\ x.superseded = 0
      BY <1>0, <2>6, <3>1, <3>3 DEF TickKept, Accounted, Written, SameRecord
    <3>. QED  BY <2>5, <3>2, <3>3
  <2>. QED  BY <2>1, <2>2, <2>7
<1>. QED
  <2>1. d.state \in States
    BY DEF IInv, Display
  <2>. QED
    BY <1>1, <1>2, <1>3, <1>4, <1>5, <1>6, <2>1 DEF States, PlayStates

LEMMA ServiceBooks ==
  ASSUME IInv, Service
  PROVE  TickKept(d, d') /\ Accounted(d, d')
<1>1. PICK due \in {FALSE, d.deadline}, held \in {FALSE, d.state = "ERROR_DISPLAY"},
           steps \in stepsOf(d) :
        \E e \in EnvOf(steps > 0) : ServiceDisplay(due, held, steps, e)
  BY DEF Service
<1>2. PICK e \in EnvOf(steps > 0) : ServiceDisplay(due, held, steps, e)
  BY <1>1
<1>3. e \in Env
  BY EnvOfEnv DEF EnvOf, Env
<1>4. due \in BOOLEAN /\ held \in BOOLEAN
  BY DEF IInv, Display
<1>. QED
  BY <1>2, <1>3, <1>4, ServiceDisplayBooks

LEMMA LateBootBlankBooks ==
  ASSUME IInv, LateBootBlank
  PROVE  TickKept(d, d') /\ Unrecorded(d, d')
<1>. DEFINE x == [d EXCEPT !.lateBlank = FALSE]
<1>1. DOMAIN d = Fields
  BY DisplayFields DEF IInv
<1>2. /\ DOMAIN x = Fields /\ Unwritten(d, x) /\ x.isFrame = d.isFrame
      /\ x.presented = d.presented /\ x.tick = d.tick /\ x.armed = d.armed
  BY <1>1 DEF Fields, Unwritten, SameRecord
<1>3. d' = enterAllOff(x) \/ d' = x
  BY DEF LateBootBlank
<1>. HIDE DEF x
<1>4. countSuperseded(x) = countSuperseded(d)
  BY <1>2 DEF countSuperseded, Unwritten
<1>5. CASE d' = x
  BY <1>2, <1>5 DEF TickKept, Unrecorded, Unwritten, SameRecord
<1>6. CASE d' = enterAllOff(x)
  <2>1. Written(x, d') /\ d'.tick = FALSE
    BY <1>2, <1>6, AllOffBooks
  <2>. QED
    BY <1>2, <1>4, <2>1 DEF TickKept, Unrecorded, Unwritten, Written, SameRecord
<1>. QED  BY <1>3, <1>5, <1>6

\* Only the interrupt raises the flag; every step keeps the books.
LEMMA StepBooks ==
  ASSUME IInv, IInv', [Next]_d
  PROVE  (TickKept(d, d') \/ RefreshTick) /\ Accounted(d, d')
<1>1. CASE HostCommand
  BY <1>1, HostBooks DEF Accounted
<1>2. CASE Service
  BY <1>2, ServiceBooks
<1>3. CASE LateBootBlank
  BY <1>3, LateBootBlankBooks DEF Accounted
<1>4. CASE TransferEnds
  <2>1. Unwritten(d, d') /\ d'.tick = d.tick /\ d'.armed = d.armed
    BY <1>4, OtherBooks
  <2>. QED  BY <2>1 DEF TickKept, Accounted, Unrecorded, Unwritten
<1>5. CASE RefreshTick
  <2>1. DOMAIN d = Fields
    BY DisplayFields DEF IInv
  <2>2. Unwritten(d, d')
    BY <1>5, <2>1 DEF RefreshTick, Fields, Unwritten, SameRecord
  <2>. QED  BY <1>5, <2>2 DEF Accounted, Unrecorded, Unwritten
<1>6. CASE UNCHANGED d
  BY <1>6 DEF TickKept, Accounted, Unrecorded, SameRecord
<1>. QED
  BY <1>1, <1>2, <1>3, <1>4, <1>5, <1>6 DEF Next

-----------------------------------------------------------------------------
(* The refinement and the count. *)

\* A flag that is down fits every change of the rate; a flag that is kept
\* fits every change but the stop.
LEMMA TickKeptIsClock ==
  ASSUME IInv, IInv', TickKept(d, d')
  PROVE  [Clock!ClockNext]_Clock!clockVars
<1>1. d'.armed \in Rates \cup {0}
  BY DEF IInv, Display
<1>2. CASE d'.tick = FALSE
  BY <1>1, <1>2 DEF Clock!ClockNext, Clock!Rearm, Clock!Disarm
<1>3. CASE d'.tick = d.tick /\ (d'.armed # 0 \/ d'.armed = d.armed)
  BY <1>1, <1>3 DEF Clock!ClockNext, Clock!ArmAt, Clock!clockVars
<1>. QED  BY <1>2, <1>3 DEF TickKept

\* The display uses the refresh timer as the clock it promises: every handler,
\* every pass of serviceDisplay() and every interrupt is a step of FrameClock.
\* A handler that stops the timer, fails and arms it for the glyph, or finds
\* no channel, is one such step, and none of them leaves a tick behind it.
THEOREM DisplayUsesClock == Spec => UsesClock
<1>1. Init => Clock!ClockInit
  BY DEF Init, Clock!ClockInit
<1>2. IInv /\ IInv' /\ [Next]_d => [Clock!ClockNext]_Clock!clockVars
  <2>. SUFFICES ASSUME IInv, IInv', [Next]_d
                PROVE  [Clock!ClockNext]_Clock!clockVars
    OBVIOUS
  <2>1. CASE TickKept(d, d')
    BY <2>1, TickKeptIsClock
  <2>2. CASE RefreshTick
    <3>1. d'.tick = TRUE /\ d'.armed = d.armed /\ d.armed # 0
      BY <2>2 DEF RefreshTick, IInv, Display
    <3>. QED  BY <3>1 DEF Clock!ClockNext, Clock!Tick
  <2>. QED  BY <2>1, <2>2, StepBooks
<1>. QED
  BY <1>1, <1>2, Invariance, PTL DEF Spec, UsesClock, Clock!ClockSpec

\* The number of writes, modulo 3.
LEMMA WritesOf ==
  \A g \in 0 .. 2 :
    /\ (g + 3 - g) % 3 = 0
    /\ (((g + 1) % 3) + 3 - g) % 3 = 1
    /\ (((((g + 1) % 3) + 1) % 3) + 3 - g) % 3 = 2
OBVIOUS

\* superseded_pending_, counted by the buffer's own flag, is the number of SD
\* frames that no transfer took: the flags say what the panels saw.
LEMMA CountIsTrue ==
  ASSUME IInv
  PROVE  /\ countSuperseded(d) = AtMost(d.superseded + IF d.buf.kind = "sd" /\ ~d.seen THEN 1 ELSE 0)
         /\ d.superseded = AtMost(d.superseded)
         /\ \A n \in Nat : AtMost(AtMost(n) + 1) = AtMost(n + 1)
<1>1. SupersededMax \in Nat /\ d.superseded \in 0 .. SupersededMax
  BY DisplayAssumption DEF IInv, Display
<1>2. (d.isFrame /\ ~d.presented) <=> (d.buf.kind = "sd" /\ ~d.seen)
  BY DEF IInv, Held
<1>3. CASE d.isFrame /\ ~d.presented
  BY <1>1, <1>2, <1>3 DEF countSuperseded, AtMost
<1>4. CASE ~(d.isFrame /\ ~d.presented)
  BY <1>1, <1>2, <1>4 DEF countSuperseded, AtMost
<1>. QED  BY <1>3, <1>4

\* superseded_pending_ counts every SD frame that is replaced before any
\* transfer, once, whichever of the buffer's writers replaces it (the trial
\* that finds no timer loses two at once), and is handed over to the FRAME
\* record that comes next.
THEOREM SupersededIsExact == Spec => SupersededExact
<1>. DEFINE writes == (d'.gen + 3 - d.gen) % 3
            held   == IF d.buf.kind = "sd" /\ ~d.seen THEN 1 ELSE 0
            lost   == (IF d.buf.kind = "sd" /\ ~d.seen /\ writes # 0 THEN 1 ELSE 0)
                        + (IF writes = 2 THEN 1 ELSE 0)
            Exact  == d'.superseded = IF Records THEN 0 ELSE AtMost(d.superseded + lost)
<1>1. IInv /\ IInv' /\ [Next]_d => Exact
  <2>. SUFFICES ASSUME IInv, IInv', [Next]_d PROVE Exact
    OBVIOUS
  <2>1. d.gen \in 0 .. 2 /\ d.superseded \in Nat
    BY DEF IInv, Display
  <2>2. CASE d'.telFrame # None /\ ~SameRecord(d, d') /\ d'.superseded = 0
    <3>1. Records
      BY <2>2 DEF Records, SameRecord
    <3>. QED  BY <2>2, <3>1
  <2>3. CASE Unrecorded(d, d')
    <3>1. ~Records
      BY <2>3 DEF Unrecorded, Records, SameRecord
    <3>2. CASE d'.gen = d.gen /\ d'.superseded = d.superseded
      <4>1. writes = 0
        BY <2>1, <3>2, WritesOf
      <4>2. lost = 0
        BY <4>1
      <4>. QED  BY <2>1, <3>1, <3>2, <4>2, CountIsTrue
    <3>3. CASE d'.gen = (d.gen + 1) % 3 /\ d'.superseded = countSuperseded(d)
      <4>1. writes = 1
        BY <2>1, <3>3, WritesOf
      <4>2. lost = held
        BY <4>1
      <4>. QED  BY <3>1, <3>3, <4>2, CountIsTrue
    <3>4. CASE /\ d'.gen = (((d.gen + 1) % 3) + 1) % 3
               /\ d'.superseded = AtMost(countSuperseded(d) + 1)
      <4>1. writes = 2
        BY <2>1, <3>4, WritesOf
      <4>2. lost = held + 1 /\ held \in Nat
        BY <4>1
      <4>3. d'.superseded = AtMost(AtMost(d.superseded + held) + 1)
        BY <3>4, CountIsTrue
      <4>. HIDE DEF held, lost
      <4>4. d'.superseded = AtMost((d.superseded + held) + 1)
        BY <2>1, <4>2, <4>3, CountIsTrue
      <4>5. (d.superseded + held) + 1 = d.superseded + lost
        BY <2>1, <4>2
      <4>. QED  BY <3>1, <4>4, <4>5
    <3>. QED  BY <2>3, <3>2, <3>3, <3>4 DEF Unrecorded
  <2>. QED  BY <2>2, <2>3, StepBooks DEF Accounted
<1>. QED
  BY <1>1, Invariance, PTL DEF Spec, SupersededExact

=============================================================================
