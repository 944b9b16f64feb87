---------------------------- MODULE HealthProofs ----------------------------
(***************************************************************************)
(* The safety of Health for every set of marked calls: the watchdog is     *)
(* kicked when it runs, its windows close and cut nothing short, and what  *)
(* the records say after a reset is true.  An inductive invariant each     *)
(* for the watchdog, the ISR record, the breadcrumb and the windows.       *)
(***************************************************************************)
EXTENDS Health, SequenceTheorems, TLAPS

Wd == [armed : BOOLEAN, wanted : BOOLEAN, failed : BOOLEAN, suspend : Nat, starve : BOOLEAN]

\* What holds of the watchdog in setup() and in a long operation: the timeout
\* that was last asked for, unless that is known to have failed.
WdInv ==
  /\ hw \in [en : BOOLEAN, toval : Tovals] /\ wd \in Wd
  /\ main \in {"down", "boot", "loop", "hung"}
  /\ ArmedCoversHardware /\ WindowCloses
  /\ main = "boot" => wd.wanted /\ wd.suspend = 0 /\ (~wd.failed => hw.toval = "provisional")
  /\ main = "loop" /\ wd.suspend > 0 /\ ~wd.failed /\ hw.en => hw.toval = "longop"

\* What rtwdogApply leaves, whatever the hardware took of it.
LEMMA ApplyResult ==
  ASSUME hw \in [en : BOOLEAN, toval : Tovals], NEW w \in Wd,
         NEW en \in BOOLEAN, NEW toval \in Tovals, rtwdogApply(w, en, toval)
  PROVE  /\ hw' \in [en : BOOLEAN, toval : Tovals] /\ wd' \in Wd
         /\ wd'.wanted = w.wanted /\ wd'.suspend = w.suspend /\ wd'.starve = w.starve
         /\ hw'.en => hw.en \/ en
         /\ ~wd'.failed => hw'.en = en /\ hw'.toval = toval /\ wd'.armed = en
         /\ wd'.failed => wd'.armed = (en \/ w.armed)
<1>1. PICK h \in rtwdogProgram(en, toval) :
        hw' = h /\ wd' = [w EXCEPT !.failed = ~(h = [en |-> en, toval |-> toval]),
                           !.armed = en \/ (@ /\ ~(h = [en |-> en, toval |-> toval]))]
  BY DEF rtwdogApply
<1>. DEFINE ok == h = [en |-> en, toval |-> toval]
<1>2. h \in [en : BOOLEAN, toval : Tovals] /\ h.en \in {hw.en, en}
  BY DEF rtwdogProgram
<1>3. ok \in BOOLEAN /\ (ok => h.en = en /\ h.toval = toval)
  OBVIOUS
<1>4. wd' = [w EXCEPT !.failed = ~ok, !.armed = en \/ (@ /\ ~ok)]
  BY <1>1
<1>. HIDE DEF ok
<1>5. /\ wd' \in Wd
      /\ wd'.wanted = w.wanted /\ wd'.suspend = w.suspend /\ wd'.starve = w.starve
      /\ wd'.failed = ~ok /\ wd'.armed = (en \/ (w.armed /\ ~ok))
  BY <1>3, <1>4 DEF Wd
<1>6. /\ hw' \in [en : BOOLEAN, toval : Tovals]
      /\ hw'.en => hw.en \/ en
  BY <1>1, <1>2
<1>7. /\ ~wd'.failed => hw'.en = en /\ hw'.toval = toval /\ wd'.armed = en
      /\ wd'.failed => wd'.armed = (en \/ w.armed)
  <2>1. CASE ok
    <3>1. ~wd'.failed  BY <1>5, <2>1
    <3>2. wd'.armed = en  BY <1>5, <2>1
    <3>. QED  BY <3>1, <3>2, <1>1, <1>3, <2>1
  <2>2. CASE ~ok
    <3>1. wd'.failed  BY <1>5, <2>2
    <3>2. wd'.armed = (en \/ w.armed)  BY <1>5, <2>2
    <3>. QED  BY <3>1, <3>2
  <2>. QED  BY <2>1, <2>2
<1>. QED
  BY <1>5, <1>6, <1>7

LEMMA FreshIsWd == Fresh \in Wd /\ Fresh.wanted /\ Fresh.suspend = 0
  BY DEF Fresh, Wd

LEMMA BeginKeepsWd == WdInv /\ begin => WdInv'
<1>. SUFFICES ASSUME WdInv, begin PROVE WdInv'
  OBVIOUS
<1>1. rtwdogApply(Fresh, TRUE, "provisional") /\ main' = "boot"
  BY DEF begin
<1>2. /\ hw' \in [en : BOOLEAN, toval : Tovals] /\ wd' \in Wd
      /\ wd'.wanted = Fresh.wanted /\ wd'.suspend = Fresh.suspend
      /\ ~wd'.failed => hw'.toval = "provisional" /\ wd'.armed = TRUE
      /\ wd'.failed => wd'.armed = (TRUE \/ Fresh.armed)
  BY <1>1, FreshIsWd, ApplyResult DEF WdInv, Tovals
<1>3. wd'.armed
  BY <1>2
<1>. QED
  BY <1>1, <1>2, <1>3, FreshIsWd DEF WdInv, ArmedCoversHardware, WindowCloses

\* The invariant on a state of the main loop, within a window and outside of one.
LEMMA InWindow ==
  ASSUME main' = "loop", hw' \in [en : BOOLEAN, toval : Tovals], wd' \in Wd,
         hw'.en => wd'.armed, wd'.suspend > 0,
         ~wd'.failed /\ hw'.en => hw'.toval = "longop"
  PROVE  WdInv'
<1>1. ~(wd'.suspend = 0)
  BY DEF Wd
<1>. QED
  BY <1>1, Zenon DEF WdInv, ArmedCoversHardware, WindowCloses

LEMMA NoWindow ==
  ASSUME main' = "loop", hw' \in [en : BOOLEAN, toval : Tovals], wd' \in Wd,
         hw'.en => wd'.armed, wd'.suspend = 0,
         ~wd'.failed => /\ hw'.en = wd'.wanted /\ wd'.armed = wd'.wanted
                        /\ hw'.en => hw'.toval = "normal"
  PROVE  WdInv'
<1>1. ~(wd'.suspend > 0)
  OBVIOUS
<1>. QED
  BY <1>1, Zenon DEF WdInv, ArmedCoversHardware, WindowCloses

\* A programming that gives the watchdog the state and the timeout it should have.
LEMMA ApplyNormal ==
  ASSUME hw \in [en : BOOLEAN, toval : Tovals], NEW w \in Wd, hw.en => w.armed,
         w.suspend = 0, main' = "loop", rtwdogApply(w, w.wanted, "normal")
  PROVE  WdInv'
<1>0. w.wanted \in BOOLEAN /\ "normal" \in Tovals
  BY DEF Wd, Tovals
<1>1. /\ hw' \in [en : BOOLEAN, toval : Tovals] /\ wd' \in Wd
      /\ wd'.wanted = w.wanted /\ wd'.suspend = w.suspend
      /\ hw'.en => hw.en \/ w.wanted
      /\ ~wd'.failed => hw'.en = w.wanted /\ hw'.toval = "normal" /\ wd'.armed = w.wanted
      /\ wd'.failed => wd'.armed = (w.wanted \/ w.armed)
  BY <1>0, ApplyResult
<1>2. hw'.en => wd'.armed
  <2>1. CASE wd'.failed
    BY <1>1, <2>1, Zenon
  <2>2. CASE ~wd'.failed
    BY <1>1, <2>2, Zenon
  <2>. QED
    BY <2>1, <2>2
<1>3. ~wd'.failed => /\ hw'.en = wd'.wanted /\ wd'.armed = wd'.wanted
                     /\ hw'.en => hw'.toval = "normal"
  BY <1>1, Zenon
<1>4. wd'.suspend = 0
  BY <1>1
<1>. QED
  BY <1>1, <1>2, <1>3, <1>4, NoWindow

LEMMA WatchdogBeginKeepsWd == WdInv /\ watchdogBegin => WdInv'
<1>. SUFFICES ASSUME WdInv, watchdogBegin PROVE WdInv'
  OBVIOUS
<1>1. rtwdogApply(wd, TRUE, "normal") /\ main = "boot" /\ main' = "loop"
  BY DEF watchdogBegin
<1>2. /\ hw \in [en : BOOLEAN, toval : Tovals] /\ wd \in Wd /\ (hw.en => wd.armed)
      /\ wd.suspend = 0 /\ wd.wanted = TRUE
  BY <1>1, Zenon DEF WdInv, ArmedCoversHardware, Wd
<1>. QED
  BY <1>1, <1>2, ApplyNormal

LEMMA SuspendKeepsWd ==
  ASSUME WdInv, main = "loop", main' = "loop", watchdogSuspend(wd)
  PROVE  WdInv'
<1>. DEFINE v == [wd EXCEPT !.suspend = @ + 1]
<1>0. /\ hw \in [en : BOOLEAN, toval : Tovals] /\ wd \in Wd /\ (hw.en => wd.armed)
      /\ wd.suspend > 0 /\ ~wd.failed /\ hw.en => hw.toval = "longop"
  BY Zenon DEF WdInv, ArmedCoversHardware
<1>1. /\ v \in Wd /\ v.suspend > 0 /\ v.failed = wd.failed /\ v.armed = wd.armed
  BY <1>0 DEF Wd
<1>2. (Unprogrammed(v) /\ (wd.suspend > 0 \/ ~wd.armed)) \/ rtwdogApply(v, TRUE, "longop")
  BY Zenon DEF watchdogSuspend
<1>. HIDE DEF v
<1>3. CASE Unprogrammed(v) /\ (wd.suspend > 0 \/ ~wd.armed)
  <2>1. hw' = hw /\ wd' = v
    BY <1>3 DEF Unprogrammed
  <2>2. hw'.en => wd'.armed
    BY <2>1, <1>0, <1>1, Zenon
  <2>3. ~wd'.failed /\ hw'.en => hw'.toval = "longop"
    BY <2>1, <1>0, <1>1, <1>3, Zenon
  <2>. QED
    BY <2>1, <2>2, <2>3, <1>0, <1>1, InWindow
<1>4. CASE rtwdogApply(v, TRUE, "longop")
  <2>1. /\ hw' \in [en : BOOLEAN, toval : Tovals] /\ wd' \in Wd
        /\ wd'.suspend = v.suspend
        /\ ~wd'.failed => hw'.toval = "longop" /\ wd'.armed = TRUE
        /\ wd'.failed => wd'.armed = (TRUE \/ v.armed)
    BY <1>0, <1>1, <1>4, ApplyResult DEF Tovals
  <2>2. wd'.armed
    BY <2>1, Zenon
  <2>3. wd'.suspend > 0
    BY <2>1, <1>1
  <2>. QED
    BY <2>1, <2>2, <2>3, InWindow
<1>. QED
  BY <1>2, <1>3, <1>4

LEMMA ResumeKeepsWd ==
  ASSUME WdInv, main = "loop", main' = "loop", watchdogResume(wd)
  PROVE  WdInv'
<1>. DEFINE v == [wd EXCEPT !.suspend = IF @ > 0 THEN @ - 1 ELSE 0]
<1>0. /\ hw \in [en : BOOLEAN, toval : Tovals] /\ wd \in Wd /\ (hw.en => wd.armed)
      /\ wd.suspend > 0 /\ ~wd.failed /\ hw.en => hw.toval = "longop"
      /\ wd.suspend = 0 /\ ~wd.failed => /\ hw.en = wd.wanted /\ wd.armed = wd.wanted
                                         /\ hw.en => hw.toval = "normal"
  BY Zenon DEF WdInv, ArmedCoversHardware, WindowCloses
<1>1. /\ wd.suspend \in Nat /\ wd.wanted \in BOOLEAN /\ wd.armed \in BOOLEAN /\ hw.en \in BOOLEAN
  BY <1>0 DEF Wd
<1>2. /\ v.suspend = IF wd.suspend > 0 THEN wd.suspend - 1 ELSE 0
      /\ v.failed = wd.failed /\ v.armed = wd.armed /\ v.wanted = wd.wanted
      /\ v \in Wd
  BY <1>0 DEF Wd
<1>3. \/ Unprogrammed(v) /\ wd.suspend # 1
      \/ Unprogrammed(v) /\ ~wd.wanted /\ ~wd.armed
      \/ rtwdogApply(v, wd.wanted, "normal") /\ wd.suspend = 1
  BY Zenon DEF watchdogResume
<1>. HIDE DEF v
<1>4. Unprogrammed(v) => hw' = hw /\ wd' = v
  BY DEF Unprogrammed
<1>5. CASE Unprogrammed(v) /\ wd.suspend = 0
  <2>1. hw' = hw /\ wd' = v /\ wd'.suspend = 0
    BY <1>5, <1>4, <1>2
  <2>. QED
    BY <2>1, <1>5, <1>0, <1>2, NoWindow
<1>6. CASE Unprogrammed(v) /\ wd.suspend > 1
  <2>1. hw' = hw /\ wd' = v /\ wd.suspend > 0 /\ wd'.suspend > 0
    BY <1>6, <1>4, <1>2, <1>1
  <2>. QED
    BY <2>1, <1>0, <1>2, InWindow
<1>7. CASE Unprogrammed(v) /\ wd.suspend = 1 /\ ~wd.wanted /\ ~wd.armed
  <2>1. hw' = hw /\ wd' = v /\ wd'.suspend = 0
    BY <1>7, <1>4, <1>2
  <2>2. hw'.en = FALSE /\ wd'.wanted = FALSE /\ wd'.armed = FALSE
    BY <2>1, <1>7, <1>0, <1>1, <1>2, Zenon
  <2>. QED
    BY <2>1, <2>2, <1>0, <1>2, NoWindow
<1>8. CASE rtwdogApply(v, wd.wanted, "normal") /\ wd.suspend = 1
  <2>1. v.suspend = 0
    BY <1>8, <1>2
  <2>2. rtwdogApply(v, v.wanted, "normal")
    BY <1>8, <1>2
  <2>3. hw.en => v.armed
    BY <1>0, <1>2, Zenon
  <2>. QED
    BY <2>1, <2>2, <2>3, <1>0, <1>2, ApplyNormal
<1>9. wd.suspend = 0 \/ wd.suspend = 1 \/ wd.suspend > 1
  BY <1>1
<1>. QED
  BY <1>3, <1>5, <1>6, <1>7, <1>8, <1>9, Zenon

LEMMA SetEnabledKeepsWd ==
  ASSUME WdInv, main = "loop", main' = "loop", wd.suspend = 0,
         NEW on \in BOOLEAN, NEW starve \in BOOLEAN,
         watchdogSetEnabled([wd EXCEPT !.starve = starve], on)
  PROVE  WdInv'
<1>. DEFINE w == [wd EXCEPT !.starve = starve]
            v == [w EXCEPT !.wanted = on]
<1>0. /\ hw \in [en : BOOLEAN, toval : Tovals] /\ wd \in Wd /\ (hw.en => wd.armed)
      /\ ~wd.failed => /\ hw.en = wd.wanted /\ wd.armed = wd.wanted
                       /\ hw.en => hw.toval = "normal"
  BY Zenon DEF WdInv, ArmedCoversHardware, WindowCloses
<1>1. /\ w \in Wd /\ w.suspend = 0 /\ w.failed = wd.failed /\ w.armed = wd.armed
  BY <1>0 DEF Wd
<1>. HIDE DEF w
<1>2. /\ v \in Wd /\ v.suspend = 0 /\ v.failed = wd.failed /\ v.armed = wd.armed /\ v.wanted = on
  BY <1>1 DEF Wd
<1>3. \/ Unprogrammed(v) /\ (w.suspend > 0 \/ (on = w.armed /\ ~w.failed))
      \/ rtwdogApply(v, on, "normal")
  BY Zenon DEF watchdogSetEnabled, w
<1>. HIDE DEF v
<1>4. CASE Unprogrammed(v) /\ on = w.armed /\ ~w.failed
  <2>1. hw' = hw /\ wd' = v
    BY <1>4 DEF Unprogrammed
  <2>2. hw'.en = wd'.wanted /\ wd'.armed = wd'.wanted /\ (hw'.en => hw'.toval = "normal")
    BY <2>1, <1>4, <1>0, <1>1, <1>2, Zenon
  <2>3. hw'.en => wd'.armed
    BY <2>2, Zenon
  <2>. QED
    BY <2>1, <2>2, <2>3, <1>0, <1>2, NoWindow
<1>5. CASE rtwdogApply(v, on, "normal")
  <2>1. rtwdogApply(v, v.wanted, "normal")
    BY <1>5, <1>2
  <2>2. hw.en => v.armed
    BY <1>0, <1>2, Zenon
  <2>. QED
    BY <2>1, <2>2, <1>0, <1>2, ApplyNormal
<1>6. ~(w.suspend > 0)
  BY <1>1
<1>. QED
  BY <1>3, <1>4, <1>5, <1>6, Zenon

\* No step takes the watchdog out of its invariant.
LEMMA WdInvStep == WdInv /\ [Next]_vars => WdInv'
<1>. SUFFICES ASSUME WdInv, [Next]_vars PROVE WdInv'
  OBVIOUS
<1>0. ASSUME UNCHANGED wdog, UNCHANGED main PROVE WdInv'
  BY <1>0, Zenon DEF WdInv, ArmedCoversHardware, WindowCloses, wdog
<1>1. CASE begin
  BY <1>1, BeginKeepsWd
<1>2. CASE watchdogBegin
  BY <1>2, WatchdogBeginKeepsWd
<1>3. ASSUME NEW long \in BOOLEAN, Dispatch(long) PROVE WdInv'
  <2>1. CASE long
    BY <1>3, <2>1, SuspendKeepsWd DEF Dispatch
  <2>2. CASE ~long
    BY <1>3, <2>2, <1>0 DEF Dispatch
  <2>. QED
    BY <2>1, <2>2
<1>4. CASE DispatchEnd \/ UploadFirmwareEnd
  BY <1>4, ResumeKeepsWd DEF DispatchEnd, UploadFirmwareEnd
<1>13. CASE UploadFirmware
  BY <1>13, SuspendKeepsWd DEF UploadFirmware
<1>5. CASE Return
  BY <1>5, <1>0 DEF Return
<1>6. ASSUME NEW leaf \in Leaves, Call(leaf) PROVE WdInv'
  BY <1>6, <1>0 DEF Call
<1>7. ASSUME NEW on \in BOOLEAN, NEW starve \in BOOLEAN, SetTelemetry(on, starve) PROVE WdInv'
  BY <1>7, SetEnabledKeepsWd DEF SetTelemetry
<1>8. CASE Hang
  <2>1. main \in {"boot", "loop"} /\ main' = "hung" /\ hw' = hw /\ wd' = wd
    BY <1>8 DEF Hang, wdog
  <2>2. hw.en => wd.armed
    BY <2>1, Zenon DEF WdInv, ArmedCoversHardware
  <2>. QED
    BY <2>1, <2>2, Zenon DEF WdInv, ArmedCoversHardware, WindowCloses
<1>9. CASE \E id \in Ids : isrEnter(id)
  BY <1>9, <1>0 DEF isrEnter
<1>10. CASE isrExit
  BY <1>10, <1>0 DEF isrExit
<1>11. CASE Expire \/ WarmReset \/ PowerOn
  <2>1. main' = "down" /\ wd' = Fresh
    BY <1>11 DEF Expire, WarmReset, PowerOn, Lose
  <2>2. hw' \in [en : BOOLEAN, toval : Tovals]
    <3>1. CASE hw' = hw
      BY <3>1 DEF WdInv
    <3>2. CASE hw' = [en |-> FALSE, toval |-> "normal"]
      BY <3>2 DEF Tovals
    <3>. QED
      BY <1>11, <3>1, <3>2, Zenon DEF Expire, WarmReset, PowerOn
  <2>. QED
    BY <2>1, <2>2, FreshIsWd, Zenon DEF WdInv, ArmedCoversHardware, WindowCloses
<1>12. CASE UNCHANGED vars
  BY <1>12, <1>0 DEF vars, wdog
<1>. QED
  BY <1>1, <1>2, <1>3, <1>4, <1>5, <1>6, <1>7, <1>8, <1>9, <1>10, <1>11, <1>12, <1>13, Zenon DEF Next

LEMMA WdInvHolds == Spec => []WdInv
<1>1. Init => WdInv
  <2>. SUFFICES ASSUME Init PROVE WdInv
    OBVIOUS
  <2>1. hw \in [en : BOOLEAN, toval : Tovals] /\ wd = Fresh /\ main = "down"
    BY DEF Init, Tovals
  <2>. QED
    BY <2>1, FreshIsWd, Zenon DEF WdInv, ArmedCoversHardware, WindowCloses
<1>. QED
  BY <1>1, WdInvStep, PTL DEF Spec

\* Whatever part of a programming takes effect, a watchdog that runs is one that
\* the code kicks.
THEOREM HealthArmedCoversHardware == Spec => []ArmedCoversHardware
<1>1. WdInv => ArmedCoversHardware
  BY DEF WdInv
<1>. QED
  BY <1>1, WdInvHolds, PTL

\* No order of windows, switches and failed programmings leaves the long timeout
\* behind, or the watchdog on or off against what is wanted.
THEOREM HealthWindowCloses == Spec => []WindowCloses
<1>1. WdInv => WindowCloses
  BY DEF WdInv
<1>. QED
  BY <1>1, WdInvHolds, PTL

\* The watchdog is kicked when it runs and runs as it is wanted.
THEOREM HealthWatchdogSound == Spec => []WatchdogSound
<1>1. ArmedCoversHardware /\ WindowCloses => WatchdogSound
  BY DEF WatchdogSound
<1>. QED
  BY <1>1, HealthArmedCoversHardware, HealthWindowCloses, PTL

\* The watchdog resets no board that boots or works, short of a failed
\* programming: boot has its provisional timeout, a long operation its window.
THEOREM HealthNoFalseReset == Spec => NoFalseReset
<1>1. WdInv /\ [Next]_vars => [Expire => main = "hung" \/ wd.starve \/ wd.failed]_vars
  <2>. SUFFICES ASSUME WdInv, Expire PROVE main = "hung" \/ wd.starve \/ wd.failed
    OBVIOUS
  <2>. SUFFICES ASSUME main # "hung", ~wd.starve, ~wd.failed PROVE FALSE
    OBVIOUS
  <2>1. main \in {"boot", "loop"} /\ hw.en /\ (~Kicked \/ (Slow /\ hw.toval = "normal"))
    BY Zenon DEF Expire, Expiring, WdInv
  <2>2. Kicked
    BY <2>1, Zenon DEF WdInv, ArmedCoversHardware, Kicked
  <2>3. CASE main = "boot"
    <3>1. hw.toval = "provisional"
      BY <2>3 DEF WdInv
    <3>. QED
      BY <3>1, <2>1, <2>2
  <2>4. CASE main = "loop"
    <3>1. wd.suspend > 0
      BY <2>1, <2>2, <2>4 DEF Slow
    <3>2. hw.toval = "longop"
      BY <3>1, <2>1, <2>4 DEF WdInv
    <3>. QED
      BY <3>2, <2>1, <2>2
  <2>. QED
    BY <2>1, <2>3, <2>4
<1>. QED
  BY <1>1, WdInvHolds, PTL DEF Spec, NoFalseReset

-----------------------------------------------------------------------------
(***************************************************************************)
(* The ISR record.                                                         *)
(***************************************************************************)
Recs == [c : Contexts, mem : Contexts, ok : BOOLEAN]

\* The record is of the stack, and a capture is only made on the way down.
IsrInv ==
  /\ stack \in Seq(Ids) /\ stuck \in Nat /\ rec \in Recs
  /\ main = "down" => stack = <<>>
  /\ main # "down" => ~rec.c.fired /\ ~rec.mem.fired
  /\ IsrLastTrue /\ CaptureIsTrue

LEMMA NoContextIs == NoContext \in Contexts /\ ~NoContext.fired /\ NoContext.last = "ISR_NONE"
  BY DEF NoContext, Contexts

\* What the hooks write, however much of it reaches memory.
LEMMA RecordResult ==
  ASSUME rec \in Recs, ~rec.c.fired, ~rec.mem.fired,
         NEW last \in Ids \cup {"ISR_NONE"}, NEW lite, record(last, lite)
  PROVE  rec' \in Recs /\ rec'.c.last = last /\ ~rec'.c.fired /\ ~rec'.mem.fired
<1>. DEFINE c == [rec.c EXCEPT !.last = last]
<1>1. c \in Contexts /\ c.last = last /\ ~c.fired
  BY DEF Recs, Contexts
<1>2. \/ rec' = [c |-> c, mem |-> c, ok |-> TRUE]
      \/ rec' = [rec EXCEPT !.c = c]
      \/ rec' = [rec EXCEPT !.c = c, !.ok = FALSE]
  BY Zenon DEF record
<1>. HIDE DEF c
<1>3. rec' \in Recs /\ rec'.c = c /\ rec'.mem \in {c, rec.mem}
  <2>1. CASE rec' = [c |-> c, mem |-> c, ok |-> TRUE]
    BY <1>1, <2>1 DEF Recs
  <2>2. CASE rec' = [rec EXCEPT !.c = c]
    BY <1>1, <2>2 DEF Recs
  <2>3. CASE rec' = [rec EXCEPT !.c = c, !.ok = FALSE]
    BY <1>1, <2>3 DEF Recs
  <2>. QED
    BY <1>2, <2>1, <2>2, <2>3
<1>. QED
  BY <1>1, <1>3

LEMMA OneOrTwo == \A n \in Nat \ {0} : n <= 2 => n \in 1 .. 2
  OBVIOUS

LEMMA OneOrMore == ASSUME NEW n \in Nat, n >= 1 PROVE n = 1 \/ n > 1
  OBVIOUS

\* Front, as what SubSeq gives.
LEMMA FrontResult ==
  ASSUME NEW S, NEW s \in Seq(S), Len(s) >= 1
  PROVE  /\ Front(s) \in Seq(S) /\ Len(Front(s)) = Len(s) - 1
         /\ \A i \in 1 .. Len(s) - 1 : Front(s)[i] = s[i]
<1>1. Len(s) \in Nat /\ \A i \in 1 .. Len(s) - 1 : s[i] \in S
  OBVIOUS
<1>2. /\ SubSeq(s, 1, Len(s) - 1) \in Seq(S)
      /\ Len(SubSeq(s, 1, Len(s) - 1)) = IF 1 <= Len(s) - 1 THEN (Len(s) - 1) - 1 + 1 ELSE 0
      /\ \A i \in 1 .. (Len(s) - 1) - 1 + 1 : SubSeq(s, 1, Len(s) - 1)[i] = s[1 + i - 1]
  BY <1>1, SubSeqProperties
<1>. HIDE DEF Front
<1>3. Front(s) = SubSeq(s, 1, Len(s) - 1)
  BY DEF Front
<1>4. Len(SubSeq(s, 1, Len(s) - 1)) = Len(s) - 1
  <2>1. CASE Len(s) = 1
    BY <1>2, <2>1
  <2>2. CASE Len(s) > 1
    BY <1>1, <1>2, <2>2
  <2>. QED
    BY <1>1, <2>1, <2>2, OneOrMore, Zenon
<1>5. ASSUME NEW i \in 1 .. Len(s) - 1 PROVE Front(s)[i] = s[i]
  <2>1. i \in 1 .. (Len(s) - 1) - 1 + 1 /\ 1 + i - 1 = i
    BY <1>1
  <2>2. SubSeq(s, 1, Len(s) - 1)[i] = s[1 + i - 1]
    BY <2>1, <1>2, Zenon
  <2>. QED
    BY <2>1, <2>2, <1>3
<1>. QED
  BY <1>2, <1>3, <1>4, <1>5, Zenon

LEMMA EnterKeepsIsr == ASSUME IsrInv, NEW id \in Ids, isrEnter(id) PROVE IsrInv'
<1>1. /\ main' = main /\ main # "down" /\ stuck' = stuck /\ stack' = Append(stack, id)
      /\ record(id, id \in Lite)
  BY DEF isrEnter
<1>2. rec' \in Recs /\ rec'.c.last = id /\ ~rec'.c.fired /\ ~rec'.mem.fired
  BY <1>1, RecordResult DEF IsrInv
<1>3. stack' \in Seq(Ids) /\ Top' = id
  BY <1>1 DEF IsrInv, Top, Last
<1>. QED
  BY <1>1, <1>2, <1>3 DEF IsrInv, IsrLastTrue, CaptureIsTrue

LEMMA ExitKeepsIsr == ASSUME IsrInv, isrExit PROVE IsrInv'
<1>. DEFINE below == IF Len(stack) = 1 THEN "ISR_NONE" ELSE stack[Len(stack) - 1]
<1>1. /\ main' = main /\ main # "down" /\ stuck' = stuck /\ stack' = Front(stack)
      /\ record(below, Top \in Lite) /\ Len(stack) > stuck
  BY DEF isrExit
<1>2. stack \in Seq(Ids) /\ Len(stack) \in Nat /\ Len(stack) >= 1
  BY <1>1 DEF IsrInv
<1>3. stack' \in Seq(Ids) /\ Len(stack') = Len(stack) - 1
      /\ \A i \in 1 .. Len(stack) - 1 : stack'[i] = stack[i]
  BY <1>1, <1>2, FrontResult
<1>4. below \in Ids \cup {"ISR_NONE"} /\ Top' = below
  <2>1. CASE Len(stack) = 1
    <3>1. stack' = <<>>
      BY <2>1, <1>3, EmptySeq
    <3>. QED
      BY <2>1, <3>1 DEF Top
  <2>2. CASE Len(stack) > 1
    <3>1. Len(stack') \in 1 .. Len(stack) - 1 /\ below = stack[Len(stack) - 1]
      BY <2>2, <1>2, <1>3
    <3>2. Top' = stack'[Len(stack')]
      BY <3>1, <1>3 DEF Top, Last
    <3>. QED
      BY <3>1, <3>2, <1>2, <1>3
  <2>3. Len(stack) = 1 \/ Len(stack) > 1
    BY <1>2, OneOrMore, Zenon
  <2>. QED
    BY <2>1, <2>2, <2>3
<1>. HIDE DEF below
<1>5. rec' \in Recs /\ rec'.c.last = below /\ ~rec'.c.fired /\ ~rec'.mem.fired
  BY <1>1, <1>4, RecordResult DEF IsrInv
<1>. QED
  BY <1>1, <1>3, <1>4, <1>5 DEF IsrInv, IsrLastTrue, CaptureIsTrue

LEMMA ResetKeepsIsr == ASSUME IsrInv, Expire \/ WarmReset \/ PowerOn PROVE IsrInv'
<1>1. /\ main # "down" /\ main' = "down" /\ stack' = <<>> /\ stuck' = 0
      /\ rec \in Recs /\ rec.c.last = Top /\ ~rec.mem.fired
  BY DEF Expire, Expiring, WarmReset, PowerOn, Lose, IsrInv, IsrLastTrue
<1>2. stack' \in Seq(Ids) /\ stuck' \in Nat
  BY <1>1
<1>3. CASE rec' = [rec EXCEPT !.c = rec.mem]
  <2>1. rec' \in Recs /\ ~rec'.mem.fired
    BY <1>1, <1>3 DEF Recs
  <2>. QED
    BY <1>1, <1>2, <2>1 DEF IsrInv, IsrLastTrue, CaptureIsTrue, Harvest
<1>4. CASE rec' = [c |-> capture, mem |-> capture, ok |-> TRUE] /\ Expire
  <2>1. capture \in Contexts /\ capture.prev_isr = Top
    BY <1>1 DEF capture, Contexts, Recs
  <2>2. rec' \in Recs /\ rec'.mem.prev_isr = Top
    BY <1>4, <2>1 DEF Recs
  <2>3. cause' = "wdog" /\ was'.isr = Top
    BY <1>4 DEF Expire, Lose
  <2>. QED
    BY <1>1, <1>2, <2>2, <2>3 DEF IsrInv, IsrLastTrue, CaptureIsTrue, Harvest
<1>5. CASE rec' = [c |-> NoContext, mem |-> NoContext, ok |-> FALSE]
  <2>1. rec' \in Recs /\ ~rec'.ok
    BY <1>5, NoContextIs DEF Recs
  <2>. QED
    BY <1>1, <1>2, <2>1 DEF IsrInv, IsrLastTrue, CaptureIsTrue, Harvest
<1>. QED
  BY <1>3, <1>4, <1>5 DEF Expire, WarmReset, PowerOn

LEMMA IsrInvStep == IsrInv /\ [Next]_vars => IsrInv'
<1>. SUFFICES ASSUME IsrInv, [Next]_vars PROVE IsrInv'
  OBVIOUS
<1>0. ASSUME UNCHANGED <<main, isrs, past>> PROVE IsrInv'
  BY <1>0 DEF IsrInv, IsrLastTrue, CaptureIsTrue, Harvest, Top, isrs, past
<1>1. CASE begin
  <2>1. /\ main = "down" /\ main' = "boot" /\ stack' = stack /\ stuck' = stuck
        /\ rec' = [c |-> NoContext, mem |-> NoContext, ok |-> TRUE]
    BY <1>1 DEF begin
  <2>2. stack = <<>> /\ Top' = "ISR_NONE"
    BY <2>1 DEF IsrInv, Top
  <2>3. rec' \in Recs /\ rec'.c = NoContext /\ rec'.mem = NoContext
    BY <2>1, NoContextIs DEF Recs
  <2>. QED
    BY <2>1, <2>2, <2>3, NoContextIs DEF IsrInv, IsrLastTrue, CaptureIsTrue
<1>2. CASE watchdogBegin
  <2>1. main = "boot" /\ main' = "loop" /\ stack' = stack /\ stuck' = stuck /\ rec' = rec
    BY <1>2 DEF watchdogBegin, isrs
  <2>. QED
    BY <2>1 DEF IsrInv, IsrLastTrue, CaptureIsTrue, Top
<1>3. CASE Hang
  <2>1. main # "down" /\ main' = "hung" /\ stack' = stack /\ stuck' = Len(stack) /\ rec' = rec
    BY <1>3 DEF Hang
  <2>. QED
    BY <2>1 DEF IsrInv, IsrLastTrue, CaptureIsTrue, Top
<1>4. CASE (\E long \in BOOLEAN : Dispatch(long)) \/ DispatchEnd \/ Return
  BY <1>4, <1>0 DEF Dispatch, DispatchEnd, Return
<1>10. CASE UploadFirmware \/ UploadFirmwareEnd
  BY <1>10, <1>0 DEF UploadFirmware, UploadFirmwareEnd
<1>5. CASE \/ \E leaf \in Leaves : Call(leaf)
           \/ \E on, starve \in BOOLEAN : SetTelemetry(on, starve)
  BY <1>5, <1>0 DEF Call, SetTelemetry
<1>6. CASE \E id \in Ids : isrEnter(id)
  BY <1>6, EnterKeepsIsr
<1>7. CASE isrExit
  BY <1>7, ExitKeepsIsr
<1>8. CASE Expire \/ WarmReset \/ PowerOn
  BY <1>8, ResetKeepsIsr
<1>9. CASE UNCHANGED vars
  BY <1>9, <1>0 DEF vars, isrs, past
<1>. QED
  BY <1>1, <1>2, <1>3, <1>4, <1>5, <1>6, <1>7, <1>8, <1>9, <1>10, Zenon DEF Next

LEMMA IsrInvHolds == Spec => []IsrInv
<1>1. Init => IsrInv
  <2>. SUFFICES ASSUME Init PROVE IsrInv
    OBVIOUS
  <2>1. rec \in Recs /\ ~rec.ok /\ stack \in Seq(Ids) /\ stuck \in Nat
    BY NoContextIs DEF Init, Recs
  <2>. QED
    BY <2>1 DEF Init, IsrInv, IsrLastTrue, CaptureIsTrue, Harvest
<1>. QED
  BY <1>1, IsrInvStep, PTL DEF Spec

\* However interrupts nest and hang, the record names the one that runs.
THEOREM HealthIsrLastTrue == Spec => []IsrLastTrue
<1>1. IsrInv => IsrLastTrue
  BY DEF IsrInv
<1>. QED
  BY <1>1, IsrInvHolds, PTL

\* A capture that validates after a reset is of that reset, however much of the
\* record had reached memory.
THEOREM HealthCaptureIsTrue == Spec => []CaptureIsTrue
<1>1. IsrInv => CaptureIsTrue
  BY DEF IsrInv
<1>. QED
  BY <1>1, IsrInvHolds, PTL

-----------------------------------------------------------------------------
(***************************************************************************)
(* The breadcrumb.                                                         *)
(***************************************************************************)
OpIds  == {"OP_IDLE", "OP_CMD"} \cup Leaves
Calls  == {"OP_CMD", "SET_FIRMWARE_FILE"} \cup Leaves
Crumbs == [c : OpIds, mem : OpIds, ok : BOOLEAN]

\* What a crumb may say of the calls in progress.
Tells(op, calls) ==
  /\ op # "OP_IDLE" => calls # <<>> /\ op = Last(calls)
  /\ calls # <<>> /\ Last(calls) \in Leaves => op = Last(calls)

\* Memory never lags behind the cache, and leaves nest in commands only.
CrumbInv ==
  /\ crumb \in Crumbs
  /\ ops \in Seq(Calls) /\ Len(ops) <= 2 /\ (Len(ops) = 2 => ops[1] = "OP_CMD")
  /\ main = "down" => ops = <<>>
  /\ main # "down" => crumb.ok /\ crumb.c = crumb.mem /\ Tells(crumb.mem, ops)
  /\ CrumbIsTrue

LEMMA MarkResult ==
  ASSUME NEW op \in OpIds, mark(op)
  PROVE  crumb' \in Crumbs /\ crumb'.ok /\ crumb'.c = op /\ crumb'.mem = op
  BY DEF mark, Crumbs

LEMMA ClearResult ==
  ASSUME CrumbInv, main # "down", clear
  PROVE  crumb' \in Crumbs /\ crumb'.ok /\ crumb'.c = "OP_IDLE" /\ crumb'.mem = "OP_IDLE"
<1>1. CASE crumb.c # "OP_IDLE"
  BY <1>1, MarkResult DEF clear, OpIds
<1>2. CASE crumb.c = "OP_IDLE"
  BY <1>2 DEF clear, CrumbInv
<1>. QED
  BY <1>1, <1>2

LEMMA CrumbInvStep == CrumbInv /\ [Next]_vars => CrumbInv'
<1>. SUFFICES ASSUME CrumbInv, [Next]_vars PROVE CrumbInv'
  OBVIOUS
<1>0. ASSUME UNCHANGED <<ops, crumb>>, main' # "down", main # "down" PROVE CrumbInv'
  BY <1>0 DEF CrumbInv, CrumbIsTrue
<1>1. CASE begin
  <2>1. main = "down" /\ main' = "boot" /\ ops' = ops /\ ops = <<>> /\ mark("OP_IDLE")
    BY <1>1 DEF begin, CrumbInv
  <2>2. crumb' \in Crumbs /\ crumb'.ok /\ crumb'.c = "OP_IDLE" /\ crumb'.mem = "OP_IDLE"
    BY <2>1, MarkResult DEF OpIds
  <2>. QED
    BY <2>1, <2>2 DEF CrumbInv, CrumbIsTrue, Tells
<1>2. CASE watchdogBegin \/ Hang
  BY <1>2, <1>0 DEF watchdogBegin, Hang
<1>3. ASSUME NEW long \in BOOLEAN, Dispatch(long) PROVE CrumbInv'
  <2>1. main = "loop" /\ main' = "loop" /\ ops' = <<"OP_CMD">> /\ mark("OP_CMD")
    BY <1>3 DEF Dispatch
  <2>2. crumb' \in Crumbs /\ crumb'.ok /\ crumb'.c = "OP_CMD" /\ crumb'.mem = "OP_CMD"
    BY <2>1, MarkResult DEF OpIds
  <2>3. /\ ops' \in Seq(Calls) /\ Len(ops') = 1 /\ Last(ops') = "OP_CMD"
        /\ ops' # <<>>
    BY <2>1 DEF Last, Calls
  <2>. QED
    BY <2>1, <2>2, <2>3, HealthAssumption DEF CrumbInv, CrumbIsTrue, Tells
<1>4. CASE DispatchEnd
  <2>1. main = "loop" /\ main' = "loop" /\ ops' = <<>> /\ clear
    BY <1>4 DEF DispatchEnd
  <2>2. crumb' \in Crumbs /\ crumb'.ok /\ crumb'.c = "OP_IDLE" /\ crumb'.mem = "OP_IDLE"
    BY <2>1, ClearResult
  <2>. QED
    BY <2>1, <2>2 DEF CrumbInv, CrumbIsTrue, Tells
<1>5. ASSUME NEW leaf \in Leaves, Call(leaf) PROVE CrumbInv'
  <2>1. /\ main = "loop" /\ main' = "loop" /\ mark(leaf) /\ ops' = Append(ops, leaf)
        /\ ops \in {<<>>, <<"OP_CMD">>}
    BY <1>5 DEF Call
  <2>2. crumb' \in Crumbs /\ crumb'.ok /\ crumb'.c = leaf /\ crumb'.mem = leaf
    BY <2>1, MarkResult DEF OpIds
  <2>3. /\ ops' \in Seq(Calls) /\ Len(ops') <= 2
        /\ Len(ops') = 2 => ops'[1] = "OP_CMD"
        /\ ops' # <<>> /\ Last(ops') = leaf
    <3>1. CASE ops = <<>>
      BY <2>1, <3>1 DEF Last, Calls
    <3>2. CASE ops = <<"OP_CMD">>
      BY <2>1, <3>2 DEF Last, Calls
    <3>. QED
      BY <2>1, <3>1, <3>2
  <2>. QED
    BY <2>1, <2>2, <2>3 DEF CrumbInv, CrumbIsTrue, Tells
<1>6. CASE Return
  <2>1. main = "loop" /\ main' = "loop" /\ ops' = Front(ops) /\ clear /\ ops # <<>>
    BY <1>6 DEF Return
  <2>2. crumb' \in Crumbs /\ crumb'.ok /\ crumb'.c = "OP_IDLE" /\ crumb'.mem = "OP_IDLE"
    BY <2>1, ClearResult
  <2>3. ops \in Seq(Calls) /\ Len(ops) \in 1 .. 2
    <3>1. ops \in Seq(Calls) /\ Len(ops) <= 2
      BY DEF CrumbInv
    <3>2. Len(ops) \in Nat \ {0}
      BY <2>1, <3>1, EmptySeq, Zenon
    <3>. QED
      BY <3>1, <3>2, OneOrTwo, Zenon
  <2>4. ops' \in Seq(Calls) /\ Len(ops') = Len(ops) - 1
        /\ \A i \in 1 .. Len(ops) - 1 : ops'[i] = ops[i]
    BY <2>1, <2>3, FrontResult
  <2>5. ops' # <<>> => Last(ops') = "OP_CMD"
    <3>. SUFFICES ASSUME ops' # <<>> PROVE Last(ops') = "OP_CMD"
      OBVIOUS
    <3>1. Len(ops') = 1 /\ Len(ops) = 2
      BY <2>3, <2>4, EmptySeq
    <3>2. ops'[1] = "OP_CMD"
      BY <3>1, <2>4 DEF CrumbInv
    <3>. QED
      BY <3>1, <3>2 DEF Last
  <2>6. Len(ops') <= 2 /\ Len(ops') # 2
    BY <2>3, <2>4
  <2>. QED
    BY <2>1, <2>2, <2>4, <2>5, <2>6, HealthAssumption DEF CrumbInv, CrumbIsTrue, Tells
<1>7. ASSUME NEW on \in BOOLEAN, NEW starve \in BOOLEAN, SetTelemetry(on, starve) PROVE CrumbInv'
  BY <1>7, <1>0 DEF SetTelemetry
<1>8. CASE (\E id \in Ids : isrEnter(id)) \/ isrExit
  BY <1>8, <1>0 DEF isrEnter, isrExit
<1>9. CASE Expire \/ WarmReset
  <2>1. /\ main # "down" /\ main' = "down" /\ ops' = <<>> /\ was'.ops = ops
        /\ crumb' = [crumb EXCEPT !.c = crumb.mem]
    BY <1>9 DEF Expire, Expiring, WarmReset, Lose
  <2>2. crumb' \in Crumbs /\ crumb'.mem = crumb.mem /\ Tells(crumb.mem, ops)
    BY <2>1 DEF CrumbInv, Crumbs
  <2>. QED
    BY <2>1, <2>2 DEF CrumbInv, CrumbIsTrue, Tells, Harvest
<1>10. CASE PowerOn
  <2>1. /\ main' = "down" /\ ops' = <<>>
        /\ crumb' = [c |-> "OP_IDLE", mem |-> "OP_IDLE", ok |-> FALSE]
    BY <1>10 DEF PowerOn
  <2>2. crumb' \in Crumbs /\ ~crumb'.ok
    BY <2>1 DEF Crumbs, OpIds
  <2>. QED
    BY <2>1, <2>2 DEF CrumbInv, CrumbIsTrue, Harvest
<1>12. CASE UploadFirmware
  <2>1. /\ main = "loop" /\ main' = "loop" /\ crumb' = crumb /\ ops = <<>>
        /\ ops' = <<"SET_FIRMWARE_FILE">>
    BY <1>12 DEF UploadFirmware
  <2>2. /\ ops' \in Seq(Calls) /\ Len(ops') = 1 /\ ops' # <<>>
        /\ Last(ops') = "SET_FIRMWARE_FILE"
    BY <2>1 DEF Last, Calls
  <2>3. crumb.mem = "OP_IDLE"
    BY <2>1 DEF CrumbInv, Tells
  <2>. QED
    BY <2>1, <2>2, <2>3, HealthAssumption DEF CrumbInv, CrumbIsTrue, Tells
<1>13. CASE UploadFirmwareEnd
  <2>1. /\ main = "loop" /\ main' = "loop" /\ crumb' = crumb /\ ops' = <<>>
        /\ Last(ops) = "SET_FIRMWARE_FILE" /\ ops # <<>>
    BY <1>13 DEF UploadFirmwareEnd, Last
  <2>2. crumb.mem = "OP_IDLE"
    BY <2>1, HealthAssumption DEF CrumbInv, Tells, Crumbs, OpIds
  <2>. QED
    BY <2>1, <2>2 DEF CrumbInv, CrumbIsTrue, Tells
<1>11. CASE UNCHANGED vars
  BY <1>11 DEF vars, past, CrumbInv, CrumbIsTrue, Harvest
<1>. QED
  BY <1>1, <1>2, <1>3, <1>4, <1>5, <1>6, <1>7, <1>8, <1>9, <1>10, <1>11, <1>12, <1>13, Zenon DEF Next

LEMMA CrumbInvHolds == Spec => []CrumbInv
<1>1. Init => CrumbInv
  <2>. SUFFICES ASSUME Init PROVE CrumbInv
    OBVIOUS
  <2>1. crumb \in Crumbs /\ ~crumb.ok /\ ops = <<>> /\ main = "down"
    BY DEF Init, Crumbs, OpIds
  <2>. QED
    BY <2>1 DEF CrumbInv, CrumbIsTrue, Harvest
<1>. QED
  BY <1>1, CrumbInvStep, PTL DEF Spec

\* A breadcrumb that validates after a reset is of its moment: the call it names
\* was in progress, and a blocking call in progress is named.
THEOREM HealthCrumbIsTrue == Spec => []CrumbIsTrue
<1>1. CrumbInv => CrumbIsTrue
  BY DEF CrumbInv
<1>. QED
  BY <1>1, CrumbInvHolds, PTL

\* What the records say after a reset is true of it, whatever was cached.
THEOREM HealthRecordsTrue == Spec => []RecordsTrue
<1>1. IsrLastTrue /\ CaptureIsTrue /\ CrumbIsTrue => RecordsTrue
  BY DEF RecordsTrue
<1>. QED
  BY <1>1, HealthIsrLastTrue, HealthCaptureIsTrue, HealthCrumbIsTrue, PTL
-----------------------------------------------------------------------------
(***************************************************************************)
(* The window of a long operation is not nested.                           *)
(***************************************************************************)
\* A command or an upload of the firmware is in progress: only these open one.
MayHoldWindow == ops # <<>> /\ ops[1] \notin Leaves

WindowInv ==
  /\ masked \in BOOLEAN /\ cause \in {"none", "power", "warm", "wdog"}
  /\ stuck <= Len(stack)
  /\ wd.suspend \in {0, 1} /\ (~MayHoldWindow => wd.suspend = 0)

\* What the calls do to the count of windows, programmed or not.
LEMMA SuspendCounts ==
  ASSUME WdInv, watchdogSuspend(wd) PROVE wd'.suspend = wd.suspend + 1
<1>. DEFINE v == [wd EXCEPT !.suspend = @ + 1]
<1>1. hw \in [en : BOOLEAN, toval : Tovals] /\ v \in Wd /\ v.suspend = wd.suspend + 1
  BY DEF WdInv, Wd
<1>2. Unprogrammed(v) \/ rtwdogApply(v, TRUE, "longop")
  BY Zenon DEF watchdogSuspend
<1>. HIDE DEF v
<1>3. CASE Unprogrammed(v)
  BY <1>1, <1>3 DEF Unprogrammed
<1>4. CASE rtwdogApply(v, TRUE, "longop")
  BY <1>1, <1>4, ApplyResult DEF Tovals
<1>. QED
  BY <1>2, <1>3, <1>4

LEMMA ResumeCounts ==
  ASSUME WdInv, watchdogResume(wd), wd.suspend \in {0, 1} PROVE wd'.suspend = 0
<1>. DEFINE v == [wd EXCEPT !.suspend = IF @ > 0 THEN @ - 1 ELSE 0]
<1>1. /\ hw \in [en : BOOLEAN, toval : Tovals] /\ v \in Wd /\ v.suspend = 0
      /\ wd.wanted \in BOOLEAN
  BY DEF WdInv, Wd
<1>2. Unprogrammed(v) \/ rtwdogApply(v, wd.wanted, "normal")
  BY Zenon DEF watchdogResume
<1>. HIDE DEF v
<1>3. CASE Unprogrammed(v)
  BY <1>1, <1>3 DEF Unprogrammed
<1>4. CASE rtwdogApply(v, wd.wanted, "normal")
  BY <1>1, <1>4, ApplyResult DEF Tovals
<1>. QED
  BY <1>2, <1>3, <1>4

LEMMA SetEnabledCounts ==
  ASSUME WdInv, NEW on \in BOOLEAN, NEW starve \in BOOLEAN,
         watchdogSetEnabled([wd EXCEPT !.starve = starve], on)
  PROVE  wd'.suspend = wd.suspend
<1>. DEFINE w == [wd EXCEPT !.starve = starve]
            v == [w EXCEPT !.wanted = on]
<1>1. hw \in [en : BOOLEAN, toval : Tovals] /\ w \in Wd /\ w.suspend = wd.suspend
  BY DEF WdInv, Wd
<1>2. Unprogrammed(v) \/ rtwdogApply(v, on, "normal")
  BY Zenon DEF watchdogSetEnabled
<1>. HIDE DEF w
<1>3. v \in Wd /\ v.suspend = wd.suspend
  BY <1>1 DEF Wd
<1>. HIDE DEF v
<1>4. CASE Unprogrammed(v)
  BY <1>3, <1>4 DEF Unprogrammed
<1>5. CASE rtwdogApply(v, on, "normal")
  BY <1>1, <1>3, <1>5, ApplyResult DEF Tovals
<1>. QED
  BY <1>2, <1>4, <1>5

LEMMA WindowInvStep ==
  WdInv /\ IsrInv /\ CrumbInv /\ WindowInv /\ [Next]_vars => WindowInv'
<1>. SUFFICES ASSUME WdInv, IsrInv, CrumbInv, WindowInv, [Next]_vars PROVE WindowInv'
  OBVIOUS
<1>0. ASSUME UNCHANGED <<masked, isrs, cause>>, wd'.suspend \in {0, 1},
             ~MayHoldWindow' => wd'.suspend = 0
      PROVE  WindowInv'
  BY <1>0 DEF WindowInv, isrs
<1>1. CASE begin
  <2>1. /\ rtwdogApply(Fresh, TRUE, "provisional") /\ cause' = "none"
        /\ masked' = masked /\ stuck' = stuck /\ stack' = stack
    BY <1>1 DEF begin
  <2>2. wd'.suspend = 0
    BY <2>1, FreshIsWd, ApplyResult DEF WdInv, Tovals
  <2>. QED
    BY <2>1, <2>2 DEF WindowInv
<1>2. CASE watchdogBegin
  <2>1. rtwdogApply(wd, TRUE, "normal") /\ UNCHANGED <<masked, isrs, cause, ops>>
    BY <1>2 DEF watchdogBegin, past
  <2>2. wd'.suspend = wd.suspend
    BY <2>1, ApplyResult DEF WdInv, Tovals
  <2>. QED
    BY <2>1, <2>2, <1>0 DEF WindowInv, MayHoldWindow
<1>3. ASSUME NEW long \in BOOLEAN, Dispatch(long) PROVE WindowInv'
  <2>1. /\ ops = <<>> /\ ops' = <<"OP_CMD">> /\ UNCHANGED <<masked, isrs, cause>>
        /\ watchdogSuspend(wd) \/ UNCHANGED wdog
    BY <1>3 DEF Dispatch, past
  <2>2. wd.suspend = 0 /\ MayHoldWindow'
    BY <2>1, HealthAssumption DEF WindowInv, MayHoldWindow
  <2>3. wd'.suspend \in {0, 1}
    BY <2>1, <2>2, SuspendCounts DEF wdog
  <2>. QED
    BY <2>1, <2>2, <2>3, <1>0
<1>4. CASE UploadFirmware
  <2>1. /\ ops = <<>> /\ ops' = <<"SET_FIRMWARE_FILE">> /\ UNCHANGED <<masked, isrs, cause>>
        /\ watchdogSuspend(wd)
    BY <1>4 DEF UploadFirmware, past
  <2>2. wd.suspend = 0 /\ MayHoldWindow'
    BY <2>1, HealthAssumption DEF WindowInv, MayHoldWindow
  <2>3. wd'.suspend \in {0, 1}
    BY <2>1, <2>2, SuspendCounts
  <2>. QED
    BY <2>1, <2>2, <2>3, <1>0
<1>5. CASE DispatchEnd \/ UploadFirmwareEnd
  <2>1. UNCHANGED <<masked, isrs, cause>> /\ watchdogResume(wd)
    BY <1>5 DEF DispatchEnd, UploadFirmwareEnd, past
  <2>2. wd'.suspend = 0
    BY <2>1, ResumeCounts DEF WindowInv
  <2>. QED
    BY <2>1, <2>2, <1>0
<1>6. ASSUME NEW leaf \in Leaves, Call(leaf) PROVE WindowInv'
  <2>1. /\ ops \in {<<>>, <<"OP_CMD">>} /\ ops' = Append(ops, leaf)
        /\ UNCHANGED <<masked, isrs, cause, wd>>
    BY <1>6 DEF Call, past, wdog
  <2>2. MayHoldWindow => MayHoldWindow'
    BY <2>1, HealthAssumption DEF MayHoldWindow
  <2>. QED
    BY <2>1, <2>2, <1>0 DEF WindowInv
<1>7. CASE Return
  <2>1. /\ ops # <<>> /\ Last(ops) \in Leaves /\ ops' = Front(ops)
        /\ UNCHANGED <<masked, isrs, cause, wd>>
    BY <1>7 DEF Return, past, wdog
  <2>2. ops \in Seq(Calls) /\ Len(ops) >= 1
    <3>1. ops \in Seq(Calls)
      BY DEF CrumbInv
    <3>2. Len(ops) \in Nat \ {0}
      BY <2>1, <3>1, EmptySeq, Zenon
    <3>. QED
      BY <3>1, <3>2
  <2>3. /\ ops' \in Seq(Calls) /\ Len(ops') = Len(ops) - 1
        /\ \A i \in 1 .. Len(ops) - 1 : ops'[i] = ops[i]
    BY <2>1, <2>2, FrontResult
  <2>4. MayHoldWindow => MayHoldWindow'
    <3>. SUFFICES ASSUME MayHoldWindow PROVE MayHoldWindow'
      OBVIOUS
    <3>1. Len(ops) # 1
      BY <2>1 DEF MayHoldWindow, Last
    <3>2. Len(ops') >= 1 /\ ops'[1] = ops[1]
      BY <3>1, <2>2, <2>3
    <3>3. ops' # <<>>
      BY <3>2, <2>3
    <3>. QED
      BY <3>2, <3>3 DEF MayHoldWindow
  <2>. QED
    BY <2>1, <2>4, <1>0 DEF WindowInv
<1>8. ASSUME NEW on \in BOOLEAN, NEW starve \in BOOLEAN, SetTelemetry(on, starve)
      PROVE  WindowInv'
  <2>1. /\ watchdogSetEnabled([wd EXCEPT !.starve = starve], on)
        /\ UNCHANGED <<masked, isrs, cause, ops>>
    BY <1>8 DEF SetTelemetry, past
  <2>2. wd'.suspend = wd.suspend
    BY <2>1, SetEnabledCounts
  <2>. QED
    BY <2>1, <2>2, <1>0 DEF WindowInv, MayHoldWindow
<1>9. CASE Hang
  <2>1. /\ masked' \in BOOLEAN /\ stuck' = Len(stack)
        /\ UNCHANGED <<stack, cause, ops, wd>>
    BY <1>9 DEF Hang, past, wdog
  <2>2. stuck' <= Len(stack')
    BY <2>1 DEF IsrInv
  <2>. QED
    BY <2>1, <2>2 DEF WindowInv, MayHoldWindow
<1>10. ASSUME NEW id \in Ids, isrEnter(id) PROVE WindowInv'
  <2>1. /\ stack' = Append(stack, id) /\ stuck' = stuck
        /\ UNCHANGED <<masked, cause, ops, wd>>
    BY <1>10 DEF isrEnter, past, wdog
  <2>2. stuck' <= Len(stack')
    BY <2>1 DEF IsrInv, WindowInv
  <2>. QED
    BY <2>1, <2>2 DEF WindowInv, MayHoldWindow
<1>11. CASE isrExit
  <2>1. /\ stack' = Front(stack) /\ stuck' = stuck /\ Len(stack) > stuck
        /\ UNCHANGED <<masked, cause, ops, wd>>
    BY <1>11 DEF isrExit, past, wdog
  <2>2. stack \in Seq(Ids) /\ stuck \in Nat /\ Len(stack) >= 1
    BY <2>1 DEF IsrInv
  <2>3. Len(stack') = Len(stack) - 1
    BY <2>1, <2>2, FrontResult
  <2>4. stuck' <= Len(stack')
    BY <2>1, <2>2, <2>3
  <2>. QED
    BY <2>1, <2>4 DEF WindowInv, MayHoldWindow
<1>12. CASE Expire \/ WarmReset \/ PowerOn
  <2>1. /\ masked' = FALSE /\ stuck' = 0 /\ stack' = <<>> /\ wd' = Fresh
        /\ cause' \in {"wdog", "warm", "power"}
    BY <1>12 DEF Expire, WarmReset, PowerOn, Lose
  <2>2. stuck' <= Len(stack')
    BY <2>1
  <2>3. wd'.suspend = 0
    BY <2>1, FreshIsWd
  <2>. QED
    BY <2>1, <2>2, <2>3 DEF WindowInv
<1>13. CASE UNCHANGED vars
  BY <1>13, <1>0 DEF vars, isrs, WindowInv, MayHoldWindow
<1>. QED
  BY <1>1, <1>2, <1>3, <1>4, <1>5, <1>6, <1>7, <1>8, <1>9, <1>10, <1>11, <1>12, <1>13, Zenon
     DEF Next

\* Every variable keeps its type, whatever is interrupted, hangs and resets; the
\* window of a long operation is never opened within another, so that one
\* resume always closes it (handleBinaryCommand, processCommand).
THEOREM HealthTypeOK == Spec => []TypeOK
<1>1. Init => WindowInv
  <2>. SUFFICES ASSUME Init PROVE WindowInv
    OBVIOUS
  <2>1. /\ masked = FALSE /\ cause = "power" /\ stuck = 0 /\ stack = <<>> /\ wd = Fresh
    BY DEF Init
  <2>2. stuck <= Len(stack) /\ wd.suspend = 0
    BY <2>1, FreshIsWd
  <2>. QED
    BY <2>1, <2>2 DEF WindowInv
<1>2. WdInv /\ IsrInv /\ CrumbInv /\ WindowInv => TypeOK
  <2>. SUFFICES ASSUME WdInv, IsrInv, CrumbInv, WindowInv PROVE TypeOK
    OBVIOUS
  <2>1. wd \in [armed : BOOLEAN, wanted : BOOLEAN, failed : BOOLEAN, suspend : 0 .. 1,
                starve : BOOLEAN]
    <3>1. wd \in Wd /\ wd.suspend \in 0 .. 1
      BY DEF WdInv, WindowInv
    <3>. QED
      BY <3>1 DEF Wd
  <2>2. stuck \in 0 .. Len(stack)
    BY DEF IsrInv, WindowInv
  <2>3. rec.c \in Contexts /\ rec.mem \in Contexts /\ rec.ok \in BOOLEAN
    BY DEF IsrInv, Recs
  <2>4. {crumb.c, crumb.mem} \subseteq {"OP_IDLE", "OP_CMD"} \cup Leaves
    BY DEF CrumbInv, Crumbs, OpIds
  <2>. QED
    BY <2>1, <2>2, <2>3, <2>4, Zenon DEF TypeOK, WdInv, WindowInv
<1>. QED
  BY <1>1, <1>2, WindowInvStep, WdInvHolds, IsrInvHolds, CrumbInvHolds, PTL DEF Spec
=============================================================================
