------------------------------- MODULE Health -------------------------------
(***************************************************************************)
(* Health.cpp: the hardware watchdog (RTWDOG), the main-loop breadcrumb    *)
(* and the ISR record that survive a reset, with the calls that use them   *)
(* (setup(), loop() and the trampolines of main.cpp; processCommand,       *)
(* handleBinaryCommand and handleSetTelemetry of CommandProcessor.cpp).    *)
(*                                                                         *)
(* A record has two copies: the one in the cache, which the code writes,   *)
(* and the one in memory, which a flush or an eviction brings up to date   *)
(* and which is all that a reset leaves.  A programming of the watchdog    *)
(* may take effect, in part or not at all; it is read back.  Time is       *)
(* abstracted to whether the main loop kicks in time for the timeout.      *)
(***************************************************************************)
EXTENDS Integers, Sequences, SequencesExt

CONSTANT Leaves   \* the blocking calls that are marked: OP_SD_READ and so on

ASSUME HealthAssumption == {"OP_IDLE", "OP_CMD", "SET_FIRMWARE_FILE"} \cap Leaves = {}

VARIABLES
  hw,      \* WDOG3: EN and TOVAL
  wd,      \* wd_armed_, wd_wanted_, wd_failed_, wd_suspend_, wd_starve_
  main,    \* "down", "boot" (setup()), "loop" or "hung"
  masked,  \* hung with the interrupts masked
  ops,     \* the calls in progress, innermost last; SET_FIRMWARE_FILE is not marked
  crumb,   \* the breadcrumb's last_op: in the cache and in memory
  stack,   \* the wrapped ISRs in progress, innermost last
  stuck,   \* how many of them hang
  rec,     \* the ISR record, line 0: in the cache and in memory
  cause,   \* SRC_SRSR: why the last reset came, until begin() clears it
  was      \* history: what ran when it came

vars == <<hw, wd, main, masked, ops, crumb, stack, stuck, rec, cause, was>>
wdog == <<hw, wd>>
isrs == <<stack, stuck, rec>>
past == <<cause, was>>

Tovals == {"provisional", "normal", "longop"}

\* Who may interrupt whom: smaller numbers first (setupInterruptPriorities).
Ids      == {"ISR_USB", "ISR_SDHC", "ISR_PIT", "ISR_REFRESH", "ISR_DMA"}
Priority == [i \in Ids \cup {"ISR_NONE"} |->
               CASE i = "ISR_SDHC" -> 96 [] i = "ISR_NONE" -> 256 [] OTHER -> 128]
Lite     == {"ISR_USB", "ISR_SDHC", "ISR_PIT"}
Top      == IF stack = <<>> THEN "ISR_NONE" ELSE Last(stack)

Contexts == [last : Ids \cup {"ISR_NONE", "ISR_WDOG"}, fired : BOOLEAN,
             prev_isr : Ids \cup {"ISR_NONE", "ISR_WDOG"}]
NoContext == [last |-> "ISR_NONE", fired |-> FALSE, prev_isr |-> "ISR_NONE"]

Nothing == [ops |-> <<>>, isr |-> "ISR_NONE"]

\* The variables as a boot finds them.
Fresh == [armed |-> FALSE, wanted |-> TRUE, failed |-> FALSE, suspend |-> 0, starve |-> FALSE]

Init ==
  /\ hw = [en |-> FALSE, toval |-> "normal"] /\ wd = Fresh
  /\ main = "down" /\ masked = FALSE /\ ops = <<>> /\ stack = <<>> /\ stuck = 0
  /\ crumb = [c |-> "OP_IDLE", mem |-> "OP_IDLE", ok |-> FALSE]
  /\ rec = [c |-> NoContext, mem |-> NoContext, ok |-> FALSE]
  /\ cause = "power" /\ was = Nothing

-----------------------------------------------------------------------------
(***************************************************************************)
(* Programming the watchdog.                                               *)
(***************************************************************************)
\* rtwdogAttempt, twice if need be: each register takes the value or keeps its.
rtwdogProgram(en, toval) == [en : {hw.en, en}, toval : {hw.toval, toval}]

\* Mutant: the read-back is not looked at.
rtwdogApplyUnverified(w, en, toval) ==
  \E h \in rtwdogProgram(en, toval) :
    hw' = h /\ wd' = [w EXCEPT !.failed = FALSE, !.armed = en \/ (@ /\ h.en)]

\* Armed is cleared only when a disable is confirmed.
rtwdogApply(w, en, toval) ==
  \E h \in rtwdogProgram(en, toval) :
    LET ok == h = [en |-> en, toval |-> toval]
    IN  hw' = h /\ wd' = [w EXCEPT !.failed = ~ok, !.armed = en \/ (@ /\ ~ok)]

Unprogrammed(w) == hw' = hw /\ wd' = w

watchdogSetEnabled(w, on) ==
  LET v == [w EXCEPT !.wanted = on]
  IN  IF w.suspend > 0 \/ (on = w.armed /\ ~w.failed) THEN Unprogrammed(v)
      ELSE rtwdogApply(v, on, "normal")

\* Mutant: the timeout is not lengthened.
watchdogSuspendKeeps(w) == Unprogrammed([w EXCEPT !.suspend = @ + 1])

watchdogSuspend(w) ==
  LET v == [w EXCEPT !.suspend = @ + 1]
  IN  IF w.suspend > 0 \/ ~w.armed THEN Unprogrammed(v) ELSE rtwdogApply(v, TRUE, "longop")

\* Mutant: the timeout of the window stays.
watchdogResumeKeeps(w) ==
  LET v == [w EXCEPT !.suspend = IF @ > 0 THEN @ - 1 ELSE 0]
  IN  IF w.wanted \/ ~w.armed THEN Unprogrammed(v) ELSE rtwdogApply(v, FALSE, "normal")

watchdogResume(w) ==
  LET v == [w EXCEPT !.suspend = IF @ > 0 THEN @ - 1 ELSE 0]
  IN  IF w.suspend # 1 \/ ~(w.wanted \/ w.armed) THEN Unprogrammed(v)
      ELSE rtwdogApply(v, w.wanted, "normal")

-----------------------------------------------------------------------------
(***************************************************************************)
(* The breadcrumb: every change is flushed.                                *)
(***************************************************************************)
mark(op) == crumb' = [c |-> op, mem |-> op, ok |-> TRUE]

clear == IF crumb.c # "OP_IDLE" THEN mark("OP_IDLE") ELSE UNCHANGED crumb

-----------------------------------------------------------------------------
(***************************************************************************)
(* Boot.                                                                   *)
(***************************************************************************)
\* What begin() takes from the records into stats.prev_*; garbage does not
\* validate.
Harvest ==
  [valid |-> crumb.ok, op |-> crumb.mem, isr_valid |-> rec.ok, isr |-> rec.mem]

\* Health::begin: the reset cause and the records are taken over into stats and
\* begun anew, and the watchdog runs, with a long timeout.
begin ==
  /\ main = "down" /\ main' = "boot"
  /\ cause' = "none" /\ was' = Nothing
  /\ mark("OP_IDLE") /\ rec' = [c |-> NoContext, mem |-> NoContext, ok |-> TRUE]
  /\ rtwdogApply(Fresh, TRUE, "provisional")
  /\ UNCHANGED <<masked, ops, stack, stuck>>

\* The end of setup().
watchdogBegin ==
  /\ main = "boot" /\ main' = "loop"
  /\ rtwdogApply(wd, TRUE, "normal")
  /\ UNCHANGED <<masked, ops, crumb, isrs, past>>

-----------------------------------------------------------------------------
(***************************************************************************)
(* The main loop.                                                          *)
(***************************************************************************)
\* handleBinaryCommand marks the command and opens the window of a long one.
Dispatch(long) ==
  /\ main = "loop" /\ ops = <<>> /\ ops' = <<"OP_CMD">>
  /\ mark("OP_CMD")
  /\ IF long THEN watchdogSuspend(wd) ELSE UNCHANGED wdog
  /\ UNCHANGED <<main, masked, isrs, past>>

\* Mutant: the window stays open.
DispatchEndEarly ==
  /\ main = "loop" /\ ops = <<"OP_CMD">> /\ ops' = <<>>
  /\ clear /\ UNCHANGED wdog
  /\ UNCHANGED <<main, masked, isrs, past>>

DispatchEnd ==
  /\ main = "loop" /\ ops = <<"OP_CMD">> /\ ops' = <<>>
  /\ clear /\ watchdogResume(wd)
  /\ UNCHANGED <<main, masked, isrs, past>>

\* processCommand gives the synchronous upload of the firmware a window too.
UploadFirmware ==
  /\ main = "loop" /\ ops = <<>> /\ ops' = <<"SET_FIRMWARE_FILE">>
  /\ watchdogSuspend(wd)
  /\ UNCHANGED <<main, masked, crumb, isrs, past>>

UploadFirmwareEnd ==
  /\ main = "loop" /\ ops = <<"SET_FIRMWARE_FILE">> /\ ops' = <<>>
  /\ watchdogResume(wd)
  /\ UNCHANGED <<main, masked, crumb, isrs, past>>

\* A blocking call, on its own or within a command.
Call(leaf) ==
  /\ main = "loop" /\ ops \in {<<>>, <<"OP_CMD">>} /\ ops' = Append(ops, leaf)
  /\ mark(leaf)
  /\ UNCHANGED <<wdog, main, masked, isrs, past>>

Return ==
  /\ main = "loop" /\ ops # <<>> /\ Last(ops) \in Leaves /\ ops' = Front(ops)
  /\ clear
  /\ UNCHANGED <<wdog, main, masked, isrs, past>>

\* SET_TELEMETRY with bit 4.
SetTelemetry(on, starve) ==
  /\ main = "loop" /\ ops = <<"OP_CMD">> /\ wd.suspend = 0
  /\ watchdogSetEnabled([wd EXCEPT !.starve = starve], on)
  /\ UNCHANGED <<main, masked, ops, crumb, isrs, past>>

\* The main loop, or the ISR on top, goes on for ever.
Hang ==
  /\ main \in {"boot", "loop"} /\ main' = "hung"
  /\ masked' \in BOOLEAN /\ stuck' = Len(stack)
  /\ UNCHANGED <<wdog, ops, crumb, stack, rec, past>>

-----------------------------------------------------------------------------
(***************************************************************************)
(* The ISR record.                                                         *)
(***************************************************************************)
\* isrEnter, isrExit and the lite hooks write it under a mask.  The full ones
\* flush; without, the line may be evicted, whole or in the midst of a write.
record(last, lite) ==
  LET c == [rec.c EXCEPT !.last = last]
  IN  \/ ~lite /\ rec' = [c |-> c, mem |-> c, ok |-> TRUE]
      \/ lite /\ rec' = [rec EXCEPT !.c = c]
      \/ lite /\ rec' = [c |-> c, mem |-> c, ok |-> TRUE]
      \/ lite /\ rec' = [rec EXCEPT !.c = c, !.ok = FALSE]

\* The refresh callback runs inside pit_isr.
isrEnter(id) ==
  /\ main \in {"loop", "hung"} /\ ~masked
  /\ IF id = "ISR_REFRESH" THEN Top = "ISR_PIT" /\ Len(stack) > stuck
     ELSE Priority[id] < Priority[Top]
  /\ stack' = Append(stack, id)
  /\ record(id, id \in Lite)
  /\ UNCHANGED <<wdog, main, masked, ops, crumb, stuck, past>>

\* The previous id comes back.
isrExit ==
  /\ main \in {"loop", "hung"} /\ Len(stack) > stuck
  /\ stack' = Front(stack)
  /\ record(IF Len(stack) = 1 THEN "ISR_NONE" ELSE stack[Len(stack) - 1], Top \in Lite)
  /\ UNCHANGED <<wdog, main, masked, ops, crumb, stuck, past>>

-----------------------------------------------------------------------------
(***************************************************************************)
(* Resets.                                                                 *)
(***************************************************************************)
\* What a reset takes away: the RAM and the cache.
Lose ==
  /\ main' = "down" /\ masked' = FALSE /\ ops' = <<>> /\ stack' = <<>> /\ stuck' = 0
  /\ wd' = Fresh
  /\ was' = [ops |-> ops, isr |-> Top]
  /\ crumb' = [crumb EXCEPT !.c = crumb.mem]

\* loopTick and the spins kick, while the watchdog is armed.
Kicked == main \in {"boot", "loop"} /\ wd.armed /\ ~wd.starve

\* Boot and the long commands outlast the normal timeout.
Slow == main = "boot" \/ wd.suspend > 0

Expiring ==
  /\ main # "down" /\ hw.en
  /\ ~Kicked \/ (Slow /\ hw.toval = "normal")

\* Mutant: isr_last is overwritten before it is saved.
captureLate == [last |-> "ISR_WDOG", fired |-> TRUE, prev_isr |-> "ISR_WDOG"]

\* The pre-reset interrupt: line 0 is written and flushed, or cut short.
capture == [last |-> "ISR_WDOG", fired |-> TRUE, prev_isr |-> rec.c.last]

Expire ==
  /\ Expiring /\ cause' = "wdog" /\ Lose
  /\ \/ rec' = [rec EXCEPT !.c = rec.mem]
     \/ ~masked /\ rec' = [c |-> capture, mem |-> capture, ok |-> TRUE]
  /\ UNCHANGED hw

\* SYSTEM_RESET, or a lockup; the watchdog block may or may not be reset.
WarmReset ==
  /\ main # "down" /\ cause' = "warm" /\ Lose
  /\ rec' = [rec EXCEPT !.c = rec.mem]
  /\ hw' \in {hw, [en |-> FALSE, toval |-> "normal"]}

PowerOn ==
  /\ main # "down" /\ cause' = "power"
  /\ main' = "down" /\ masked' = FALSE /\ ops' = <<>> /\ stack' = <<>> /\ stuck' = 0
  /\ wd' = Fresh /\ was' = Nothing
  /\ crumb' = [c |-> "OP_IDLE", mem |-> "OP_IDLE", ok |-> FALSE]
  /\ rec' = [c |-> NoContext, mem |-> NoContext, ok |-> FALSE]
  /\ hw' = [en |-> FALSE, toval |-> "normal"]

-----------------------------------------------------------------------------
Next ==
  \/ begin \/ watchdogBegin
  \/ \E long \in BOOLEAN : Dispatch(long)
  \/ DispatchEnd \/ UploadFirmware \/ UploadFirmwareEnd \/ Return \/ Hang
  \/ \E leaf \in Leaves : Call(leaf)
  \/ \E on, starve \in BOOLEAN : SetTelemetry(on, starve)
  \/ \E id \in Ids : isrEnter(id)
  \/ isrExit
  \/ Expire \/ WarmReset \/ PowerOn

\* The counter counts: a watchdog nobody kicks expires.
Fairness == WF_vars(Expire)

Spec == Init /\ [][Next]_vars /\ Fairness

-----------------------------------------------------------------------------
(***************************************************************************)
(* Properties.                                                             *)
(***************************************************************************)
\* Every variable has its type; the long-operation window is not nested.
TypeOK ==
  /\ hw \in [en : BOOLEAN, toval : Tovals]
  /\ wd \in [armed : BOOLEAN, wanted : BOOLEAN, failed : BOOLEAN, suspend : 0 .. 1,
             starve : BOOLEAN]
  /\ main \in {"down", "boot", "loop", "hung"} /\ masked \in BOOLEAN
  /\ cause \in {"none", "power", "warm", "wdog"} /\ stuck \in 0 .. Len(stack)
  /\ rec.c \in Contexts /\ rec.mem \in Contexts /\ rec.ok \in BOOLEAN
  /\ {crumb.c, crumb.mem} \subseteq {"OP_IDLE", "OP_CMD"} \cup Leaves

\* A watchdog that runs is known to be armed, and so is kicked, although an
\* enable or a disable may take effect in part and its read-back fail, and
\* although the block keeps running across the reset it causes (rtwdogApply).
ArmedCoversHardware == main # "down" /\ hw.en => wd.armed

\* Once setup() has ended, outside of a long operation, the watchdog is on if it
\* is wanted, with the 2 s timeout, and off if not, unless the last programming
\* is reported as failed: no order of windows, switches and failures leaves the
\* 30 s timeout behind (watchdogResume, watchdogSetEnabled).
WindowCloses ==
  main = "loop" /\ wd.suspend = 0 /\ ~wd.failed =>
    /\ hw.en = wd.wanted /\ wd.armed = wd.wanted
    /\ hw.en => hw.toval = "normal"

\* The record in the cache names the innermost wrapped ISR in progress, however
\* they nest (the id that isrEnter returns and isrExit restores).
IsrLastTrue == main # "down" => rec.c.last = Top

\* A capture that begin() would accept is of the reset that has just been, which
\* was the watchdog's, and names the ISR it interrupted (health_rtwdog_isr_c saves
\* isr_last before it overwrites it; begin() clears what it has harvested).
CaptureIsTrue ==
  main = "down" /\ Harvest.isr_valid /\ Harvest.isr.fired =>
    cause = "wdog" /\ Harvest.isr.prev_isr = was.isr

\* A breadcrumb that begin() would accept is of the moment of the reset: an op it
\* names was the innermost in progress, and a blocking call in progress is
\* named (every mark() and clear() reaches memory before the call goes on).
CrumbIsTrue ==
  main = "down" /\ Harvest.valid =>
    /\ Harvest.op # "OP_IDLE" => was.ops # <<>> /\ Harvest.op = Last(was.ops)
    /\ was.ops # <<>> /\ Last(was.ops) \in Leaves => Harvest.op = Last(was.ops)

\* The watchdog resets the board only if something hangs, if it is told to
\* starve or if its programming failed: no boot and no long operation is cut
\* short by it (the provisional timeout, the 30 s window, the kicks).
NoFalseReset == [][Expire => main = "hung" \/ wd.starve \/ wd.failed]_vars

\* A hang ends in a reset, in setup(), in a command, in a long operation or in an
\* interrupt, unless the watchdog was switched off or could not be programmed.
HangEndsInReset == main = "hung" /\ wd.wanted /\ ~wd.failed ~> main = "down"

\* The watchdog is under control: kicked whenever it runs, and as it is wanted,
\* with the short timeout, outside of every long operation.
WatchdogSound == ArmedCoversHardware /\ WindowCloses

\* What survives a reset can be believed: the interrupt record, the capture of
\* the pre-reset interrupt and the breadcrumb are of the moment of the reset.
RecordsTrue == IsrLastTrue /\ CaptureIsTrue /\ CrumbIsTrue
=============================================================================
