----------------------------- MODULE RefreshTimer -----------------------------
(***************************************************************************)
(* SpiManager's refresh timer, at the grain at which an interrupt can be   *)
(* taken: armRefreshTimer() and disarmRefreshTimer() store by store in the *)
(* main context, the PIT channel that raises its flag, the NVIC that pends *)
(* and masks, and the interrupt handler (Health's trampoline, the core's   *)
(* pit_isr, refreshISR).  The main context runs only while no handler      *)
(* does and none is due.                                                   *)
(*                                                                         *)
(* IntervalTimer, pit_isr, the PIT and the NVIC are external: they are     *)
(* modelled from the store order that disarmRefreshTimer's comment and the *)
(* README's section on the core race rely on.                              *)
(***************************************************************************)
EXTENDS Naturals

CONSTANT Rates          \* the refresh rates the host asks for, in Hz

ASSUME TimerAssumption == Rates \subseteq Nat \ {0}

VARIABLES
  pc,          \* the next store of the main context; "loop" between calls
  hz,          \* frequency_hz of the arm call in progress
  armed_hz,    \* armed_hz_
  refreshFlag,
  was_enabled, \* disarmRefreshTimer's local
  funct,       \* funct_table[] holds refreshISR (FALSE: nullptr)
  LDVAL,       \* the rate the reload value stands for
  TCTRL,       \* the channel is counting
  TFLG,        \* the channel's interrupt flag
  pending,     \* NVIC pending bit of IRQ_PIT
  enabled,     \* NVIC enable bit of IRQ_PIT
  vector,      \* _VectorsRam[IRQ_PIT + 16]
  saved,       \* saved_pit_isr
  isr          \* where the handler is; "none" when it does not run

mainVars == <<pc, hz, armed_hz, was_enabled>>
pitVars  == <<funct, LDVAL, TCTRL>>
vecVars  == <<vector, saved>>
irqVars  == <<TFLG, pending, enabled, isr>>
vars == <<mainVars, refreshFlag, pitVars, vecVars, irqVars>>

ArmSteps    == {"alloc", "start", "attach", "enable", "wrapSave", "wrapAttach", "armed"}
DisarmSteps == {"mask", "null", "stop", "clear", "unmask", "forget"}

TypeOK ==
  /\ pc \in {"loop"} \cup ArmSteps \cup DisarmSteps
  /\ hz \in Rates \cup {0}
  /\ armed_hz \in Rates \cup {0}
  /\ LDVAL \in Rates \cup {0}
  /\ refreshFlag \in BOOLEAN /\ was_enabled \in BOOLEAN
  /\ funct \in BOOLEAN /\ TCTRL \in BOOLEAN
  /\ TFLG \in BOOLEAN /\ pending \in BOOLEAN /\ enabled \in BOOLEAN
  /\ vector \in {"unused", "pit_isr", "tramp"}
  /\ saved \in {"null", "pit_isr", "tramp"}
  /\ isr \in {"none", "tramp", "pit_isr", "refreshISR", "return"}

Init ==
  /\ pc = "loop" /\ hz = 0
  /\ armed_hz = 0 /\ refreshFlag = FALSE /\ was_enabled = FALSE
  /\ funct = FALSE /\ LDVAL = 0 /\ TCTRL = FALSE
  /\ TFLG = FALSE /\ pending = FALSE /\ enabled = FALSE
  /\ vector = "unused" /\ saved = "null"
  /\ isr = "none"

----------------------------------------------------------------------------
(* The main context. *)

\* No handler is running and none is about to preempt.
MainRuns == isr = "none" /\ ~(pending /\ enabled)

At(here, next) == MainRuns /\ pc = here /\ pc' = next

\* transmitOnRefresh(): the loop takes the tick.  A tick that lands between
\* the test and the store is the same tick.
TakeTick ==
  /\ MainRuns /\ pc = "loop" /\ refreshFlag
  /\ refreshFlag' = FALSE
  /\ UNCHANGED <<mainVars, pitVars, vecVars, irqVars>>

\* A rate change on a running timer: IntervalTimer::update() rewrites LDVAL
\* only.  (Neither store is read by a handler; a call at the rate the timer
\* has returns at once and changes nothing, and so does a call with 0.)
UpdateRate(r) ==
  /\ MainRuns /\ pc = "loop" /\ armed_hz \notin {0, r}
  /\ LDVAL' = r /\ armed_hz' = r
  /\ UNCHANGED <<pc, hz, was_enabled, refreshFlag, funct, TCTRL, vecVars, irqVars>>

ArmCall(r) ==
  /\ At("loop", "alloc") /\ armed_hz = 0
  /\ hz' = r
  /\ UNCHANGED <<armed_hz, was_enabled, refreshFlag, pitVars, vecVars, irqVars>>

\* Mutant: a failed begin() leaves the timer "armed at this rate".
BeginFails_Sticky ==
  /\ At("alloc", "loop")
  /\ armed_hz' = hz /\ hz' = 0
  /\ UNCHANGED <<was_enabled, refreshFlag, pitVars, vecVars, irqVars>>

\* begin() finds no free PIT channel.
BeginFails ==
  /\ At("alloc", "loop")
  /\ armed_hz' = 0 /\ hz' = 0
  /\ UNCHANGED <<was_enabled, refreshFlag, pitVars, vecVars, irqVars>>

\* begin(): the callback and the reload value, then TCTRL = 3, then the
\* vector, then the NVIC.
BeginFunct ==
  /\ At("alloc", "start")
  /\ funct' = TRUE /\ LDVAL' = hz
  /\ UNCHANGED <<hz, armed_hz, was_enabled, refreshFlag, TCTRL, vecVars, irqVars>>

BeginStart ==
  /\ At("start", "attach")
  /\ TCTRL' = TRUE
  /\ UNCHANGED <<hz, armed_hz, was_enabled, refreshFlag, funct, LDVAL, vecVars, irqVars>>

BeginAttach ==
  /\ At("attach", "enable")
  /\ vector' = "pit_isr"
  /\ UNCHANGED <<hz, armed_hz, was_enabled, refreshFlag, pitVars, saved, irqVars>>

BeginEnable ==
  /\ At("enable", "wrapSave")
  /\ enabled' = TRUE
  /\ UNCHANGED <<hz, armed_hz, was_enabled, refreshFlag, pitVars, vecVars, TFLG, pending, isr>>

\* Mutant: the trampoline is installed before the handler it calls is saved.
WrapSave_AttachFirst ==
  /\ At("wrapSave", "wrapAttach")
  /\ vector' = "tramp"
  /\ UNCHANGED <<hz, armed_hz, was_enabled, refreshFlag, pitVars, saved, irqVars>>

\* wrapPitVector(): saves what the vector holds unless that is already the
\* trampoline or nothing, then installs the trampoline.
WrapSave ==
  /\ At("wrapSave", IF vector \in {"tramp", "unused"} THEN "armed" ELSE "wrapAttach")
  /\ saved' = IF vector \in {"tramp", "unused"} THEN saved ELSE vector
  /\ UNCHANGED <<hz, armed_hz, was_enabled, refreshFlag, pitVars, vector, irqVars>>

WrapAttach ==
  /\ At("wrapAttach", "armed")
  /\ vector' = "tramp"
  /\ UNCHANGED <<hz, armed_hz, was_enabled, refreshFlag, pitVars, saved, irqVars>>

Armed ==
  /\ At("armed", "loop")
  /\ armed_hz' = hz /\ hz' = 0
  /\ UNCHANGED <<was_enabled, refreshFlag, pitVars, vecVars, irqVars>>

\* disarmRefreshTimer(): with nothing armed it only clears the flag.
DisarmCall ==
  /\ At("loop", IF armed_hz # 0 THEN "mask" ELSE "forget")
  /\ UNCHANGED <<hz, armed_hz, was_enabled, refreshFlag, pitVars, vecVars, irqVars>>

\* Mutant: end() runs with the PIT unmasked, as the core leaves it.
Mask_Omitted ==
  /\ At("mask", "null")
  /\ was_enabled' = enabled
  /\ UNCHANGED <<hz, armed_hz, refreshFlag, pitVars, vecVars, irqVars>>

\* NVIC_DISABLE_IRQ, completed by dsb; isb.
Mask ==
  /\ At("mask", "null")
  /\ was_enabled' = enabled /\ enabled' = FALSE
  /\ UNCHANGED <<hz, armed_hz, refreshFlag, pitVars, vecVars, TFLG, pending, isr>>

\* end(): the callback first, TCTRL and TFLG after it.
EndNull ==
  /\ At("null", "stop")
  /\ funct' = FALSE
  /\ UNCHANGED <<hz, armed_hz, was_enabled, refreshFlag, LDVAL, TCTRL, vecVars, irqVars>>

EndStop ==
  /\ At("stop", "clear")
  /\ TCTRL' = FALSE
  /\ UNCHANGED <<hz, armed_hz, was_enabled, refreshFlag, funct, LDVAL, vecVars, irqVars>>

EndClear ==
  /\ At("clear", "unmask")
  /\ TFLG' = FALSE
  /\ UNCHANGED <<hz, armed_hz, was_enabled, refreshFlag, pitVars, vecVars, pending, enabled, isr>>

Unmask ==
  /\ At("unmask", "forget")
  /\ enabled' = was_enabled
  /\ UNCHANGED <<hz, armed_hz, was_enabled, refreshFlag, pitVars, vecVars, TFLG, pending, isr>>

\* Mutant: the flag of a tick that came before end() is left up.
Forget_KeepsFlag ==
  /\ At("forget", "loop")
  /\ armed_hz' = 0
  /\ UNCHANGED <<hz, was_enabled, refreshFlag, pitVars, vecVars, irqVars>>

\* armed_hz_ = 0; refreshFlag = false
Forget ==
  /\ At("forget", "loop")
  /\ armed_hz' = 0 /\ refreshFlag' = FALSE
  /\ UNCHANGED <<hz, was_enabled, pitVars, vecVars, irqVars>>

----------------------------------------------------------------------------
(* The PIT, the NVIC and the interrupt handler. *)

\* The channel reaches zero; its request pends even while it is masked.
PitExpires ==
  /\ TCTRL /\ ~TFLG
  /\ TFLG' = TRUE /\ pending' = TRUE
  /\ UNCHANGED <<mainVars, refreshFlag, pitVars, vecVars, enabled, isr>>

TakeInterrupt ==
  /\ isr = "none" /\ pending /\ enabled
  /\ pending' = FALSE
  /\ isr' = vector
  /\ UNCHANGED <<mainVars, refreshFlag, pitVars, vecVars, TFLG, enabled>>

\* pitTramp() calls the handler it saved.
pitTramp ==
  /\ isr = "tramp"
  /\ isr' = saved
  /\ UNCHANGED <<mainVars, refreshFlag, pitVars, vecVars, TFLG, pending, enabled>>

\* pit_isr(): the flag is cleared only for a channel that has a callback.
pit_isr ==
  /\ isr = "pit_isr"
  /\ IF funct /\ TFLG THEN TFLG' = FALSE /\ isr' = "refreshISR"
                      ELSE TFLG' = TFLG /\ isr' = "return"
  /\ UNCHANGED <<mainVars, refreshFlag, pitVars, vecVars, pending, enabled>>

refreshISR ==
  /\ isr = "refreshISR"
  /\ refreshFlag' = TRUE
  /\ isr' = "return"
  /\ UNCHANGED <<mainVars, pitVars, vecVars, TFLG, pending, enabled>>

\* The request line is level-sensitive: a flag left up pends again at once.
ReturnFromInterrupt ==
  /\ isr = "return"
  /\ isr' = "none"
  /\ pending' = (pending \/ TFLG)
  /\ UNCHANGED <<mainVars, refreshFlag, pitVars, vecVars, TFLG, enabled>>

ArmStep == \/ BeginFails \/ BeginFunct \/ BeginStart \/ BeginAttach
           \/ BeginEnable \/ WrapSave \/ WrapAttach \/ Armed

DisarmStep == Mask \/ EndNull \/ EndStop \/ EndClear \/ Unmask \/ Forget

HandlerStep == TakeInterrupt \/ pitTramp \/ pit_isr \/ refreshISR \/ ReturnFromInterrupt

Next ==
  \/ TakeTick
  \/ \E r \in Rates : ArmCall(r) \/ UpdateRate(r)
  \/ ArmStep
  \/ DisarmCall
  \/ DisarmStep
  \/ PitExpires
  \/ HandlerStep

Spec == Init /\ [][Next]_vars

\* The channel may expire at any moment.  The liveness properties speak of
\* runs in which, from some time on, it does not expire again while the
\* handler of its last expiry still runs: the period is 15 us or more (3.3 ms
\* at 300 Hz), the handler a few stores.
Paced == ~TFLG /\ TFLG' => isr = "none"

\* The channel counts, a handler runs to its end, and the processor resumes
\* the main context whenever no handler is due.  Resuming is strong
\* fairness, since every tick interrupts the main context for a while.
Fairness ==
  /\ WF_vars(PitExpires)
  /\ WF_vars(HandlerStep)
  /\ SF_vars(ArmStep)
  /\ SF_vars(DisarmStep)

FairSpec == Spec /\ Fairness

----------------------------------------------------------------------------
(* Properties. *)

\* What each store of the main context leaves true, whatever interrupts were
\* taken on the way.
Off     == ~funct /\ ~TCTRL /\ ~TFLG
Running == funct /\ TCTRL
Masked  == pc \in {"null", "stop", "clear", "unmask"}
Live    == pc = "mask" \/ (pc = "loop" /\ armed_hz # 0)

Started == pc \in {"attach", "enable", "wrapSave", "wrapAttach", "armed"}

StageInv ==
  /\ pc \in {"alloc", "unmask", "forget"} \/ (pc = "loop" /\ armed_hz = 0) => Off
  /\ pc = "alloc" \/ (pc = "loop" /\ armed_hz = 0) => ~refreshFlag
  /\ pc = "start" => funct /\ ~TCTRL /\ ~TFLG
  /\ pc = "start" \/ Started => LDVAL = hz
  /\ pc \in ArmSteps => armed_hz = 0 /\ hz # 0
  /\ pc \notin ArmSteps => hz = 0
  /\ Started \/ Live \/ pc = "null" => Running
  /\ Live => armed_hz # 0 /\ LDVAL = armed_hz /\ enabled /\ vector = "tramp"
  /\ Masked => armed_hz # 0 /\ ~enabled /\ isr = "none"
  /\ pc = "stop" => ~funct /\ TCTRL
  /\ pc = "clear" => ~funct /\ ~TCTRL

VectorInv ==
  /\ enabled \/ isr # "none" \/ (Masked /\ was_enabled) => vector # "unused"
  /\ pc \in {"enable", "wrapSave"} => vector = "pit_isr"
  /\ pc \in {"wrapSave", "wrapAttach", "armed"} => enabled
  /\ pc = "wrapAttach" => saved = "pit_isr"
  /\ pc = "armed" => vector = "tramp"
  /\ vector = "tramp" \/ isr = "tramp" => saved = "pit_isr"

HandlerInv ==
  /\ isr = "refreshISR" => TCTRL
  /\ TFLG => TCTRL \/ pc = "clear"

IInv == TypeOK /\ StageInv /\ VectorInv /\ HandlerInv

\* No storm: pit_isr never runs with the channel's flag up and no callback,
\* which would leave the flag up and re-enter for ever.  This is what
\* disarmRefreshTimer's masking of the PIT around end() is for.
NoStorm == isr = "pit_isr" /\ TFLG => funct

\* A disarm is final: with the timer disarmed and the loop running, no tick
\* is raised and no refreshISR is on its way, so a display that has been
\* stopped does not transmit once more when it is armed again.
NoTickAfterDisarm ==
  pc = "loop" /\ armed_hz = 0 => ~refreshFlag /\ isr # "refreshISR"

\* armed_hz_ tells the truth: a nonzero armed_hz_, for which arm calls at
\* that rate return at once, means a channel counting at that rate with its
\* callback, an unmasked interrupt and the breadcrumb trampoline in place.
ArmedMeansRunning ==
  pc = "loop" /\ armed_hz # 0 =>
    funct /\ TCTRL /\ LDVAL = armed_hz /\ enabled /\ vector = "tramp"

\* wrapPitVector() leaves no moment at which the trampoline has nothing to
\* call, or would call itself.
TrampolineCallsPit == isr = "tramp" => saved = "pit_isr"

\* Every arm and every disarm returns to the loop, if ticks are paced: no interrupt storm
\* starves the main context (the wedge the masking was written against).
CallsReturn == <>[][Paced]_vars => (pc # "loop" ~> pc = "loop")

\* A running timer keeps raising the flag that transmitOnRefresh() waits
\* for.
TicksArrive ==
  <>[][Paced]_vars
    => (armed_hz # 0 /\ pc = "loop" ~> refreshFlag \/ pc # "loop")

\* What armRefreshTimer() and the trampoline take for granted between any two
\* stores and interrupts: armed_hz_ is the rate of the running channel, and the
\* saved vector is the library's.
TimerSound == TypeOK /\ ArmedMeansRunning /\ TrampolineCallsPit

\* Calls return and ticks arrive: no storm starves the loop, no failed begin()
\* passes for a running timer.
TimerLive == CallsReturn /\ TicksArrive

\* From the channel's TCTRL = 3 on, the clock runs; it stops when disarm
\* forgets the rate.
Clock == INSTANCE FrameClock WITH rate <- IF Started THEN hz ELSE armed_hz,
                                  tick <- refreshFlag

\* With every interrupt taken where it may be, the timer is the clock the
\* display code is written against (FrameClock).
ImplementsClock == Clock!ClockSpec
=============================================================================
