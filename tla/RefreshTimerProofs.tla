-------------------------- MODULE RefreshTimerProofs --------------------------
(***************************************************************************)
(* The refresh timer's safety for every set of rates: IInv (what each      *)
(* store of armRefreshTimer and disarmRefreshTimer leaves true, wherever   *)
(* interrupts are taken) is inductive, and the storm, stale-tick and       *)
(* trampoline properties and the refinement of FrameClock follow from it.  *)
(***************************************************************************)
EXTENDS RefreshTimer, TLAPS

LEMMA InitIInv == Init => IInv
BY TimerAssumption DEF Init, IInv, TypeOK, StageInv, VectorInv, HandlerInv,
   Off, Running, Masked, Live, Started, ArmSteps, DisarmSteps

\* Every step of the main context, of the PIT and of the handler keeps IInv.
LEMMA NextIInv == IInv /\ [Next]_vars => IInv'
<1>. SUFFICES ASSUME IInv, [Next]_vars PROVE IInv'
  OBVIOUS
<1>. USE TimerAssumption DEF IInv, TypeOK, StageInv, VectorInv, HandlerInv,
     Off, Running, Masked, Live, Started, ArmSteps, DisarmSteps,
     mainVars, pitVars, vecVars, irqVars, At, MainRuns
<1>1. CASE TakeTick
  BY <1>1 DEF TakeTick
<1>2. ASSUME NEW r \in Rates, ArmCall(r) PROVE IInv'
  BY <1>2 DEF ArmCall
<1>3. ASSUME NEW r \in Rates, UpdateRate(r) PROVE IInv'
  BY <1>3 DEF UpdateRate
<1>4. CASE BeginFails
  BY <1>4 DEF BeginFails
<1>5. CASE BeginFunct
  BY <1>5 DEF BeginFunct
<1>6. CASE BeginStart
  BY <1>6 DEF BeginStart
<1>7. CASE BeginAttach
  BY <1>7 DEF BeginAttach
<1>8. CASE BeginEnable
  BY <1>8 DEF BeginEnable
<1>9. CASE WrapSave
  BY <1>9 DEF WrapSave
<1>10. CASE WrapAttach
  BY <1>10 DEF WrapAttach
<1>11. CASE Armed
  BY <1>11 DEF Armed
<1>12. CASE DisarmCall
  BY <1>12 DEF DisarmCall
<1>13. CASE Mask
  BY <1>13 DEF Mask
<1>14. CASE EndNull
  BY <1>14 DEF EndNull
<1>15. CASE EndStop
  BY <1>15, ZenonT(60) DEF EndStop
<1>16. CASE EndClear
  BY <1>16 DEF EndClear
<1>17. CASE Unmask
  BY <1>17 DEF Unmask
<1>18. CASE Forget
  BY <1>18 DEF Forget
<1>19. CASE PitExpires
  BY <1>19 DEF PitExpires
<1>20. CASE TakeInterrupt
  <2>1. enabled /\ ~Masked /\ vector \in {"pit_isr", "tramp"} /\ isr' = vector
    BY <1>20 DEF TakeInterrupt
  <2>2. TypeOK' /\ VectorInv' /\ HandlerInv'
    BY <1>20, <2>1, ZenonT(60) DEF TakeInterrupt
  <2>3. StageInv'
    BY <1>20, <2>1 DEF TakeInterrupt
  <2>. QED
    BY <2>2, <2>3
<1>21. CASE pitTramp
  BY <1>21 DEF pitTramp
<1>22. CASE pit_isr
  <2>1. CASE funct /\ TFLG
    <3>1. TFLG' = FALSE /\ isr' = "refreshISR"
      BY <1>22, <2>1 DEF pit_isr
    <3>. QED
      BY <1>22, <2>1, <3>1, ZenonT(60) DEF pit_isr
  <2>2. CASE ~(funct /\ TFLG)
    <3>1. TFLG' = TFLG /\ isr' = "return"
      BY <1>22, <2>2 DEF pit_isr
    <3>. QED
      BY <1>22, <3>1 DEF pit_isr
  <2>. QED
    BY <2>1, <2>2
<1>23. CASE refreshISR
  BY <1>23 DEF refreshISR
<1>24. CASE ReturnFromInterrupt
  BY <1>24 DEF ReturnFromInterrupt
<1>25. CASE UNCHANGED vars
  BY <1>25 DEF vars
<1>. QED
  BY <1>1, <1>2, <1>3, <1>4, <1>5, <1>6, <1>7, <1>8, <1>9, <1>10, <1>11, <1>12, <1>13, <1>14, <1>15, <1>16, <1>17, <1>18, <1>19, <1>20, <1>21, <1>22, <1>23, <1>24, <1>25
     DEF Next, ArmStep, DisarmStep, HandlerStep

LEMMA Invariance == Spec => []IInv
BY InitIInv, NextIInv, PTL DEF Spec

\* Every variable keeps its type; in particular the handler never jumps
\* through an unset vector or an unset saved_pit_isr.
THEOREM TypeCorrect == Spec => []TypeOK
<1>1. IInv => TypeOK
  BY DEF IInv
<1>. QED
  BY <1>1, Invariance, PTL

\* disarmRefreshTimer masks the PIT around end(): the handler never sees a
\* raised flag without a callback to clear it for.
THEOREM StormFree == Spec => []NoStorm
<1>1. IInv => NoStorm
  BY DEF IInv, StageInv, HandlerInv, TypeOK, NoStorm, Off, Running, Masked, Live,
     Started, ArmSteps, DisarmSteps
<1>. QED
  BY <1>1, Invariance, PTL

\* After disarmRefreshTimer has returned no tick is left and none is coming.
THEOREM DisarmIsFinal == Spec => []NoTickAfterDisarm
<1>1. IInv => NoTickAfterDisarm
  BY DEF IInv, StageInv, HandlerInv, NoTickAfterDisarm, Off
<1>. QED
  BY <1>1, Invariance, PTL

\* armRefreshTimer's early return on an equal rate is sound.
THEOREM ArmedTellsTruth == Spec => []ArmedMeansRunning
<1>1. IInv => ArmedMeansRunning
  BY DEF IInv, StageInv, ArmedMeansRunning, Live, Running
<1>. QED
  BY <1>1, Invariance, PTL

\* wrapPitVector never installs a trampoline with nothing to call.
THEOREM TrampolineSafe == Spec => []TrampolineCallsPit
<1>1. IInv => TrampolineCallsPit
  BY DEF IInv, VectorInv, TrampolineCallsPit
<1>. QED
  BY <1>1, Invariance, PTL

\* Whatever interrupts fall between the stores of arm and disarm, what the next arm
\* and the trampoline rely on is true.
THEOREM TimerIsSound == Spec => []TimerSound
<1>1. TypeOK /\ ArmedMeansRunning /\ TrampolineCallsPit => TimerSound
  BY DEF TimerSound
<1>. QED
  BY <1>1, TypeCorrect, ArmedTellsTruth, TrampolineSafe, PTL

\* The store-by-store timer with its interrupts implements FrameClock.
THEOREM TimerIsClock == Spec => ImplementsClock
<1>1. Init => Clock!ClockInit
  BY DEF Init, Clock!ClockInit, Started
<1>2. IInv /\ [Next]_vars => [Clock!ClockNext]_(Clock!clockVars)
  <2>. SUFFICES ASSUME IInv, [Next]_vars
                PROVE  [Clock!ClockNext]_(Clock!clockVars)
    OBVIOUS
  <2>. DEFINE Rate == IF Started THEN hz ELSE armed_hz
  <2>. USE DEF mainVars, pitVars, vecVars, irqVars, At, MainRuns, Started
  <2>1. CASE TakeTick
    BY <2>1 DEF TakeTick, Clock!ClockNext, Clock!Consume
  <2>2. ASSUME NEW r \in Rates, ArmCall(r) PROVE UNCHANGED <<Rate, refreshFlag>>
    BY <2>2 DEF ArmCall
  <2>3. ASSUME NEW r \in Rates, UpdateRate(r) PROVE Clock!ArmAt(r)
    BY <2>3 DEF UpdateRate, Clock!ArmAt
  <2>4. CASE BeginStart
    <3>1. hz \in Rates /\ Rate' = hz /\ refreshFlag' = refreshFlag
      BY <2>4 DEF BeginStart, IInv, StageInv, TypeOK, ArmSteps
    <3>2. Clock!ArmAt(hz)
      BY <3>1 DEF Clock!ArmAt
    <3>. QED
      BY <3>1, <3>2 DEF Clock!ClockNext
  <2>5. CASE Forget
    BY <2>5 DEF Forget, Clock!ClockNext, Clock!Disarm
  <2>6. CASE refreshISR
    <3>1. Rate # 0
      BY <2>6 DEF refreshISR, IInv, StageInv, HandlerInv, TypeOK, Off, Live, Masked,
         ArmSteps, DisarmSteps
    <3>2. refreshFlag' = TRUE /\ Rate' = Rate
      BY <2>6 DEF refreshISR
    <3>. QED
      BY <3>1, <3>2 DEF Clock!ClockNext, Clock!Tick
  <2>7. CASE \/ BeginFails \/ BeginFunct \/ BeginAttach \/ BeginEnable
             \/ WrapSave \/ WrapAttach \/ Armed
    <3>1. UNCHANGED <<Rate, refreshFlag>>
      BY <2>7 DEF BeginFails, BeginFunct, BeginAttach, BeginEnable, WrapSave, WrapAttach,
         Armed, IInv, StageInv, ArmSteps
    <3>. QED
      BY <3>1 DEF Clock!clockVars
  <2>8. CASE DisarmCall \/ Mask \/ EndNull \/ EndStop \/ EndClear \/ Unmask
    <3>1. UNCHANGED <<Rate, refreshFlag>>
      BY <2>8 DEF DisarmCall, Mask, EndNull, EndStop, EndClear, Unmask
    <3>. QED
      BY <3>1 DEF Clock!clockVars
  <2>9. CASE PitExpires \/ TakeInterrupt \/ pitTramp \/ pit_isr \/ ReturnFromInterrupt
    <3>1. UNCHANGED <<Rate, refreshFlag>>
      BY <2>9 DEF PitExpires, TakeInterrupt, pitTramp, pit_isr, ReturnFromInterrupt
    <3>. QED
      BY <3>1 DEF Clock!clockVars
  <2>10. CASE UNCHANGED vars
    BY <2>10 DEF vars, Clock!clockVars
  <2>. QED
    BY <2>1, <2>2, <2>3, <2>4, <2>5, <2>6, <2>7, <2>8, <2>9, <2>10
       DEF Next, ArmStep, DisarmStep, HandlerStep, Clock!ClockNext, Clock!clockVars
<1>. QED
  BY <1>1, <1>2, Invariance, PTL DEF Spec, ImplementsClock, Clock!ClockSpec
=============================================================================
