------------------------------ MODULE FrameClock ------------------------------
(***************************************************************************)
(* What the refresh timer promises the display code: a rate (0 = stopped)  *)
(* and a flag that a running clock raises and that the loop consumes.      *)
(* Stopping the clock leaves no tick behind: the flag is down and stays    *)
(* down until the clock is armed again.  RefreshTimer implements this      *)
(* clock on top of the PIT; ArenaDisplay uses the timer as this clock.     *)
(***************************************************************************)
EXTENDS Naturals

CONSTANT Rates          \* the refresh rates in use, in Hz

VARIABLES rate,         \* the rate the clock runs at, 0 when it is stopped
          tick          \* the refresh flag

clockVars == <<rate, tick>>

ClockInit == rate = 0 /\ tick = FALSE

\* armRefreshTimer(): starting, re-rating and re-arming at the same rate all
\* leave a tick that has already been raised alone.
ArmAt(hz) == rate' = hz /\ UNCHANGED tick

\* disarmRefreshTimer()
Disarm == rate' = 0 /\ tick' = FALSE

\* A handler that disarms and arms again.
Rearm(hz) == rate' = hz /\ tick' = FALSE

\* refreshISR()
Tick == rate # 0 /\ tick' = TRUE /\ UNCHANGED rate

\* transmitOnRefresh() takes the tick.
Consume == tick /\ tick' = FALSE /\ UNCHANGED rate

ClockNext == \/ \E hz \in Rates : ArmAt(hz) \/ Rearm(hz)
             \/ Disarm
             \/ Tick
             \/ Consume

ClockSpec == ClockInit /\ [][ClockNext]_clockVars
=============================================================================
