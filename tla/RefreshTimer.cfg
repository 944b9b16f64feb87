SPECIFICATION FairSpec
CONSTANT Rates = {200, 300}
INVARIANTS TimerSound NoStorm NoTickAfterDisarm
PROPERTIES ImplementsClock TimerLive
