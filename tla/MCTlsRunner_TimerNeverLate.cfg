CONSTANTS
    None = None
    MaxTime <- MCMaxTime
    MaxPause <- MCMaxPause
SPECIFICATION Spec
INVARIANT TimerNeverLate
CHECK_DEADLOCK FALSE
