SPECIFICATION Spec
CONSTANTS
    Timers = {t1, t2}
    Repeats <- MCRepeats
    MaxNested = 1
INVARIANTS CalledInTurn TimerOutlivesUse
PROPERTIES StoppedIsSilent StoppedIsFreed CalledAgain
