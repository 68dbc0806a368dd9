SPECIFICATION Spec
CONSTANTS
    Tasks = {t1, t2}
    Acceptances = {a1}
    MaxCycle = 2
SYMMETRY Symmetry
INVARIANT OldTasksDoNotHoldBackQa
\* The last cycle is closed and no other may be started.
CHECK_DEADLOCK FALSE
