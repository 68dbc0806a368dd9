SPECIFICATION Spec
CONSTANTS
    Tasks = {t1}
    Contexts = {x1, x2}
    Findings = {}
    Modes = {m1}
    Levels = {"high"}
    Sources = {s1}
    NoContext = NoContext
    MaxCycle = 1
    MaxRevision = 3
    MaxModeRev = 2
    MaxTime = 0
    MaxGates = 2
SYMMETRY Symmetry
INVARIANTS TypeOK LastReviewDecides DeliveredRisksWereReviewed
\* A closed cycle, a stopped clock and an idle worktree have nothing to do.
CHECK_DEADLOCK FALSE
