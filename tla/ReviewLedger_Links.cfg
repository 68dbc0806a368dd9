SPECIFICATION Spec
CONSTANTS
    Tasks = {t1}
    Contexts = {}
    Findings = {f1}
    Modes = {}
    Levels = {"medium"}
    Sources = {s1, s2}
    NoContext = NoContext
    MaxCycle = 1
    MaxRevision = 2
    MaxModeRev = 1
    MaxTime = 1
    MaxGates = 2
SYMMETRY Symmetry
INVARIANT GateFindingsAgree
\* A closed cycle, a stopped clock and an idle worktree have nothing to do.
CHECK_DEADLOCK FALSE
