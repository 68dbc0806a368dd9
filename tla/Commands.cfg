SPECIFICATION Spec
CONSTANTS
    Foreign = {f1, f2}
    Unsafe = {f2}
    MaxMoves = 2
    MaxFaults = 2
    Exposed = {"tasks"}
    MaxCommands = 2
    MaxEdits = 1
    MaxUpsets = 1
    P = P
    Q = Q
    PlanIds = {P, Q}
    Digests = {d1, d2}
    LastCycle = 2
    Stem <- SharedStem
    MaxPlanCalls = 2
    MaxPlanActs = 2
    Packages = {p1, p2}
    GoTests = {t1}
    Tests = {t1, t2}
    Missing = Missing
    MaxEvents = 5
    MaxCount = 2
    Endpoints = {"e1", "e2"}
    MaxTrials = 1
    MaxMeddling = 2
    MaxStoreCalls = 2
    MaxIntrusions = 2
    Neighbours = {n1}
    MaxPluginActs = 3
INVARIANTS
    CommandsTypeOK OnlyOwnDestroyed PublicationIsAtomic CallIsAllOrNothing
    SuccessLeavesViewsCurrent PlansAreWhole AnswersAreTrue PassIsEarned
    RecordIsTrue StoreIsSafe InstallationIsSound
PROPERTY RepairIsTrue
\* A command ends.
CHECK_DEADLOCK FALSE
