SPECIFICATION Spec
CONSTANTS
    Acceptances = {a1, a2}
    Targets = {t1}
    Digests = {d1, d2}
    Gateable = {d1}
    Sources = {s1, s2}
    NoSource = NoSource
    MaxRequirementRev = 1
    MaxAcceptanceRev = 1
    MaxRevision = 2
    MaxQuals = 2
SYMMETRY Symmetry
INVARIANT DeliveredEvidenceIsFresh
PROPERTIES DeliveryMissesOnlyLateChanges ClosedCycleIsFrozen
\* A closed cycle stays closed and the source may stop changing.
CHECK_DEADLOCK FALSE
