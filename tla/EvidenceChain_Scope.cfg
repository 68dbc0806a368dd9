SPECIFICATION Spec
CONSTANTS
    Acceptances = {a1}
    Targets = {t1}
    Digests = {d1}
    Gateable = {d1}
    Sources = {s1}
    NoSource = NoSource
    MaxRequirementRev = 2
    MaxAcceptanceRev = 2
    MaxRevision = 3
    MaxQuals = 2
INVARIANTS TypeOK DeliveredEvidenceIsFresh
PROPERTY ImplementsDeliveryCycle
\* A closed cycle stays closed and the source may stop changing.
CHECK_DEADLOCK FALSE
