SPECIFICATION Spec
CONSTANTS
    Acceptances = {a1}
    Targets = {t1}
    Digests = {d1}
    Gateable = {d1}
    Sources = {s1}
    NoSource = NoSource
    MaxRequirementRev = 2
    MaxAcceptanceRev = 1
    MaxRevision = 3
    MaxQuals = 1
INVARIANT FreshEvidenceClearsInvalidations
CHECK_DEADLOCK FALSE
