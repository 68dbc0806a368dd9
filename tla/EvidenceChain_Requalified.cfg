SPECIFICATION Spec
CONSTANTS
    Acceptances = {a1}
    Targets = {t1}
    Digests = {d1, d2}
    Gateable = {d1, d2}
    Sources = {s1}
    NoSource = NoSource
    MaxRequirementRev = 1
    MaxAcceptanceRev = 1
    MaxRevision = 2
    MaxQuals = 2
INVARIANT StaleQualificationDoesNotBlockDelivery
CHECK_DEADLOCK FALSE
