SPECIFICATION Spec
CONSTANT MaxFaults = 3
INVARIANTS TypeOK RecoveryIsMarked ManifestIsTrue ClearedWasVerified OneFaultIsRecovered
PROPERTY ForeignDatabaseKept
CHECK_DEADLOCK FALSE
