SPECIFICATION Spec
CHECK_DEADLOCK FALSE
CONSTANTS
    Values = {0, 1}
    InitialValue = 0
    LoadedObjects = 1
    MaxId = 6
    MaxRevision = 6
    MaximumPersistenceObjects = 3
    MaximumTransactionChanges = 2
    MaximumTransactionSemanticBytes = 5
    MaximumPreparedPropertyWrites = 2
    RetainedTransactionLimit = 2
    RetainedByteLimit = 6
    Requests = {"SetProperty", "Reparent", "Create", "Destroy", "Duplicate", "History"}
INVARIANT HistoryRestores
INVARIANT RetentionExact
INVARIANT AliasesNeverResurrect
