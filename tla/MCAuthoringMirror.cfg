SPECIFICATION Spec
CHECK_DEADLOCK FALSE
CONSTANTS
    Values = {0, 1}
    InitialValue = 0
    LoadedObjects = 1
    MaxId = 4
    MaxRevision = 3
    MaximumPersistenceObjects = 2
    MaximumTransactionChanges = 2
    MaximumTransactionSemanticBytes = 3
    MaximumPreparedPropertyWrites = 2
    RetainedTransactionLimit = 1
    RetainedByteLimit = 6
    Requests = {"SetProperty", "Create", "Destroy", "Transaction", "History", "SaveProject", "GetSnapshot", "SetPropertyBatch", "LocalEdit"}
PROPERTY CleanMeansSaved
PROPERTY MirrorKeeps
PROPERTY FailureIsAtomic
