SPECIFICATION LiveSpec
CONSTANTS
    UnitCount = 3
    Dependencies <- TriangleDependencies
    Bootstrap = {1, 3}
    CompressedBytes <- LargeFirst
    ObjectCount <- One
    DecodedBytes <- One
    WorkerCount = 1
    MaximumInFlight = 1
    MaximumPendingRequests = 1
    MaximumCompletedPayloadBytes = 2
    MaximumCachedPayloadBytes = 4
    MaximumDecodedDocumentBytes = 1
    MaximumCompletionsPerTick = 1
    MaximumAdmissionUnitsPerTick = 1
    MaximumAdmissionObjectsPerTick = 1
    MaximumAdmissionBytesPerTick = 2
    MaximumEvictionUnitsPerTick = 1
    MaximumEvictionObjectsPerTick = 1
    MaxDemand = 1
    MaxPins = 0
INVARIANTS
    DemandConserved
PROPERTIES
    ResidencySpec
    DemandSettles
