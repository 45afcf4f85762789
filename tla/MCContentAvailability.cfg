SPECIFICATION Spec
CONSTANTS
    UnitCount = 2
    Dependencies <- PairDependencies
    Bootstrap = {}
    CompressedBytes <- One
    ObjectCount <- One
    DecodedBytes <- One
    WorkerCount = 2
    MaximumInFlight = 2
    MaximumPendingRequests = 1
    MaximumCompletedPayloadBytes = 2
    MaximumCachedPayloadBytes = 1
    MaximumDecodedDocumentBytes = 1
    MaximumCompletionsPerTick = 1
    MaximumAdmissionUnitsPerTick = 1
    MaximumAdmissionObjectsPerTick = 1
    MaximumAdmissionBytesPerTick = 1
    MaximumEvictionUnitsPerTick = 1
    MaximumEvictionObjectsPerTick = 1
    MaxDemand = 1
    MaxPins = 1
INVARIANTS
    RecordCoherence
    InFlightExact
    BytesExact
