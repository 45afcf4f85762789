SPECIFICATION Spec
CONSTANTS
    k1 = k1
    NoKey = NoKey
    Connections <- OneConnection
    Intents <- MixedIntents
    NetworkLimits <- OneLimits
    MaximumTotalQueuedReliableBytes = 2
    MaximumConsecutiveStructuralReplicationMessages = 2
    CounterMax = 3
    Window = 3
INVARIANT AccountsExact
INVARIANT ReliableConserved
INVARIANT StructuralRunBounded
INVARIANT StepBudgetRespected
PROPERTY NewestWins
PROPERTY NothingAfterACut
