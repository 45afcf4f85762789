SPECIFICATION FairSpec
CONSTANTS
    c1 = c1
    c2 = c2
    Clients = {c1}
    Functions_ = {f}
    Events = {}
    Sequenced = {}
    Objects = {}
    Visible <- EverythingVisible
    Transient = {f}
    Callers = {"client"}
    MaximumMessages = 1
    MaximumMessagesPerTick = 2
    MaximumInFlightRemoteRequests = 1
    MaxRequests = 2
    MaxSequence = 0
    MaxEvents = 0
    MaxGenerations = 2
    MaxPublications = 1
    MaxFrames = 1
    MaxFaults = 1
INVARIANTS AccountsExact AnswersMatch
PROPERTIES CompletedOnce RequestsEnd HandlerSlotsFreed
CHECK_DEADLOCK FALSE
