SPECIFICATION Spec
CONSTANTS
    c1 = c1
    c2 = c2
    Clients = {c1, c2}
    Functions_ = {}
    Events = {v}
    Sequenced = {s}
    Objects = {o}
    Visible <- SplitVisible
    Transient = {s}
    Callers = {"client", "server"}
    MaximumMessages = 2
    MaximumMessagesPerTick = 2
    MaximumInFlightRemoteRequests = 1
    MaxRequests = 0
    MaxSequence = 2
    MaxEvents = 1
    MaxGenerations = 1
    MaxPublications = 2
    MaxFrames = 1
    MaxFaults = 0
CONSTRAINT OneWay
PROPERTIES SequencedFresh
CHECK_DEADLOCK FALSE
