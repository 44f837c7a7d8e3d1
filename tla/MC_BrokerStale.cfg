CONSTANTS
    NoSession = NoSession
    NoParent = "none"
    NoPane = "none"
    Garbage = Garbage
    EventId <- AllEventIds
    EventTypes <- TheEventTypes
    Risks = {"None"}
    SessionId = {"s1"}
    Pane = {"p1"}
    Frames <- FlappingFrames
    Instants = {0}
    MaxDelay = 0
    LastInput = 0
    EVENT_CHANNEL_CAPACITY = 1
    MaxFrames = 3
    Faults = {}
SPECIFICATION Spec
INVARIANTS OnlyRepeatsAreSuppressed
CHECK_DEADLOCK FALSE
