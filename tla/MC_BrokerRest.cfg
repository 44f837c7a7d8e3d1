CONSTANTS
    NoSession = NoSession
    NoParent = "none"
    NoPane = "none"
    Garbage = Garbage
    EventId <- AllEventIds
    EventTypes <- TheEventTypes
    Risks = {"None"}
    SessionId = {"s1", "s2"}
    Pane = {"p1", "p2"}
    Frames <- PanedFrames
    Instants <- RestInstants
    MaxDelay = 2
    LastInput = 2
    EVENT_CHANNEL_CAPACITY = 2
    MaxFrames = 3
    Faults = {}
SPECIFICATION TimelySpec
PROPERTIES PanesComeToRest
CHECK_DEADLOCK FALSE
