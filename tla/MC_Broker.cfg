CONSTANTS
    NoSession = NoSession
    NoParent = "none"
    NoPane = "none"
    Garbage = Garbage
    EventId <- AllEventIds
    EventTypes <- TheEventTypes
    Risks = {"None"}
    SessionId = {"s1", "s2"}
    Pane = {"p1", "p2"}
    Frames <- MixedFrames
    Instants <- EarlyInstants
    MaxDelay = 2
    LastInput = 2
    EVENT_CHANNEL_CAPACITY = 2
    MaxFrames = 4
    Faults = {"shutdown", "crash", "render"}
SPECIFICATION FairSpec
INVARIANTS TypeOK PaneIsKnown DispatchEndsCurrent ArrivalOrderIsForgotten NothingReadIsLost
PROPERTIES FramesSettle
CHECK_DEADLOCK FALSE
