CONSTANTS
    SessionId = {s1}
    EventId = {e1}
    NoSession = NoSession
    NoParent = NoParent
    EventTypes = {"AgentCompleted"}
    Risks = {"None"}
    Instants = {0, 8, 38}
    MaxDelay = 38
    LastInput = 38
SPECIFICATION HSpec
INVARIANTS DuplicatesAreNoops
CHECK_DEADLOCK FALSE
