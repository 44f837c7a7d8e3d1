CONSTANTS
    SessionId = {s1, s2}
    EventId = {e1, e2}
    NoSession = NoSession
    NoParent = NoParent
    EventTypes <- FewEventTypes
    Risks = {"High"}
    Instants <- FewInstants
    MaxDelay = 8
    LastInput = 38
SPECIFICATION LiveSpec
INVARIANTS TypeOK SessionConsistent ParentMapClosed
PROPERTIES ParentOutlivesChildren NoUnforcedDowngrade ReplayIsNoop LifecycleSpec EventuallyAtRest
