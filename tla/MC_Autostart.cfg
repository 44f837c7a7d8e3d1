CONSTANTS
    Daemon = {d1, d2, d3}
    None = None
    Serialized = TRUE
    MaxCommands = 2
SPECIFICATION AFairSpec
INVARIANTS ATypeOK OwnerIsNamed ServingIsReachable
PROPERTIES RefusedOnlyByLive StartsSettle KeptUp
CHECK_DEADLOCK FALSE
