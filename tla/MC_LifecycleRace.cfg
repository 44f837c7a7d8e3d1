CONSTANTS
    Daemon = {d1, d2}
    None = None
    Serialized = FALSE
SPECIFICATION Spec
INVARIANTS AtMostOneOwner
CHECK_DEADLOCK FALSE
