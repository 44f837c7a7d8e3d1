CONSTANTS
    Connection = {"c1", "c2", "c3"}
    max_connections = 2
    EVENT_CHANNEL_CAPACITY = 1
    MaxWrites <- OneWritesTwice
    Part = Part
    Oversized = Oversized
SPECIFICATION Spec
PROPERTIES DrainDelivers
CHECK_DEADLOCK FALSE
