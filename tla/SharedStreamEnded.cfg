SPECIFICATION FairSpec
CONSTANTS
    Event = {e1}
    Observer = {o1}
    MaxConnections = 1
    MaxEvents = 2
PROPERTY
    EndedStreamReconnects
CHECK_DEADLOCK FALSE
