SPECIFICATION FairSpec
CONSTANTS
    Event = {e1, e2}
    Observer = {o1, o2}
    MaxConnections = 2
    MaxEvents = 2
INVARIANTS
    OneRequestFeeds
    ObserversAreServed
    SubscribersSeeLatest
PROPERTIES
    FirstEndIsRepeated
CHECK_DEADLOCK FALSE
