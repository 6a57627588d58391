CONSTANTS
    Hosts = {h1, h2}
    Health = {ok, bad}
    Missing = missing
    Null = null
    MaxUpdates = 4
    MaxPages = 2
SPECIFICATION Spec
INVARIANTS TypeOK EnabledShowsLatest NodesListIsCurrent
CHECK_DEADLOCK FALSE
