CONSTANTS
    Service = {s1}
    Deployment <- MCDeployment
    Version = {v1, v2}
    Listener = {l1, l2}
    None = None
    DebounceTime = 1
    mesosAPI = TRUE
    marathonAPI = TRUE
    Snapshot = {f1, f2}
    historyLength = 2
SYMMETRY Symmetry
SPECIFICATION Spec
INVARIANTS TypeOK CachedServicesAreCurrent AnnouncedWhenQuiet ListenersAreFed DeploymentsMatchTree
PROPERTIES FetchedVersionsKept TreeShowsLatestSummary
