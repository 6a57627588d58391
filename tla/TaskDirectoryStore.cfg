CONSTANTS
    Task = {t1, t2}
    Path = {root, logs}
    Root = root
    None = None
SPECIFICATION Spec
INVARIANTS TypeOK ShownIsAskedFor PollingIsWatched
