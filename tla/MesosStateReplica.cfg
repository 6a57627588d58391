CONSTANTS
    Agents = {a1}
    Frameworks = {f1, f2, f3}
    Tasks = {t1, t2}
    Marathons = {f1, f2}
    MaxRows = 2
    MaxMissed = 1
SPECIFICATION ReplicaSpec
INVARIANTS ClusterIsMirrored MarathonTasksFlagged
CHECK_DEADLOCK FALSE
