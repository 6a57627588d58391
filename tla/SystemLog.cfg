CONSTANTS
    Streams = {out, err}
    FirstStream = out
    None = none
    PageSize = 1
    MaxEntries = 3
    MaxGarbled = 1
    MaxTails = 2
    MaxMounts = 2
SPECIFICATION Spec
INVARIANTS TypeOK ShownLogIsUnbroken NothingLostInThrottle OneTailOpen
CHECK_DEADLOCK FALSE
