CONSTANTS
    PAGE_SIZE = 1
    maxFileSize = 3
    Newline = {2}
    plain = plain
    accented = accented
    Path = {plain, accented}
    Wide <- MCWide
    None = None
    MAX_FILE_SIZE = 2
    FirstSizes = {0, 3}
    MaxSize = 4
    MaxOpened = 2
    MaxRanges = 2
    MaxItems = 3
SPECIFICATION Spec
INVARIANTS TypeOK ShownFileIsUnbroken TailGoesOn
CHECK_DEADLOCK FALSE
