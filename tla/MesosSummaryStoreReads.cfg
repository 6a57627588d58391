CONSTANTS
    Listeners = {l1, l2}
    historyLength = 2
    MaxRequests = 3
    MaxReads = 2
SPECIFICATION SummarySpec
PROPERTY ServesLastSuccessful
CHECK_DEADLOCK FALSE
