CONSTANTS
    Listeners = {l1, l2}
    historyLength = 2
    MaxRequests = 3
    MaxReads = 2
SPECIFICATION SummarySpec
INVARIANTS SummaryTypeOK UnreadHistoryIsRecent SuccessesKeepTheirOrder
CHECK_DEADLOCK FALSE
