CONSTANTS
    e1 = e1
    l1 = l1
    l2 = l2
    Exports = {e1}
    Logs = {l1, l2}
    MaxRetry = 3
    Requested <- AllLogs
SPECIFICATION FairSpec
CHECK_DEADLOCK FALSE
INVARIANTS TypeOK CountIsTrue ForgottenIsCompleted
PROPERTIES ExportEnds
