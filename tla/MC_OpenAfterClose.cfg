\* The processor is closed while clients keep calling OpenBatch.
CONSTANTS
    c1 = c1
    c2 = c2
    t1 = t1
    t2 = t2
    a1 = a1
    a2 = a2
    Clients = {c1, c2}
    TableIDs = {t1}
    Addrs = {a1, a2}
    Stmts <- MCStmts
    MaxStmts = 1
    maxTableRowCount = 2
    RowBound = 4
    CloseCalls = 1
    ProcessorMayClose = TRUE
    NoTable = NoTable
SPECIFICATION Spec
PROPERTY OpenBatchProgress
\* After the processor closes, every writer ends blocked in OpenBatch: that
\* stop is what this run is about, not a deadlock to report.
CHECK_DEADLOCK FALSE
