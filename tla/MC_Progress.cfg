\* Liveness of OpenBatch while the processor stays open: a client blocked
\* on the token eventually gets a batch or an error.
CONSTANTS
    c1 = c1
    c2 = c2
    t1 = t1
    t2 = t2
    a1 = a1
    a2 = a2
    Clients = {c1, c2}
    TableIDs = {t1}
    Addrs = {a1, a2}
    Stmts <- MCStmts
    MaxStmts = 1
    maxTableRowCount = 2
    RowBound = 4
    CloseCalls = 1
    ProcessorMayClose = FALSE
    NoTable = NoTable
SPECIFICATION Spec
PROPERTY OpenBatchProgress
\* Freedom from deadlock is checked by MC_TxnProcessor.cfg; here a state in
\* which every goroutine is blocked counts as a waiting client never served.
CHECK_DEADLOCK FALSE
