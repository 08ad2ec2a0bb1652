\* A client calls Close twice on one batch handle (the spec says a double
\* Close is safe): does the one-token discipline survive?
CONSTANTS
    c1 = c1
    c2 = c2
    t1 = t1
    t2 = t2
    a1 = a1
    a2 = a2
    Clients = {c1, c2}
    TableIDs = {t1}
    Addrs = {a1, a2}
    Stmts <- MCStmts
    MaxStmts = 1
    maxTableRowCount = 2
    RowBound = 4
    CloseCalls = 2
    ProcessorMayClose = FALSE
    NoTable = NoTable
SPECIFICATION Spec
INVARIANT BatchMutex
\* A second token send on the full one-slot channel blocks its goroutine
\* forever, so a double Close can also leave every client stuck; this run
\* asks only about BatchMutex.
CHECK_DEADLOCK FALSE
