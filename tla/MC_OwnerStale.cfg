\* Two clients, one table; a batch creates the table and then grants on
\* it, before any commit.
CONSTANTS
    c1 = c1
    c2 = c2
    t1 = t1
    t2 = t2
    a1 = a1
    a2 = a2
    Clients = {c1, c2}
    TableIDs = {t1}
    Addrs = {a1, a2}
    Stmts <- MCStmts
    MaxStmts = 1
    maxTableRowCount = 2
    RowBound = 4
    CloseCalls = 1
    ProcessorMayClose = FALSE
    NoTable = NoTable
SPECIFICATION Spec
INVARIANT
    GrantOwnerInView
