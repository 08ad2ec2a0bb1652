\* The processor is closed (or its close cancelled) while clients run batches;
\* the processor is also checked against the abstract BatchSlot spec.
CONSTANTS
    c1 = c1
    c2 = c2
    t1 = t1
    t2 = t2
    a1 = a1
    a2 = a2
    Clients = {c1, c2}
    TableIDs = {t1}
    Addrs = {a1, a2}
    Stmts <- MCStmts
    MaxStmts = 1
    maxTableRowCount = 2
    RowBound = 4
    CloseCalls = 1
    ProcessorMayClose = TRUE
    NoTable = NoTable
SPECIFICATION Spec
INVARIANTS
    NoBatchAfterClose
PROPERTIES
    ProcessorCloseCompletes
    ImplementsBatchSlot
\* After Close the program shuts down and writers left in OpenBatch never
\* run again: the system stops there.
CHECK_DEADLOCK FALSE
