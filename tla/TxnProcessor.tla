---------------------------- MODULE TxnProcessor ----------------------------
(***************************************************************************)
(* The transaction processor of pkg/txn/impl/processor.go.                 *)
(*                                                                         *)
(* A TblTxnProcessor owns a one-slot channel chBatch holding one token.    *)
(* Client goroutines (the chain event processors) call OpenBatch, which    *)
(* blocks on the token and then begins a SERIALIZABLE store transaction;  *)
(* inside the batch they call InsertTable and ExecWriteQueries, each of    *)
(* which runs under a savepoint (pgx Tx.BeginFunc), then Commit, and      *)
(* finally Close, which rolls back and sends the token back.  The         *)
(* processor's own Close takes the token and keeps it.                     *)
(*                                                                         *)
(* The store is abstracted to what the processor reads and writes: the    *)
(* registry (table id -> controller), the set of user relations _<id>,    *)
(* their row counts, and system_acl (table id x address -> privileges).   *)
(* SQL text, names, structure hashes and descriptions are left out.       *)
(***************************************************************************)
EXTENDS Naturals, Sequences, SequencesExt, ACL

CONSTANTS
    Clients,            \* goroutines that drive batches on this processor
    TableIDs,           \* table ids minted on chain
    Addrs,              \* EVM addresses (controllers and callers)
    Stmts,              \* validated statements a client may submit
    MaxStmts,           \* statements in one ExecWriteQueries call
    maxTableRowCount,   \* TblTxnProcessor.maxTableRowCount (0: no cap)
    RowBound,           \* model bound on the rows of a table
    CloseCalls,         \* Close calls a client makes on one batch handle
    ProcessorMayClose,  \* whether the processor's Close is called
    NoTable             \* registry entry of an id never registered

(* The statements the validator hands to ExecWriteQueries: writes carry   *)
(* the rows the statement affects, grants the roles and privileges.       *)
(* hintOk is FALSE for a statement whose name-prefix hint differs from    *)
(* the registry name.                                                      *)
StmtType ==
    [kind: {"write", "grant"}, op: Operations, rows: Nat,
     roles: SUBSET Addrs, privs: SUBSET Privileges, hintOk: BOOLEAN]

ASSUME ConstantsAssumption ==
    /\ Clients # {}
    /\ NoTable \notin Addrs
    /\ Stmts \subseteq StmtType
    /\ MaxStmts \in Nat
    /\ maxTableRowCount \in Nat
    /\ RowBound \in Nat
    /\ CloseCalls \in Nat \ {0}
    /\ ProcessorMayClose \in BOOLEAN

VARIABLES
    chBatch,   \* tokens in tp.chBatch (a channel of capacity 1)
    proc,      \* progress of the processor's Close call
    pc,        \* where each client goroutine is
    bst,       \* the store transaction of the client's batch
    closes,    \* Close calls made on the client's current batch handle
    view,      \* the store as the client's transaction sees it
    stale,     \* another transaction committed since the client's BeginTx
    db,        \* the committed store
    refused    \* <<controller, t>> of the client's last ExecWriteQueries
               \* when it failed as a grant by a non owner (history)

vars == <<chBatch, proc, pc, bst, closes, view, stale, db, refused>>

-----------------------------------------------------------------------------
(* The store.                                                              *)

DB == [registry: [TableIDs -> Addrs \cup {NoTable}],
       tables: SUBSET TableIDs,
       rows: [TableIDs -> 0..RowBound],
       systemAcl: [TableIDs -> [Addrs -> SUBSET Privileges]]]

EmptyDB == [registry |-> [t \in TableIDs |-> NoTable],
            tables |-> {},
            rows |-> [t \in TableIDs |-> 0],
            systemAcl |-> [t \in TableIDs |-> [a \in Addrs |-> {}]]]

NoErr == "ok"

Ok(v) == [v |-> v, err |-> NoErr]
Fail(v, e) == [v |-> v, err |-> e]

(* A transaction in which statements may still run.                       *)
Active(c) == bst[c] \in {"open", "aborted"}

-----------------------------------------------------------------------------
(* InsertTable: the three statements run under one savepoint.             *)

(* Mutant: the owner's system_acl row holds the privileges' SQL names      *)
(* (Privilege.ToSQLString) instead of the abbreviations "a", "w", "d"     *)
(* that executeGrantStmt and CanExecute work with.                         *)
InsertTableWritesSQLNames(v, id, controller, k) ==
    [registry  |-> IF k >= 1 THEN [v.registry EXCEPT ![id] = controller] ELSE v.registry,
     systemAcl |-> IF k >= 2 THEN [v.systemAcl EXCEPT ![id][controller] =
                                     {"INSERT", "UPDATE", "DELETE"}]
                   ELSE v.systemAcl,
     tables    |-> IF k >= 3 THEN v.tables \cup {id} ELSE v.tables,
     rows      |-> IF k >= 3 THEN [v.rows EXCEPT ![id] = 0] ELSE v.rows]

(* The store after the first k of the three statements of InsertTable:    *)
(* the registry row, the owner's system_acl row with all privileges,      *)
(* and the CREATE of the relation.                                        *)
InsertTableWrites(v, id, controller, k) ==
    [registry  |-> IF k >= 1 THEN [v.registry EXCEPT ![id] = controller] ELSE v.registry,
     systemAcl |-> IF k >= 2 THEN [v.systemAcl EXCEPT ![id][controller] = Privileges]
                   ELSE v.systemAcl,
     tables    |-> IF k >= 3 THEN v.tables \cup {id} ELSE v.tables,
     rows      |-> IF k >= 3 THEN [v.rows EXCEPT ![id] = 0] ELSE v.rows]

(* Mutant: a store without the registry's primary key and with CREATE    *)
(* TABLE IF NOT EXISTS: only store errors fail InsertTable.                *)
InsertTableFailsAtNoConstraints(v, id, failAt) ==
    IF failAt \in 1..3 THEN failAt ELSE 0

(* The statement of InsertTable that fails (0: none).  The registry       *)
(* insert fails on a duplicate id, the CREATE on an existing relation;    *)
(* failAt is a store error (cancelled ctx, lost connection) at a step.    *)
InsertTableFailsAt(v, id, failAt) ==
    IF failAt = 1 \/ v.registry[id] # NoTable THEN 1
    ELSE IF failAt = 2 THEN 2
    ELSE IF failAt = 3 \/ id \in v.tables THEN 3
    ELSE 0

-----------------------------------------------------------------------------
(* ExecWriteQueries: the statements run in order under one savepoint.     *)

(* acl.IsOwner is called with ctx and no transaction: it reads the        *)
(* committed store, not the batch's view.                                 *)
IsOwner(committed, controller, t) == committed.registry[t] = controller

(* The rows of the one table t that the statements of an ExecWriteQueries *)
(* call touch: its row count and its system_acl rows.  Every statement    *)
(* of the call is on the table of mqueries[0].                            *)
TableState(v, t) == [rows |-> v.rows[t], acl |-> v.systemAcl[t]]

(* The store with table t's rows replaced by ts.                          *)
WithTableState(v, t, ts) ==
    [v EXCEPT !.rows[t] = ts.rows, !.systemAcl[t] = ts.acl]

(* acl.CheckPrivileges runs inside the batch's transaction.               *)
CheckPrivileges(ts, controller, op) == CanExecute(ts.acl[controller], op)

(* executeGrantStmt: grants union the privileges into each role's row,    *)
(* revokes remove them one by one.                                        *)
executeGrantStmt(ts, committed, controller, t, s, storeFails) ==
    IF ~IsOwner(committed, controller, t) THEN Fail(ts, "NotOwner")
    ELSE IF storeFails THEN Fail(ts, "Store")
    ELSE IF s.roles = {} THEN Ok(ts)
    ELSE CASE s.op = OpGrant ->
                Ok([ts EXCEPT !.acl =
                      [a \in Addrs |-> IF a \in s.roles THEN @[a] \cup s.privs ELSE @[a]]])
           [] s.op = OpRevoke ->
                Ok([ts EXCEPT !.acl =
                      [a \in Addrs |-> IF a \in s.roles THEN @[a] \ s.privs ELSE @[a]]])
           [] OTHER -> Fail(ts, "UnknownGrantOp")

(* The row count after a write that affects n rows.                       *)
RowsAfter(count, op, n) ==
    CASE op = OpInsert -> count + n
      [] op = OpDelete -> IF n > count THEN 0 ELSE count - n
      [] OTHER -> count

(* Mutant: the cap check left out of executeWriteStmt.                    *)
RowCountExceededNever(beforeRowCount, op, n) == FALSE

(* The row-cap check of executeWriteStmt, against the count read when     *)
(* the call started.                                                       *)
RowCountExceeded(beforeRowCount, op, n) ==
    /\ maxTableRowCount > 0
    /\ op = OpInsert
    /\ beforeRowCount + n > maxTableRowCount

executeWriteStmt(ts, controller, beforeRowCount, s, storeFails) ==
    IF ~CheckPrivileges(ts, controller, s.op) THEN Fail(ts, "Denied")
    ELSE IF storeFails THEN Fail(ts, "Store")
    ELSE LET ts2 == [ts EXCEPT !.rows = RowsAfter(@, s.op, s.rows)]
         IN IF RowCountExceeded(beforeRowCount, s.op, s.rows)
            THEN Fail(ts2, "RowCountExceeded")
            ELSE Ok(ts2)

(* One iteration of the loop of ExecWriteQueries.                         *)
ExecStmt(ts, committed, controller, t, beforeRowCount, s, storeFails) ==
    IF ~s.hintOk THEN Fail(ts, "NamePrefix")
    ELSE CASE s.kind = "grant" ->
                executeGrantStmt(ts, committed, controller, t, s, storeFails)
           [] s.kind = "write" ->
                executeWriteStmt(ts, controller, beforeRowCount, s, storeFails)
           [] OTHER -> Fail(ts, "UnknownStmt")

(* The loop of ExecWriteQueries over table t's rows: the statements in    *)
(* order, stopping at the first error.  failAt is the statement at which  *)
(* the store fails (0: none).                                              *)
ExecLoop(v, committed, controller, t, mqueries, failAt) ==
    LET beforeRowCount == v.rows[t]
        loop[i \in 0..Len(mqueries)] ==
            IF i = 0 THEN Ok(TableState(v, t))
            ELSE IF loop[i - 1].err # NoErr THEN loop[i - 1]
            ELSE ExecStmt(loop[i - 1].v, committed, controller, t,
                          beforeRowCount, mqueries[i], i = failAt)
    IN  loop[Len(mqueries)]

(* The body f of ExecWriteQueries: the lookup of the table's name and row *)
(* count (it fails when the registry row or the relation is missing),     *)
(* then the loop.                                                          *)
ExecWriteResult(v, committed, controller, t, mqueries, failAt) ==
    IF Len(mqueries) = 0 THEN Ok(v)
    ELSE IF v.registry[t] = NoTable \/ t \notin v.tables
         THEN Fail(v, "NoTable")
    ELSE LET r == ExecLoop(v, committed, controller, t, mqueries, failAt)
         IN  [v |-> WithTableState(v, t, r.v), err |-> r.err]

-----------------------------------------------------------------------------
(* Client actions.                                                        *)

Init ==
    /\ chBatch = 1
    /\ proc = "running"
    /\ pc = [c \in Clients |-> "idle"]
    /\ bst = [c \in Clients |-> "none"]
    /\ closes = [c \in Clients |-> 0]
    /\ view = [c \in Clients |-> EmptyDB]
    /\ stale = [c \in Clients |-> FALSE]
    /\ db = EmptyDB
    /\ refused = [c \in Clients |-> {}]

(* Mutant: InsertTable without the savepoint; the statements before the   *)
(* failing one stay in the transaction.                                    *)
InsertTableNoSavepoint(c) ==
    /\ pc[c] = "batch"
    /\ bst[c] = "open"
    /\ \E id \in TableIDs, controller \in Addrs, failAt \in 0..3 :
        LET k == InsertTableFailsAt(view[c], id, failAt)
        IN  view' = [view EXCEPT ![c] =
                        InsertTableWrites(view[c], id, controller, IF k = 0 THEN 3 ELSE k - 1)]
    /\ UNCHANGED <<chBatch, proc, pc, bst, closes, stale, db, refused>>

(* Mutant: OpenBatch that does not wait for the token.                     *)
OpenBatchNoWait(c) ==
    /\ pc[c] = "opening"
    /\ \/ /\ chBatch' = 0
          /\ pc' = [pc EXCEPT ![c] = "batch"]
          /\ bst' = [bst EXCEPT ![c] = "open"]
          /\ closes' = [closes EXCEPT ![c] = 0]
          /\ view' = [view EXCEPT ![c] = db]
          /\ stale' = [stale EXCEPT ![c] = FALSE]
       \/ /\ pc' = [pc EXCEPT ![c] = "idle"]
          /\ UNCHANGED <<chBatch, bst, closes, view, stale>>
    /\ UNCHANGED <<proc, db, refused>>

(* Mutant: batch.Close without the deferred send of the token.             *)
ReturnTokenLost(c) ==
    /\ pc[c] = "returning"
    /\ pc' = [pc EXCEPT ![c] = "closed"]
    /\ UNCHANGED <<chBatch, proc, bst, closes, view, stale, db, refused>>

(* Mutant: the processor's Close that does not wait for the token.         *)
ProcessorCloseAcquireNoWait ==
    /\ proc = "closing"
    /\ chBatch' = 0
    /\ proc' = "closed"
    /\ UNCHANGED <<pc, bst, closes, view, stale, db, refused>>

(* Mutant: the processor's Close that waits until no client is in a batch *)
(* or waiting for one.                                                      *)
ProcessorCloseAcquireWhenIdle ==
    /\ proc = "closing"
    /\ chBatch = 1
    /\ \A c \in Clients : pc[c] = "idle"
    /\ chBatch' = 0
    /\ proc' = "closed"
    /\ UNCHANGED <<pc, bst, closes, view, stale, db, refused>>

(* A client calls OpenBatch and blocks on <-tp.chBatch.                    *)
OpenBatchCall(c) ==
    /\ pc[c] = "idle"
    /\ pc' = [pc EXCEPT ![c] = "opening"]
    /\ UNCHANGED <<chBatch, proc, bst, closes, view, stale, db, refused>>

(* OpenBatch receives the token and begins the transaction; when BeginTx  *)
(* fails the token is sent back and the call returns an error.            *)
OpenBatch(c) ==
    /\ pc[c] = "opening"
    /\ chBatch = 1
    /\ \/ /\ chBatch' = 0
          /\ pc' = [pc EXCEPT ![c] = "batch"]
          /\ bst' = [bst EXCEPT ![c] = "open"]
          /\ closes' = [closes EXCEPT ![c] = 0]
          /\ view' = [view EXCEPT ![c] = db]
          /\ stale' = [stale EXCEPT ![c] = FALSE]
       \/ /\ pc' = [pc EXCEPT ![c] = "idle"]
          /\ UNCHANGED <<chBatch, bst, closes, view, stale>>
    /\ UNCHANGED <<proc, db, refused>>

(* The savepoint of BeginFunc: on error the statements are rolled back;   *)
(* when the rollback itself fails the transaction is left aborted.        *)
AfterSavepoint(c, r, abortTx) ==
    IF r.err = NoErr
    THEN /\ view' = [view EXCEPT ![c] = r.v]
         /\ UNCHANGED bst
    ELSE /\ UNCHANGED view
         /\ bst' = [bst EXCEPT ![c] = IF abortTx THEN "aborted" ELSE "open"]

(* batch.InsertTable.                                                     *)
InsertTable(c) ==
    /\ pc[c] = "batch"
    /\ bst[c] = "open"
    /\ \E id \in TableIDs, controller \in Addrs, failAt \in 0..3, abortTx \in BOOLEAN :
        LET k == InsertTableFailsAt(view[c], id, failAt)
        IN  AfterSavepoint(c,
                IF k = 0 THEN Ok(InsertTableWrites(view[c], id, controller, 3))
                ELSE Fail(view[c], "InsertTable"),
                abortTx)
    /\ UNCHANGED <<chBatch, proc, pc, closes, stale, db, refused>>

(* batch.ExecWriteQueries with the statements of one event, all on table  *)
(* t (the validator rejects statements on different tables).              *)
ExecWriteQueries(c) ==
    /\ pc[c] = "batch"
    /\ bst[c] = "open"
    /\ \E controller \in Addrs, t \in TableIDs, mqueries \in BoundedSeq(Stmts, MaxStmts),
          abortTx \in BOOLEAN :
       \E failAt \in 0..Len(mqueries) :
        LET r == ExecWriteResult(view[c], db, controller, t, mqueries, failAt)
        IN  /\ r.err = NoErr => r.v \in DB   \* rows stay within RowBound
            /\ AfterSavepoint(c, r, abortTx)
            /\ refused' = [refused EXCEPT ![c] =
                              IF r.err = "NotOwner" THEN {<<controller, t>>} ELSE {}]
    /\ UNCHANGED <<chBatch, proc, pc, closes, stale, db>>

(* batch.Commit.  It succeeds only for a live transaction that no other   *)
(* transaction has overtaken (SERIALIZABLE); otherwise, or on a store     *)
(* error, the transaction ends rolled back.  The other live transactions  *)
(* are overtaken by a successful commit.                                  *)
Commit(c) ==
    /\ pc[c] = "batch"
    /\ Active(c)
    /\ \/ /\ bst[c] = "open"
          /\ ~stale[c]
          /\ db' = view[c]
          /\ bst' = [bst EXCEPT ![c] = "committed"]
          /\ stale' = [d \in Clients |-> IF d # c /\ Active(d) THEN TRUE ELSE stale[d]]
       \/ /\ bst' = [bst EXCEPT ![c] = "rolledback"]
          /\ UNCHANGED <<stale, db>>
    /\ UNCHANGED <<chBatch, proc, pc, closes, view, refused>>

(* batch.Close: Rollback (a no-op after Commit), then the deferred send   *)
(* of the token, which blocks while the channel is full.                  *)
Close(c) ==
    /\ pc[c] \in {"batch", "closed"}
    /\ closes[c] < CloseCalls
    /\ bst' = [bst EXCEPT ![c] = IF Active(c) THEN "rolledback" ELSE @]
    /\ closes' = [closes EXCEPT ![c] = @ + 1]
    /\ pc' = [pc EXCEPT ![c] = "returning"]
    /\ UNCHANGED <<chBatch, proc, view, stale, db, refused>>

ReturnToken(c) ==
    /\ pc[c] = "returning"
    /\ chBatch = 0
    /\ chBatch' = 1
    /\ pc' = [pc EXCEPT ![c] = "closed"]
    /\ UNCHANGED <<proc, bst, closes, view, stale, db, refused>>

(* The client drops the closed batch and goes on to its next event.       *)
FinishEvent(c) ==
    /\ pc[c] = "closed"
    /\ pc' = [pc EXCEPT ![c] = "idle"]
    /\ bst' = [bst EXCEPT ![c] = "none"]
    /\ closes' = [closes EXCEPT ![c] = 0]
    /\ view' = [view EXCEPT ![c] = EmptyDB]
    /\ stale' = [stale EXCEPT ![c] = FALSE]
    /\ refused' = [refused EXCEPT ![c] = {}]
    /\ UNCHANGED <<chBatch, proc, db>>

-----------------------------------------------------------------------------
(* TblTxnProcessor.Close: a select between ctx.Done() and <-tp.chBatch.    *)

ProcessorCloseCall ==
    /\ ProcessorMayClose
    /\ proc = "running"
    /\ proc' = "closing"
    /\ UNCHANGED <<chBatch, pc, bst, closes, view, stale, db, refused>>

ProcessorCloseAcquire ==
    /\ proc = "closing"
    /\ chBatch = 1
    /\ chBatch' = 0
    /\ proc' = "closed"
    /\ UNCHANGED <<pc, bst, closes, view, stale, db, refused>>

ProcessorCloseCancel ==
    /\ proc = "closing"
    /\ proc' = "cancelled"
    /\ UNCHANGED <<chBatch, pc, bst, closes, view, stale, db, refused>>

-----------------------------------------------------------------------------

Next ==
    \/ \E c \in Clients :
        \/ OpenBatchCall(c)
        \/ OpenBatch(c)
        \/ InsertTable(c)
        \/ ExecWriteQueries(c)
        \/ Commit(c)
        \/ Close(c)
        \/ ReturnToken(c)
        \/ FinishEvent(c)
    \/ ProcessorCloseCall
    \/ ProcessorCloseAcquire
    \/ ProcessorCloseCancel

(* A goroutine blocked on <-tp.chBatch is served when the token keeps     *)
(* coming back (Go queues channel receivers in order): strong fairness.   *)
(* A client that holds a batch always calls Close (the doc comment of     *)
(* Close requires a deferred Close), and a runnable goroutine runs: weak  *)
(* fairness for Close and for the token send.  The processor's Close      *)
(* receives from the same channel as the OpenBatch callers: strong        *)
(* fairness too.  Its ctx may never be cancelled: no fairness for Cancel.  *)
Fairness ==
    /\ \A c \in Clients :
        /\ SF_vars(OpenBatch(c))
        /\ WF_vars(Close(c))
        /\ WF_vars(ReturnToken(c))
    /\ SF_vars(ProcessorCloseAcquire)

Spec == Init /\ [][Next]_vars /\ Fairness

-----------------------------------------------------------------------------
(* Properties.                                                             *)

(* The type invariant.                                                     *)
TypeOK ==
    /\ chBatch \in 0..1
    /\ proc \in {"running", "closing", "closed", "cancelled"}
    /\ pc \in [Clients -> {"idle", "opening", "batch", "returning", "closed"}]
    /\ bst \in [Clients -> {"none", "open", "aborted", "committed", "rolledback"}]
    /\ closes \in [Clients -> 0..CloseCalls]
    /\ view \in [Clients -> DB]
    /\ stale \in [Clients -> BOOLEAN]
    /\ db \in DB
    /\ refused \in [Clients -> SUBSET (Addrs \X TableIDs)]

(* At most one batch of the processor has a live store transaction: the   *)
(* one token of chBatch serialises OpenBatch against batch.Close, the     *)
(* failed BeginTx path and the processor's Close (spec section 8, 5).     *)
BatchMutex ==
    \A c, d \in Clients : c # d => ~(Active(c) /\ Active(d))

(* Once the processor's Close has taken the token, no batch is live: it  *)
(* waited for the batch in flight and no OpenBatch can start another.     *)
NoBatchAfterClose ==
    proc = "closed" => \A c \in Clients : ~Active(c)

(* With a positive cap, no committed user table holds more rows than      *)
(* maxTableRowCount: the check of executeWriteStmt together with the      *)
(* savepoint rollback of ExecWriteQueries and the commit of the batch     *)
(* (spec section 3, invariant 5).                                          *)
RowCap ==
    maxTableRowCount > 0 => \A t \in db.tables : db.rows[t] <= maxTableRowCount

(* A store in which every table id has its registry row exactly when its  *)
(* relation exists, and an unregistered id has no system_acl privileges.  *)
Atomic(v) ==
    \A t \in TableIDs :
        /\ (v.registry[t] # NoTable) <=> (t \in v.tables)
        /\ v.registry[t] = NoTable => \A a \in Addrs : v.systemAcl[t][a] = {}

(* InsertTable is all or nothing, in the committed store and in the view  *)
(* of every batch's transaction at every step: a table id has a registry  *)
(* row exactly when its relation exists, and an id never registered has  *)
(* no system_acl privileges, whichever of the three statements failed,   *)
(* whether the savepoint rolled back, and however batches were committed *)
(* or rolled back.                                                         *)
TableAtomic ==
    Atomic(db) /\ \A c \in Clients : Atomic(view[c])

(* A committed registry row is never changed or removed: once a table id  *)
(* is registered to a controller, no later commit drops the row or gives  *)
(* the id to another controller, whether a CreateTable event is processed *)
(* twice (the registry INSERT fails on the duplicate id and the savepoint *)
(* rolls back) or two batches register the same id at once (SERIALIZABLE  *)
(* fails the commit of the later one).                                    *)
RegistryStable ==
    [][\A t \in TableIDs :
         db.registry[t] # NoTable => db'.registry[t] = db.registry[t]]_vars

(* A grant is refused as coming from a non owner only when the caller    *)
(* does not own the table in the batch's own transaction, as the spec's    *)
(* IsOwner(tx, caller, table_id) has it.  executeGrantStmt asks            *)
(* acl.IsOwner without the transaction, so it reads the committed store.  *)
GrantOwnerInView ==
    \A c \in Clients : \A ct \in refused[c] : view[c].registry[ct[2]] # ct[1]

(* A client blocked in OpenBatch eventually gets a batch or an error.     *)
OpenBatchProgress ==
    \A c \in Clients : pc[c] = "opening" ~> pc[c] \in {"batch", "idle"}

(* The processor's Close returns: unless its ctx is cancelled first, it   *)
(* takes the token once the batch in flight is closed, however many       *)
(* clients keep asking for batches (spec section 5: close waits for the   *)
(* in-flight batch, then declines to hand out new ones).                   *)
ProcessorCloseCompletes ==
    proc = "closing" ~> proc \in {"closed", "cancelled"}

-----------------------------------------------------------------------------
(* Refinement of BatchSlot: the slot is held by the clients between       *)
(* receiving the token in OpenBatch and sending it back at the end of     *)
(* batch.Close, and taken for good by the processor's Close.              *)

SlotHolders == {c \in Clients : pc[c] \in {"batch", "returning"}}

Slot == INSTANCE BatchSlot WITH
            holders <- SlotHolders, shut <- (proc = "closed"), store <- db, Store <- DB

(* The processor implements the one-slot promise of BatchSlot: OpenBatch  *)
(* hands out the slot only when it is free and not shut, only the holder's *)
(* Commit changes the store, and every holder's Close gives it back.      *)
ImplementsBatchSlot == Slot!Spec

=============================================================================
