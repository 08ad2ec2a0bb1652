# TLA+ models of go-tableland

This directory holds the formal models of the Tableland validator node kept in `src/`:
- TLA+ modules;
- TLC configurations;
- proofs checked by TLAPS.

`PROJECT.json` lists every component, run, mutant, finding, hazard and theorem. Its `map` ties each TLA+ definition to the Go lines it translates.

## The system

The node receives SQL statements from chain events and applies them to Postgres. The parts:

| Part | Source | What it does |
|---|---|---|
| SQL validator | `src/unnamed/part_002` (validator impl, 194-742) | Parses a statement and rejects anything outside a safe, deterministic subset. It rewrites an accepted statement into a canonical form. |
| Transaction processor | `src/pkg/txn/impl/processor.go` | Serialises the event processors' batches with a one-slot channel `chBatch`. Each batch is one SERIALIZABLE transaction. Inside a batch, `InsertTable` and `ExecWriteQueries` each run under a savepoint (`BeginFunc`). `ExecWriteQueries` checks ownership, privileges and the row cap. |
| ACL | `src/internal/tableland/acl.go` | Privileges (`a`, `w`, `d`), operations, and the operation-to-privilege map used by `CanExecute`. The ACL provider that implements `IsOwner`/`CheckPrivileges` is not under `src/`. |
| Service types | `src/unnamed/part_000` | Receipts, the `Tableland` interface, `NewTableFromName`. |
| User store read | `src/unnamed/part_002` (976-1029) | Runs a read query and converts the rows to JSON. |
| Wiring, config, CI | `src/unnamed/part_001`, `part_003`, `src/docker`, `src/.github` | Start-up and deployment. |

How the parts interact:
1. An event processor calls `OpenBatch`.
2. It then calls `InsertTable` or `ExecWriteQueries` with statements the validator has accepted.
3. It calls `Commit`.
4. It always calls `Close` (deferred).

`Close` rolls the transaction back and sends the token back. The processor's own `Close` takes the token and keeps it.

## Modules

- **`ACL.tla`**: privileges as their abbreviations, operations as names, `operationPrivilegeMap` and `CanExecute`. It has no state.
- **`TxnProcessor.tla`**: the processor and its clients.
  - **Store.** Abstracted to what the processor reads and writes:
    - the registry (id → controller);
    - the set of user relations;
    - their row counts (bounded by `RowBound`);
    - `system_acl`.

    SQL text, name prefixes and structure hashes are left out. A statement whose name hint is wrong is a statement with `hintOk = FALSE`.
  - **Variables:**
    - `chBatch`: tokens in the channel;
    - `pc`: where each goroutine is;
    - `bst`: state of its store transaction;
    - `view`: the store as its transaction sees it;
    - `stale`: another transaction committed since its `BeginTx`;
    - `db`: the committed store;
    - `closes`: Close calls on the current handle;
    - `proc`: progress of the processor's Close;
    - `refused`: a history variable, the `<<controller, table>>` of the client's last `ExecWriteQueries` when it was refused as a grant by a non owner.
  - **Actions.** One per Go operation:
    - `OpenBatchCall`/`OpenBatch` (with the BeginTx-failure path that returns the token);
    - `InsertTable`, `ExecWriteQueries`, `Commit`;
    - `Close`/`ReturnToken` (the rollback, then the deferred send, which blocks while the channel is full);
    - `ProcessorCloseCall`/`ProcessorCloseAcquire`/`ProcessorCloseCancel` (the `select` between `ctx.Done()` and the token).

    `FinishEvent` is the caller dropping the handle. It is taken from the spec's batch lifecycle, because the event loop is not under `src/`.
  - **Savepoints.** `AfterSavepoint` models `BeginFunc`. On error the statements are undone, and the transaction is either still open or left aborted, which is when the savepoint rollback itself failed.
  - **Store failures.** These are the `failAt` choices: a store error at any statement, and a `Commit` that fails.
  - **SERIALIZABLE.** Modelled as first-committer-wins. A commit marks every other live transaction `stale`, and a stale transaction can only roll back.
  - **`ExecWriteResult`.** Translates the body of `ExecWriteQueries`:
    - an empty input is a no-op;
    - the table lookup comes first;
    - the statements run in order and stop at the first error;
    - `beforeRowCount` is read once.

    The loop (`ExecLoop`) is a recursive function over `0..Len(mqueries)`, and `ExecStmt` is one statement. Both work on `TableState(v, t)`: the addressed table's rows and ACL. `WithTableState` writes the savepoint's result back, so the call cannot touch the registry or the other tables. `ExecStmt` tests the name hint with IF, before the CASE on the statement kind, so that its first-error-first order holds in the logic as it does in TLC.
  - **`IsOwner`.** Reads the committed store `db`, because the code calls it without the transaction (processor.go:250). `CheckPrivileges` reads the transaction's view.
  - **Refinement.** `SlotHolders` (the clients between receiving the token and sending it back), `proc = "closed"` and `db` map the processor onto `BatchSlot`; `ImplementsBatchSlot == Slot!Spec` is the abstract spec with the mapping substituted (`Slot == INSTANCE BatchSlot WITH ...`).
- **`BatchSlot.tla`**: the abstract promise of the processor (spec section 5): one slot; `Acquire` when it is free and not shut, `Apply` (a commit) only by the holder, `Release` by the holder, `Shutdown` when free. Weak fairness on `Release`: a holder always gives the slot back.
- **`MC_TxnProcessor.tla`**: model values for the instances. `MCStmts` has seven statements:
  - inserts of 1 and 2 rows;
  - an update;
  - a delete;
  - an insert whose name hint is wrong;
  - a grant and a revoke of the insert privilege.
- **`SQLValidator.tla`**: `ValidateRunSQL` and `ValidateCreateTable`, with every statement check.
  - **Parse trees.** pg_query nodes are records with a kind `k` and the fields the validator reads. Relation and type names are atoms; `strings.HasPrefix(name, systemTablePrefix)` is membership of `SystemPrefixed`.
  - **Walkers as parameters.** The three tree walkers are the constant operators `JoinOrSubqueryCheck`, `SystemTablesCheck` and `NonDeterminismCheck`. Every configuration substitutes the definitions of `SQLWalkers.tla` for them. This keeps RECURSIVE out of the module, so it can be proved about. What is proved then holds whatever the walkers return.
  - **First error first.** `Seq1` is the first failing check of a list, in order. `FirstError` (a `for` loop over a node list) is `Seq1` over the list. The write loop of `ValidateRunSQL` is `Seq1` over `writeStmtErr`. `writeStmtErr` is one statement's error: its `validateWriteQuery`, then its table against `targetTable`. `targetTable` was set by the first statement, once that one passed.
  - **Parse results.** `ParseAssumption` says that `ok` is a Boolean and `stmts` a list, which is what `pg_query.Parse` returns.
  - **Structure hash.** `StringifiedColDef` builds the string `genCreateStmt` hashes, `"name:type"` joined with `","`, over the column names as the user quoted them. SHA-256 is taken as collision-free, so the hash is represented by that string. A column definition carries its `arrayBounds`, which the code never reads.
  - **State.** Only there to feed the pure function: a step validates one input, `Return` hands the result back.
- **`SQLWalkers.tla`**: the walkers and what reads the whole tree (TLC only).
  - **Walkers.** `checkNonDeterministicFunctions`, `checkNoJoinOrSubquery` and `checkNoSystemTablesReferencing` are RECURSIVE operators. They follow exactly the node kinds and fields that the Go code follows, first error first.
  - **Reference definitions.** `Subtree` and `Relations` read the whole tree independently of the walkers.
  - **Properties.** `WriteNoSystemTables`, `ReadNoSystemTables` and `WriteDeterministic` compare what was accepted with the reference definitions.
- **`MC_SQLValidator.tla`**: about 3,700 inputs. It extends `SQLWalkers`.
  - inserts, updates, deletes and selects over `foo`, `bar`, `system_acl` and `registry`;
  - expressions: constants, columns, `current_timestamp`, `a = e`, `a = 1 and b = e`, `f(e)` and sub-selects;
  - `RETURNING`, `FROM` joins and sub-selects, `FOR UPDATE`;
  - two-statement, empty and unparsable inputs;
  - CREATEs with one or two elements: columns `a`, `b` and the quoted `"a:int4,b"` of type `int4`/`text`/`xml`, bare or `pg_catalog.`-qualified, an `a int4[]` column, and table constraints.
- **`TxnProcessorProofs.tla`** and **`SQLValidatorProofs.tla`**: the TLAPS proofs.

## Runs

All processor runs use two clients, one table id, two addresses, `maxTableRowCount = 2` and `RowBound = 4`.

- **Two clients.** Enough to race for the token.
- **One table.** Enough because the processor's properties are per table, and batches are serialised across tables anyway.
- **Cap of 2 with rows bounded by 4.** An insert of 2 can land exactly on the cap, and a second insert goes over it.

| Run | cfg | Expect | Shows |
|---|---|---|---|
| core | `MC_TxnProcessor.cfg` | pass | `TypeOK`, `BatchMutex`, `RowCap` and `TableAtomic` hold with store failures at every step, with one statement per call. `TableAtomic` holds in the committed store and in every batch's view. `RegistryStable`: no step changes or removes a committed registry row. |
| progress | `MC_Progress.cfg` | pass | `OpenBatchProgress`: while the processor is open, a goroutine waiting for the token is eventually served. Deadlock freedom itself is checked by `core`. |
| shutdown | `MC_Shutdown.cfg` | pass | `NoBatchAfterClose`: once the processor's Close has the token, no batch is live. `ProcessorCloseCompletes`: an uncancelled Close returns, however the clients keep asking for batches. `ImplementsBatchSlot`: every behaviour is a behaviour of `BatchSlot` under the mapping, fairness included (every holder releases). Deadlock is not checked, because after Close the writers really do stop. |
| double_close | `MC_DoubleClose.cfg` | violation | A second `Close` of a batch sends a second token, and two batches become live at once (processor.go:196). The spec says double-close is safe. Deadlock is not checked, because a second send on the full channel really does block its goroutine forever. |
| rowcap_multi | `MC_RowCapMulti.cfg` | violation | With two statements per call, two inserts are each checked against the count read before the first. The committed table exceeds the cap (processor.go:152, 320). |
| open_after_close | `MC_OpenAfterClose.cfg` | violation | After the processor's `Close`, `OpenBatch` blocks forever instead of returning an error (processor.go:57). |
| validator | `MC_SQLValidator.cfg` | pass | Accepted writes name one table (`WriteSingleTable`) and have no `RETURNING`; accepted reads are one unlocked SELECT; an accepted CREATE keeps the column order and only allowed types (`CreateStructure`). |
| write_system_tables | `MC_SQLValidator_WriteNoSystemTables.cfg` | violation | TLC's trace is `insert into registry values (1, a)`, which is accepted. `checkNoSystemTablesReferencing` knows a system table only by the `system_` prefix (part_002:462), and `registry` does not have it. The spec says `registry` is unreachable too. A second way past the walker, a VALUES sub-select reading `system_acl` (part_002:600), is listed as a hazard; this run's trace does not show it. |
| read_system_tables | `MC_SQLValidator_ReadNoSystemTables.cfg` | violation | The read path never calls `checkNoSystemTablesReferencing` (part_002:369); the tests expect it to. |
| write_nondeterministic | `MC_SQLValidator_WriteDeterministic.cfg` | violation | `insert into foo values (1, a = 1 and b = current_timestamp)` is accepted: the walker skips `BoolExpr`, function arguments and sub-selects. |
| owner_stale | `MC_OwnerStale.cfg` | violation | `GrantOwnerInView`: a batch creates `t1` for `a1`, then a grant by `a1` on `t1` in the same batch is refused as non owner, because `IsOwner` reads the committed registry (processor.go:250). The spec gives `IsOwner(tx, ...)` and says ACL checks see the batch's earlier changes. |
| structure_hash | `MC_SQLValidator_StructureHash.cfg` | violation | `StructureHashDistinguishes`: `create table foo (a int4[])` and `create table foo (a int4)` get the same structure string `a:int4`. Without the array column, TLC finds `(a int4, b int4)` against `("a:int4,b" int4)`, both `a:int4,b:int4`. The spec says the hash changes with a column name or type. |

Each property of a passing run has a mutant in `TxnProcessor.tla` or `SQLValidator.tla`: a plausible bug that TLC must catch.

| Mutant | Bug it models | Property it breaks |
|---|---|---|
| `InsertTableWritesSQLNames` | The owner's `system_acl` row stores SQL privilege names, not the abbreviations `CanExecute` compares with | `TypeOK` |
| `OpenBatchNoWait` | OpenBatch without waiting for the token | `BatchMutex` |
| `RowCountExceededNever` | Cap check removed | `RowCap` |
| `InsertTableNoSavepoint` | InsertTable without its savepoint | `TableAtomic` |
| `InsertTableFailsAtNoConstraints` | A registry without its primary key, and `CREATE TABLE IF NOT EXISTS` | `RegistryStable` |
| `ReturnTokenLost` | The deferred send removed | `OpenBatchProgress` |
| `ProcessorCloseAcquireNoWait` | Processor Close that does not wait | `NoBatchAfterClose` |
| `ProcessorCloseAcquireWhenIdle` | Processor Close that waits until no client is in or waiting for a batch | `ProcessorCloseCompletes` |
| `OpenBatchNoWait` | OpenBatch without waiting for the token | `ImplementsBatchSlot` |
| `ValidateRunSQLTypedError` | A failed read still typed as a read | `TypeOK` (validator) |
| `ValidateWritesAnyTable` | No same-table check in the write loop | `WriteSingleTable` |
| `checkNoReturningClauseNoDelete` | RETURNING not checked on DELETE | `WriteNoReturning` |
| `checkNoForUpdateOrShareNever` | Locking clause ignored | `ReadSingleUnlocked` |
| `ColumnTypeAny` | Column type taken without the allow-list | `CreateStructure` |

## Fairness

- **`OpenBatch`: strong fairness.** Go hands a buffered channel's value to waiting receivers in FIFO order, so a receiver that keeps finding the token is eventually served.
- **`Close`: weak fairness.** The `Close` doc comment requires callers to `defer Close()`.
- **`ReturnToken`: weak fairness.** A runnable goroutine eventually runs.
- **`ProcessorCloseAcquire`: strong fairness.** The processor's `select` receives from the same channel as the `OpenBatch` callers, so the same argument applies.
- **Nothing else is fair.** A client may stop before committing, the processor may never be closed, and its ctx may never be cancelled.

## Proofs (TLAPS, `TxnProcessorProofs.tla`)

- **`TypeCorrect`: `Spec => []TypeOK`.** It holds for all constants that satisfy `ConstantsAssumption`. It is built from `TypeInit`, `TypeStep` (one step per action) and two lemmas:
  - `InsertTableWritesType`: the writes of `InsertTable` stay in `DB`;
  - `AfterSavepointType`: a savepoint's result is well typed.
- **`BatchMutexHolds`: `Spec => [](BatchMutex /\ NoBatchAfterClose)`, under `CloseCalls = 1`.** This means each batch is closed once, as the code's deferred-Close discipline intends; the `double_close` run shows why the hypothesis is needed.
  - `BatchMutex` is not inductive by itself. The proof uses `TokenInv`, which TLC checked as an invariant of a run with processor close enabled.
  - `TokenInv` says:
    - the token is held by at most one client (`Holds(c)`: between `OpenBatch` and the token send);
    - a live transaction belongs to the holder;
    - a holder means an empty channel and a processor that has not closed;
    - a closed processor means an empty channel;
    - a client past `Close` has used its one call.
  - `TokenInvInductive` proves that `TokenInv` is kept by every action.
- **`RefinesBatchSlot`: `Spec => Slot!SafeSpec`, under `CloseCalls = 1`.** The standard refinement argument:
  - `SlotInit`: the initial state maps to an initial state of `BatchSlot`;
  - `SlotStep`: under `TokenInv`, every step maps to a `BatchSlot` step or leaves `SlotHolders`, `proc = "closed"` and `db` unchanged. `OpenBatch` is `Acquire` (the token in the channel means no holder and no shut processor), a successful `Commit` is `Apply` (the committer holds the token), `ReturnToken` is `Release` (the only holder), `ProcessorCloseAcquire` is `Shutdown`; every other step is a stutter;
  - `TokenInv` is the same inductive invariant as for `BatchMutexHolds`.
- **`NoBatchAfterCloseHolds`: `Spec => []NoBatchAfterClose`, under `CloseCalls = 1`.** A corollary of `BatchMutexHolds`.
- **`TableAtomicHolds`: `Spec => []TableAtomic`, for all constants.** `CloseCalls` is not restricted. `TableAtomic` is `Atomic` of `db` and of every client's view. `Atomic` says that a table id has its registry row exactly when its relation exists, and that an unregistered id has no `system_acl` privileges.
  - The inductive invariant `AtomicInv` is `TypeOK` plus `TableAtomic`. The views are needed because `Commit` installs a view as `db`.
  - `InsertTableAtomic`: a successful `InsertTable` only registers an id that has no registry row and no relation. Any failure is rolled back by the savepoint.
  - `ExecWriteAtomic`: `ExecWriteQueries` only changes the rows and the ACL of a table that is already registered. Because of the per-table form of the loop, this needs no induction over the statements.
- **Row-cap lemmas.** These are about the operators, not the whole system.
  - `ExecLoopOne` unfolds the loop for one statement. Its proof gives the recursive function's equation a witness.
  - `ExecStmtCap`: a statement that succeeds leaves at most the cap, for every kind and operation.
  - `ExecWriteCap`: a successful call of one statement keeps a store within the cap.
- **`RegistryStableHolds`: `Spec => RegistryStable`, for all constants.** This holds even under a double Close.
  - The inductive invariant `FreshInv` is `TypeOK` plus this: every open transaction that is not stale has a view that agrees with every committed registry row.
  - `InsertTableAgrees` holds because `InsertTable` succeeds only for an id its view has no row for. That view agrees with `db`, so `db` has no row for the id either.
  - `ExecWriteRegistry`: `ExecWriteQueries` keeps the registry.
  - A successful `Commit` makes every other live transaction stale, so only an agreeing view is ever installed (`RegistryStepHolds`).

What stays with TLC:
- `RowCap`. It is false as soon as a call has two inserts, and the violation is the `rowcap_multi` finding. Proving it only for calls of one statement would need an assumption on `MaxStmts` that the code does not justify: the loop takes any number of statements, and the validator accepts several.
- `OpenBatchProgress`, `ProcessorCloseCompletes` and the fairness part of `ImplementsBatchSlot`, because liveness and ENABLED are beyond TLAPS.
- `CreateStructure`. It needs the column filter of `checkCreateColTypes` (skip constraints) to agree with the reference filter (keep column definitions) once every element passed. Both are `SelectSeq`, a recursive function over the list, and reasoning about it needs induction over the list.
- The walker properties (`WriteNoSystemTables`, `ReadNoSystemTables`, `WriteDeterministic`, `StructureHashDistinguishes`). They are false: these are the four validator findings.
- What the loop computes for any number of statements. That needs induction over the statement sequence, and the installed provers cannot instantiate the library's induction theorems, which take an operator parameter.
- `GrantOwnerInView`. It is false, and the violation is the `owner_stale` finding.

## Proofs (TLAPS, `SQLValidatorProofs.tla`)

All are for any sets of inputs and for any tree walkers. The only assumption is `ParseAssumption`.

- **`ValidatorTypeCorrect`: `Spec => []TypeOK`.** The result is Ok exactly when it carries a query type or a table.
- **`WriteSingleTableHolds`.** An accepted write of any number of statements returns, for each statement, the one table that all of them reference.
- **`WriteNoReturningHolds`.** No statement of an accepted write has a `RETURNING` list.
- **`ReadSingleUnlockedHolds`.** An accepted read is a single SELECT with no locking clause.

The argument:
- The inductive invariant `ResultInv` says that after a call, `out` is the validator's result on `input`.
- The properties follow from lemmas about what an accepted result implies (`AcceptedWritesShape`, `AcceptedReadShape`, `ValidWriteNoReturning`, `ValidReadUnlocked`).
- These lemmas rest on `Seq1Ok`: a list of checks passes exactly when each check passed. Its proof needs the least failing index, because `Seq1` CHOOSEs the first error. `LeastIndex` gets that index from `WFMin` on `<` over `Nat` (WellFoundedInduction), which is first-order and so within the provers' reach.

## Not modelled (yet)

- **Validator leftovers.** pg_query's parser and `Deparse` are taken as correct; `GetRawQueryForTableID` and the `OfTypename` loop are not modelled. The tests that expect `NoSingleStatement` for empty and multi-statement writes, and joins in reads to be valid, disagree with code and spec alike and are not turned into properties.
- **`NewTableFromName`.** Its callers and `tables.NewTableID` are not under `src/`, and its one edge worth checking, the 64-bit range of `strconv.ParseInt`, cannot be evaluated by TLC, whose integers are 32-bit.
- **ACL string conversions.** `NewPrivilegeFromSQLString`, `ToSQLString` and `Operation.String` are three-way switches that no code under `src/` calls.
- **Wiring, configuration and CI.** These are not modelled.
