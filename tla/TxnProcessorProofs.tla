------------------------- MODULE TxnProcessorProofs -------------------------
(***************************************************************************)
(* Proofs about TxnProcessor, for every value of the constants.           *)
(***************************************************************************)
EXTENDS TxnProcessor, TLAPS

PcStates  == {"idle", "opening", "batch", "returning", "closed"}
BstStates == {"none", "open", "aborted", "committed", "rolledback"}

-----------------------------------------------------------------------------
(* Type correctness.                                                       *)

(* InsertTable's writes keep a well-typed store well typed.                *)
LEMMA InsertTableWritesType ==
    ASSUME NEW v \in DB, NEW id \in TableIDs, NEW controller \in Addrs
    PROVE  InsertTableWrites(v, id, controller, 3) \in DB
<1>1. [v.registry EXCEPT ![id] = controller] \in [TableIDs -> Addrs \cup {NoTable}]
    BY DEF DB
<1>2. [v.systemAcl EXCEPT ![id][controller] = Privileges]
        \in [TableIDs -> [Addrs -> SUBSET Privileges]]
    BY DEF DB
<1>3. [v.rows EXCEPT ![id] = 0] \in [TableIDs -> 0..RowBound]
    BY ConstantsAssumption DEF DB
<1>4. QED
    BY <1>1, <1>2, <1>3 DEF InsertTableWrites, DB

(* A savepoint either installs a well-typed result or leaves the view.     *)
LEMMA AfterSavepointType ==
    ASSUME NEW c \in Clients, NEW r, NEW abortTx \in BOOLEAN,
           view \in [Clients -> DB], bst \in [Clients -> BstStates],
           r.err = NoErr => r.v \in DB,
           AfterSavepoint(c, r, abortTx)
    PROVE  view' \in [Clients -> DB] /\ bst' \in [Clients -> BstStates]
<1>1. CASE r.err = NoErr
    <2>1. view' = [view EXCEPT ![c] = r.v] /\ bst' = bst
        BY <1>1 DEF AfterSavepoint
    <2>2. QED
        BY <1>1, <2>1
<1>2. CASE r.err # NoErr
    <2>1. /\ view' = view
          /\ bst' = [bst EXCEPT ![c] = IF abortTx THEN "aborted" ELSE "open"]
        BY <1>2 DEF AfterSavepoint
    <2>2. QED
        BY <2>1 DEF BstStates
<1>3. QED
    BY <1>1, <1>2

(* The type invariant holds initially.                                    *)
LEMMA TypeInit == Init => TypeOK
<1>1. EmptyDB \in DB
    BY ConstantsAssumption DEF EmptyDB, DB
<1>2. QED
    BY <1>1, ConstantsAssumption DEF Init, TypeOK

(* Every step keeps the type invariant.                                    *)
LEMMA TypeStep == TypeOK /\ [Next]_vars => TypeOK'
<1> SUFFICES ASSUME TypeOK, [Next]_vars PROVE TypeOK'
    OBVIOUS
<1> USE DEF TypeOK
<1>1. ASSUME NEW c \in Clients, OpenBatchCall(c) PROVE TypeOK'
    BY <1>1 DEF OpenBatchCall
<1>2. ASSUME NEW c \in Clients, OpenBatch(c) PROVE TypeOK'
    <2>1. CASE /\ chBatch' = 0
               /\ pc' = [pc EXCEPT ![c] = "batch"]
               /\ bst' = [bst EXCEPT ![c] = "open"]
               /\ closes' = [closes EXCEPT ![c] = 0]
               /\ view' = [view EXCEPT ![c] = db]
               /\ stale' = [stale EXCEPT ![c] = FALSE]
               /\ UNCHANGED <<proc, db, refused>>
        BY <2>1, ConstantsAssumption
    <2>2. CASE /\ pc' = [pc EXCEPT ![c] = "idle"]
               /\ UNCHANGED <<chBatch, bst, closes, view, stale>>
               /\ UNCHANGED <<proc, db, refused>>
        BY <2>2
    <2>3. QED
        BY <1>2, <2>1, <2>2 DEF OpenBatch
<1>3. ASSUME NEW c \in Clients, InsertTable(c) PROVE TypeOK'
    <2>1. PICK id \in TableIDs, controller \in Addrs, failAt \in 0..3, abortTx \in BOOLEAN :
            AfterSavepoint(c,
                IF InsertTableFailsAt(view[c], id, failAt) = 0
                THEN Ok(InsertTableWrites(view[c], id, controller, 3))
                ELSE Fail(view[c], "InsertTable"),
                abortTx)
        BY <1>3 DEF InsertTable
    <2>2. InsertTableWrites(view[c], id, controller, 3) \in DB
        BY InsertTableWritesType
    <2>3. view' \in [Clients -> DB] /\ bst' \in [Clients -> BstStates]
        BY <2>1, <2>2, AfterSavepointType DEF Ok, Fail, BstStates
    <2>4. QED
        BY <1>3, <2>3 DEF InsertTable, BstStates
<1>4. ASSUME NEW c \in Clients, ExecWriteQueries(c) PROVE TypeOK'
    <2>1. PICK controller \in Addrs, t \in TableIDs,
               mqueries \in BoundedSeq(Stmts, MaxStmts), abortTx \in BOOLEAN :
            \E failAt \in 0..Len(mqueries) :
            LET r == ExecWriteResult(view[c], db, controller, t, mqueries, failAt)
            IN  /\ r.err = NoErr => r.v \in DB
                /\ AfterSavepoint(c, r, abortTx)
                /\ refused' = [refused EXCEPT ![c] =
                                  IF r.err = "NotOwner" THEN {<<controller, t>>} ELSE {}]
        BY <1>4 DEF ExecWriteQueries
    <2>4. PICK failAt \in 0..Len(mqueries) :
            LET r == ExecWriteResult(view[c], db, controller, t, mqueries, failAt)
            IN  /\ r.err = NoErr => r.v \in DB
                /\ AfterSavepoint(c, r, abortTx)
                /\ refused' = [refused EXCEPT ![c] =
                                  IF r.err = "NotOwner" THEN {<<controller, t>>} ELSE {}]
        BY <2>1
    <2>2. view' \in [Clients -> DB] /\ bst' \in [Clients -> BstStates]
        BY <2>4, AfterSavepointType DEF BstStates
    <2>5. refused' \in [Clients -> SUBSET (Addrs \X TableIDs)]
        BY <2>4
    <2>3. QED
        BY <1>4, <2>2, <2>5 DEF ExecWriteQueries, BstStates
<1>5. ASSUME NEW c \in Clients, Commit(c) PROVE TypeOK'
    <2>1. CASE /\ bst[c] = "open"
               /\ ~stale[c]
               /\ db' = view[c]
               /\ bst' = [bst EXCEPT ![c] = "committed"]
               /\ stale' = [d \in Clients |-> IF d # c /\ Active(d) THEN TRUE ELSE stale[d]]
               /\ UNCHANGED <<chBatch, proc, pc, closes, view, refused>>
        BY <2>1
    <2>2. CASE /\ bst' = [bst EXCEPT ![c] = "rolledback"]
               /\ UNCHANGED <<stale, db>>
               /\ UNCHANGED <<chBatch, proc, pc, closes, view, refused>>
        BY <2>2
    <2>3. QED
        BY <1>5, <2>1, <2>2 DEF Commit
<1>6. ASSUME NEW c \in Clients, Close(c) PROVE TypeOK'
    BY <1>6, ConstantsAssumption DEF Close
<1>7. ASSUME NEW c \in Clients, ReturnToken(c) PROVE TypeOK'
    BY <1>7, ConstantsAssumption DEF ReturnToken
<1>8. ASSUME NEW c \in Clients, FinishEvent(c) PROVE TypeOK'
    <2>1. EmptyDB \in DB
        BY ConstantsAssumption DEF EmptyDB, DB
    <2>2. refused' \in [Clients -> SUBSET (Addrs \X TableIDs)]
        BY <1>8 DEF FinishEvent
    <2>3. view' \in [Clients -> DB]
        BY <1>8, <2>1 DEF FinishEvent
    <2>4. QED
        BY <1>8, <2>2, <2>3, ConstantsAssumption DEF FinishEvent
<1>9. CASE ProcessorCloseCall
    BY <1>9 DEF ProcessorCloseCall
<1>10. CASE ProcessorCloseAcquire
    BY <1>10 DEF ProcessorCloseAcquire
<1>11. CASE ProcessorCloseCancel
    BY <1>11 DEF ProcessorCloseCancel
<1>12. CASE UNCHANGED vars
    BY <1>12 DEF vars
<1>13. QED
    BY <1>1, <1>2, <1>3, <1>4, <1>5, <1>6, <1>7, <1>8, <1>9, <1>10,
       <1>11, <1>12 DEF Next

(* The type invariant holds in every reachable state.                      *)
THEOREM TypeCorrect == Spec => []TypeOK
BY TypeInit, TypeStep, PTL DEF Spec

-----------------------------------------------------------------------------
(* The batch token.                                                        *)

(* Client c holds the token of chBatch: it received it in OpenBatch and   *)
(* has not yet sent it back at the end of Close.                           *)
Holds(c) == pc[c] \in {"batch", "returning"}

(* The inductive invariant behind BatchMutex when each batch is closed    *)
(* once: the token is in the channel, or with exactly one holder, or with *)
(* the closed processor; a live transaction belongs to a holder; a client *)
(* past Close has used its one Close call.                                 *)
TokenInv ==
    /\ TypeOK
    /\ \A c \in Clients : Active(c) => pc[c] = "batch"
    /\ \A c \in Clients : pc[c] \in {"returning", "closed"} => closes[c] >= 1
    /\ \A c, d \in Clients : c # d /\ Holds(c) => ~Holds(d)
    /\ \A c \in Clients : Holds(c) => chBatch = 0 /\ proc # "closed"
    /\ proc = "closed" => chBatch = 0

(* TokenInv holds initially and is kept by every step of the processor    *)
(* and its clients when each batch is closed once.                        *)
LEMMA TokenInvInductive ==
    ASSUME CloseCalls = 1
    PROVE  TokenInv /\ [Next]_vars => TokenInv'
<1> SUFFICES ASSUME TokenInv, [Next]_vars PROVE TokenInv'
    OBVIOUS
<1>0. TypeOK'
    BY TypeStep DEF TokenInv
<1> USE DEF TokenInv, Holds, Active
<1>1. ASSUME NEW c \in Clients, OpenBatchCall(c) PROVE TokenInv'
    BY <1>0, <1>1 DEF OpenBatchCall, TypeOK
<1>2. ASSUME NEW c \in Clients, OpenBatch(c) PROVE TokenInv'
    <2>1. \A d \in Clients : ~Holds(d)
        BY <1>2 DEF OpenBatch, TypeOK
    <2>2. proc # "closed"
        BY <1>2 DEF OpenBatch
    <2>3. CASE /\ chBatch' = 0
               /\ pc' = [pc EXCEPT ![c] = "batch"]
               /\ bst' = [bst EXCEPT ![c] = "open"]
               /\ closes' = [closes EXCEPT ![c] = 0]
               /\ UNCHANGED <<proc, db, refused>>
        BY <1>0, <2>1, <2>2, <2>3 DEF TypeOK
    <2>4. CASE /\ pc' = [pc EXCEPT ![c] = "idle"]
               /\ UNCHANGED <<chBatch, bst, closes, view, stale>>
               /\ UNCHANGED <<proc, db, refused>>
        BY <1>0, <1>2, <2>4 DEF OpenBatch, TypeOK
    <2>5. QED
        BY <1>2, <2>3, <2>4 DEF OpenBatch
<1>3. ASSUME NEW c \in Clients, InsertTable(c) PROVE TokenInv'
    <2>1. bst'[c] \in {"open", "aborted"} /\ \A d \in Clients \ {c} : bst'[d] = bst[d]
        BY <1>0, <1>3 DEF InsertTable, AfterSavepoint, TypeOK
    <2>2. QED
        BY <1>0, <1>3, <2>1 DEF InsertTable, TypeOK
<1>4. ASSUME NEW c \in Clients, ExecWriteQueries(c) PROVE TokenInv'
    <2>1. bst'[c] \in {"open", "aborted"} /\ \A d \in Clients \ {c} : bst'[d] = bst[d]
        BY <1>0, <1>4 DEF ExecWriteQueries, AfterSavepoint, TypeOK
    <2>2. QED
        BY <1>0, <1>4, <2>1 DEF ExecWriteQueries, TypeOK
<1>5. ASSUME NEW c \in Clients, Commit(c) PROVE TokenInv'
    <2>1. \A d \in Clients \ {c} : bst'[d] = bst[d]
        BY <1>0, <1>5 DEF Commit, TypeOK
    <2>2. QED
        BY <1>0, <1>5, <2>1 DEF Commit, TypeOK
<1>6. ASSUME NEW c \in Clients, Close(c) PROVE TokenInv'
    <2>1. pc[c] = "batch"
        BY <1>6, ConstantsAssumption DEF Close, TypeOK
    <2>2. ~Active(c)'
        BY <1>0, <1>6 DEF Close, TypeOK
    <2>3. QED
        BY <1>0, <1>6, <2>1, <2>2, ConstantsAssumption DEF Close, TypeOK
<1>7. ASSUME NEW c \in Clients, ReturnToken(c) PROVE TokenInv'
    BY <1>0, <1>7 DEF ReturnToken, TypeOK
<1>8. ASSUME NEW c \in Clients, FinishEvent(c) PROVE TokenInv'
    BY <1>0, <1>8 DEF FinishEvent, TypeOK
<1>9. CASE ProcessorCloseCall
    BY <1>0, <1>9 DEF ProcessorCloseCall
<1>10. CASE ProcessorCloseAcquire
    BY <1>0, <1>10 DEF ProcessorCloseAcquire, TypeOK
<1>11. CASE ProcessorCloseCancel
    BY <1>0, <1>11 DEF ProcessorCloseCancel
<1>12. CASE UNCHANGED vars
    BY <1>0, <1>12 DEF vars
<1>13. QED
    BY <1>1, <1>2, <1>3, <1>4, <1>5, <1>6, <1>7, <1>8, <1>9, <1>10,
       <1>11, <1>12 DEF Next

(* When each batch handle is closed once, as the code's callers do with   *)
(* one deferred Close, no two batches ever have a live transaction, and   *)
(* none is live once the processor's Close has taken the token.           *)
THEOREM BatchMutexHolds ==
    ASSUME CloseCalls = 1
    PROVE  Spec => [](BatchMutex /\ NoBatchAfterClose)
<1>1. Init => TokenInv
    BY TypeInit DEF Init, TokenInv, Holds, Active, TypeOK
<1>2. TokenInv => BatchMutex /\ NoBatchAfterClose
    BY DEF TokenInv, Holds, Active, BatchMutex, NoBatchAfterClose
<1>3. QED
    BY <1>1, <1>2, TokenInvInductive, PTL DEF Spec

(* Once the processor's Close holds the token, no batch has a live store  *)
(* transaction and none can open one, when each batch is closed once.     *)
THEOREM NoBatchAfterCloseHolds ==
    ASSUME CloseCalls = 1
    PROVE  Spec => []NoBatchAfterClose
BY BatchMutexHolds, PTL

-----------------------------------------------------------------------------
(* Refinement of BatchSlot.                                                *)

(* TokenInv holds initially.                                               *)
LEMMA TokenInvInit == Init => TokenInv
BY TypeInit DEF Init, TokenInv, Holds, Active, TypeOK

(* The initial state of the processor is an initial state of BatchSlot.   *)
LEMMA SlotInit == Init => Slot!Init
<1> SUFFICES ASSUME Init PROVE Slot!Init
    OBVIOUS
<1>1. SlotHolders = {}
    BY DEF Init, SlotHolders
<1>2. db \in DB
    BY TypeInit DEF TypeOK
<1>3. QED
    BY <1>1, <1>2 DEF Init, Slot!Init

(* Every step of the processor and its clients is a step of BatchSlot or  *)
(* leaves the slot and the store as they are.                             *)
LEMMA SlotStep ==
    ASSUME CloseCalls = 1
    PROVE  TokenInv /\ [Next]_vars => [Slot!Next]_(Slot!svars)
<1> SUFFICES ASSUME TokenInv, [Next]_vars PROVE [Slot!Next]_(Slot!svars)
    OBVIOUS
<1> USE DEF TokenInv, Holds, TypeOK
<1> DEFINE Stutter == UNCHANGED <<SlotHolders, proc = "closed", db>>
<1>0. Stutter => [Slot!Next]_(Slot!svars)
    BY DEF Slot!svars
<1>1. ASSUME NEW c \in Clients, OpenBatchCall(c) PROVE Stutter
    BY <1>1 DEF OpenBatchCall, SlotHolders
<1>2. ASSUME NEW c \in Clients, OpenBatch(c) PROVE [Slot!Next]_(Slot!svars)
    <2>1. CASE /\ chBatch' = 0
               /\ pc' = [pc EXCEPT ![c] = "batch"]
               /\ UNCHANGED <<proc, db, refused>>
        <3>1. SlotHolders = {} /\ proc # "closed"
            BY <1>2 DEF OpenBatch, SlotHolders
        <3>2. SlotHolders' = {c}
            BY <1>2, <2>1, <3>1 DEF SlotHolders
        <3>3. Slot!Acquire(c)
            BY <2>1, <3>1, <3>2 DEF Slot!Acquire
        <3>4. QED
            BY <3>3 DEF Slot!Next
    <2>2. CASE /\ pc' = [pc EXCEPT ![c] = "idle"]
               /\ UNCHANGED <<proc, db, refused>>
        BY <1>2, <2>2, <1>0 DEF OpenBatch, SlotHolders
    <2>3. QED
        BY <1>2, <2>1, <2>2 DEF OpenBatch
<1>3. ASSUME NEW c \in Clients, InsertTable(c) PROVE Stutter
    BY <1>3 DEF InsertTable, SlotHolders
<1>4. ASSUME NEW c \in Clients, ExecWriteQueries(c) PROVE Stutter
    BY <1>4 DEF ExecWriteQueries, SlotHolders
<1>5. ASSUME NEW c \in Clients, Commit(c) PROVE [Slot!Next]_(Slot!svars)
    <2>1. CASE db' = view[c]
        <3>1. c \in SlotHolders /\ db' \in DB
            BY <1>5, <2>1 DEF Commit, SlotHolders
        <3>2. Slot!Apply(c)
            BY <1>5, <3>1 DEF Commit, Slot!Apply, SlotHolders
        <3>3. QED
            BY <3>2 DEF Slot!Next
    <2>2. CASE UNCHANGED db
        BY <1>5, <2>2, <1>0 DEF Commit, SlotHolders
    <2>3. QED
        BY <1>5, <2>1, <2>2 DEF Commit
<1>6. ASSUME NEW c \in Clients, Close(c) PROVE Stutter
    <2>1. pc[c] = "batch"
        BY <1>6, ConstantsAssumption DEF Close
    <2>2. QED
        BY <1>6, <2>1 DEF Close, SlotHolders
<1>7. ASSUME NEW c \in Clients, ReturnToken(c) PROVE [Slot!Next]_(Slot!svars)
    <2>1. c \in SlotHolders /\ SlotHolders' = {}
        BY <1>7 DEF ReturnToken, SlotHolders
    <2>2. Slot!Release(c)
        BY <1>7, <2>1 DEF ReturnToken, Slot!Release
    <2>3. QED
        BY <2>2 DEF Slot!Next
<1>8. ASSUME NEW c \in Clients, FinishEvent(c) PROVE Stutter
    BY <1>8 DEF FinishEvent, SlotHolders
<1>9. CASE ProcessorCloseCall \/ ProcessorCloseCancel
    BY <1>9, <1>0 DEF ProcessorCloseCall, ProcessorCloseCancel, SlotHolders
<1>10. CASE ProcessorCloseAcquire
    <2>1. SlotHolders = {}
        BY <1>10 DEF ProcessorCloseAcquire, SlotHolders
    <2>2. Slot!Shutdown
        BY <1>10, <2>1 DEF ProcessorCloseAcquire, Slot!Shutdown, SlotHolders
    <2>3. QED
        BY <2>2 DEF Slot!Next
<1>11. CASE UNCHANGED vars
    BY <1>11, <1>0 DEF vars, SlotHolders
<1>12. QED
    BY <1>0, <1>1, <1>2, <1>3, <1>4, <1>5, <1>6, <1>7, <1>8, <1>9, <1>10,
       <1>11 DEF Next

(* When each batch handle is closed once, the processor implements the    *)
(* safety part of BatchSlot under the mapping SlotHolders: OpenBatch takes *)
(* the slot only when it is free and the processor is not shut, only the  *)
(* holder's Commit changes the committed store, and only ReturnToken and  *)
(* the processor's Close change who holds the slot.                        *)
THEOREM RefinesBatchSlot ==
    ASSUME CloseCalls = 1
    PROVE  Spec => Slot!SafeSpec
<1>1. []TokenInv /\ [][Next]_vars => [][Slot!Next]_(Slot!svars)
    BY SlotStep, PTL
<1>2. QED
    BY TokenInvInit, TokenInvInductive, SlotInit, <1>1, PTL DEF Spec, Slot!SafeSpec

-----------------------------------------------------------------------------
(* InsertTable is all or nothing.                                          *)

(* The inductive invariant behind TableAtomic: the committed store and    *)
(* every client's view are atomic, since Commit installs a view.          *)
AtomicInv ==
    /\ TypeOK
    /\ Atomic(db)
    /\ \A c \in Clients : Atomic(view[c])

(* The empty store is atomic.                                              *)
LEMMA EmptyAtomic == Atomic(EmptyDB)
BY DEF Atomic, EmptyDB

(* An InsertTable whose three statements all ran keeps a store atomic: it *)
(* runs only on an id with no registry row and no relation.                *)
LEMMA InsertTableAtomic ==
    ASSUME NEW v \in DB, NEW id \in TableIDs, NEW controller \in Addrs,
           NEW failAt \in 0..3,
           Atomic(v), InsertTableFailsAt(v, id, failAt) = 0
    PROVE  Atomic(InsertTableWrites(v, id, controller, 3))
<1>1. v.registry[id] = NoTable /\ id \notin v.tables
    BY DEF InsertTableFailsAt
<1>2. controller # NoTable
    BY ConstantsAssumption
<1>3. QED
    BY <1>1, <1>2 DEF Atomic, InsertTableWrites, DB

(* A successful ExecWriteQueries keeps a store atomic: it changes only    *)
(* the row count and the system_acl rows of a table that is registered.   *)
LEMMA ExecWriteAtomic ==
    ASSUME NEW v \in DB, NEW committed, NEW controller, NEW t \in TableIDs,
           NEW mqueries, NEW failAt,
           Atomic(v),
           ExecWriteResult(v, committed, controller, t, mqueries, failAt).err = NoErr
    PROVE  Atomic(ExecWriteResult(v, committed, controller, t, mqueries, failAt).v)
<1>1. CASE Len(mqueries) = 0
    BY <1>1 DEF ExecWriteResult, Ok
<1>2. CASE Len(mqueries) # 0
    <2>1. v.registry[t] # NoTable /\ t \in v.tables
        BY <1>2 DEF ExecWriteResult, Fail, NoErr
    <2> DEFINE ts == ExecLoop(v, committed, controller, t, mqueries, failAt).v
    <2>2. ExecWriteResult(v, committed, controller, t, mqueries, failAt).v
            = WithTableState(v, t, ts)
        BY <1>2, <2>1 DEF ExecWriteResult
    <2>3. /\ WithTableState(v, t, ts).registry = v.registry
          /\ WithTableState(v, t, ts).tables = v.tables
          /\ \A u \in TableIDs \ {t} : WithTableState(v, t, ts).systemAcl[u] = v.systemAcl[u]
        BY DEF WithTableState, DB
    <2>4. QED
        BY <2>1, <2>2, <2>3 DEF Atomic
<1>3. QED
    BY <1>1, <1>2

(* AtomicInv holds initially.                                              *)
LEMMA AtomicInit == Init => AtomicInv
BY TypeInit, EmptyAtomic DEF Init, AtomicInv

(* Every step keeps AtomicInv.                                             *)
LEMMA AtomicStep == AtomicInv /\ [Next]_vars => AtomicInv'
<1> SUFFICES ASSUME AtomicInv, [Next]_vars PROVE AtomicInv'
    OBVIOUS
<1>0. TypeOK'
    BY TypeStep DEF AtomicInv
<1> USE DEF AtomicInv
(* The actions that leave db and view alone.                              *)
<1>1. CASE UNCHANGED <<db, view>>
    BY <1>0, <1>1
<1>2. ASSUME NEW c \in Clients, OpenBatch(c) PROVE AtomicInv'
    BY <1>0, <1>2 DEF OpenBatch, TypeOK
<1>3. ASSUME NEW c \in Clients, InsertTable(c) PROVE AtomicInv'
    <2>1. PICK id \in TableIDs, controller \in Addrs, failAt \in 0..3, abortTx \in BOOLEAN :
            AfterSavepoint(c,
                IF InsertTableFailsAt(view[c], id, failAt) = 0
                THEN Ok(InsertTableWrites(view[c], id, controller, 3))
                ELSE Fail(view[c], "InsertTable"),
                abortTx)
        BY <1>3 DEF InsertTable
    <2>2. CASE InsertTableFailsAt(view[c], id, failAt) = 0
        <3>1. Atomic(InsertTableWrites(view[c], id, controller, 3))
            BY <2>2, InsertTableAtomic DEF TypeOK
        <3>2. view' = [view EXCEPT ![c] = InsertTableWrites(view[c], id, controller, 3)]
            BY <2>1, <2>2 DEF AfterSavepoint, Ok, NoErr
        <3>3. QED
            BY <1>0, <1>3, <3>1, <3>2 DEF InsertTable, TypeOK
    <2>3. CASE InsertTableFailsAt(view[c], id, failAt) # 0
        <3>1. view' = view
            BY <2>1, <2>3 DEF AfterSavepoint, Fail, NoErr
        <3>2. QED
            BY <1>0, <1>3, <3>1 DEF InsertTable
    <2>4. QED
        BY <2>2, <2>3
<1>4. ASSUME NEW c \in Clients, ExecWriteQueries(c) PROVE AtomicInv'
    <2>1. PICK controller \in Addrs, t \in TableIDs,
               mqueries \in BoundedSeq(Stmts, MaxStmts), abortTx \in BOOLEAN :
            \E failAt \in 0..Len(mqueries) :
            LET r == ExecWriteResult(view[c], db, controller, t, mqueries, failAt)
            IN  /\ r.err = NoErr => r.v \in DB
                /\ AfterSavepoint(c, r, abortTx)
                /\ refused' = [refused EXCEPT ![c] =
                                  IF r.err = "NotOwner" THEN {<<controller, t>>} ELSE {}]
        BY <1>4 DEF ExecWriteQueries
    <2>2. PICK failAt \in 0..Len(mqueries) :
            AfterSavepoint(c, ExecWriteResult(view[c], db, controller, t, mqueries, failAt),
                           abortTx)
        BY <2>1
    <2> DEFINE r == ExecWriteResult(view[c], db, controller, t, mqueries, failAt)
    <2>3. CASE r.err = NoErr
        <3>1. Atomic(r.v)
            BY <2>3, ExecWriteAtomic DEF TypeOK
        <3>2. view' = [view EXCEPT ![c] = r.v]
            BY <2>2, <2>3 DEF AfterSavepoint
        <3>3. QED
            BY <1>0, <1>4, <3>1, <3>2 DEF ExecWriteQueries, TypeOK
    <2>4. CASE r.err # NoErr
        <3>1. view' = view
            BY <2>2, <2>4 DEF AfterSavepoint
        <3>2. QED
            BY <1>0, <1>4, <3>1 DEF ExecWriteQueries
    <2>5. QED
        BY <2>3, <2>4
<1>5. ASSUME NEW c \in Clients, Commit(c) PROVE AtomicInv'
    BY <1>0, <1>5 DEF Commit
<1>6. ASSUME NEW c \in Clients, FinishEvent(c) PROVE AtomicInv'
    BY <1>0, <1>6, EmptyAtomic DEF FinishEvent, TypeOK
<1>7. QED
    BY <1>1, <1>2, <1>3, <1>4, <1>5, <1>6
       DEF Next, vars, OpenBatchCall, Close, ReturnToken, ProcessorCloseCall,
           ProcessorCloseAcquire, ProcessorCloseCancel

(* InsertTable is all or nothing, for any number of clients, tables and   *)
(* Close calls: in the committed store and in every batch's view, a table *)
(* id has its registry row exactly when its relation exists, and an id    *)
(* never registered has no privileges in system_acl.                      *)
THEOREM TableAtomicHolds == Spec => []TableAtomic
<1>1. AtomicInv => TableAtomic
    BY DEF AtomicInv, TableAtomic
<1>2. QED
    BY <1>1, AtomicInit, AtomicStep, PTL DEF Spec

-----------------------------------------------------------------------------
(* The row-cap check of one statement.  These lemmas are about the        *)
(* operators only: RowCap itself fails once a call has two inserts        *)
(* (run rowcap_multi), and over any number of statements it would need    *)
(* induction over the statement loop, so it stays with TLC.               *)

(* The loop of ExecWriteQueries over one statement runs that statement on *)
(* the table's rows as they were when the call started.                   *)
LEMMA ExecLoopOne ==
    ASSUME NEW v, NEW committed, NEW controller, NEW t, NEW mqueries, NEW failAt,
           Len(mqueries) = 1
    PROVE  ExecLoop(v, committed, controller, t, mqueries, failAt)
             = ExecStmt(TableState(v, t), committed, controller, t, v.rows[t],
                        mqueries[1], 1 = failAt)
<1> DEFINE ts0 == TableState(v, t)
           Body(g, i) == IF i = 0 THEN Ok(ts0)
                         ELSE IF g[i - 1].err # NoErr THEN g[i - 1]
                         ELSE ExecStmt(g[i - 1].v, committed, controller, t,
                                       v.rows[t], mqueries[i], i = failAt)
           g0 == [i \in 0..1 |-> IF i = 0 THEN Ok(ts0)
                                ELSE ExecStmt(ts0, committed, controller, t,
                                              v.rows[t], mqueries[1], 1 = failAt)]
<1>1. g0 = [i \in 0..1 |-> Body(g0, i)]
    BY DEF Ok, NoErr
<1>2. \E g : g = [i \in 0..Len(mqueries) |-> Body(g, i)]
    BY <1>1
<1>3. QED
    BY <1>2 DEF ExecLoop, Ok, NoErr

(* A store whose user tables all hold at most maxTableRowCount rows.       *)
CapOK(v) ==
    maxTableRowCount > 0 => \A t \in v.tables : v.rows[t] <= maxTableRowCount

(* One statement that succeeds leaves table t at most at the cap when it  *)
(* started there: grants leave the rows alone, and a write that would      *)
(* pass the cap fails the check of executeWriteStmt.                       *)
LEMMA ExecStmtCap ==
    ASSUME NEW ts, NEW committed, NEW controller, NEW t, NEW s \in StmtType,
           NEW storeFails, NEW before \in Nat,
           ts.rows = before, maxTableRowCount > 0, before <= maxTableRowCount,
           ExecStmt(ts, committed, controller, t, before, s, storeFails).err = NoErr
    PROVE  ExecStmt(ts, committed, controller, t, before, s, storeFails).v.rows
             <= maxTableRowCount
<1> DEFINE r == ExecStmt(ts, committed, controller, t, before, s, storeFails)
<1>1. CASE ~s.hintOk
    BY <1>1 DEF r, ExecStmt, Fail, NoErr
<1>2. CASE s.hintOk /\ s.kind = "grant"
    <2>1. r = executeGrantStmt(ts, committed, controller, t, s, storeFails)
        BY <1>2 DEF r, ExecStmt
    <2>2. r.v.rows = ts.rows
        BY <2>1 DEF executeGrantStmt, Ok, Fail
    <2>3. QED
        BY <2>2 DEF r
<1>3. CASE s.hintOk /\ s.kind = "write"
    <2>1. r = executeWriteStmt(ts, controller, before, s, storeFails)
        BY <1>3 DEF r, ExecStmt
    <2>2. /\ r.v.rows = RowsAfter(before, s.op, s.rows)
          /\ ~RowCountExceeded(before, s.op, s.rows)
        BY <2>1 DEF executeWriteStmt, Ok, Fail, NoErr
    <2>3. s.rows \in Nat
        BY DEF StmtType
    <2>4. CASE s.op = OpInsert
        BY <2>2, <2>3, <2>4, ConstantsAssumption DEF r, RowsAfter, RowCountExceeded
    <2>5. CASE s.op = OpDelete
        <3>1. RowsAfter(before, s.op, s.rows) = IF s.rows > before THEN 0 ELSE before - s.rows
            BY <2>5 DEF RowsAfter, OpDelete, OpInsert
        <3>2. QED
            BY <2>2, <2>3, <3>1, ConstantsAssumption DEF r
    <2>6. CASE s.op # OpInsert /\ s.op # OpDelete
        <3>1. RowsAfter(before, s.op, s.rows) = before
            BY <2>6 DEF RowsAfter
        <3>2. QED
            BY <2>2, <3>1, ConstantsAssumption DEF r
    <2>7. QED
        BY <2>4, <2>5, <2>6
<1>4. QED
    BY <1>1, <1>2, <1>3 DEF StmtType

(* A successful ExecWriteQueries call of at most one statement keeps a    *)
(* store within the cap.                                                   *)
LEMMA ExecWriteCap ==
    ASSUME NEW v \in DB, NEW committed, NEW controller, NEW t \in TableIDs,
           NEW mqueries, NEW failAt,
           Len(mqueries) \in {0, 1}, Len(mqueries) = 1 => mqueries[1] \in StmtType,
           CapOK(v),
           ExecWriteResult(v, committed, controller, t, mqueries, failAt).err = NoErr
    PROVE  CapOK(ExecWriteResult(v, committed, controller, t, mqueries, failAt).v)
<1>1. CASE Len(mqueries) = 0
    BY <1>1 DEF ExecWriteResult, Ok
<1>2. CASE Len(mqueries) = 1
    <2>1. v.registry[t] # NoTable /\ t \in v.tables
        BY <1>2 DEF ExecWriteResult, Fail, NoErr
    <2> DEFINE x == ExecStmt(TableState(v, t), committed, controller, t, v.rows[t],
                             mqueries[1], 1 = failAt)
    <2>2. ExecWriteResult(v, committed, controller, t, mqueries, failAt)
            = [v |-> WithTableState(v, t, x.v), err |-> x.err]
        BY <1>2, <2>1, ExecLoopOne DEF ExecWriteResult
    <2>3. CASE maxTableRowCount > 0
        <3>1. TableState(v, t).rows = v.rows[t] /\ v.rows[t] \in Nat
              /\ v.rows[t] <= maxTableRowCount
            BY <2>1, <2>3 DEF TableState, CapOK, DB
        <3>2. x.v.rows <= maxTableRowCount
            BY <1>2, <2>2, <2>3, <3>1, ExecStmtCap, ConstantsAssumption DEF x
        <3> DEFINE w == WithTableState(v, t, x.v)
        <3>3. /\ w.tables = v.tables
              /\ w.rows[t] = x.v.rows
              /\ \A u \in TableIDs \ {t} : w.rows[u] = v.rows[u]
            BY DEF w, WithTableState, DB
        <3>4. v.tables \subseteq TableIDs
            BY DEF DB
        <3>5. CapOK(w)
            <4>1. SUFFICES ASSUME NEW u \in w.tables PROVE w.rows[u] <= maxTableRowCount
                BY DEF CapOK
            <4>2. CASE u = t
                BY <3>2, <3>3, <4>2
            <4>3. CASE u # t
                BY <2>3, <3>3, <3>4, <4>3 DEF CapOK
            <4>4. QED
                BY <4>2, <4>3
        <3>6. QED
            BY <2>2, <3>5 DEF w
    <2>4. CASE ~(maxTableRowCount > 0)
        BY <2>4 DEF CapOK
    <2>5. QED
        BY <2>3, <2>4
<1>3. QED
    BY <1>1, <1>2

-----------------------------------------------------------------------------
(* Registry rows are stable.                                               *)

(* ExecWriteQueries never touches the registry.                            *)
LEMMA ExecWriteRegistry ==
    ASSUME NEW v \in DB, NEW committed, NEW controller, NEW t \in TableIDs,
           NEW mqueries, NEW failAt
    PROVE  ExecWriteResult(v, committed, controller, t, mqueries, failAt).v.registry
             = v.registry
BY DEF ExecWriteResult, WithTableState, Ok, Fail, DB

(* The view w keeps every registry row of the committed store d.          *)
Agrees(w, d) ==
    \A t \in TableIDs : d.registry[t] # NoTable => w.registry[t] = d.registry[t]

(* The inductive invariant behind RegistryStable: a transaction that may  *)
(* still commit (open, and not overtaken by another commit since its      *)
(* BeginTx) sees every committed registry row as it is.                   *)
FreshInv ==
    /\ TypeOK
    /\ \A c \in Clients : bst[c] = "open" /\ ~stale[c] => Agrees(view[c], db)

(* The step of RegistryStable.                                             *)
RegistryStep ==
    \A t \in TableIDs : db.registry[t] # NoTable => db'.registry[t] = db.registry[t]

(* InsertTable registers only an id its view has no row for, so a fresh   *)
(* view still agrees with the committed store after it.                   *)
LEMMA InsertTableAgrees ==
    ASSUME NEW w \in DB, NEW d \in DB, NEW id \in TableIDs, NEW controller,
           NEW failAt, Agrees(w, d), InsertTableFailsAt(w, id, failAt) = 0
    PROVE  Agrees(InsertTableWrites(w, id, controller, 3), d)
<1>1. w.registry[id] = NoTable
    BY DEF InsertTableFailsAt
<1>2. d.registry[id] = NoTable
    BY <1>1 DEF Agrees
<1>3. QED
    BY <1>2 DEF Agrees, InsertTableWrites, DB

LEMMA FreshInit == Init => FreshInv
BY TypeInit DEF Init, FreshInv

(* Every step keeps FreshInv, for any number of Close calls.               *)
LEMMA FreshStep == FreshInv /\ [Next]_vars => FreshInv'
<1> SUFFICES ASSUME FreshInv, [Next]_vars PROVE FreshInv'
    OBVIOUS
<1>0. TypeOK'
    BY TypeStep DEF FreshInv
<1> USE DEF FreshInv
<1>1. CASE UNCHANGED <<bst, view, stale, db>>
    BY <1>0, <1>1
<1>2. ASSUME NEW c \in Clients, OpenBatch(c) PROVE FreshInv'
    <2>1. CASE /\ bst' = [bst EXCEPT ![c] = "open"]
               /\ view' = [view EXCEPT ![c] = db]
               /\ stale' = [stale EXCEPT ![c] = FALSE]
               /\ UNCHANGED db
        <3>1. Agrees(db, db)
            BY DEF Agrees
        <3>2. QED
            BY <1>0, <2>1, <3>1 DEF TypeOK
    <2>2. CASE UNCHANGED <<bst, view, stale, db>>
        BY <1>0, <2>2
    <2>3. QED
        BY <1>2, <2>1, <2>2 DEF OpenBatch
<1>3. ASSUME NEW c \in Clients, InsertTable(c) PROVE FreshInv'
    <2>1. PICK id \in TableIDs, controller \in Addrs, failAt \in 0..3, abortTx \in BOOLEAN :
            AfterSavepoint(c,
                IF InsertTableFailsAt(view[c], id, failAt) = 0
                THEN Ok(InsertTableWrites(view[c], id, controller, 3))
                ELSE Fail(view[c], "InsertTable"),
                abortTx)
        BY <1>3 DEF InsertTable
    <2>2. UNCHANGED <<stale, db>> /\ bst[c] = "open"
        BY <1>3 DEF InsertTable
    <2>3. CASE InsertTableFailsAt(view[c], id, failAt) = 0
        <3>1. view' = [view EXCEPT ![c] = InsertTableWrites(view[c], id, controller, 3)]
              /\ bst' = bst
            BY <2>1, <2>3 DEF AfterSavepoint, Ok, NoErr
        <3>2. ~stale[c] => Agrees(InsertTableWrites(view[c], id, controller, 3), db)
            BY <2>2, <2>3, InsertTableAgrees DEF TypeOK
        <3>3. QED
            BY <1>0, <2>2, <3>1, <3>2 DEF TypeOK
    <2>4. CASE InsertTableFailsAt(view[c], id, failAt) # 0
        <3>1. view' = view
              /\ bst' = [bst EXCEPT ![c] = IF abortTx THEN "aborted" ELSE "open"]
            BY <2>1, <2>4 DEF AfterSavepoint, Fail, NoErr
        <3>2. QED
            BY <1>0, <2>2, <3>1 DEF TypeOK
    <2>5. QED
        BY <2>3, <2>4
<1>4. ASSUME NEW c \in Clients, ExecWriteQueries(c) PROVE FreshInv'
    <2>1. PICK controller \in Addrs, t \in TableIDs,
               mqueries \in BoundedSeq(Stmts, MaxStmts), abortTx \in BOOLEAN :
            \E failAt \in 0..Len(mqueries) :
            LET r == ExecWriteResult(view[c], db, controller, t, mqueries, failAt)
            IN  /\ r.err = NoErr => r.v \in DB
                /\ AfterSavepoint(c, r, abortTx)
                /\ refused' = [refused EXCEPT ![c] =
                                  IF r.err = "NotOwner" THEN {<<controller, t>>} ELSE {}]
        BY <1>4 DEF ExecWriteQueries
    <2>2. PICK failAt \in 0..Len(mqueries) :
            AfterSavepoint(c, ExecWriteResult(view[c], db, controller, t, mqueries, failAt),
                           abortTx)
        BY <2>1
    <2> DEFINE r == ExecWriteResult(view[c], db, controller, t, mqueries, failAt)
    <2>3. UNCHANGED <<stale, db>> /\ bst[c] = "open"
        BY <1>4 DEF ExecWriteQueries
    <2>4. CASE r.err = NoErr
        <3>1. view' = [view EXCEPT ![c] = r.v] /\ bst' = bst
            BY <2>2, <2>4 DEF AfterSavepoint
        <3>2. r.v.registry = view[c].registry
            BY ExecWriteRegistry DEF TypeOK
        <3>3. ~stale[c] => Agrees(r.v, db)
            BY <2>3, <3>2 DEF Agrees
        <3>4. QED
            BY <1>0, <2>3, <3>1, <3>3 DEF TypeOK
    <2>5. CASE r.err # NoErr
        <3>1. view' = view
              /\ bst' = [bst EXCEPT ![c] = IF abortTx THEN "aborted" ELSE "open"]
            BY <2>2, <2>5 DEF AfterSavepoint
        <3>2. QED
            BY <1>0, <2>3, <3>1 DEF TypeOK
    <2>6. QED
        BY <2>4, <2>5
<1>5. ASSUME NEW c \in Clients, Commit(c) PROVE FreshInv'
    <2>1. CASE /\ bst[c] = "open"
               /\ ~stale[c]
               /\ db' = view[c]
               /\ bst' = [bst EXCEPT ![c] = "committed"]
               /\ stale' = [d \in Clients |-> IF d # c /\ Active(d) THEN TRUE ELSE stale[d]]
               /\ UNCHANGED view
        BY <1>0, <2>1 DEF Active, TypeOK
    <2>2. CASE /\ bst' = [bst EXCEPT ![c] = "rolledback"]
               /\ UNCHANGED <<stale, db, view>>
        BY <1>0, <2>2 DEF TypeOK
    <2>3. QED
        BY <1>5, <2>1, <2>2 DEF Commit
<1>6. ASSUME NEW c \in Clients, Close(c) PROVE FreshInv'
    <2>1. bst'[c] # "open" /\ \A d \in Clients \ {c} : bst'[d] = bst[d]
        BY <1>6 DEF Close, Active, TypeOK
    <2>2. QED
        BY <1>0, <1>6, <2>1 DEF Close
<1>7. ASSUME NEW c \in Clients, FinishEvent(c) PROVE FreshInv'
    BY <1>0, <1>7 DEF FinishEvent, TypeOK
<1>8. QED
    BY <1>1, <1>2, <1>3, <1>4, <1>5, <1>6, <1>7
       DEF Next, vars, OpenBatchCall, ReturnToken, ProcessorCloseCall,
           ProcessorCloseAcquire, ProcessorCloseCancel

(* Only a Commit changes the committed store, and it installs a view that *)
(* agrees with every committed registry row.                              *)
LEMMA RegistryStepHolds == FreshInv /\ [Next]_vars => [RegistryStep]_vars
<1> SUFFICES ASSUME FreshInv, [Next]_vars PROVE [RegistryStep]_vars
    OBVIOUS
<1>1. CASE \E c \in Clients : Commit(c) /\ db' = view[c]
    <2>1. PICK c \in Clients : Commit(c) /\ db' = view[c]
        BY <1>1
    <2>2. CASE bst[c] = "open" /\ ~stale[c]
        BY <2>1, <2>2 DEF FreshInv, Agrees, RegistryStep
    <2>3. CASE ~(bst[c] = "open" /\ ~stale[c])
        <3>1. UNCHANGED db
            BY <2>1, <2>3 DEF Commit
        <3>2. QED
            BY <3>1 DEF RegistryStep
    <2>4. QED
        BY <2>2, <2>3
<1>2. CASE ~\E c \in Clients : Commit(c) /\ db' = view[c]
    <2>1. UNCHANGED db
        BY <1>2 DEF Next, vars, OpenBatchCall, OpenBatch, InsertTable, ExecWriteQueries,
                    Commit, Close, ReturnToken, FinishEvent, ProcessorCloseCall,
                    ProcessorCloseAcquire, ProcessorCloseCancel
    <2>2. QED
        BY <2>1 DEF RegistryStep
<1>3. QED
    BY <1>1, <1>2

(* A committed registry row is never changed or removed, for any number   *)
(* of clients, tables and Close calls: even when a double Close lets two  *)
(* batches run at once, the duplicate-key failure of the registry INSERT, *)
(* the savepoint rollback and the SERIALIZABLE commit keep every table id *)
(* with the controller it was first committed with.                       *)
THEOREM RegistryStableHolds == Spec => RegistryStable
<1>1. []FreshInv /\ [][Next]_vars => [][RegistryStep]_vars
    BY RegistryStepHolds, PTL
<1>2. QED
    BY <1>1, FreshInit, FreshStep, PTL DEF Spec, RegistryStable, RegistryStep
=============================================================================
