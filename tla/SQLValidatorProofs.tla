------------------------- MODULE SQLValidatorProofs -------------------------
(***************************************************************************)
(* Proofs about the SQL validator, for every set of inputs and whatever   *)
(* the three tree walkers return.                                          *)
(***************************************************************************)
EXTENDS SQLValidator, WellFoundedInduction, TLAPS

-----------------------------------------------------------------------------
(* The first-error operator Seq1.                                          *)

(* A non-empty set of naturals has a least element.                        *)
LEMMA LeastIndex ==
    ASSUME NEW T \in SUBSET Nat, T # {}
    PROVE  \E i \in T : \A j \in T : ~(j < i)
<1>1. \E x \in T : \A y \in T : ~(<<y, x>> \in OpToRel(<, Nat))
    BY NatLessThanWellFounded, WFMin, Zenon
<1>2. QED
    BY <1>1 DEF OpToRel

(* A list of checks passes (Seq1 returns Ok) exactly when every check     *)
(* in it returned Ok: the first error is never missed.                     *)
LEMMA Seq1Ok ==
    ASSUME NEW errs, Len(errs) \in Nat
    PROVE  Seq1(errs) = Ok <=> \A i \in 1..Len(errs) : errs[i] = Ok
<1>1. CASE \A i \in 1..Len(errs) : errs[i] = Ok
    BY <1>1 DEF Seq1
<1>2. CASE \E i \in 1..Len(errs) : errs[i] # Ok
    <2> DEFINE T == {i \in 1..Len(errs) : errs[i] # Ok}
    <2>1. T \in SUBSET Nat /\ T # {}
        BY <1>2
    <2>2. PICK m \in T : \A j \in T : ~(j < m)
        BY <2>1, LeastIndex
    <2>3. \E i \in 1..Len(errs) : errs[i] # Ok /\ \A j \in 1..i - 1 : errs[j] = Ok
        BY <2>2
    <2>4. Seq1(errs) # Ok
        BY <1>2, <2>3 DEF Seq1
    <2>5. QED
        BY <2>4, <1>2
<1>3. QED
    BY <1>1, <1>2

-----------------------------------------------------------------------------
(* ValidateRunSQL.                                                         *)

USE DEF Ok, Undefined

(* The statements of a parse result are a list.                            *)
LEMMA StmtsSeq ==
    ASSUME NEW p \in RunInputs \cup CreateInputs
    PROVE  /\ p.ok \in BOOLEAN
           /\ p.stmts \in Seq(Range(p.stmts))
           /\ Len(p.stmts) \in Nat
           /\ DOMAIN p.stmts = 1..Len(p.stmts)
BY ParseAssumption

(* An accepted read is a parse result whose one statement is a SELECT     *)
(* that passed validateReadQuery.                                          *)
LEMMA AcceptedReadShape ==
    ASSUME NEW p \in RunInputs, ValidateRunSQL(p).qtype = "ReadQuery"
    PROVE  /\ Len(p.stmts) = 1
           /\ validateReadQuery(p.stmts[1]) = Ok
           /\ ValidateRunSQL(p).err = Ok
<1>1. p.ok /\ p.stmts # <<>> /\ p.stmts[1].k = "SelectStmt"
    BY StmtsSeq DEF ValidateRunSQL, Result, checkNonEmptyStatement, ValidateWrites
<1> DEFINE e == Seq1(<<checkSingleStatement(p), validateReadQuery(p.stmts[1])>>)
<1>2. e = Ok
    BY <1>1, StmtsSeq DEF ValidateRunSQL, Result, checkNonEmptyStatement, e
<1>3. checkSingleStatement(p) = Ok /\ validateReadQuery(p.stmts[1]) = Ok
    BY <1>2, Seq1Ok DEF e
<1>4. QED
    BY <1>1, <1>2, <1>3, StmtsSeq DEF checkSingleStatement, ValidateRunSQL, Result,
       checkNonEmptyStatement, e

(* An accepted write is a parse result every statement of which passed    *)
(* the loop's checks, and the result is what the loop returns.             *)
LEMMA AcceptedWritesShape ==
    ASSUME NEW p \in RunInputs, ValidateRunSQL(p).qtype = "WriteQuery"
    PROVE  /\ \A i \in 1..Len(p.stmts) : writeStmtErr(p.stmts, i) = Ok
           /\ ValidateRunSQL(p) = Result("WriteQuery", Ok,
                    [i \in 1..Len(p.stmts) |-> getReferencedTable(p.stmts[i])])
<1>1. p.ok /\ p.stmts # <<>> /\ p.stmts[1].k # "SelectStmt"
    BY StmtsSeq DEF ValidateRunSQL, Result, checkNonEmptyStatement
<1>2. ValidateRunSQL(p) = ValidateWrites(p.stmts)
    BY <1>1 DEF ValidateRunSQL, checkNonEmptyStatement
<1> DEFINE errs == [i \in 1..Len(p.stmts) |-> writeStmtErr(p.stmts, i)]
<1>3. Seq1(errs) = Ok
    BY <1>2 DEF ValidateWrites, Result, errs
<1>4. Len(errs) = Len(p.stmts) /\ Len(errs) \in Nat
    BY StmtsSeq DEF errs
<1>5. \A i \in 1..Len(p.stmts) : writeStmtErr(p.stmts, i) = Ok
    BY <1>3, <1>4, Seq1Ok DEF errs
<1>6. QED
    BY <1>2, <1>3, <1>5 DEF ValidateWrites, errs

(* A statement that passed validateWriteQuery has no RETURNING list.       *)
LEMMA ValidWriteNoReturning ==
    ASSUME NEW n, validateWriteQuery(n) = Ok
    PROVE  n.returningList = <<>>
<1>1. checkNoReturningClause(n) = Ok
    BY Seq1Ok DEF validateWriteQuery
<1>2. QED
    BY <1>1 DEF checkNoReturningClause

(* A SELECT that passed validateReadQuery has no locking clause.           *)
LEMMA ValidReadUnlocked ==
    ASSUME NEW n, validateReadQuery(n) = Ok
    PROVE  n.lockingClause = <<>>
<1>1. checkNoForUpdateOrShare(n) = Ok
    BY Seq1Ok DEF validateReadQuery
<1>2. QED
    BY <1>1 DEF checkNoForUpdateOrShare

(* ValidateRunSQL types its result: it is Ok exactly when the query type  *)
(* is defined.                                                             *)
LEMMA RunSQLType ==
    ASSUME NEW p \in RunInputs
    PROVE  /\ ValidateRunSQL(p).qtype \in {"ReadQuery", "WriteQuery", Undefined}
           /\ (ValidateRunSQL(p).err = Ok) <=> (ValidateRunSQL(p).qtype # Undefined)
BY DEF ValidateRunSQL, ValidateWrites, Result

(* ValidateCreateTable returns a table exactly when it returns no error.   *)
LEMMA CreateTableType ==
    ASSUME NEW p \in CreateInputs
    PROVE  (ValidateCreateTable(p).err = Ok) <=> (ValidateCreateTable(p).create # Nil)
BY DEF ValidateCreateTable, genCreateStmt, Nil

-----------------------------------------------------------------------------
(* The validator's state.                                                  *)

(* The inductive invariant: between calls the state is empty, and after a *)
(* call it holds the input and what the validator returned for it.        *)
ResultInv ==
    \/ input = [path |-> "none"] /\ out = [err |-> "none"]
    \/ \E p \in RunInputs :
          input = [path |-> "run", parsed |-> p] /\ out = ValidateRunSQL(p)
    \/ \E p \in CreateInputs :
          input = [path |-> "create", parsed |-> p] /\ out = ValidateCreateTable(p)

LEMMA ResultInvInductive == Spec => []ResultInv
<1>1. Init => ResultInv
    BY DEF Init, ResultInv
<1>2. ResultInv /\ [Next]_vars => ResultInv'
    BY DEF ResultInv, Next, vars, RunSQL, CreateTable, Return
<1>3. QED
    BY <1>1, <1>2, PTL DEF Spec

(* Every state of the validator is well typed, and its result is Ok      *)
(* exactly when it carries a query type or a table, for every set of      *)
(* inputs and whatever the tree walkers return.                            *)
THEOREM ValidatorTypeCorrect == Spec => []TypeOK
<1>1. ResultInv => TypeOK
    BY RunSQLType, CreateTableType DEF ResultInv, TypeOK
<1>2. QED
    BY <1>1, ResultInvInductive, PTL

(* Every write ValidateRunSQL accepts returns, for each statement, the one *)
(* table all the statements reference (spec invariant 2): the same-table  *)
(* check of the loop at part_002:307 is never skipped.                     *)
THEOREM WriteSingleTableHolds == Spec => []WriteSingleTable
<1>1. ResultInv => WriteSingleTable
    <2> SUFFICES ASSUME ResultInv, input.path = "run", out.qtype = "WriteQuery"
                 PROVE  LET stmts == input.parsed.stmts
                        IN  /\ out.tables = [i \in 1..Len(stmts) |-> stmts[i].relation]
                            /\ \A i \in 1..Len(stmts) : stmts[i].relation = stmts[1].relation
        BY DEF WriteSingleTable
    <2>1. PICK p \in RunInputs : input = [path |-> "run", parsed |-> p] /\ out = ValidateRunSQL(p)
        BY DEF ResultInv
    <2>2. /\ \A i \in 1..Len(p.stmts) : writeStmtErr(p.stmts, i) = Ok
          /\ out = Result("WriteQuery", Ok,
                     [i \in 1..Len(p.stmts) |-> getReferencedTable(p.stmts[i])])
        BY <2>1, AcceptedWritesShape
    <2>3. ASSUME NEW i \in 1..Len(p.stmts) PROVE p.stmts[i].relation = p.stmts[1].relation
        <3>1. validateWriteQuery(p.stmts[1]) = Ok
            BY <2>2 DEF writeStmtErr
        <3>2. QED
            BY <2>2, <3>1 DEF writeStmtErr, getReferencedTable
    <2>4. QED
        BY <2>1, <2>2, <2>3 DEF Result, getReferencedTable
<1>2. QED
    BY <1>1, ResultInvInductive, PTL

(* No write ValidateRunSQL accepts has a RETURNING list (spec invariant   *)
(* 4), however many statements the input has.                             *)
THEOREM WriteNoReturningHolds == Spec => []WriteNoReturning
<1>1. ResultInv => WriteNoReturning
    <2> SUFFICES ASSUME ResultInv, NEW s \in AcceptedWrites PROVE s.returningList = <<>>
        BY DEF WriteNoReturning
    <2>1. input.path = "run" /\ out.qtype = "WriteQuery"
        BY DEF AcceptedWrites
    <2>2. PICK p \in RunInputs : input = [path |-> "run", parsed |-> p] /\ out = ValidateRunSQL(p)
        BY <2>1 DEF ResultInv
    <2>3. PICK i \in 1..Len(p.stmts) : s = p.stmts[i]
        BY <2>1, <2>2, StmtsSeq DEF AcceptedWrites, ToSet
    <2>4. validateWriteQuery(p.stmts[i]) = Ok
        BY <2>1, <2>2, AcceptedWritesShape DEF writeStmtErr
    <2>5. QED
        BY <2>3, <2>4, ValidWriteNoReturning
<1>2. QED
    BY <1>1, ResultInvInductive, PTL

(* Every read ValidateRunSQL accepts is one SELECT without FOR UPDATE or  *)
(* FOR SHARE (spec section 4.1 (a)).                                       *)
THEOREM ReadSingleUnlockedHolds == Spec => []ReadSingleUnlocked
<1>1. ResultInv => ReadSingleUnlocked
    <2> SUFFICES ASSUME ResultInv, AcceptedRead
                 PROVE  /\ Len(input.parsed.stmts) = 1
                        /\ input.parsed.stmts[1].lockingClause = <<>>
        BY DEF ReadSingleUnlocked
    <2>1. PICK p \in RunInputs : input = [path |-> "run", parsed |-> p] /\ out = ValidateRunSQL(p)
        BY DEF ResultInv, AcceptedRead
    <2>2. Len(p.stmts) = 1 /\ validateReadQuery(p.stmts[1]) = Ok
        BY <2>1, AcceptedReadShape DEF AcceptedRead
    <2>3. QED
        BY <2>1, <2>2, ValidReadUnlocked
<1>2. QED
    BY <1>1, ResultInvInductive, PTL

=============================================================================
