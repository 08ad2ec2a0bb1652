---------------------------- MODULE SQLValidator ----------------------------
(***************************************************************************)
(* The SQL validator of pkg/parsing/impl (QueryValidator).                  *)
(*                                                                         *)
(* pg_query's parse tree is abstracted to records with a field k naming    *)
(* the node type and the fields the validator reads.  A parse result is a *)
(* record [ok, stmts]: ok is FALSE when pg_query.Parse fails.  Relation    *)
(* and type names are atoms; strings.HasPrefix(name, systemTablePrefix)    *)
(* is membership of SystemPrefixed.  The validator is a pure function: the *)
(* state machine below feeds it one parse result per step and keeps the    *)
(* result, so that properties relate what was accepted to its input.       *)
(***************************************************************************)
EXTENDS Naturals, Sequences, SequencesExt

CONSTANTS
    RelNames,            \* relation names users may write
    SystemPrefixed,      \* the names that begin with systemTablePrefix
    acceptedTypesNames,  \* parsing.AcceptedTypes, flattened by New
    RunInputs,           \* parse results given to ValidateRunSQL
    CreateInputs,        \* parse results given to ValidateCreateTable
    SystemTables,        \* the spec's system tables: registry, system_acl
                         \* and every system-prefixed name
    JoinOrSubqueryCheck(_),   \* checkNoJoinOrSubquery
    SystemTablesCheck(_),     \* checkNoSystemTablesReferencing
    NonDeterminismCheck(_)    \* checkNonDeterministicFunctions
\* The three tree walkers are parameters: SQLWalkers defines them from the
\* code and every configuration substitutes them, so that what is proved
\* here of the validator holds whatever the walkers return.

ASSUME ValidatorAssumption ==
    /\ SystemPrefixed \subseteq SystemTables
    /\ SystemTables \subseteq RelNames

(* A parse result says whether pg_query.Parse succeeded and holds the     *)
(* statements it returned as a list.                                       *)
ASSUME ParseAssumption ==
    \A p \in RunInputs \cup CreateInputs :
        p.ok \in BOOLEAN /\ p.stmts \in Seq(Range(p.stmts))

-----------------------------------------------------------------------------
(* Parse-tree nodes.                                                       *)

Nil == [k |-> "nil"]
RangeVar(r) == [k |-> "RangeVar", relname |-> r]
AConst == [k |-> "A_Const"]
ColumnRef == [k |-> "ColumnRef"]
SQLValueFunction == [k |-> "SQLValueFunction"]
AExpr(l, r) == [k |-> "A_Expr", lexpr |-> l, rexpr |-> r]
BoolExpr(args) == [k |-> "BoolExpr", args |-> args]
FuncCall(args) == [k |-> "FuncCall", args |-> args]
SubLink(s) == [k |-> "SubLink", subselect |-> s]
List(items) == [k |-> "List", items |-> items]
ResTarget(v) == [k |-> "ResTarget", val |-> v]
RangeSubselect(s) == [k |-> "RangeSubselect", subquery |-> s]
JoinExpr(l, r) == [k |-> "JoinExpr", larg |-> l, rarg |-> r]
SelectStmt(targets, from, where, values, locking) ==
    [k |-> "SelectStmt", targetList |-> targets, fromClause |-> from,
     whereClause |-> where, valuesLists |-> values, lockingClause |-> locking]
InsertStmt(rel, sel, ret) ==
    [k |-> "InsertStmt", relation |-> rel, selectStmt |-> sel, returningList |-> ret]
UpdateStmt(rel, targets, from, where, ret) ==
    [k |-> "UpdateStmt", relation |-> rel, targetList |-> targets, fromClause |-> from,
     whereClause |-> where, returningList |-> ret]
DeleteStmt(rel, where, ret) ==
    [k |-> "DeleteStmt", relation |-> rel, whereClause |-> where, returningList |-> ret]
ColumnDef(col, names, bounds) ==
    [k |-> "ColumnDef", colname |-> col, typeNames |-> names, arrayBounds |-> bounds]
Constraint == [k |-> "Constraint"]
CreateStmt(rel, elts) == [k |-> "CreateStmt", relation |-> rel, tableElts |-> elts]
DropStmt == [k |-> "DropStmt"]

Ok == "ok"

(* The first error of a list of checks, already evaluated, in order.       *)
Seq1(errs) ==
    IF \E i \in 1..Len(errs) : errs[i] # Ok
    THEN errs[CHOOSE i \in 1..Len(errs) : errs[i] # Ok /\ \A j \in 1..i - 1 : errs[j] = Ok]
    ELSE Ok

(* The first error of F over the nodes of s, in order.                     *)
FirstError(F(_), s) == Seq1([i \in 1..Len(s) |-> F(s[i])])

-----------------------------------------------------------------------------
(* The statement checks.                                                   *)

(* Mutant: the locking clause is not looked at.                           *)
checkNoForUpdateOrShareNever(sel) == Ok

checkNoForUpdateOrShare(sel) ==
    IF sel.lockingClause # <<>> THEN "NoForUpdateOrShare" ELSE Ok

(* Mutant: the DELETE branch of the RETURNING check is missing.           *)
checkNoReturningClauseNoDelete(n) ==
    CASE n.k \in {"UpdateStmt", "InsertStmt"} ->
            IF n.returningList # <<>> THEN "ReturningClause" ELSE Ok
      [] n.k = "DeleteStmt" -> Ok
      [] OTHER -> "UnexpectedNodeType"

checkNoReturningClause(n) ==
    CASE n.k \in {"UpdateStmt", "InsertStmt", "DeleteStmt"} ->
            IF n.returningList # <<>> THEN "ReturningClause" ELSE Ok
      [] OTHER -> "UnexpectedNodeType"

checkTopLevelUpdateInsertDelete(n) ==
    IF n.k \notin {"UpdateStmt", "InsertStmt", "DeleteStmt"}
    THEN "NoTopLevelUpdateInsertDelete" ELSE Ok

checkTopLevelCreate(n) == IF n.k # "CreateStmt" THEN "NoTopLevelCreate" ELSE Ok

checkNonEmptyStatement(parsed) == IF parsed.stmts = <<>> THEN "EmptyStatement" ELSE Ok

checkSingleStatement(parsed) == IF Len(parsed.stmts) # 1 THEN "NoSingleStatement" ELSE Ok

(* The relation of an INSERT, UPDATE or DELETE.                            *)
getReferencedTable(n) == n.relation

(* validateWriteQuery: the checks in order, then the referenced table.     *)
validateWriteQuery(n) ==
    Seq1(<<checkTopLevelUpdateInsertDelete(n),
           JoinOrSubqueryCheck(n),
           checkNoReturningClause(n),
           SystemTablesCheck(n),
           NonDeterminismCheck(n)>>)

(* validateReadQuery: joins and subqueries in WHERE, the targets and FROM, *)
(* then the locking clause.                                                *)
validateReadQuery(n) ==
    Seq1(<<JoinOrSubqueryCheck(n.whereClause),
           FirstError(JoinOrSubqueryCheck, n.targetList),
           FirstError(JoinOrSubqueryCheck, n.fromClause),
           checkNoForUpdateOrShare(n)>>)

Undefined == "UndefinedQuery"

Result(qtype, err, tables) == [qtype |-> qtype, err |-> err, tables |-> tables]

(* Mutant: the write loop without the same-table check.                   *)
ValidateWritesAnyTable(stmts) ==
    LET e == Seq1([i \in 1..Len(stmts) |-> validateWriteQuery(stmts[i])])
    IN  IF e # Ok THEN Result(Undefined, e, <<>>)
        ELSE Result("WriteQuery", Ok, [i \in 1..Len(stmts) |-> getReferencedTable(stmts[i])])

(* The error the write loop of ValidateRunSQL stops at on the i-th        *)
(* statement, once the ones before it passed: its validation, then the     *)
(* table it references against targetTable, which the first statement set.*)
writeStmtErr(stmts, i) ==
    IF validateWriteQuery(stmts[i]) # Ok THEN validateWriteQuery(stmts[i])
    ELSE IF /\ i > 1
            /\ validateWriteQuery(stmts[1]) = Ok
            /\ getReferencedTable(stmts[i]) # getReferencedTable(stmts[1])
         THEN "MultiTableReference"
    ELSE Ok

(* The write loop of ValidateRunSQL: the first statement that fails stops *)
(* it; otherwise every statement is returned with the one table.          *)
ValidateWrites(stmts) ==
    LET e == Seq1([i \in 1..Len(stmts) |-> writeStmtErr(stmts, i)])
    IN  IF e # Ok THEN Result(Undefined, e, <<>>)
        ELSE Result("WriteQuery", Ok, [i \in 1..Len(stmts) |-> getReferencedTable(stmts[i])])

(* Mutant: a read that fails validation is still typed as a read.         *)
ValidateRunSQLTypedError(parsed) ==
    IF ~parsed.ok THEN Result(Undefined, "InvalidSyntax", <<>>)
    ELSE IF checkNonEmptyStatement(parsed) # Ok
         THEN Result(Undefined, checkNonEmptyStatement(parsed), <<>>)
    ELSE IF parsed.stmts[1].k = "SelectStmt"
         THEN Result("ReadQuery",
                     Seq1(<<checkSingleStatement(parsed), validateReadQuery(parsed.stmts[1])>>), <<>>)
    ELSE ValidateWrites(parsed.stmts)

ValidateRunSQL(parsed) ==
    IF ~parsed.ok THEN Result(Undefined, "InvalidSyntax", <<>>)
    ELSE IF checkNonEmptyStatement(parsed) # Ok
         THEN Result(Undefined, checkNonEmptyStatement(parsed), <<>>)
    ELSE IF parsed.stmts[1].k = "SelectStmt"
         THEN LET e == Seq1(<<checkSingleStatement(parsed), validateReadQuery(parsed.stmts[1])>>)
              IN  IF e # Ok THEN Result(Undefined, e, <<>>) ELSE Result("ReadQuery", Ok, <<>>)
    ELSE ValidateWrites(parsed.stmts)

-----------------------------------------------------------------------------
(* CREATE.                                                                  *)

(* Mutant: the first type name is taken without the allow-list.           *)
ColumnTypeAny(names) ==
    LET rest == SelectSeq(names, LAMBDA x : x # "pg_catalog")
    IN  IF rest = <<>> THEN [err |-> Ok, type |-> ""] ELSE [err |-> Ok, type |-> rest[1]]

(* The accepted type of a column: the first type name that is not          *)
(* pg_catalog must be an accepted type name; a column whose only names are *)
(* pg_catalog gets the empty type.                                         *)
ColumnType(names) ==
    LET rest == SelectSeq(names, LAMBDA x : x # "pg_catalog")
    IN  IF rest = <<>> THEN [err |-> Ok, type |-> ""]
        ELSE IF rest[1] \in acceptedTypesNames THEN [err |-> Ok, type |-> rest[1]]
        ELSE [err |-> "InvalidColumnType", type |-> rest[1]]

(* checkCreateColTypes: table constraints are skipped, every other element *)
(* must be a column definition with an accepted type.                      *)
checkCreateColTypes(elts) ==
    LET cols == SelectSeq(elts, LAMBDA e : e.k # "Constraint")
        errAt(i) ==
            IF cols[i].k # "ColumnDef" THEN "UnexpectedNode"
            ELSE ColumnType(cols[i].typeNames).err
    IN  IF \E i \in 1..Len(cols) : errAt(i) # Ok
        THEN [err |-> errAt(CHOOSE i \in 1..Len(cols) :
                                errAt(i) # Ok /\ \A j \in 1..i - 1 : errAt(j) = Ok),
              cols |-> <<>>]
        ELSE [err |-> Ok,
              cols |-> [i \in 1..Len(cols) |->
                          <<cols[i].colname, ColumnType(cols[i].typeNames).type>>]]

(* genCreateStmt: strCols[i] is "colName:typeName", joined with ",".      *)
(* SHA-256 is taken as collision-free, so the hash is represented by the   *)
(* string it is computed from.                                             *)
StringifiedColDef(cols) ==
    LET strCols == [i \in 1..Len(cols) |-> cols[i][1] \o ":" \o cols[i][2]]
    IN  FoldLeftDomain(LAMBDA acc, i : IF i = 1 THEN strCols[1] ELSE acc \o "," \o strCols[i],
                       "", strCols)

genCreateStmt(n, cols) ==
    [structureHash |-> StringifiedColDef(cols), namePrefix |-> n.relation]

ValidateCreateTable(parsed) ==
    IF ~parsed.ok THEN [err |-> "InvalidSyntax", create |-> Nil]
    ELSE LET e == Seq1(<<checkNonEmptyStatement(parsed), checkSingleStatement(parsed)>>)
         IN  IF e # Ok THEN [err |-> e, create |-> Nil]
             ELSE LET n == parsed.stmts[1]
                      c == IF n.k = "CreateStmt" THEN checkCreateColTypes(n.tableElts)
                           ELSE [err |-> Ok, cols |-> <<>>]
                  IN  IF checkTopLevelCreate(n) # Ok THEN [err |-> checkTopLevelCreate(n), create |-> Nil]
                      ELSE IF c.err # Ok THEN [err |-> c.err, create |-> Nil]
                      ELSE [err |-> Ok, create |-> genCreateStmt(n, c.cols)]

-----------------------------------------------------------------------------
(* Each step validates one statement.                                      *)

VARIABLES input, out

vars == <<input, out>>

Init == input = [path |-> "none"] /\ out = [err |-> "none"]

RunSQL ==
    /\ input.path = "none"
    /\ \E p \in RunInputs : input' = [path |-> "run", parsed |-> p] /\ out' = ValidateRunSQL(p)

CreateTable ==
    /\ input.path = "none"
    /\ \E p \in CreateInputs :
        input' = [path |-> "create", parsed |-> p] /\ out' = ValidateCreateTable(p)

(* The caller takes the result; the validator keeps no state between     *)
(* calls.                                                                  *)
Return ==
    /\ input.path # "none"
    /\ input' = [path |-> "none"]
    /\ out' = [err |-> "none"]

Next == RunSQL \/ CreateTable \/ Return

Spec == Init /\ [][Next]_vars

AcceptedWrites ==
    IF input.path = "run" /\ out.qtype = "WriteQuery"
    THEN ToSet(input.parsed.stmts) ELSE {}

AcceptedRead ==
    input.path = "run" /\ out.qtype = "ReadQuery"

-----------------------------------------------------------------------------
(* Properties.                                                             *)

(* The type invariant.                                                     *)
TypeOK ==
    \/ input = [path |-> "none"] /\ out = [err |-> "none"]
    \/ /\ input \in [path: {"run"}, parsed: RunInputs]
       /\ out.qtype \in {"ReadQuery", "WriteQuery", Undefined}
       /\ (out.err = Ok) <=> (out.qtype # Undefined)
    \/ /\ input \in [path: {"create"}, parsed: CreateInputs]
       /\ (out.err = Ok) <=> (out.create # Nil)

(* ValidateRunSQL returns the write statements with the one table they    *)
(* all reference (spec invariant 2): the tables returned are the targets  *)
(* of the statements, in order, and they are all the same.                *)
WriteSingleTable ==
    input.path = "run" /\ out.qtype = "WriteQuery" =>
        LET stmts == input.parsed.stmts
        IN  /\ out.tables = [i \in 1..Len(stmts) |-> stmts[i].relation]
            /\ \A i \in 1..Len(stmts) : stmts[i].relation = stmts[1].relation

(* No accepted write has a RETURNING list (spec invariant 4).             *)
WriteNoReturning ==
    \A s \in AcceptedWrites : s.returningList = <<>>

(* An accepted read is one SELECT without FOR UPDATE or FOR SHARE (spec   *)
(* section 4.1 (a)).                                                       *)
ReadSingleUnlocked ==
    AcceptedRead =>
        /\ Len(input.parsed.stmts) = 1
        /\ input.parsed.stmts[1].lockingClause = <<>>

(* The columns a CREATE defines, read off its tree: each column          *)
(* definition in order with its type: the first type name that is not     *)
(* pg_catalog, and whether it is an array type.                            *)
DefinedColumns(parsed) ==
    LET cols == SelectSeq(parsed.stmts[1].tableElts, LAMBDA e : e.k = "ColumnDef")
        firstType(c) == SelectSeq(c.typeNames, LAMBDA x : x # "pg_catalog")
    IN  [i \in 1..Len(cols) |->
            <<cols[i].colname, IF firstType(cols[i]) = <<>> THEN "" ELSE firstType(cols[i])[1],
              cols[i].arrayBounds # <<>>>>]

(* An accepted CREATE is one statement and yields the name the user chose *)
(* and the structure string of its column definitions in order, each with *)
(* an accepted type (spec section 4.1 (c)).                                *)
CreateStructure ==
    input.path = "create" /\ out.err = Ok =>
        LET cols == DefinedColumns(input.parsed)
        IN  /\ Len(input.parsed.stmts) = 1
            /\ out.create.namePrefix = input.parsed.stmts[1].relation
            /\ out.create.structureHash =
                  StringifiedColDef([i \in 1..Len(cols) |-> <<cols[i][1], cols[i][2]>>])
            /\ \A i \in 1..Len(cols) : cols[i][2] \in acceptedTypesNames \cup {""}

(* The structure hash tells table schemas apart (spec section 9: "used to *)
(* detect schema equivalence"; invariant 3: it changes when a column name *)
(* changes): two accepted CREATEs whose column names or types differ get  *)
(* different hashes.  genCreateStmt joins the quoted column names as they  *)
(* are, ':' and ',' included, and reads only the names of a column's type, *)
(* not its array bounds.                                                   *)
StructureHashDistinguishes ==
    input.path = "create" /\ out.err = Ok =>
        \A p \in CreateInputs :
            LET o == ValidateCreateTable(p)
            IN  o.err = Ok /\ DefinedColumns(p) # DefinedColumns(input.parsed) =>
                    o.create.structureHash # out.create.structureHash

=====
