----------------------------- MODULE SQLWalkers -----------------------------
(***************************************************************************)
(* The tree walkers of pkg/parsing/impl (checkNonDeterministicFunctions,   *)
(* checkNoJoinOrSubquery, checkNoSystemTablesReferencing), which follow   *)
(* the parse tree recursively, and the properties that read the whole     *)
(* tree.  Every configuration of the validator substitutes these walkers  *)
(* for the walker parameters of SQLValidator.                              *)
(***************************************************************************)
EXTENDS SQLValidator

RECURSIVE checkNonDeterministicFunctions(_)
checkNonDeterministicFunctions(n) ==
    CASE n.k = "SQLValueFunction" -> "NonDeterministicFunction"
      [] n.k = "List" -> FirstError(checkNonDeterministicFunctions, n.items)
      [] n.k = "InsertStmt" -> checkNonDeterministicFunctions(n.selectStmt)
      [] n.k = "SelectStmt" ->
            Seq1(<<FirstError(checkNonDeterministicFunctions, n.valuesLists),
                   FirstError(checkNonDeterministicFunctions, n.fromClause)>>)
      [] n.k = "UpdateStmt" ->
            Seq1(<<FirstError(checkNonDeterministicFunctions, n.targetList),
                   FirstError(checkNonDeterministicFunctions, n.fromClause),
                   checkNonDeterministicFunctions(n.whereClause)>>)
      [] n.k = "DeleteStmt" -> checkNonDeterministicFunctions(n.whereClause)
      [] n.k = "RangeSubselect" -> checkNonDeterministicFunctions(n.subquery)
      [] n.k = "JoinExpr" ->
            Seq1(<<checkNonDeterministicFunctions(n.larg),
                   checkNonDeterministicFunctions(n.rarg)>>)
      [] n.k = "A_Expr" ->
            Seq1(<<checkNonDeterministicFunctions(n.lexpr),
                   checkNonDeterministicFunctions(n.rexpr)>>)
      [] n.k = "ResTarget" -> checkNonDeterministicFunctions(n.val)
      [] OTHER -> Ok

RECURSIVE checkNoJoinOrSubquery(_)
checkNoJoinOrSubquery(n) ==
    CASE n.k = "ResTarget" -> checkNoJoinOrSubquery(n.val)
      [] n.k = "SelectStmt" -> IF n.valuesLists = <<>> THEN "JoinOrSubquery" ELSE Ok
      [] n.k \in {"RangeSubselect", "JoinExpr", "SubLink"} -> "JoinOrSubquery"
      [] n.k = "InsertStmt" -> checkNoJoinOrSubquery(n.selectStmt)
      [] n.k = "UpdateStmt" ->
            IF n.fromClause # <<>> THEN "JoinOrSubquery"
            ELSE checkNoJoinOrSubquery(n.whereClause)
      [] n.k = "DeleteStmt" -> checkNoJoinOrSubquery(n.whereClause)
      [] n.k = "A_Expr" ->
            Seq1(<<checkNoJoinOrSubquery(n.lexpr), checkNoJoinOrSubquery(n.rexpr)>>)
      [] n.k = "BoolExpr" -> FirstError(checkNoJoinOrSubquery, n.args)
      [] OTHER -> Ok

HasPrefix(r) == r \in SystemPrefixed

RECURSIVE checkNoSystemTablesReferencing(_)
checkNoSystemTablesReferencing(n) ==
    CASE n.k = "RangeVar" -> IF HasPrefix(n.relname) THEN "SystemTableReferencing" ELSE Ok
      [] n.k = "InsertStmt" ->
            IF HasPrefix(n.relation) THEN "SystemTableReferencing"
            ELSE checkNoSystemTablesReferencing(n.selectStmt)
      [] n.k = "SelectStmt" -> FirstError(checkNoSystemTablesReferencing, n.fromClause)
      [] n.k = "UpdateStmt" ->
            IF HasPrefix(n.relation) THEN "SystemTableReferencing"
            ELSE FirstError(checkNoSystemTablesReferencing, n.fromClause)
      [] n.k = "DeleteStmt" ->
            IF HasPrefix(n.relation) THEN "SystemTableReferencing"
            ELSE checkNoSystemTablesReferencing(n.whereClause)
      [] n.k = "RangeSubselect" -> checkNoSystemTablesReferencing(n.subquery)
      [] n.k = "JoinExpr" ->
            Seq1(<<checkNoSystemTablesReferencing(n.larg),
                   checkNoSystemTablesReferencing(n.rarg)>>)
      [] OTHER -> Ok

-----------------------------------------------------------------------------
(* Reference definitions: what a statement contains, read off the whole    *)
(* tree, independently of the walkers.                                     *)

NodeFields == {"lexpr", "rexpr", "subselect", "val", "subquery", "larg", "rarg",
               "whereClause", "selectStmt"}
ListFields == {"args", "items", "targetList", "fromClause", "valuesLists", "returningList"}

Children(n) ==
    {n[f] : f \in NodeFields \cap DOMAIN n} \cup UNION {ToSet(n[f]) : f \in ListFields \cap DOMAIN n}

RECURSIVE Subtree(_)
Subtree(n) == {n} \cup UNION {Subtree(c) : c \in Children(n)}

DML == {"InsertStmt", "UpdateStmt", "DeleteStmt"}

(* Every relation a statement names, in FROM, joins, subqueries or as the *)
(* target of a write.                                                      *)
Relations(n) ==
    {d.relname : d \in {x \in Subtree(n) : x.k = "RangeVar"}}
        \cup {d.relation : d \in {x \in Subtree(n) : x.k \in DML}}

-----------------------------------------------------------------------------
(* Properties about the whole tree.                                        *)

(* The system tables are unreachable from accepted writes: no relation    *)
(* named anywhere in an accepted write statement is a system table (spec  *)
(* invariant 3).                                                           *)
WriteNoSystemTables ==
    \A s \in AcceptedWrites : Relations(s) \cap SystemTables = {}

(* The system tables are unreachable from accepted reads (spec invariant  *)
(* 3 and section 4.1 (a)).                                                 *)
ReadNoSystemTables ==
    AcceptedRead => Relations(input.parsed.stmts[1]) \cap SystemTables = {}

(* No accepted write calls a non-deterministic function anywhere in its   *)
(* tree (spec invariant 4).                                                *)
WriteDeterministic ==
    \A s \in AcceptedWrites : \A x \in Subtree(s) : x.k # "SQLValueFunction"

=============================================================================
