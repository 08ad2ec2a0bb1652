--------------------------- MODULE MC_SQLValidator ---------------------------
(* Model-checking instance of SQLValidator: parse trees of statements over *)
(* two user tables and two system tables, with expressions one or two     *)
(* levels deep.  The trees are those pg_query builds for the SQL in the   *)
(* comments.                                                               *)
EXTENDS SQLWalkers, TLC

MCRelNames == {"foo", "bar", "system_acl", "registry"}

(* The names strings.HasPrefix(_, "system_") accepts.                      *)
MCSystemPrefixed == {"system_acl"}

MCSystemTables == {"system_acl", "registry"}

MCAcceptedTypesNames ==
    {"int", "int2", "int4", "int8", "bigint", "smallint", "text", "varchar",
     "bpchar", "date", "bool", "float4", "float8", "numeric", "timestamp",
     "timestamptz", "uuid"}

Parsed(stmts) == [ok |-> TRUE, stmts |-> stmts]

(* select a from r *)
Sub(r) == SelectStmt(<<ResTarget(ColumnRef)>>, <<RangeVar(r)>>, Nil, <<>>, <<>>)

(* values (1, e) *)
Values(e) == SelectStmt(<<>>, <<>>, Nil, <<List(<<AConst, e>>)>>, <<>>)

Leaf == {AConst, ColumnRef, SQLValueFunction}

(* e, a = e, a = 1 and b = e, f(e), (select a from r), a = (select ...),  *)
(* f((select ...)).                                                        *)
Expr ==
    Leaf \cup {AExpr(ColumnRef, e) : e \in Leaf}
         \cup {BoolExpr(<<AExpr(ColumnRef, AConst), AExpr(ColumnRef, e)>>) : e \in Leaf}
         \cup {FuncCall(<<e>>) : e \in Leaf}
         \cup {SubLink(Sub(r)) : r \in MCRelNames}
         \cup {AExpr(ColumnRef, SubLink(Sub(r))) : r \in MCRelNames}
         \cup {FuncCall(<<SubLink(Sub(r))>>) : r \in MCRelNames}

Where == {Nil} \cup Expr

Returning == {<<>>, <<ColumnRef>>}

(* insert into r values (1, e) | insert into r select a from r2, with or  *)
(* without returning.                                                      *)
Inserts ==
    {InsertStmt(r, sel, ret) :
        r \in MCRelNames,
        sel \in {Values(e) : e \in Expr} \cup {Sub(r2) : r2 \in MCRelNames},
        ret \in Returning}

(* update r set a = e where w; update foo set a = 1 [from bar] [returning] *)
Updates ==
    {UpdateStmt(r, <<ResTarget(e)>>, <<>>, w, <<>>) : r \in MCRelNames, e \in Expr, w \in Where}
        \cup {UpdateStmt("foo", <<ResTarget(AConst)>>, from, Nil, ret) :
                from \in {<<>>, <<RangeVar("bar")>>}, ret \in Returning}

(* delete from r where w [returning] *)
Deletes == {DeleteStmt(r, w, ret) : r \in MCRelNames, w \in Where, ret \in Returning}

(* Short statements for multi-statement inputs.                            *)
Simple ==
    {DeleteStmt(r, Nil, <<>>) : r \in MCRelNames}
        \cup {InsertStmt(r, Values(AConst), <<>>) : r \in MCRelNames}
        \cup {Sub("foo"), DropStmt}

FromItems ==
    {<<RangeVar(r)>> : r \in MCRelNames}
        \cup {<<JoinExpr(RangeVar("foo"), RangeVar(r))>> : r \in MCRelNames}
        \cup {<<RangeSubselect(Sub(r))>> : r \in MCRelNames}

(* select a from f where w [for update]; select e from foo *)
Selects ==
    {SelectStmt(<<ResTarget(ColumnRef)>>, f, w, <<>>, lock) : f \in FromItems, w \in Where,
        lock \in {<<>>, <<"FOR UPDATE">>}}
        \cup {SelectStmt(<<ResTarget(e)>>, <<RangeVar("foo")>>, Nil, <<>>, <<>>) : e \in Expr}

MCRunInputs ==
    {Parsed(<<s>>) : s \in Inserts \cup Updates \cup Deletes \cup Selects}
        \cup {Parsed(<<s, t>>) : s, t \in Simple}
        \cup {Parsed(<<>>), Parsed(<<DropStmt>>), [ok |-> FALSE, stmts |-> <<>>]}

(* Column definitions: a | b | "a:int4,b" (a quoted identifier) of type   *)
(* int4, text or xml, written bare or with the pg_catalog schema; a int4[] *)
(* and a table constraint.                                                 *)
Elts ==
    {Constraint, ColumnDef("a", <<"int4">>, <<-1>>)}
        \cup {ColumnDef(c, names, <<>>) :
                c \in {"a", "b", "a:int4,b"},
                names \in {<<t>> : t \in {"int4", "text", "xml"}}
                          \cup {<<"pg_catalog", t>> : t \in {"int4", "text", "xml"}}}

MCCreateInputs ==
    {Parsed(<<CreateStmt("foo", elts)>>) : elts \in {<<e>> : e \in Elts} \cup {<<e, f>> : e, f \in Elts}}
        \cup {Parsed(<<CreateStmt("foo", <<>>), CreateStmt("bar", <<>>)>>),
              Parsed(<<DropStmt>>), Parsed(<<Sub("foo")>>), Parsed(<<>>),
              [ok |-> FALSE, stmts |-> <<>>]}

=============================================================================
