-------------------------- MODULE MC_TxnProcessor --------------------------
(* Model-checking instance of TxnProcessor: two clients, one or two table *)
(* ids, two addresses and a small set of statements.                      *)
EXTENDS TxnProcessor, TLC

CONSTANTS c1, c2, t1, t2, a1, a2

(* Statements over the table: inserts of one and two rows, an update, a   *)
(* delete, an insert whose name-prefix hint is wrong, a grant and a       *)
(* revoke of the insert privilege for a2.                                  *)
W(op, n, ok) == [kind |-> "write", op |-> op, rows |-> n,
                 roles |-> {}, privs |-> {}, hintOk |-> ok]
G(op, r, p) == [kind |-> "grant", op |-> op, rows |-> 0,
                roles |-> r, privs |-> p, hintOk |-> TRUE]

MCStmts ==
    { W(OpInsert, 1, TRUE), W(OpInsert, 2, TRUE), W(OpUpdate, 1, TRUE),
      W(OpDelete, 1, TRUE), W(OpInsert, 1, FALSE),
      G(OpGrant, {a2}, {PrivInsert}), G(OpRevoke, {a2}, {PrivInsert}) }

=============================================================================
