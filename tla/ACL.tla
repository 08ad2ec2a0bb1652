-------------------------------- MODULE ACL --------------------------------
(***************************************************************************)
(* Privileges and operations of internal/tableland/acl.go.                 *)
(*                                                                         *)
(* A privilege is represented by its abbreviation, the form the processor  *)
(* stores in the privileges array of system_acl ("a", "w", "d"); the       *)
(* bitfield of the Go struct is never read by the processor and is left    *)
(* out.  Operations are the iota constants of the Operation type, named.   *)
(***************************************************************************)

PrivInsert == "a"
PrivUpdate == "w"
PrivDelete == "d"

Privileges == {PrivInsert, PrivUpdate, PrivDelete}

OpSelect == "OpSelect"
OpInsert == "OpInsert"
OpUpdate == "OpUpdate"
OpDelete == "OpDelete"
OpGrant  == "OpGrant"
OpRevoke == "OpRevoke"
OpCreate == "OpCreate"

Operations == {OpSelect, OpInsert, OpUpdate, OpDelete, OpGrant, OpRevoke, OpCreate}

(* The privilege each operation needs; an operation outside the domain     *)
(* needs none.                                                             *)
operationPrivilegeMap ==
    [op \in {OpInsert, OpUpdate, OpDelete} |->
        CASE op = OpInsert -> PrivInsert
          [] op = OpUpdate -> PrivUpdate
          [] op = OpDelete -> PrivDelete]

(* Privileges.CanExecute: the list p of privileges allows the operation.   *)
CanExecute(p, operation) ==
    \/ operation \notin DOMAIN operationPrivilegeMap
    \/ operationPrivilegeMap[operation] \in p

=============================================================================
