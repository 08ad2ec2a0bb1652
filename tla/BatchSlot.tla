----------------------------- MODULE BatchSlot ------------------------------
(***************************************************************************)
(* What the transaction processor promises its callers, without channels, *)
(* transactions or savepoints (spec section 5, "Serialization"): there is *)
(* one batch slot; a caller takes it when it is free, only the holder     *)
(* changes the store, the holder always gives the slot back, and once the *)
(* processor is shut down no one takes it again.                          *)
(*                                                                         *)
(*   holders  the callers holding the slot (never more than one)          *)
(*   shut     the processor's Close has taken the slot for good           *)
(*   store    the committed store                                          *)
(***************************************************************************)

CONSTANTS
    Clients,   \* callers of OpenBatch
    Store      \* the values the committed store can take

VARIABLES holders, shut, store

svars == <<holders, shut, store>>

Init ==
    /\ holders = {}
    /\ shut = FALSE
    /\ store \in Store

(* OpenBatch returns a batch to c: the slot was free.                      *)
Acquire(c) ==
    /\ holders = {}
    /\ ~shut
    /\ holders' = {c}
    /\ UNCHANGED <<shut, store>>

(* The holder's batch commits and replaces the store.                     *)
Apply(c) ==
    /\ c \in holders
    /\ store' \in Store
    /\ UNCHANGED <<holders, shut>>

(* The holder terminates its batch and frees the slot.                     *)
Release(c) ==
    /\ c \in holders
    /\ holders' = {}
    /\ UNCHANGED <<shut, store>>

(* The processor's Close takes the free slot and keeps it.                *)
Shutdown ==
    /\ holders = {}
    /\ ~shut
    /\ shut' = TRUE
    /\ UNCHANGED <<holders, store>>

Next ==
    \/ \E c \in Clients : Acquire(c) \/ Apply(c) \/ Release(c)
    \/ Shutdown

SafeSpec == Init /\ [][Next]_svars

(* A holder always gives the slot back.                                   *)
Spec == SafeSpec /\ \A c \in Clients : WF_svars(Release(c))

=============================================================================
