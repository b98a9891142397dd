----------------------------- MODULE MCModuleState -----------------------------
(***************************************************************************)
(* An instance of ModuleState behind FfiInit for TLC: two threads, two     *)
(* recordable operating-system ids and one the owner field cannot hold,    *)
(* two profiles of which one refuses a service, groups of at most one      *)
(* entry each.                                                             *)
(***************************************************************************)
EXTENDS FfiInit

MCPermitted == [p \in Profiles |-> IF p = DefaultProfile THEN Services ELSE {"Sha384"}]
=============================================================================
