------------------------ MODULE MCFederatedDelegation ------------------------
(* The instance of FederatedDelegation for TLC: the bounds come from the cfg. *)
EXTENDS FederatedDelegation
=============================================================================
