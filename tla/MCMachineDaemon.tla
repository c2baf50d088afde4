--------------------------- MODULE MCMachineDaemon ---------------------------
(* Instances of MachineDaemon for TLC. *)
EXTENDS MachineDaemon

OneRestart == [rule |-> "restart_on_same_machine", max |-> 1]
NoRestart == [rule |-> "restart_on_same_machine", max |-> 0]
Elsewhere == [rule |-> "restart_anywhere", max |-> 0]
Stop == [rule |-> "stop", max |-> 0]

OnePolicy == {OneRestart}
EveryPolicy == {OneRestart, NoRestart, Elsewhere, Stop}
=============================================================================
