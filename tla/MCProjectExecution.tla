-------------------------- MODULE MCProjectExecution --------------------------
(* Instances of ProjectExecution for TLC. *)
EXTENDS ProjectExecution, TLC

CONSTANTS t1, t2, a1, a2, b1

\* The lead's turn with one retry, and a turn of a later intent.
MCRequests == {t1, t2}
MCAttempts == {a1, a2, b1}
MCLeavers == {t1}
MCRequestOf == a1 :> t1 @@ a2 :> t1 @@ b1 :> t2
===============================================================================
