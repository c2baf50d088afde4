-------------------------- MODULE MCLocalExecution --------------------------
\* Three attempts, two of them in one session scope.
EXTENDS LocalExecution

CONSTANTS a1, a2, a3, s1, s2

MCScopeOf == [k \in {a1, a2, a3} |-> IF k = a3 THEN s2 ELSE s1]
=============================================================================
