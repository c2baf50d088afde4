----------------------------- MODULE TurnOutcome -----------------------------
(***************************************************************************)
(* What ends a turn from outside the recovery worker: the agent's reply    *)
(* (begin_completion, finish_completion, finish_deferred: one transaction  *)
(* of the room socket), its lifecycle frames (record_lifecycle), the       *)
(* native-start permit and the user's cancellation.  A frame carries any   *)
(* proof the agent was ever handed, and may come late, twice or never.     *)
(* The rejected frames change no row and are no step.                      *)
(***************************************************************************)
EXTENDS TurnStore

Current(t) == attempt[t][turn[t].active]

\* The frame names the active attempt, its generation and its lease; a client
\* without proofs is believed only on the very first attempt.
ProofHolds(p) ==
    IF p.legacy THEN turn[p.t].retries = 0 /\ turn[p.t].active = 1
                ELSE p.n = turn[p.t].active /\ p.g = Current(p.t).gen

MutCompletionRepeats(t) == Open(t) \/ turn[t].accepted

MutCompletionLate(t) == turn[t].state # "none" /\ ~turn[t].accepted

\* The completion CAS: the single gate of the visible reply.
CompletionOpen(t) == Open(t) /\ ~turn[t].accepted

\* The turn's row after a frame of a client that shows whether it knows proofs.
Seen(p) == [turn[p.t] EXCEPT !.protocol = IF p.legacy THEN 0 ELSE @]

\* A reply is appended and accepted, or kept as the draft of a turn that waits
\* for peers: then the turn completes and posts nothing.
CompleteTurn(p, deferred) ==
    LET t == p.t IN
    /\ Authorized /\ ProofHolds(p) /\ CompletionOpen(t)
    /\ turn' = [turn EXCEPT ![t] =
                   [Seen(p) EXCEPT !.state = "completed", !.accepted = ~deferred]]
    /\ attempt' = [attempt EXCEPT ![t][turn[t].active] = Ended(@, "completed")]
    /\ posted' = IF deferred THEN posted ELSE [posted EXCEPT ![t].reply = @ + 1]
    /\ UNCHANGED <<outbox, wireVars, hostVars, gate, faults>>

-----------------------------------------------------------------------------
\* Which lifecycle frames are applied at all.  An attempt that was never
\* leased has not been delivered: its frame comes from a stray copy.
LifecycleHolds(p) ==
    /\ Authorized /\ ProofHolds(p)
    /\ turn[p.t].state \notin {"none", "cancelled", "failed"}
    /\ Current(p.t).state # "pending"

HandlerStarted(p) ==
    LET t == p.t IN
    /\ LifecycleHolds(p)
    /\ attempt' = IF Current(t).state \in {"pending", "leased"}
                  THEN [attempt EXCEPT ![t][turn[t].active].state = "started"]
                  ELSE attempt
    /\ turn' = [turn EXCEPT ![t] =
                   IF turn[t].state \in {"pending", "retrying"}
                   THEN [Seen(p) EXCEPT !.state = "leased"] ELSE Seen(p)]
    /\ UNCHANGED <<outbox, posted, wireVars, hostVars, gate, faults>>

CloseByAgent(p, state) ==
    /\ turn' = [turn EXCEPT ![p.t] = [Seen(p) EXCEPT !.state = state]]
    /\ attempt' = [attempt EXCEPT ![p.t][turn[p.t].active] = Ended(@, state)]

\* The engine's own failure proof, bound to the permitted native invocation.
GeneralFailureReceipt(t, outcome) ==
    IF Current(t).native /\ outcome \in {"transient", "permanent"}
    THEN outcome ELSE "none"

\* The lease of a handler that ended without a reply is expired at once, so
\* the bounded recovery takes over; a proven permanent failure closes the turn.
ExpireLease(p, reason) ==
    /\ turn' = [turn EXCEPT ![p.t] = Seen(p)]
    /\ attempt' = [attempt EXCEPT ![p.t][turn[p.t].active] =
                      [Current(p.t) EXCEPT !.lease = "expired", !.reason = reason]]

FinishActive(p, outcome) ==
    LET receipt == GeneralFailureReceipt(p.t, outcome) IN
    \/ receipt = "permanent" /\ CloseByAgent(p, "failed")
    \/ receipt = "transient" /\ ExpireLease(p, "transient")
    \/ receipt = "none" /\ ExpireLease(p, "explicit")

Outcomes == {"ok", "cancelled", "skipped", "transient", "permanent"}

\* handler_finished, with every outcome but queued and retrying.
HandlerFinished(p, outcome) ==
    LET t == p.t IN
    /\ LifecycleHolds(p)
    /\ \/ turn[t].state = "completed" /\ CloseByAgent(p, "completed")
       \/ Open(t) /\ outcome = "cancelled" /\ CloseByAgent(p, "cancelled")
       \/ /\ Open(t) /\ outcome = "skipped" /\ Active(t, turn[t].active)
          /\ CloseByAgent(p, "completed")
       \/ /\ Open(t) /\ outcome \notin {"cancelled", "skipped"}
          /\ Active(t, turn[t].active)
          /\ FinishActive(p, outcome)
    /\ UNCHANGED <<outbox, posted, wireVars, hostVars, gate, faults>>

-----------------------------------------------------------------------------
\* A native invocation is permitted once per attempt, under a live lease of
\* the current generation.
AuthorizeNativeStart(p) ==
    LET t == p.t IN
    /\ ~p.legacy /\ Authorized /\ Open(t)
    /\ p.n = turn[t].active /\ Active(t, p.n)
    /\ p.g = attempt[t][p.n].gen /\ p.g = agent.generation
    /\ attempt[t][p.n].lease = "held"
    /\ attempt' = [attempt EXCEPT ![t][p.n].native = TRUE]
    /\ UNCHANGED <<turn, outbox, posted, wireVars, hostVars, gate, faults>>

\* Every pending row of turn t is cancelled with the turn.
CancelRows(t) ==
    [n \in AttemptNumbers |-> IF outbox[t][n] \in PendingRowStates
                              THEN "cancelled" ELSE outbox[t][n]]

MutCancelKeepsLease(t) ==
    /\ Open(t)
    /\ turn' = [turn EXCEPT ![t].state = "cancelled"]
    /\ outbox' = [outbox EXCEPT ![t] = CancelRows(t)]
    /\ UNCHANGED <<attempt, posted, wireVars, hostVars, gate, faults>>

\* The user cancels an open turn: the active attempt and the outbox are fenced
\* with it; telling the agent to stop is best effort.
CancelGeneralTurn(t) ==
    /\ Open(t)
    /\ turn' = [turn EXCEPT ![t].state = "cancelled"]
    /\ attempt' = IF Current(t).state \in {"pending", "leased", "started"}
                  THEN [attempt EXCEPT ![t][turn[t].active] = Ended(@, "cancelled")]
                  ELSE attempt
    /\ outbox' = [outbox EXCEPT ![t] = CancelRows(t)]
    /\ UNCHANGED <<posted, wireVars, hostVars, gate, faults>>

OutcomeStep ==
    \/ \E p \in received :
          \/ "reply" \in Frames /\ CompleteTurn(p, FALSE)
          \/ "draft" \in Frames /\ CompleteTurn(p, TRUE)
          \/ "started" \in Frames /\ HandlerStarted(p)
          \/ \E outcome \in Outcomes \cap Frames : HandlerFinished(p, outcome)
          \/ "permit" \in Frames /\ AuthorizeNativeStart(p)
    \/ \E t \in Turns : CancelGeneralTurn(t)
=============================================================================
