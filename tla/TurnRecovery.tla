---------------------------- MODULE TurnRecovery ----------------------------
(***************************************************************************)
(* The recovery worker's turn maintenance: cancel_invalid_turns,           *)
(* recover_stalled_turns and the fence of a confirmed node shutdown.       *)
(* recover_stalled_turns selects the stalled attempts, asks which of their *)
(* agents still signal the turn, and only then visits each attempt in a    *)
(* transaction of its own: between selection and visit anything may        *)
(* happen, and the visit checks only that the attempt is still active.     *)
(***************************************************************************)
EXTENDS TurnOutcome

\* One pass over every open turn, in one transaction.
CancelInvalidTurns ==
    /\ ~Authorized /\ \E t \in Turns : Open(t)
    /\ turn' = [t \in Turns |-> IF Open(t) THEN [turn[t] EXCEPT !.state = "cancelled"]
                                           ELSE turn[t]]
    /\ attempt' = [t \in Turns |->
          IF Open(t) /\ Current(t).state \notin {"completed", "cancelled"}
          THEN [attempt[t] EXCEPT ![turn[t].active] = Ended(@, "cancelled")]
          ELSE attempt[t]]
    /\ outbox' = [t \in Turns |-> IF Open(t) THEN CancelRows(t) ELSE outbox[t]]
    /\ UNCHANGED <<posted, wireVars, hostVars, gate, faults>>

-----------------------------------------------------------------------------
\* The drain of attempt n's generation ran out of time.
DeadlineHit(t, n) ==
    agent.deadline = "passed" /\ attempt[t][n].gen = agent.generation

MutStalledIgnoresLease(t, n) ==
    Active(t, n) /\ (agent.actual = "crashed" \/ DeadlineHit(t, n))

\* An active attempt whose lease ran out, whose process is gone or whose drain
\* deadline has passed.
Stalled(t, n) ==
    /\ Active(t, n)
    /\ attempt[t][n].lease = "expired" \/ agent.actual = "crashed" \/ DeadlineHit(t, n)

\* A lease that merely ran out while the agent shows it is typing.
MayBeLive(t, n) ==
    attempt[t][n].reason = "none" /\ agent.actual # "crashed" /\ ~DeadlineHit(t, n)

\* One worker passes over the stalled attempts: the next selection waits until
\* the last one is worked off.
SelectStalled(live) ==
    LET stalled == {x \in Turns \X AttemptNumbers : Stalled(x[1], x[2])} IN
    /\ picked = {} /\ stalled # {}
    /\ live \subseteq stalled /\ \A x \in live : MayBeLive(x[1], x[2])
    /\ picked' = {[t |-> x[1], n |-> x[2], live |-> x \in live] : x \in stalled}
    /\ UNCHANGED <<turnVars, flight, received, hostVars, gate, faults>>

-----------------------------------------------------------------------------
\* The two retry budgets are separate: a transient failure draws on its own,
\* everything else on what transient retries left of retry_count.
TransientRetry(t, n) ==
    attempt[t][n].reason = "transient" /\ agent.actual # "crashed" /\ ~DeadlineHit(t, n)

MutRetryOffByOne(t, n) ==
    IF TransientRetry(t, n)
    THEN TransientUsed(t, n) < MaxTransient
    ELSE turn[t].retries - TransientUsed(t, n) =< MaxRetries

MutBudgetShared(t, n) ==
    IF TransientRetry(t, n) THEN TransientUsed(t, n) < MaxTransient
                            ELSE turn[t].retries < MaxRetries

RetryAllowed(t, n) ==
    IF TransientRetry(t, n)
    THEN TransientUsed(t, n) < MaxTransient
    ELSE turn[t].retries - TransientUsed(t, n) < MaxRetries

MutRetryAhead(t, n) == agent.generation + 1

\* A retry after a missed drain deadline belongs to the generation to come.
RetryGeneration(t, n) ==
    IF agent.actual # "crashed" /\ DeadlineHit(t, n) /\ agent.pending # 0
    THEN agent.pending ELSE agent.generation

MutFenceForgotten(t, n) == attempt[t][n]

\* The fence: the old attempt ends before anything else happens to the turn.
Interrupt(t, n) == Ended(attempt[t][n], "interrupted")

RenewLease(t, n) ==
    /\ attempt' = [attempt EXCEPT ![t][n].lease = "held"]
    /\ UNCHANGED <<turn, outbox, posted>>

CancelStalled(t, n) ==
    /\ attempt' = [attempt EXCEPT ![t][n] = Interrupt(t, n)]
    /\ turn' = [turn EXCEPT ![t].state = "cancelled"]
    /\ UNCHANGED <<outbox, posted>>

MutNoticeOpen(t, n) ==
    /\ attempt' = [attempt EXCEPT ![t][n] = Interrupt(t, n)]
    /\ posted' = [posted EXCEPT ![t].notice = @ + 1]
    /\ UNCHANGED <<turn, outbox>>

\* No retry is left, or the client has no proofs: the room gets one notice, and
\* the attempt keeps on record whether a transient failure was the last word.
FailStalled(t, n) ==
    /\ attempt' = [attempt EXCEPT ![t][n] = [Interrupt(t, n) EXCEPT
                      !.reason = IF TransientRetry(t, n) THEN "transient" ELSE "none"]]
    /\ turn' = [turn EXCEPT ![t].state = "failed"]
    /\ posted' = [posted EXCEPT ![t].notice = @ + 1]
    /\ UNCHANGED outbox

\* The next attempt and its row; a transient retry waits out its back-off.
Redispatch(t, n) ==
    LET next == turn[t].active + 1 IN
    /\ attempt' = [attempt EXCEPT ![t] = [m \in AttemptNumbers |->
                      IF m = next THEN NewAttempt(RetryGeneration(t, n))
                      ELSE IF m = n THEN [Interrupt(t, n) EXCEPT !.spent = TransientRetry(t, n)]
                      ELSE attempt[t][m]]]
    /\ outbox' = [outbox EXCEPT ![t][next] =
                     IF TransientRetry(t, n) THEN "waiting" ELSE "due"]
    /\ turn' = [turn EXCEPT ![t] =
                   [turn[t] EXCEPT !.state = "retrying", !.active = next, !.retries = @ + 1]]
    /\ UNCHANGED posted

RecoverStalled(v) ==
    LET t == v.t  n == v.n
        renew == v.live /\ attempt[t][n].reason = "none" /\ agent.actual # "crashed" IN
    /\ picked' = picked \ {v}
    /\ IF ~Active(t, n) \/ ~Open(t) THEN UNCHANGED turnVars
       ELSE \/ renew /\ RenewLease(t, n)
            \/ ~renew /\ ~Authorized /\ CancelStalled(t, n)
            \/ /\ ~renew /\ Authorized
               /\ turn[t].protocol = 0 \/ ~RetryAllowed(t, n)
               /\ FailStalled(t, n)
            \/ /\ ~renew /\ Authorized
               /\ turn[t].protocol = 1 /\ RetryAllowed(t, n)
               /\ Redispatch(t, n)
    /\ UNCHANGED <<flight, received, hostVars, gate, faults>>

-----------------------------------------------------------------------------
LeaseExpires(t, n) ==
    /\ Active(t, n) /\ attempt[t][n].lease = "held"
    /\ attempt' = [attempt EXCEPT ![t][n].lease = "expired"]
    /\ UNCHANGED <<turn, outbox, posted, wireVars, hostVars, gate, faults>>

\* A node that shut down, with its agent process confirmed gone, hands its
\* open leases of the current generation to a recovery pass of its own, which
\* asks nobody for signs of life.
NodeShutdown ==
    LET Fenced(t, n) == Open(t) /\ Active(t, n) /\ attempt[t][n].gen = agent.generation IN
    /\ Fault
    /\ daemon' = [daemon EXCEPT !.up = FALSE]
    /\ session' = Disconnected
    /\ attempt' = [t \in Turns |-> [n \in AttemptNumbers |->
          IF Fenced(t, n)
          THEN [attempt[t][n] EXCEPT !.lease = "expired",
                                     !.reason = IF @ = "none" THEN "explicit" ELSE @]
          ELSE attempt[t][n]]]
    /\ picked' = picked \cup {[t |-> x[1], n |-> x[2], live |-> FALSE] :
                                 x \in {y \in Turns \X AttemptNumbers : Fenced(y[1], y[2])}}
    /\ UNCHANGED <<turn, outbox, posted, flight, received, agent, config, bump, orders,
                   gate>>

RecoveryStep ==
    \/ CancelInvalidTurns
    \/ \E live \in SUBSET (Turns \X AttemptNumbers) : SelectStalled(live)
    \/ \E t \in Turns, n \in AttemptNumbers : LeaseExpires(t, n)
    \/ \E v \in picked : RecoverStalled(v)
    \/ NodeShutdown
=============================================================================
