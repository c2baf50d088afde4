--------------------------- MODULE ProjectExecution ---------------------------
(***************************************************************************)
(* One project execution: its turns, the permit that every native          *)
(* invocation needs (turns/start_service.py, project_executions/usage.py), *)
(* and the ways it is revised, cancelled or ended by a limit               *)
(* (mutations.py, limits.py): intents are fenced at once, and the          *)
(* execution goes on only when every invocation that may run has been      *)
(* proved stopped (stop_service.py).                                       *)
(*                                                                         *)
(* Each server operation is one write transaction that locks the           *)
(* execution's row.  Frames may be lost, repeated or late.  The agent is   *)
(* LocalExecution reduced to what a stop can learn of it.                  *)
(***************************************************************************)
EXTENDS Integers, FiniteSets

CONSTANTS
    Requests,      \* turns of the execution
    Attempts,      \* their attempts
    RequestOf,     \* the turn of an attempt
    First,         \* the attempt whose invocation began the execution
    MaxNative,     \* max_native_invocations
    MaxRevision,   \* input revisions
    MaxCrashes,    \* ends of the agents' processes
    Leavers        \* bound: turns whose participant may leave the room

ASSUME ExecutionAssumption ==
    /\ RequestOf \in [Attempts -> Requests] /\ First \in Attempts
    /\ IsFiniteSet(Attempts) /\ Leavers \subseteq Requests
    /\ MaxNative \in Nat \ {0} /\ MaxRevision \in Nat \ {0} /\ MaxCrashes \in Nat

VARIABLES
    exec,       \* ProjectExecution and its awaiting ExecutionMutation
    turn,       \* AgentTurn
    att,        \* AgentTurnAttempt, with its native-terminal event
    stop,       \* ExecutionStop
    asked,      \* turn_stop frames sent
    receipts,   \* turn_stop_result frames sent
    agent,      \* the agent's invocation of the attempt
    crashes,    \* ends of an agent's process so far
    present     \* turns whose participant is still in the room

server == <<exec, turn, att, stop>>
vars == <<exec, turn, att, stop, asked, receipts, agent, crashes, present>>

\* SAFE_STOP_STATES.
Safe == {"confirmed", "not_started", "already_finished"}
Waiting == {"revising", "cancelling"}
Status == {"active", "completed", "cancelled", "failed"} \cup Waiting

\* begin_execution: the lead's running invocation is bound and adopted.
Init ==
    /\ exec = [status |-> "active", revision |-> 1, mutation |-> "none", blocked |-> FALSE,
               reserved |-> 1, denied |-> FALSE, due |-> FALSE]
    /\ turn = [r \in Requests |->
           IF r = RequestOf[First] THEN [state |-> "open", revision |-> 1]
           ELSE [state |-> "none", revision |-> 0]]
    /\ att = [a \in Attempts |->
           IF a = First THEN [state |-> "leased", local |-> TRUE, proof |-> "none"]
           ELSE [state |-> "none", local |-> FALSE, proof |-> "none"]]
    /\ stop = [a \in Attempts |-> "none"]
    /\ asked = {} /\ receipts = {} /\ crashes = 0 /\ present = Requests
    /\ agent = [a \in Attempts |->
           [proc |-> IF a = First THEN "alive" ELSE "none", tomb |-> FALSE, sure |-> TRUE]]

\* _admission: a slot is left.
Admitted == exec.reserved < MaxNative

\* validate_execution_turn and the gates of its callers: the turn is open, of the
\* execution's input and of a participant, and no stop is undecided.
Current(a) ==
    /\ exec.status = "active" /\ ~exec.due /\ RequestOf[a] \in present
    /\ turn[RequestOf[a]] = [state |-> "open", revision |-> exec.revision]
    /\ \A b \in Attempts : stop[b] \in Safe \cup {"none"}
Running(a) == att[a].state = "leased" /\ turn[RequestOf[a]].state = "open"

-----------------------------------------------------------------------------
\* Plausible slip: what the attempt's own state calls ended needs no stop.
MutFencedStops(atts) ==
    [a \in Attempts |->
        IF stop[a] # "none" \/ atts[a].proof \in {"safe", "retry"} \/
           atts[a].state \notin {"pending", "leased"}
        THEN stop[a]
        ELSE IF atts[a].state = "pending" THEN "not_started" ELSE "pending"]

\* fence_execution_turns: an attempt that may have a process and has no proof of
\* its end gets a stop.  One that was never leased needs no answer.
FencedStops(atts) ==
    [a \in Attempts |->
        IF stop[a] # "none" \/ atts[a].proof \in {"safe", "retry"} \/
           ~(atts[a].local \/ atts[a].state \in {"pending", "leased"})
        THEN stop[a]
        ELSE IF atts[a].state = "pending" THEN "not_started" ELSE "pending"]

FencedAttempts(atts) ==
    [a \in Attempts |->
        IF atts[a].state \in {"pending", "leased"} THEN [atts[a] EXCEPT !.state = "ended"] ELSE atts[a]]

FencedTurns ==
    [r \in Requests |-> IF turn[r].state = "open" THEN [turn[r] EXCEPT !.state = "closed"] ELSE turn[r]]

\* A turn for r, which has a participant, and its first attempt a.
Fresh(r, a) == turn[r].state = "none" /\ RequestOf[a] = r /\ r \in present

\* Plausible slip: the newest stop decides.
MutAllSafe(stops) == \E a \in Attempts : stops[a] \in Safe

AllSafe(stops) == \A a \in Attempts : stops[a] \in Safe \cup {"none"}

\* settle_execution_mutation, of an awaiting mutation e.mutation.  A revision
\* assigns its root task, which may be refused: then it stays as it is.
Settle(e, turns, atts, stops) ==
    \/ /\ ~AllSafe(stops)
       /\ exec' = e /\ turn' = turns /\ att' = atts
    \/ /\ AllSafe(stops) /\ e.mutation # "revise"
       /\ exec' = [e EXCEPT !.mutation = "none",
                            !.status = IF e.mutation = "cancel" THEN "cancelled" ELSE "failed"]
       /\ turn' = turns /\ att' = atts
    \/ /\ AllSafe(stops) /\ e.mutation = "revise" /\ ~e.due /\ Admitted
       /\ \E r \in Requests, a \in Attempts :
              /\ Fresh(r, a)
              /\ exec' = [e EXCEPT !.mutation = "none", !.status = "active"]
              /\ turn' = [turns EXCEPT ![r] = [state |-> "open", revision |-> e.revision]]
              /\ att' = [atts EXCEPT ![a] = [state |-> "pending", local |-> FALSE, proof |-> "none"]]
    \/ /\ AllSafe(stops) /\ e.mutation = "revise"
       /\ exec' = [e EXCEPT !.blocked = TRUE]
       /\ turn' = turns /\ att' = atts

\* Every mutation: the new status, then the fence, then what can be settled.  A
\* newer mutation supersedes the one that waits.
Mutate(action, revision, atts) ==
    LET e == [exec EXCEPT !.status = IF action = "revise" THEN "revising" ELSE "cancelling",
                          !.mutation = action, !.revision = revision, !.blocked = FALSE]
    IN  /\ stop' = FencedStops(atts)
        /\ Settle(e, FencedTurns, FencedAttempts(atts), FencedStops(atts))

\* revise_execution.
Revise ==
    /\ exec.status = "active" /\ exec.revision < MaxRevision
    /\ Mutate("revise", exec.revision + 1, att)
    /\ UNCHANGED <<asked, receipts, agent, crashes, present>>

\* cancel_execution, cancel_cycle_execution.
Cancel ==
    /\ exec.status \in {"active", "revising"}
    /\ Mutate("cancel", exec.revision, att)
    /\ UNCHANGED <<asked, receipts, agent, crashes, present>>

DeadlinePasses ==
    /\ ~exec.due
    /\ exec' = [exec EXCEPT !.due = TRUE]
    /\ UNCHANGED <<turn, att, stop, asked, receipts, agent, crashes, present>>

\* expire_execution_deadlines.
Expire ==
    /\ exec.status = "active" /\ exec.due
    /\ Mutate("deadline", exec.revision, att)
    /\ UNCHANGED <<asked, receipts, agent, crashes, present>>

\* close_execution_limit for the invocation limit: invocations already permitted
\* finish first; the denial is remembered.
CloseLimit ==
    /\ exec.status = "active" /\ ~Admitted
    /\ \/ /\ \E a \in Attempts : att[a].local /\ Running(a)
          /\ exec' = [exec EXCEPT !.denied = TRUE]
          /\ UNCHANGED <<turn, att, stop>>
       \/ /\ \A a \in Attempts : ~(att[a].local /\ Running(a))
          /\ Mutate("limit", exec.revision, att)

\* A delegation, a dispatch, a retry or a start is denied (apply_queued_usage_denials,
\* authorize_native_start).
Denied ==
    /\ \E a \in Attempts : att[a].state \in {"pending", "leased"}
    /\ CloseLimit
    /\ UNCHANGED <<asked, receipts, agent, crashes, present>>

\* Plausible slip: every permitted invocation must have reported its end.
MutReconcile ==
    /\ exec.denied
    /\ ~\E a \in Attempts : att[a].local /\ att[a].proof = "none"
    /\ CloseLimit
    /\ UNCHANGED <<asked, receipts, agent, crashes, present>>

\* reconcile_native_limit_denials, in every tick.
Reconcile ==
    /\ exec.denied
    /\ ~\E a \in Attempts : att[a].local /\ Running(a)
    /\ CloseLimit
    /\ UNCHANGED <<asked, receipts, agent, crashes, present>>

-----------------------------------------------------------------------------
\* delegate_task and the other intents of a running turn: create_turn.
Delegate(r, a) ==
    /\ \E b \in Attempts : Current(b) /\ Running(b)
    /\ Fresh(r, a) /\ Admitted
    /\ turn' = [turn EXCEPT ![r] = [state |-> "open", revision |-> exec.revision]]
    /\ att' = [att EXCEPT ![a].state = "pending"]
    /\ UNCHANGED <<exec, stop, asked, receipts, agent, crashes, present>>

\* deliver_pending_outbox: the lease.
Dispatch(a) ==
    /\ att[a].state = "pending" /\ Current(a) /\ Admitted
    /\ att' = [att EXCEPT ![a].state = "leased"]
    /\ UNCHANGED <<exec, turn, stop, asked, receipts, agent, crashes, present>>

\* authorize_native_start with reserve_native_invocation: one slot and one local
\* invocation for the attempt, committed before the answer is sent.  The same
\* invocation asked for again is a duplicate: nothing changes, the answer is the same.
Permit(a) ==
    /\ att[a].state = "leased" /\ ~att[a].local /\ Current(a) /\ Admitted
    /\ att' = [att EXCEPT ![a].local = TRUE]
    /\ exec' = [exec EXCEPT !.reserved = @ + 1]
    /\ agent' = [agent EXCEPT ![a].proc = "granted"]
    /\ UNCHANGED <<turn, stop, asked, receipts, crashes, present>>

\* engine_call_finished: _native_terminal_receipt for the attempt that holds the
\* turn, then settle_native_usage, which closes the execution when the observed
\* tokens are spent (overspent) and remembers that the last slot is.
Proves(a, proof) ==
    IF proof = "unknown" THEN ~agent[a].sure
    ELSE agent[a].sure /\ agent[a].proc \in {"finished", "stopped", "refused"}

Terminal(a, proof, overspent) ==
    /\ Running(a) /\ Current(a) /\ att[a].local /\ att[a].proof = "none"
    /\ Proves(a, proof)
    /\ \/ /\ ~overspent
          /\ att' = [att EXCEPT ![a].proof = proof]
          /\ exec' = [exec EXCEPT !.denied = @ \/ ~Admitted]
          /\ UNCHANGED <<turn, stop>>
       \/ /\ overspent
          /\ Mutate("limit", exec.revision, [att EXCEPT ![a].proof = proof])
    /\ UNCHANGED <<asked, receipts, agent, crashes, present>>

\* The usage of an invocation that is over is settled whatever has become of its
\* attempt, and the limits are looked at again.
SettleUsage(a, overspent) ==
    /\ att[a].local /\ exec.status = "active"
    /\ \E proof \in {"safe", "unknown"} : Proves(a, proof)
    /\ \/ /\ ~overspent
          /\ exec' = [exec EXCEPT !.denied = @ \/ ~Admitted]
          /\ UNCHANGED <<turn, att, stop>>
       \/ overspent /\ Mutate("limit", exec.revision, att)
    /\ UNCHANGED <<asked, receipts, agent, crashes, present>>

\* The turn ends: its reply, a refusal, a failure, the recovery of a lost lease
\* whose invocation may have had effects, or cancel_invalid_turns.
TurnEnds(a) ==
    /\ att[a].state \in {"pending", "leased"} /\ turn[RequestOf[a]].state = "open"
    /\ exec.status \in {"active", "completed"}
    /\ turn' = [turn EXCEPT ![RequestOf[a]].state = "closed"]
    /\ att' = [att EXCEPT ![a].state = "ended"]
    /\ UNCHANGED <<exec, stop, asked, receipts, agent, crashes, present>>

\* Plausible slip: a lost lease is retried like that of an ordinary turn.
MutMayRetry(a) == TRUE

\* Only an attempt that was never permitted, or whose process is proved gone.
MayRetry(a) == ~att[a].local \/ att[a].proof = "retry"

\* recover_stalled_turns.
Retry(a, b) ==
    /\ Running(a) /\ Current(a) /\ MayRetry(a) /\ Admitted
    /\ RequestOf[b] = RequestOf[a] /\ att[b].state = "none"
    /\ att' = [[att EXCEPT ![a].state = "ended"] EXCEPT ![b].state = "pending"]
    /\ UNCHANGED <<exec, turn, stop, asked, receipts, agent, crashes, present>>

\* finish_execution, called by a running lead.
Finish ==
    /\ \E a \in Attempts : Running(a) /\ Current(a) /\ att[a].local
    /\ exec' = [exec EXCEPT !.status = "completed"]
    /\ UNCHANGED <<turn, att, stop, asked, receipts, agent, crashes, present>>

-----------------------------------------------------------------------------
\* The participant of a turn leaves the room: its rows lose it (ON DELETE SET NULL).
Leave(r) ==
    /\ r \in Leavers \cap present
    /\ present' = present \ {r}
    /\ UNCHANGED <<server, asked, receipts, agent, crashes>>

\* deliver_pending_stops: only while the stop is undecided and in time, to a
\* participant.
DeliverStop(a) ==
    /\ stop[a] \in {"pending", "delivered"} /\ RequestOf[a] \in present
    /\ a \notin asked
    /\ asked' = asked \cup {a}
    /\ UNCHANGED <<server, receipts, agent, crashes, present>>

\* Its second transaction: the answer may have come first.
MarkDelivered(a) ==
    /\ a \in asked /\ stop[a] = "pending"
    /\ stop' = [stop EXCEPT ![a] = "delivered"]
    /\ UNCHANGED <<exec, turn, att, asked, receipts, agent, crashes, present>>

\* STOP_TIMEOUT_SEC passes and expire_pending_stops sees it.
ExpireStop(a) ==
    /\ stop[a] \in {"pending", "delivered"}
    /\ stop' = [stop EXCEPT ![a] = "unknown"]
    /\ UNCHANGED <<exec, turn, att, asked, receipts, agent, crashes, present>>

\* Plausible slip: an answer after the time is dropped.
MutAccepts(a) == stop[a] \in {"pending", "delivered"}

\* An answer is taken until one was proof, also after the time.
Accepts(a) == stop[a] \in {"pending", "delivered", "unknown"}

\* record_stop_receipt, from who was asked and is still a participant.
Receive(a, status) ==
    /\ <<a, status>> \in receipts /\ RequestOf[a] \in present
    /\ Accepts(a) /\ stop[a] # status
    /\ stop' = [stop EXCEPT ![a] = status]
    /\ IF exec.status \in Waiting THEN Settle(exec, turn, att, stop') ELSE UNCHANGED <<exec, turn, att>>
    /\ UNCHANGED <<asked, receipts, agent, crashes, present>>

-----------------------------------------------------------------------------
\* The agent.  A permit whose answer is lost or late starts nothing.
Launch(a) ==
    /\ agent[a].proc = "granted" /\ ~agent[a].tomb
    /\ agent' = [agent EXCEPT ![a].proc = "alive"]
    /\ UNCHANGED <<server, asked, receipts, crashes, present>>

Refuse(a) ==
    /\ agent[a].proc = "granted"
    /\ agent' = [agent EXCEPT ![a].proc = "refused"]
    /\ UNCHANGED <<server, asked, receipts, crashes, present>>

\* The engine ends, or a stop has ended it.
Exit(a) ==
    /\ agent[a].proc = "alive" /\ agent[a].sure
    /\ agent' = [agent EXCEPT ![a].proc = IF agent[a].tomb THEN "stopped" ELSE "finished"]
    /\ UNCHANGED <<server, asked, receipts, crashes, present>>

\* What the agent's store proves of the invocation.
Verdict(a) ==
    CASE ~agent[a].sure -> "unknown"
      [] agent[a].proc \in {"none", "granted", "refused"} -> "not_started"
      [] agent[a].proc = "alive" -> "unknown"
      [] agent[a].proc = "stopped" -> "confirmed"
      [] agent[a].proc = "finished" -> "already_finished"

\* stop_turn: the tombstone keeps a granted start from happening; a process is
\* awaited for a while (Exit), then what is known is answered.
StopTurn(a) ==
    /\ a \in asked /\ ~agent[a].tomb
    /\ agent' = [agent EXCEPT ![a].tomb = TRUE]
    /\ UNCHANGED <<server, asked, receipts, crashes, present>>

AnswerStop(a) ==
    /\ a \in asked /\ agent[a].tomb
    /\ <<a, Verdict(a)>> \notin receipts
    /\ receipts' = receipts \cup {<<a, Verdict(a)>>}
    /\ UNCHANGED <<server, asked, agent, crashes, present>>

\* The agent's process ends while the invocation is on: what it was doing is
\* unknown from now on, and the native process may live on or not.
Crash(a, survives) ==
    /\ crashes < MaxCrashes /\ crashes' = crashes + 1
    /\ agent[a].proc \in {"granted", "alive"} /\ agent[a].sure
    /\ agent' = [agent EXCEPT ![a] =
           [proc |-> IF agent[a].proc = "alive" /\ survives THEN "alive" ELSE "refused",
            tomb |-> agent[a].tomb, sure |-> FALSE]]
    /\ UNCHANGED <<server, asked, receipts, present>>

OrphanEnds(a) ==
    /\ agent[a].proc = "alive" /\ ~agent[a].sure
    /\ agent' = [agent EXCEPT ![a].proc = "finished"]
    /\ UNCHANGED <<server, asked, receipts, crashes, present>>

-----------------------------------------------------------------------------
Answers == \E a \in Attempts, status \in Safe : Receive(a, status)

Next ==
    \/ Revise \/ Cancel \/ DeadlinePasses \/ Expire \/ Denied \/ Reconcile \/ Finish
    \/ \E r \in Requests : Leave(r) \/ \E a \in Attempts : Delegate(r, a)
    \/ \E a, b \in Attempts : Retry(a, b)
    \/ \E a \in Attempts :
           \/ Dispatch(a) \/ Permit(a) \/ TurnEnds(a)
           \/ DeliverStop(a) \/ MarkDelivered(a) \/ ExpireStop(a)
           \/ Launch(a) \/ Refuse(a) \/ Exit(a) \/ StopTurn(a) \/ AnswerStop(a) \/ OrphanEnds(a)
           \/ \E proof \in {"safe", "retry", "unknown"}, overspent \in BOOLEAN : Terminal(a, proof, overspent)
           \/ \E overspent \in BOOLEAN : SettleUsage(a, overspent)
           \/ \E status \in Safe \cup {"unknown"} : Receive(a, status)
           \/ \E survives \in BOOLEAN : Crash(a, survives)

\* Frames that were received are handled, a lost lease is recovered, and the
\* worker's tick comes round.
Fairness ==
    /\ WF_vars(Answers)
    /\ WF_vars(Reconcile) /\ WF_vars(\E a \in Attempts : Running(a) /\ TurnEnds(a))

Spec == Init /\ [][Next]_vars /\ Fairness

\* The same, when agents come back and answer what reaches them.
ReplaySpec ==
    /\ Spec
    /\ \A a \in Attempts :
           WF_vars(DeliverStop(a)) /\ WF_vars(StopTurn(a)) /\ WF_vars(Exit(a)) /\ WF_vars(AnswerStop(a))

-----------------------------------------------------------------------------
TypeOK ==
    /\ exec \in [status : Status, revision : 1 .. MaxRevision,
                 mutation : {"none", "revise", "cancel", "deadline", "limit"}, blocked : BOOLEAN,
                 reserved : 0 .. MaxNative, denied : BOOLEAN, due : BOOLEAN]
    /\ exec.mutation # "none" <=> exec.status \in Waiting
    /\ turn \in [Requests -> [state : {"none", "open", "closed"}, revision : 0 .. MaxRevision]]
    /\ att \in [Attempts -> [state : {"none", "pending", "leased", "ended"}, local : BOOLEAN,
                             proof : {"none", "safe", "retry", "unknown"}]]
    /\ stop \in [Attempts -> {"none", "pending", "delivered", "unknown"} \cup Safe]
    /\ asked \subseteq Attempts /\ receipts \subseteq Attempts \X (Safe \cup {"unknown"})
    /\ agent \in [Attempts ->
           [proc : {"none", "granted", "alive", "finished", "stopped", "refused"},
            tomb : BOOLEAN, sure : BOOLEAN]]
    /\ crashes \in 0 .. MaxCrashes /\ present \subseteq Requests

\* A native process runs, or a permitted one may still be started.
MayRun(a) == agent[a].proc = "alive" \/ (agent[a].proc = "granted" /\ ~agent[a].tomb)

\* An execution that has gone on after a revision, or has ended by cancellation
\* or a limit, has no invocation of an older input left anywhere.
NoStaleProcess ==
    \A a \in Attempts : MayRun(a) =>
        /\ exec.status \notin {"cancelled", "failed"}
        /\ exec.status \in {"active", "completed"} => turn[RequestOf[a]].revision = exec.revision

\* A turn never has two invocations at once, whatever was retried.
OneInvocationPerTurn ==
    \A a, b \in Attempts : RequestOf[a] = RequestOf[b] /\ MayRun(a) /\ MayRun(b) => a = b

\* An execution that waits has something to wait for, unless its revision was
\* refused: the last answer is never overlooked.
WaitsForAStop ==
    exec.status \in Waiting /\ ~exec.blocked => \E a \in Attempts : Accepts(a)

\* "An accepted process receipt is immutable", and it is true: the attempt has
\* no process from then on.
ProofIsFinal ==
    [][\A a \in Attempts : stop[a] \in Safe =>
           stop'[a] = stop[a] /\ ~MayRun(a)']_vars

\* The proof counts whenever it comes, also after the time of the stop has run
\* out: once the last one has been sent, of a turn that still has its participant,
\* the execution goes on.
Proved(a) ==
    \/ stop[a] \in Safe \cup {"none"}
    \/ RequestOf[a] \in present /\ \E status \in Safe : <<a, status>> \in receipts
LateProofSettles ==
    (exec.status \in Waiting /\ \A a \in Attempts : Proved(a)) ~>
        (exec.status \notin Waiting \/ exec.blocked \/ \E a \in Attempts : ~Proved(a))

\* The same of a turn whose participant has left in between.
EveryProofSettles ==
    (exec.status \in Waiting /\ \A a \in Attempts : Proved(a)) ~>
        (exec.status \notin Waiting \/ exec.blocked)

\* "Durable local tombstone/receipt survives; server stop replay obtains the same
\* proof when this room reconnects" (agent/client.py).
EveryStopIsProved ==
    (exec.status = "cancelling" /\ \A a \in Attempts : agent[a].sure) ~>
        (exec.status # "cancelling" \/ \E a \in Attempts : ~agent[a].sure)

\* An execution that was denied an invocation does not stay open once the
\* permitted ones have ended.
ExhaustedCloses == (exec.denied /\ exec.status = "active") ~> exec.status # "active"
===============================================================================
