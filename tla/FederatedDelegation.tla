------------------------- MODULE FederatedDelegation -------------------------
(***************************************************************************)
(* One task delegated to an agent of another node.  The authority keeps    *)
(* the record and its revision (federation/delegation.py); the executor    *)
(* node keeps a binding and at most one undelivered command                *)
(* (executor.py) and works on them in one job (execution_worker.py); the   *)
(* agent keeps what it has prepared and the receipt of its invocation      *)
(* (agent/runtime/execution/control.py).                                   *)
(*                                                                         *)
(* Commands to the authority may be late, repeated, or committed without   *)
(* the executor learning of it; frames to the agent keep their order and   *)
(* are lost with the connection.  The invocation is LocalExecution reduced *)
(* to its receipt.  Grants, epochs and memberships stay as they are.       *)
(***************************************************************************)
EXTENDS Integers, Sequences

CONSTANTS
    MaxCancels,   \* cancellations by the requester, an admin or the sweeper
    MaxFaults     \* timeouts, crashes, lost connections, denied reads, shutdowns

ASSUME DelegationAssumption == MaxCancels \in Nat /\ MaxFaults \in Nat

VARIABLES
    auth,       \* Delegation: the authority's record
    log,        \* CommandReceipt: the commands it has committed
    posted,     \* commands on their way to it
    binding,    \* ExecutorBinding
    pending,    \* the DelegationOutbox row that is pending
    job,        \* the executor's job: what it waits for and does next
    answer,     \* what has come back to it
    wire,       \* control frames on their way to the agent
    prepared,   \* the agent's prepared row
    receipt,    \* the receipt of its invocation
    alive,      \* a native process runs
    starts,     \* native processes created
    cancels, faults

authority == <<auth, log, cancels>>
executor == <<binding, pending>>
agent == <<prepared, receipt>>
machine == <<alive, starts>>
vars == <<auth, log, posted, binding, pending, job, answer, wire, prepared, receipt,
          alive, starts, cancels, faults>>

TERMINAL == {"completed", "failed", "rejected", "cancelled"}
ACTIVE == {"requested", "accepted", "running", "cancel_requested", "unknown"}

Command(kind, rev, arg) == [kind |-> kind, rev |-> rev, arg |-> arg]
NoCommand == Command("none", 0, "none")
Rcpt(state, process, outcome) == [state |-> state, process |-> process, outcome |-> outcome]
NoReceipt == Rcpt("none", "not_started", "none")
Gone == Rcpt("gone", "unknown", "none")       \* EXECUTION_UNKNOWN
Denied == Rcpt("denied", "unknown", "none")   \* any other error
Nothing == Rcpt("nothing", "unknown", "none")

\* _request has been committed.
Init ==
    /\ auth = [state |-> "requested", rev |-> 1, proc |-> "not_started", bound |-> FALSE,
               late |-> FALSE]
    /\ log = {} /\ posted = {}
    /\ binding = [rev |-> 0, auth |-> "none", local |-> "none", real |-> TRUE]
    /\ pending = NoCommand
    /\ job = [pc |-> "idle", next |-> "idle"] /\ answer = Nothing /\ wire = <<>>
    /\ prepared = "none" /\ receipt = NoReceipt
    /\ alive = FALSE /\ starts = 0 /\ cancels = 0 /\ faults = 0

Fault == faults < MaxFaults /\ faults' = faults + 1

-----------------------------------------------------------------------------
\* The authority: apply_effect.
Target(c) ==
    CASE c.kind = "accept" -> "accepted"
      [] c.kind = "reject" -> "rejected"
      [] c.kind = "started" -> "running"
      [] c.kind = "result" -> IF c.arg = "succeeded" THEN "completed" ELSE "failed"
      [] c.kind = "cancelled" -> "cancelled"
      [] c.kind = "unknown" -> "unknown"

From(kind) ==
    CASE kind \in {"accept", "reject"} -> {"requested"}
      [] kind = "started" -> {"accepted"}
      [] kind = "result" -> {"accepted", "running"}
      [] kind = "cancelled" -> {"cancel_requested"}
      [] kind = "unknown" -> {"accepted", "running", "cancel_requested"}

ProcessState(c) ==
    CASE c.kind \in {"accept", "unknown"} -> "unknown"
      [] c.kind = "reject" -> auth.proc
      [] c.kind = "started" -> "running"
      [] c.kind = "result" -> "finished"
      [] c.kind = "cancelled" -> c.arg

\* The revision is the record's, the state allows the step, and an execution
\* that was never accepted can only be cancelled as not started.
Accepts(c) ==
    /\ c.rev = auth.rev
    /\ auth.state \in From(c.kind)
    /\ c.kind \notin {"accept", "reject"} /\ ~auth.bound => c.arg = "not_started"
    /\ ~(c.arg = "not_started" /\ auth.proc = "running")

Effect(c) ==
    [auth EXCEPT !.state = Target(c), !.rev = @ + 1, !.proc = ProcessState(c),
                 !.bound = @ \/ c.kind = "accept"]

\* The same request identity: the kind and the revision name a command.
Same(c, d) == c.kind = d.kind /\ c.rev = d.rev

\* The job is still waiting for this command.
Respond(c, a) ==
    answer' = IF job.pc = "deliver" /\ pending = c THEN Rcpt(a, "unknown", "none") ELSE answer

\* submit: a command committed before answers with its receipt; a result after
\* a cancellation is only noted.
Submit(c) ==
    /\ c \in posted /\ posted' = posted \ {c}
    /\ \/ /\ c \in log
          /\ Respond(c, "receipt") /\ UNCHANGED <<auth, log>>
       \/ /\ \A d \in log : ~Same(c, d)
          /\ Accepts(c)
          /\ auth' = Effect(c) /\ log' = log \cup {c}
          /\ Respond(c, "receipt")
       \/ /\ c \notin log
          /\ ~(Accepts(c) /\ \A d \in log : ~Same(c, d))
          /\ auth' = [auth EXCEPT !.late =
                 @ \/ (c.kind = "result" /\ auth.state \in {"cancel_requested", "cancelled"})]
          /\ Respond(c, "denied") /\ UNCHANGED log
    /\ UNCHANGED <<executor, job, wire, agent, machine, cancels, faults>>

\* task.cancel, by a user or by sweep_pickup_timeouts.
Cancel ==
    /\ cancels < MaxCancels /\ cancels' = cancels + 1
    /\ auth.state \in {"requested", "accepted", "running", "unknown"}
    /\ auth' = [auth EXCEPT !.state = "cancel_requested", !.rev = @ + 1]
    /\ UNCHANGED <<log, posted, executor, job, answer, wire, agent, machine, faults>>

-----------------------------------------------------------------------------
\* The executor's job.  _execution_tick finds work in the record (its own or
\* mirrored) and in the binding.
Work == auth.state \in ACTIVE \/ binding.auth \in ACTIVE \/ binding.local = "cleanup_pending"
Idle == job.pc = "idle" /\ Work

Go(pc, next) == job' = [pc |-> pc, next |-> next] /\ answer' = Nothing
End == Go("idle", "idle") /\ UNCHANGED <<posted, wire>>

\* A control frame; its answer counts only while the job waits for it.
Request(action, real) ==
    /\ wire' = Append(wire, [action |-> action, live |-> TRUE, real |-> real])
    /\ UNCHANGED posted

\* deliver, up to the answer.
Deliver(c, next) ==
    /\ UNCHANGED wire
    /\ IF c = NoCommand
       THEN Go(next, "idle") /\ UNCHANGED posted
       ELSE Go("deliver", next) /\ posted' = posted \cup {c}

Enqueue(kind, rev, arg) ==
    pending' = IF pending # NoCommand THEN pending ELSE Command(kind, rev, arg)

\* _execute without a binding: the agent prepares first.
AskPrepare ==
    /\ Idle /\ binding.local = "none" /\ auth.state = "requested"
    /\ Request("prepare", TRUE) /\ Go("prepare", "launch")
    /\ UNCHANGED <<authority, executor, agent, machine, faults>>

\* _cancel_unprepared: the binding that fences every later prepare.
CancelUnprepared ==
    /\ Idle /\ binding.local = "none" /\ auth.state = "cancel_requested" /\ ~auth.bound
    /\ binding' = [rev |-> auth.rev, auth |-> "cancel_requested", local |-> "cancel_requested",
                   real |-> FALSE]
    /\ pending' = Command("cancelled", auth.rev, "not_started")
    /\ Deliver(pending', "idle")
    /\ UNCHANGED <<authority, agent, machine, faults>>

\* prepare: the intent is durable before the authority is asked to accept; a
\* suppressed executor declines.
Prepare(suppressed) ==
    /\ job.pc = "prepare" /\ answer.state = "descriptor"
    /\ binding' = [rev |-> 1, auth |-> "requested", real |-> TRUE,
                   local |-> IF suppressed THEN "declined" ELSE "prepared"]
    /\ pending' = Command(IF suppressed THEN "reject" ELSE "accept", 1, "none")
    /\ Deliver(pending', job.next)
    /\ UNCHANGED <<authority, agent, machine, faults>>

\* Plausible slip: what is pending is delivered before the cancellation is
\* looked at.
MutSupersede(unstarted) ==
    IF pending # NoCommand THEN pending
    ELSE IF unstarted THEN Command("cancelled", auth.rev, "not_started")
    ELSE NoCommand

\* The command that is pending when a cancellation has been taken in.
Supersede(unstarted) ==
    IF binding.local = "cancel_pending_prepare" /\ pending # NoCommand THEN pending
    ELSE IF unstarted THEN Command("cancelled", auth.rev, "not_started")
    ELSE NoCommand

Unstarted == binding.local \in {"prepared", "accepted", "cancel_pending_prepare"}
CancelTaken ==
    /\ binding.rev = auth.rev /\ binding.auth = "cancel_requested"
    /\ pending # NoCommand /\ binding.local # "cancel_pending_prepare"

\* cancel, up to the agent's answer.
CancelBegins ==
    /\ Idle /\ binding.local \notin {"none", "cleanup_pending"}
    /\ auth.state = "cancel_requested" /\ auth.rev >= binding.rev
    /\ \/ CancelTaken /\ Deliver(pending, "idle") /\ UNCHANGED executor
       \/ /\ ~CancelTaken
          /\ pending' = Supersede(Unstarted)
          /\ binding' = [binding EXCEPT !.rev = auth.rev, !.auth = "cancel_requested",
                 !.local = IF Unstarted THEN "cancel_pending_prepare" ELSE "cancel_requested"]
          /\ Request("cancel", binding.real) /\ Go("cancel", "idle")
    /\ UNCHANGED <<authority, agent, machine, faults>>

AskReconcile == Request("reconcile", binding.real) /\ Go("reconcile", "idle")

\* cancel, after it: nothing that was not started can start any more; anything
\* else is observed.
CancelGoesOn ==
    /\ job.pc = "cancel" /\ answer.state \notin {"nothing", "denied"}
    /\ \/ /\ binding.local = "cancel_pending_prepare"
          /\ binding' = [binding EXCEPT !.local = "cancel_requested"]
          /\ Deliver(pending, "idle")
       \/ /\ binding.local # "cancel_pending_prepare"
          /\ AskReconcile /\ UNCHANGED binding
    /\ UNCHANGED <<authority, pending, agent, machine, faults>>

\* _execute with a binding: first what is pending.
Proceed ==
    /\ Idle /\ binding.local \notin {"none", "cleanup_pending"}
    /\ auth.state \in (ACTIVE \cup TERMINAL) \ {"cancel_requested"}
    /\ Deliver(pending, IF auth.state \in TERMINAL THEN "retire" ELSE "launch")
    /\ UNCHANGED <<authority, executor, agent, machine, faults>>

\* Plausible slip: the revision always moves on, the state only with the end.
MutApplied(c) ==
    IF Target(c) \in TERMINAL
    THEN [binding EXCEPT !.rev = c.rev + 1, !.auth = Target(c), !.local = "cleanup_pending"]
    ELSE [binding EXCEPT !.rev = c.rev + 1,
             !.local = IF c.kind = "accept" /\ @ = "prepared" THEN "accepted" ELSE @]

\* deliver: what a receipt does to the binding.
Applied(c) ==
    LET b == IF c.rev + 1 > binding.rev
             THEN [binding EXCEPT !.rev = c.rev + 1, !.auth = Target(c),
                      !.local = IF c.kind = "accept" /\ @ = "prepared" THEN "accepted" ELSE @]
             ELSE binding
    IN  IF c.rev + 1 >= b.rev /\ Target(c) \in TERMINAL
        THEN [b EXCEPT !.local = "cleanup_pending"] ELSE b

Delivered ==
    /\ job.pc = "deliver" /\ answer.state = "receipt"
    /\ binding' = Applied(pending) /\ pending' = NoCommand
    /\ Go(job.next, "idle")
    /\ UNCHANGED <<authority, posted, wire, agent, machine, faults>>

\* launch: the acceptance is confirmed, the claim recorded, then the agent asked.
Launch ==
    /\ job.pc = "launch" /\ binding.local = "accepted"
    /\ \/ /\ auth.state = "accepted" /\ binding.auth = "accepted" /\ auth.rev >= binding.rev
          /\ binding' = [binding EXCEPT !.rev = auth.rev, !.local = "launch_intent"]
          /\ Request("start", binding.real) /\ Go("start", "idle")
       \/ /\ ~(auth.state = "accepted" /\ binding.auth = "accepted" /\ auth.rev >= binding.rev)
          /\ End /\ UNCHANGED binding
    /\ UNCHANGED <<authority, pending, agent, machine, faults>>

\* observe, up to the agent's receipt.
Observe ==
    /\ \/ job.pc = "launch" /\ binding.local # "accepted"
       \/ job.pc = "start" /\ answer.state \notin {"nothing", "denied", "gone"}
    /\ IF /\ binding.auth \in {"accepted", "running", "cancel_requested"}
          /\ binding.local # "prepared"
       THEN AskReconcile ELSE End
    /\ UNCHANGED <<authority, executor, agent, machine, faults>>

\* A start that never came is fenced before the attempt is called unknown.
OnlyPrepared ==
    /\ job.pc = "reconcile" /\ binding.local = "launch_intent"
    /\ answer = Rcpt("prepared", "not_started", "none")

FenceLateStart ==
    /\ OnlyPrepared
    /\ Request("cancel", binding.real) /\ Go("fence", "idle")
    /\ UNCHANGED <<authority, executor, agent, machine, faults>>

\* Plausible slip: a cancelled invocation needs no look at its process.
MutReports(r) ==
    IF r.state = "gone" \/ r.outcome = "unknown" THEN {<<"unknown", "none">>}
    ELSE IF binding.auth = "cancel_requested"
    THEN {<<"cancelled", IF r.process = "not_started" THEN "not_started" ELSE "stopped">>}
    ELSE CASE r.outcome \in {"succeeded", "failed"} -> {<<"result", r.outcome>>, <<"unknown", "none">>}
           [] r.outcome = "cancelled" -> {<<"unknown", "none">>}
           [] r.outcome = "none" /\ r.process = "running" /\ binding.auth = "accepted" ->
                  {<<"started", "none">>}
           [] OTHER -> {<<"none", "none">>}

\* What the receipt lets the executor report.  Empty or oversized texts and
\* failures outside the closed list become "unknown".
Reports(r) ==
    IF r.state = "gone" \/ r.outcome = "unknown" THEN {<<"unknown", "none">>}
    ELSE IF binding.auth = "cancel_requested"
    THEN IF r.outcome # "none" /\ r.process \in {"stopped", "not_started", "finished"}
         THEN {<<"cancelled", IF r.process = "not_started" THEN "not_started" ELSE "stopped">>}
         ELSE {<<"none", "none">>}
    ELSE CASE r.outcome \in {"succeeded", "failed"} -> {<<"result", r.outcome>>, <<"unknown", "none">>}
           [] r.outcome = "cancelled" -> {<<"unknown", "none">>}
           [] r.outcome = "none" /\ r.process = "running" /\ binding.auth = "accepted" ->
                  {<<"started", "none">>}
           [] OTHER -> {<<"none", "none">>}

Report ==
    /\ \/ job.pc = "reconcile" /\ answer.state \notin {"nothing", "denied"}
       \/ job.pc = "fence" /\ answer.state \notin {"nothing", "denied", "gone"}
    /\ ~OnlyPrepared
    /\ \E r \in Reports(answer) :
           IF r[1] = "none" THEN End /\ UNCHANGED pending
           ELSE Enqueue(r[1], binding.rev, r[2]) /\ Deliver(pending', "idle")
    /\ binding' = IF answer.state = "gone" \/ answer.outcome = "unknown"
                  THEN [binding EXCEPT !.local = "unknown"] ELSE binding
    /\ UNCHANGED <<authority, agent, machine, faults>>

\* _cleanup: the agent's record is retired, a synthetic one by its real name.
AskCleanup ==
    /\ Request(IF binding.real THEN "cancel" ELSE "describe", TRUE)
    /\ Go(IF binding.real THEN "cleanup" ELSE "describe", "idle")

Retire ==
    /\ \/ /\ job.pc = "retire" /\ auth.state # "rejected"
          /\ binding' = [binding EXCEPT !.rev = auth.rev, !.auth = auth.state,
                                        !.local = "cleanup_pending"]
       \/ Idle /\ binding.local = "cleanup_pending" /\ UNCHANGED binding
    /\ AskCleanup
    /\ UNCHANGED <<authority, pending, agent, machine, faults>>

Described ==
    /\ job.pc = "describe" /\ answer.state = "descriptor"
    /\ Request("cancel", TRUE) /\ Go("cleanup", "idle")
    /\ UNCHANGED <<authority, executor, agent, machine, faults>>

Settle ==
    /\ \/ job.pc = "cleanup" /\ answer.state \notin {"nothing", "denied"}
       \/ job.pc = "describe" /\ answer.state = "gone"
    /\ binding' = [binding EXCEPT !.local = "settled"]
    /\ End
    /\ UNCHANGED <<authority, pending, agent, machine, faults>>

\* An error ends the job; a later tick begins from what is stored.  A rejected
\* delegation fails _check_snapshot: the receipt has marked it for cleanup.
Fails ==
    /\ \/ answer.state = "denied"
       \/ job.pc \in {"prepare", "start", "fence"} /\ answer.state = "gone"
       \/ job.pc = "revoke" /\ answer # Nothing
       \/ job.pc = "retire" /\ auth.state = "rejected"
    /\ End
    /\ UNCHANGED <<authority, executor, agent, machine, faults>>

\* The authority does not answer or denies: the scope is revoked.
ContextFails ==
    /\ Fault
    /\ Idle /\ binding.local \notin {"none", "cleanup_pending"}
    /\ Request("revoke", binding.real) /\ Go("revoke", "idle")
    /\ UNCHANGED <<authority, executor, agent, machine>>

Unheard == [i \in 1..Len(wire) |-> [wire[i] EXCEPT !.live = FALSE]]

\* A timeout, an expired fence, or the end of the executor's process.
GivesUp ==
    /\ Fault
    /\ job.pc # "idle"
    /\ Go("idle", "idle") /\ wire' = Unheard
    /\ UNCHANGED <<authority, posted, executor, agent, machine>>

\* close: an orderly shutdown cancels what it has placed.
Closes ==
    /\ Fault
    /\ binding.auth \in {"accepted", "running", "cancel_requested"}
    /\ Go("idle", "idle")
    /\ wire' = Append(Unheard, [action |-> "cancel", live |-> FALSE, real |-> binding.real])
    /\ UNCHANGED <<authority, posted, executor, agent, machine>>

JobStep ==
    \/ AskPrepare \/ CancelUnprepared \/ CancelBegins \/ CancelGoesOn \/ Proceed
    \/ \E suppressed \in BOOLEAN : Prepare(suppressed)
    \/ Delivered \/ Launch \/ Observe \/ FenceLateStart \/ Report
    \/ Retire \/ Described \/ Settle \/ Fails

-----------------------------------------------------------------------------
\* The agent: AgentExecutionControl.handle, one frame at a time.
Started == prepared \in {"started", "revoked_started"}
Revoked == IF Started THEN "revoked_started" ELSE "revoked_prepared"

\* _cancel: the request is recorded; the task ends later.
Cancelled(r) ==
    IF r.state = "none" \/ r.outcome # "none" THEN r ELSE [r EXCEPT !.state = "cancel_requested"]

Fence == prepared' = Revoked /\ receipt' = Cancelled(receipt)

Reply(f, a) == answer' = IF f.live THEN a ELSE answer

\* The receipt, or what its absence means.
Known(r, asked) ==
    IF r.state # "none" THEN r
    ELSE IF Started THEN Rcpt("unknown", "unknown", "unknown")
    ELSE IF asked = "cancel" \/ prepared = "revoked_prepared"
    THEN Rcpt("cancelled", "not_started", "cancelled")
    ELSE Rcpt("prepared", "not_started", "none")

HandlePrepare(f) ==
    /\ f.action = "prepare"
    /\ prepared' = IF prepared = "none" THEN "prepared" ELSE prepared
    /\ Reply(f, IF prepared \in {"revoked_prepared", "revoked_started"} THEN Denied
                ELSE Rcpt("descriptor", "unknown", "none"))
    /\ UNCHANGED receipt

HandleDescribe(f) ==
    /\ f.action = "describe"
    /\ Reply(f, IF prepared = "none" THEN Gone ELSE Rcpt("descriptor", "unknown", "none"))
    /\ UNCHANGED agent

\* _row: no record, or one with another fingerprint.
HandleUnknown(f) ==
    /\ f.action \in {"start", "reconcile", "cancel", "revoke"}
    /\ prepared = "none" \/ ~f.real
    /\ Reply(f, IF prepared = "none" THEN Gone ELSE Denied)
    /\ UNCHANGED agent

Mine(f, actions) == f.action \in actions /\ prepared # "none" /\ f.real

\* start: the launch intent is durable before the manager is asked.
HandleStart(f, accepted) ==
    /\ Mine(f, {"start"})
    /\ \/ /\ prepared = "prepared"
          /\ prepared' = "started"
          /\ receipt' = IF accepted THEN Rcpt("queued", "not_started", "none") ELSE receipt
          /\ Reply(f, IF accepted THEN receipt' ELSE Denied)
       \/ /\ prepared = "started"
          /\ Reply(f, IF receipt = NoReceipt THEN Gone ELSE receipt) /\ UNCHANGED agent
       \/ /\ prepared \in {"revoked_prepared", "revoked_started"}
          /\ Reply(f, Denied) /\ UNCHANGED agent

HandleReconcile(f) ==
    /\ Mine(f, {"reconcile"})
    /\ Reply(f, Known(receipt, "reconcile")) /\ UNCHANGED agent

\* Plausible slip: only a running invocation is fenced.
MutHandleCancel(f) ==
    /\ Mine(f, {"cancel", "revoke"})
    /\ receipt' = Cancelled(receipt) /\ prepared' = IF Started THEN Revoked ELSE prepared
    /\ Reply(f, Known(receipt', "cancel"))

HandleCancel(f) ==
    /\ Mine(f, {"cancel", "revoke"})
    /\ Fence /\ Reply(f, Known(receipt', "cancel"))

Handle ==
    /\ wire # <<>> /\ wire' = Tail(wire)
    /\ LET f == Head(wire) IN
       \/ HandlePrepare(f) \/ HandleDescribe(f) \/ HandleUnknown(f)
       \/ \E accepted \in BOOLEAN : HandleStart(f, accepted)
       \/ HandleReconcile(f) \/ HandleCancel(f)
    /\ UNCHANGED <<authority, posted, executor, job, machine, faults>>

\* handle: a preparation that conflicts or is one too many, and a start under
\* another generation or configuration, are refused.
Refuses ==
    /\ Fault
    /\ wire # <<>> /\ Head(wire).action \in {"prepare", "start"} /\ wire' = Tail(wire)
    /\ Reply(Head(wire), Denied)
    /\ UNCHANGED <<authority, posted, executor, job, agent, machine>>

\* disconnected reaches the job that waits, if any.
Asking == {"prepare", "start", "reconcile", "fence", "cancel", "revoke", "cleanup", "describe"}
ConnectionLost ==
    /\ wire' = <<>>
    /\ answer' = IF job.pc \in Asking /\ answer = Nothing THEN Denied ELSE answer
    /\ UNCHANGED <<authority, posted, executor, job, machine>>

\* disconnected: what was started is revoked.
Disconnects ==
    /\ Fault
    /\ IF prepared = "started" THEN Fence ELSE UNCHANGED agent
    /\ ConnectionLost

\* _watch_leases: nobody has renewed the lease.
LeaseExpires ==
    /\ Fault
    /\ prepared = "started" /\ Fence
    /\ UNCHANGED <<authority, posted, executor, job, answer, wire, machine>>

\* Plausible slip: an invocation that was interrupted is taken up again.
MutRecover(r) ==
    IF r.state = "none" \/ r.outcome # "none" THEN r ELSE Rcpt("queued", "not_started", "none")

\* The next process opens the store.
Recover(r) ==
    IF r.state = "none" \/ r.outcome # "none" THEN r
    ELSE IF r.state = "queued" THEN Rcpt("cancelled", "not_started", "cancelled")
    ELSE Rcpt("unknown", "unknown", "unknown")

\* The agent's process ends, perhaps between the launch intent and the start.
Dies(intent) ==
    /\ Fault
    /\ intent => wire # <<>> /\ Mine(Head(wire), {"start"}) /\ prepared = "prepared"
    /\ prepared' = IF intent THEN "started" ELSE prepared
    /\ receipt' = Recover(receipt)
    /\ ConnectionLost

-----------------------------------------------------------------------------
\* The invocation, as LocalExecution has it.
Finish(outcome, process) == receipt' = Rcpt(outcome, process, outcome)
Enter ==
    /\ receipt.state = "queued"
    /\ \/ receipt' = Rcpt("launching", "unknown", "none")
       \/ Finish("failed", "not_started")
    /\ UNCHANGED machine

Fork ==
    /\ receipt.process = "unknown" /\ receipt.outcome = "none" /\ receipt.state # "none"
    /\ receipt' = [receipt EXCEPT !.process = "running",
                                  !.state = IF @ = "launching" THEN "running" ELSE @]
    /\ alive' = TRUE /\ starts' = starts + 1

\* Cancelled or refused before there was a process.
NotStarted ==
    /\ receipt.outcome = "none" /\ receipt.process \in {"not_started", "unknown"}
    /\ \/ receipt.state = "cancel_requested" /\ Finish("cancelled", "not_started")
       \/ receipt.process = "unknown" /\ Finish("failed", "not_started")
    /\ UNCHANGED machine

EngineEnds(outcome, process, confirmed) ==
    /\ receipt.process = "running" /\ receipt.outcome = "none"
    /\ outcome = "cancelled" => receipt.state = "cancel_requested"
    /\ alive' = ~confirmed
    /\ IF ~confirmed THEN Finish("unknown", "unknown")
       ELSE IF outcome = "succeeded" /\ receipt.state = "cancel_requested"
       THEN Finish("cancelled", "stopped") ELSE Finish(outcome, process)
    /\ UNCHANGED starts

Invocation ==
    /\ \/ Enter \/ Fork \/ NotStarted
       \/ \E confirmed \in BOOLEAN :
              EngineEnds("succeeded", "finished", confirmed) \/ EngineEnds("failed", "stopped", confirmed)
                  \/ EngineEnds("cancelled", "stopped", confirmed)
    /\ UNCHANGED <<authority, posted, executor, job, answer, wire, prepared, faults>>

OrphanEnds ==
    /\ alive /\ receipt.outcome # "none" /\ alive' = FALSE
    /\ UNCHANGED <<authority, posted, executor, job, answer, wire, agent, starts, faults>>

Authority == \E c \in posted : Submit(c)

Next ==
    \/ Authority \/ Cancel
    \/ JobStep \/ ContextFails \/ GivesUp \/ Closes
    \/ Handle \/ Refuses \/ Disconnects \/ LeaseExpires \/ \E intent \in BOOLEAN : Dies(intent)
    \/ Invocation \/ OrphanEnds

\* The worker ticks, requests are served, frames are read, engines end.
Spec ==
    /\ Init /\ [][Next]_vars
    /\ WF_vars(Authority) /\ WF_vars(JobStep) /\ WF_vars(Handle) /\ WF_vars(Invocation)

-----------------------------------------------------------------------------
Commands ==
    [kind : {"accept", "reject", "started", "result", "cancelled", "unknown"},
     rev : Nat, arg : {"none", "not_started", "stopped", "succeeded", "failed"}]
Processes == {"not_started", "unknown", "running", "stopped", "finished"}
Receipts ==
    [state : {"none", "nothing", "gone", "denied", "descriptor", "receipt", "prepared", "queued",
              "launching", "running", "cancel_requested", "succeeded", "failed", "cancelled", "unknown"},
     process : Processes, outcome : {"none", "succeeded", "failed", "cancelled", "unknown"}]
Bindings ==
    [rev : Nat, auth : {"none"} \cup ACTIVE \cup TERMINAL, real : BOOLEAN,
     local : {"none", "prepared", "declined", "accepted", "launch_intent", "unknown",
              "cancel_requested", "cancel_pending_prepare", "cleanup_pending", "settled"}]
Jobs == [pc : {"idle", "deliver", "launch", "retire"} \cup Asking,
         next : {"idle", "launch", "retire"}]
Frames == [action : {"prepare", "describe", "start", "reconcile", "cancel", "revoke"},
           live : BOOLEAN, real : BOOLEAN]

TypeOK ==
    /\ auth \in [state : ACTIVE \cup TERMINAL, rev : Nat, bound : BOOLEAN, late : BOOLEAN,
                 proc : Processes]
    /\ log \subseteq Commands /\ posted \subseteq Commands /\ pending \in Commands \cup {NoCommand}
    /\ binding \in Bindings /\ job \in Jobs /\ answer \in Receipts /\ wire \in Seq(Frames)
    /\ prepared \in {"none", "prepared", "started", "revoked_prepared", "revoked_started"}
    /\ receipt \in Receipts /\ alive \in BOOLEAN /\ starts \in Nat
    /\ cancels \in 0 .. MaxCancels /\ faults \in 0 .. MaxFaults

\* A delegation creates at most one native process, whatever is lost, repeated
\* or restarted on either node or in the agent ("never start again").
OneStart == starts =< 1

\* What the authority has closed is true of the machine, then and ever after:
\* a result is the invocation's own and its process is gone; "not started"
\* means that none was or will be, "stopped" that none is left.
ClosedIsTrue ==
    /\ auth.state \in TERMINAL => ~alive /\ receipt.state \notin {"queued", "launching", "running"}
    /\ auth.state = "completed" => receipt.outcome = "succeeded"
    /\ auth.state = "failed" => receipt.outcome = "failed"
    /\ auth.state \in TERMINAL /\ auth.proc = "not_started" => starts = 0

\* The executor is never ahead of the authority, and agrees with it whenever
\* it has caught up: no delayed answer undoes what it has seen.
BindingAgrees ==
    binding.local # "none" =>
        /\ binding.rev =< auth.rev
        /\ binding.rev = auth.rev => binding.auth = auth.state

\* A binding that is settled has left nothing at the agent that could start.
SettledIsFenced == binding.local = "settled" => prepared \notin {"prepared", "started"}

\* Every delegation is closed or, for lack of proof, put before a human; every
\* cancellation is answered.
DelegationEnds == []<>(auth.state \in TERMINAL \cup {"unknown"})
=============================================================================
