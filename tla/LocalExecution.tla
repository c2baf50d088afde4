---------------------------- MODULE LocalExecution ----------------------------
(***************************************************************************)
(* The agent's local execution of a leased attempt: the handler that binds *)
(* the attempt to one local invocation and asks the server for the start   *)
(* (integrations/room_execution.py), the manager that runs it once per     *)
(* session scope (runtime/execution/manager.py), the receipts that survive *)
(* the process (store.py) and the native engine process (codex.py, pi.py). *)
(*                                                                         *)
(* The store is SQLite in the same thread, so a step is the code between   *)
(* two awaits; a crash may also fall between two of its transactions.      *)
(***************************************************************************)
EXTENDS Integers, FiniteSets

CONSTANTS
    Attempts,     \* delivered attempts
    Scopes,       \* session scopes
    ScopeOf,      \* the scope an attempt runs in
    QueueLimit,   \* queue_limit
    Stoppable,    \* attempts that are stopped or cancelled
    MaxCrashes    \* ends of the agent process

ASSUME LocalAssumption ==
    /\ ScopeOf \in [Attempts -> Scopes] /\ Stoppable \subseteq Attempts
    /\ QueueLimit \in Nat /\ MaxCrashes \in Nat

VARIABLES
    \* On disk.
    binding,    \* turn_bindings: local invocation given, tombstone
    receipt,    \* executions
    verdict,    \* turn_stop_receipts
    \* In the process.
    handler,    \* the engine call of the supervisor, per attempt
    task,       \* _tasks: the manager's invocation, per attempt
    stopping,   \* stop_turn calls waiting for the task
    closed,     \* _closed
    crashes,    \* processes ended so far
    \* In the machine.
    alive,      \* native processes
    launches    \* native processes ever created, per attempt

disk == <<binding, receipt, verdict>>
machine == <<alive, launches>>
vars == <<binding, receipt, verdict, handler, task, stopping, closed, crashes, alive, launches>>

Outcomes == {"succeeded", "failed", "cancelled", "unknown"}
Active(k) == task[k] # "none"
NoReceipt == [state |-> "none", process |-> "not_started", outcome |-> "none"]

Init ==
    /\ binding = [k \in Attempts |-> [local |-> FALSE, cancelled |-> FALSE]]
    /\ receipt = [k \in Attempts |-> NoReceipt]
    /\ verdict = [k \in Attempts |-> [status |-> "none", finished |-> "unset"]]
    /\ handler = [k \in Attempts |-> "none"]
    /\ task = [k \in Attempts |-> "none"]
    /\ stopping = {} /\ closed = FALSE /\ crashes = 0
    /\ alive = {}
    /\ launches = [k \in Attempts |-> 0]

-----------------------------------------------------------------------------
\* ReceiptStore.

\* transition: never over an outcome, and a request to cancel stays.
Transition(r, state, process) ==
    IF r.outcome # "none" THEN r
    ELSE [r EXCEPT !.state = IF @ = "cancel_requested" THEN @ ELSE state, !.process = process]

\* finish: an outcome that its process state does not support is unknown.
Supported(outcome, process) ==
    CASE outcome = "succeeded" -> process \in {"finished", "stopped"}
      [] outcome = "failed" -> process \in {"not_started", "finished", "stopped"}
      [] outcome = "cancelled" -> process \in {"not_started", "stopped"}
      [] OTHER -> TRUE

Finish(r, outcome, process) ==
    IF r.outcome # "none" THEN r
    ELSE IF Supported(outcome, process)
    THEN [state |-> outcome, process |-> process, outcome |-> outcome]
    ELSE [state |-> "unknown", process |-> "unknown", outcome |-> "unknown"]

\* Plausible slip: what the dead process had not finished is forgotten.
MutRecoverForgets(r) ==
    IF r.outcome # "none" THEN r ELSE NoReceipt

\* Plausible slip: what was being launched is taken for not started.
MutRecover(r) ==
    IF r.state = "none" \/ r.outcome # "none" THEN r
    ELSE IF r.state \in {"queued", "launching"} THEN Finish(r, "cancelled", "not_started")
    ELSE Finish(r, "unknown", "unknown")

\* The next process opens the store: what was only queued never ran, all else
\* may have.
Recover(r) ==
    IF r.state = "none" \/ r.outcome # "none" THEN r
    ELSE IF r.state = "queued" THEN Finish(r, "cancelled", "not_started")
    ELSE Finish(r, "unknown", "unknown")

\* Plausible slip: only a process known to run blocks its scope.
MutScopeBlocked(s) ==
    \E k \in Attempts : ScopeOf[k] = s /\ receipt[k].process = "running"

\* scope_blocked: an invocation whose end is unknown keeps its scope for ever.
ScopeBlocked(s) == \E k \in Attempts : ScopeOf[k] = s /\ receipt[k].outcome = "unknown"

-----------------------------------------------------------------------------
\* The handler of a delivery.  on_message binds the attempt to one invocation;
\* a tombstone ends it at once.
Handle(k) ==
    /\ handler[k] = "none" /\ ~closed
    /\ ~binding[k].cancelled
    /\ binding' = [binding EXCEPT ![k].local = TRUE]
    /\ handler' = [handler EXCEPT ![k] = "bound"]
    /\ UNCHANGED <<receipt, verdict, task, stopping, closed, crashes, machine>>

HandlerTo(k, place) ==
    /\ handler' = [handler EXCEPT ![k] = place]
    /\ UNCHANGED <<disk, task, stopping, closed, crashes, machine>>

\* turn_receipt: this attempt has an invocation already.
Executed(k) == receipt[k].state # "none"

\* _call_codex: a replay of an attempt that has a receipt is answered from it;
\* otherwise the server is asked for the start.
CallEngine(k) ==
    /\ handler[k] = "bound"
    /\ HandlerTo(k, IF binding[k].cancelled \/ Executed(k) THEN "none" ELSE "asking")

\* The grant arrives; the tombstone is looked at again.
Granted(k) ==
    /\ handler[k] = "asking"
    /\ HandlerTo(k, IF binding[k].cancelled THEN "none" ELSE "granted")

\* Denied, timed out, disconnected, or the supervisor cancels a call that has
\* not started.
Leave(k) ==
    /\ handler[k] \in {"bound", "asking", "granted"}
    /\ HandlerTo(k, "none")

\* LocalExecutionManager.start.
Accepts(k) ==
    /\ ~closed /\ ~binding[k].cancelled
    /\ receipt[k].state # "none" \/ Cardinality({j \in Attempts : Active(j)}) < QueueLimit

Start(k) ==
    /\ handler[k] = "granted" /\ Accepts(k)
    /\ handler' = [handler EXCEPT ![k] = "following"]
    /\ \/ /\ receipt[k].state = "none"
          /\ receipt' = [receipt EXCEPT ![k].state = "queued"]
          /\ task' = [task EXCEPT ![k] = "queued"]
       \/ /\ receipt[k].state # "none"
          /\ UNCHANGED <<receipt, task>>
    /\ UNCHANGED <<binding, verdict, stopping, closed, crashes, machine>>

StartRefused(k) ==
    /\ handler[k] = "granted" /\ ~Accepts(k)
    /\ HandlerTo(k, "none")

\* events: the handler follows the invocation to its receipt.
Followed(k) ==
    /\ handler[k] = "following" /\ receipt[k].outcome # "none"
    /\ HandlerTo(k, "none")

-----------------------------------------------------------------------------
\* _run.
EndTask(k, outcome, process) ==
    /\ receipt' = [receipt EXCEPT ![k] = Finish(receipt[k], outcome, process)]
    /\ task' = [task EXCEPT ![k] = "none"]

CancelRequested(k) == receipt[k].state = "cancel_requested"

\* A task that waits for its scope is cancelled before any process.
CancelQueued(k) ==
    /\ task[k] = "queued" /\ CancelRequested(k)
    /\ EndTask(k, "cancelled", "not_started")
    /\ UNCHANGED <<binding, verdict, handler, stopping, closed, crashes, machine>>

\* Plausible slip: a scope is free when nothing else waits for it either.
MutScopeFree(k) ==
    \A j \in Attempts \ {k} : ScopeOf[j] = ScopeOf[k] => task[j] = "none"

ScopeFree(k) ==
    \A j \in Attempts : ScopeOf[j] = ScopeOf[k] => task[j] \in {"none", "queued"}

\* The scope's lock is taken.  The launch is committed before the runtime is
\* called.  authorized: the local policy still allows the scope.
Enter(k, authorized) ==
    /\ task[k] = "queued" /\ ScopeFree(k)
    /\ \/ /\ CancelRequested(k) \/ binding[k].cancelled
          /\ EndTask(k, "cancelled", "not_started")
       \/ /\ ~CancelRequested(k) /\ ~binding[k].cancelled
          /\ ~authorized \/ ScopeBlocked(ScopeOf[k])
          /\ EndTask(k, "failed", "not_started")
       \/ /\ ~CancelRequested(k) /\ ~binding[k].cancelled
          /\ authorized /\ ~ScopeBlocked(ScopeOf[k])
          /\ receipt' = [receipt EXCEPT ![k] = Transition(receipt[k], "launching", "unknown")]
          /\ task' = [task EXCEPT ![k] = "admitting"]
    /\ UNCHANGED <<binding, verdict, handler, stopping, closed, crashes, machine>>

\* Runtime.run up to the fork: the engine's version is awaited, then the last
\* test before a process exists.
Admit(k, authorized) ==
    /\ task[k] = "admitting"
    /\ \/ /\ CancelRequested(k)
          /\ EndTask(k, "cancelled", "not_started")
       \/ /\ CancelRequested(k) \/ ~authorized
          /\ EndTask(k, "failed", "not_started")
       \/ /\ ~CancelRequested(k) /\ authorized
          /\ task' = [task EXCEPT ![k] = "forking"]
          /\ UNCHANGED receipt
    /\ UNCHANGED <<binding, verdict, handler, stopping, closed, crashes, machine>>

\* The process is created, shielded from cancellation.
Fork(k) ==
    /\ task[k] = "forking"
    /\ task' = [task EXCEPT ![k] = "forked"]
    /\ alive' = alive \cup {k}
    /\ launches' = [launches EXCEPT ![k] = @ + 1]
    /\ UNCHANGED <<disk, handler, stopping, closed, crashes>>

ForkFails(k) ==
    /\ task[k] = "forking"
    /\ EndTask(k, "failed", "not_started")
    /\ UNCHANGED <<binding, verdict, handler, stopping, closed, crashes, machine>>

\* launched(pid); a cancellation that came during the fork stops it here.
Launched(k, authorized) ==
    /\ task[k] = "forked"
    /\ receipt' = [receipt EXCEPT ![k] = Transition(receipt[k], "running", "running")]
    /\ task' = [task EXCEPT ![k] =
                    IF CancelRequested(k) \/ ~authorized THEN "killing" ELSE "collecting"]
    /\ UNCHANGED <<binding, verdict, handler, stopping, closed, crashes, machine>>

\* The engine ends by itself, goes idle past its limit, or is cancelled; then
\* the whole process tree is stopped.  A result that comes after the request
\* to cancel is not delivered; one whose tree is not gone is unknown.
EngineEnds(k, outcome, process, confirmed) ==
    /\ \/ task[k] = "collecting" /\ (outcome = "cancelled" => CancelRequested(k))
       \/ task[k] = "killing" /\ outcome = "cancelled"
    /\ alive' = IF confirmed THEN alive \ {k} ELSE alive
    /\ IF ~confirmed THEN EndTask(k, "unknown", "unknown")
       ELSE IF outcome = "succeeded" /\ CancelRequested(k)
       THEN EndTask(k, "cancelled", "stopped")
       ELSE EndTask(k, outcome, process)
    /\ UNCHANGED <<binding, verdict, handler, stopping, closed, crashes, launches>>

RuntimeResults ==
    {<<"succeeded", "finished">>, <<"failed", "stopped">>, <<"unknown", "stopped">>,
     <<"unknown", "unknown">>, <<"cancelled", "stopped">>}

-----------------------------------------------------------------------------
\* _cancel: the request is committed; the task is interrupted afterwards.
Cancelled(r) ==
    IF r.outcome # "none" THEN r ELSE [r EXCEPT !.state = "cancel_requested"]

\* The supervisor cancels the engine call of an attempt that has started.
CancelFollowed(k) ==
    /\ k \in Stoppable
    /\ handler[k] = "following" /\ Active(k) /\ ~CancelRequested(k)
    /\ receipt' = [receipt EXCEPT ![k] = Cancelled(receipt[k])]
    /\ UNCHANGED <<binding, verdict, handler, task, stopping, closed, crashes, machine>>

Decided(k) == verdict[k].status \in {"not_started", "confirmed", "already_finished"}

Tombstone(k) == [binding EXCEPT ![k].cancelled = TRUE]

\* stop_turn up to its wait: the tombstone first; a verdict once given is
\* repeated; without a receipt nothing has started, nor will it.  (The server
\* knows a local invocation only from a binding of this store.)
Stop(k) ==
    /\ k \in Stoppable \ stopping /\ ~closed
    /\ binding' = Tombstone(k)
    /\ \/ /\ Decided(k)
          /\ UNCHANGED <<receipt, verdict, stopping>>
       \/ /\ ~Decided(k) /\ receipt[k].state = "none"
          /\ verdict' = [verdict EXCEPT ![k].status = "not_started"]
          /\ UNCHANGED <<receipt, stopping>>
       \/ /\ ~Decided(k) /\ receipt[k].state # "none"
          /\ verdict' = [verdict EXCEPT ![k].finished =
                 IF @ # "unset" THEN @ ELSE IF receipt[k].outcome # "none" THEN "yes" ELSE "no"]
          /\ receipt' = [receipt EXCEPT ![k] = Cancelled(receipt[k])]
          /\ stopping' = stopping \cup {k}
    /\ UNCHANGED <<handler, task, closed, crashes, machine>>

\* Plausible slip: a task that was given its time counts as stopped.
MutStopStatus(k) ==
    LET r == receipt[k] IN
    IF r.outcome # "none" /\ r.process = "not_started" THEN "not_started"
    ELSE IF verdict[k].finished = "yes" THEN "already_finished"
    ELSE "confirmed"

\* What the receipt proves once the task has ended, or after the wait.
StopStatus(k) ==
    LET r == receipt[k] IN
    IF r.outcome = "none" \/ r.process \in {"running", "unknown"} THEN "unknown"
    ELSE IF r.process = "not_started" THEN "not_started"
    ELSE IF verdict[k].finished = "yes" THEN "already_finished"
    ELSE "confirmed"

\* The wait has a limit: the task may still be there.
StopAnswers(k) ==
    /\ k \in stopping
    /\ stopping' = stopping \ {k}
    /\ verdict' = [verdict EXCEPT ![k].status = StopStatus(k)]
    /\ UNCHANGED <<binding, receipt, handler, task, closed, crashes, machine>>

-----------------------------------------------------------------------------
\* The process ends and the next one opens the store.  Native processes run in
\* a session of their own and may outlive it.
NewProcess(b) ==
    /\ binding' = b
    /\ receipt' = [k \in Attempts |-> Recover(receipt[k])]
    /\ handler' = [k \in Attempts |-> "none"]
    /\ task' = [k \in Attempts |-> "none"]
    /\ stopping' = {} /\ closed' = FALSE
    /\ UNCHANGED <<verdict, machine>>

Crash ==
    /\ crashes < MaxCrashes /\ crashes' = crashes + 1
    /\ NewProcess(binding)

\* The process ends inside stop_turn, with only the tombstone committed.
CrashInStop(k) ==
    /\ crashes < MaxCrashes /\ crashes' = crashes + 1
    /\ k \in Stoppable \ stopping /\ ~closed
    /\ NewProcess(Tombstone(k))

OrphanEnds(k) ==
    /\ k \in alive /\ ~Active(k)
    /\ alive' = alive \ {k}
    /\ UNCHANGED <<disk, handler, task, stopping, closed, crashes, launches>>

\* close: no more starts, every task is cancelled and awaited.
Close ==
    /\ crashes < MaxCrashes /\ ~closed
    /\ closed' = TRUE
    /\ receipt' = [k \in Attempts |->
                       IF Active(k) THEN Cancelled(receipt[k]) ELSE receipt[k]]
    /\ UNCHANGED <<binding, verdict, handler, task, stopping, crashes, machine>>

Closed ==
    /\ closed /\ \A k \in Attempts : ~Active(k)
    /\ crashes' = crashes + 1
    /\ NewProcess(binding)

TaskStep(k) ==
    \/ CancelQueued(k) \/ Fork(k) \/ ForkFails(k)
    \/ \E authorized \in BOOLEAN : Enter(k, authorized) \/ Admit(k, authorized) \/ Launched(k, authorized)
    \/ \E r \in RuntimeResults, confirmed \in BOOLEAN : EngineEnds(k, r[1], r[2], confirmed)

Tasks == \E k \in Attempts : TaskStep(k)

Next ==
    \/ \E k \in Attempts :
           \/ Handle(k) \/ CallEngine(k) \/ Granted(k) \/ Leave(k)
           \/ Start(k) \/ StartRefused(k) \/ Followed(k) \/ CancelFollowed(k)
           \/ Stop(k) \/ StopAnswers(k) \/ CrashInStop(k) \/ OrphanEnds(k)
    \/ Tasks \/ Crash \/ Close \/ Closed

\* Tasks are scheduled, locks are fair, and an engine ends or goes idle.
Spec == Init /\ [][Next]_vars /\ WF_vars(Tasks)

-----------------------------------------------------------------------------
\* Every column and every coroutine is where the code can leave it.
TypeOK ==
    /\ binding \in [Attempts -> [local : BOOLEAN, cancelled : BOOLEAN]]
    /\ receipt \in [Attempts ->
           [state : {"none", "queued", "launching", "running", "cancel_requested"} \cup Outcomes,
            process : {"not_started", "unknown", "running", "stopped", "finished"},
            outcome : {"none"} \cup Outcomes]]
    /\ verdict \in [Attempts ->
           [status : {"none", "unknown", "not_started", "confirmed", "already_finished"},
            finished : {"unset", "yes", "no"}]]
    /\ handler \in [Attempts -> {"none", "bound", "asking", "granted", "following"}]
    /\ task \in [Attempts ->
           {"none", "queued", "admitting", "forking", "forked", "collecting", "killing"}]
    /\ stopping \subseteq Attempts /\ closed \in BOOLEAN /\ crashes \in Nat
    /\ alive \subseteq Attempts /\ launches \in [Attempts -> Nat]

\* The manager never has more tasks than its queue's limit, whatever is replayed.
QueueIsBounded == Cardinality({k \in Attempts : Active(k)}) =< QueueLimit

\* "A transport replay or handler retry cannot create another native invocation
\* for this exact durable attempt", nor can a restart of the agent.
OneLaunchPerAttempt == \A k \in Attempts : launches[k] =< 1

\* A session has one native process at a time, also after a crash that left one
\* behind and when a process tree could not be stopped.
OneProcessPerScope ==
    \A j, k \in alive : ScopeOf[j] = ScopeOf[k] => j = k

\* The proof given with a stop stays true: an attempt reported as not started
\* has not launched anything and never will, and of one reported as stopped or
\* finished no process is left.
StopIsProof ==
    \A k \in Attempts :
        /\ verdict[k].status = "not_started" => launches[k] = 0 /\ task[k] \in {"none", "queued"}
        /\ verdict[k].status \in {"confirmed", "already_finished"} => k \notin alive

\* A process that runs is never behind a receipt that calls it gone.
ReceiptIsTruthful ==
    \A k \in alive : receipt[k].process \in {"unknown", "running"}

\* Once stopped, an attempt does not succeed any more.
StoppedDoesNotSucceed ==
    [][\A k \in Attempts :
           binding[k].cancelled /\ receipt[k].outcome = "none" =>
               receipt'[k].outcome # "succeeded"]_vars

\* Every accepted invocation comes to an end, whatever waits for its scope.
InvocationsEnd == (\E k \in Attempts : Active(k)) ~> (\A k \in Attempts : ~Active(k))
===============================================================================
