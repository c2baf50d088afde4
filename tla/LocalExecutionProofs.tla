------------------------- MODULE LocalExecutionProofs -------------------------
(***************************************************************************)
(* Safety of the agent's local execution, for any number of attempts,      *)
(* scopes and crashes.  Row(k) is what the task, the receipt, the verdict  *)
(* and the native process of one attempt have to do with each other; a     *)
(* step touches one row, or all of them when the process ends.  Exclusion  *)
(* is what the attempts of one scope have to do with each other.           *)
(***************************************************************************)
EXTENDS LocalExecution, FiniteSetTheorems, TLAPS

\* A task that holds the lock of its scope.
Working(k) == task[k] \notin {"none", "queued"}

\* The receipt of an attempt follows its task.
TaskAgrees(k) ==
    /\ Active(k) <=> receipt[k].state # "none" /\ receipt[k].outcome = "none"
    /\ receipt[k].state = "none" => receipt[k] = NoReceipt
    /\ receipt[k].outcome # "none" => receipt[k].state = receipt[k].outcome
    /\ task[k] = "queued" =>
           receipt[k].state \in {"queued", "cancel_requested"} /\ receipt[k].process = "not_started"
    /\ task[k] \in {"admitting", "forking", "forked"} =>
           receipt[k].state \in {"launching", "cancel_requested"} /\ receipt[k].process = "unknown"
    /\ task[k] \in {"collecting", "killing"} =>
           receipt[k].state \in {"running", "cancel_requested"} /\ receipt[k].process = "running"

\* Processes are created once, after the launch was committed, and one that is
\* left behind is behind an unknown outcome.
LaunchAgrees(k) ==
    /\ launches[k] =< 1
    /\ receipt[k].process = "not_started" \/ task[k] \in {"admitting", "forking"} => launches[k] = 0
    /\ k \in alive =>
           /\ launches[k] = 1
           /\ receipt[k].process \in {"unknown", "running"}
           /\ ~Active(k) => receipt[k].outcome = "unknown"

\* A verdict is given under a tombstone, and a tombstone interrupts the task.
StopAgrees(k) ==
    /\ verdict[k].status # "none" \/ k \in stopping => binding[k].cancelled
    /\ binding[k].cancelled /\ Active(k) => CancelRequested(k)
    /\ Decided(k) => ~Active(k)
    /\ verdict[k].status = "not_started" => launches[k] = 0
    /\ verdict[k].status \in {"confirmed", "already_finished"} => k \notin alive

Row(k) == TaskAgrees(k) /\ LaunchAgrees(k) /\ StopAgrees(k)

\* A scope has one working task, and none while an unknown outcome blocks it.
Exclusion ==
    /\ \A j, k \in Attempts : ScopeOf[j] = ScopeOf[k] /\ Working(j) /\ Working(k) => j = k
    /\ \A k \in Attempts : Working(k) => ~ScopeBlocked(ScopeOf[k])

Tasked == {k \in Attempts : Active(k)}
Bounded == IsFiniteSet(Tasked) /\ QueueIsBounded

IInv == TypeOK /\ (\A k \in Attempts : Row(k)) /\ Exclusion /\ OneProcessPerScope /\ Bounded

-----------------------------------------------------------------------------
(* Types.                                                                    *)

Receipts == [state : {"none", "queued", "launching", "running", "cancel_requested"} \cup Outcomes,
             process : {"not_started", "unknown", "running", "stopped", "finished"},
             outcome : {"none"} \cup Outcomes]

\* What the store writes is a receipt.
LEMMA ReceiptTypes ==
  ASSUME NEW r \in Receipts
  PROVE  /\ \A s \in {"launching", "running"}, p \in {"unknown", "running"} : Transition(r, s, p) \in Receipts
         /\ \A o \in Outcomes, p \in {"not_started", "unknown", "stopped", "finished"} :
                Finish(r, o, p) \in Receipts
         /\ Recover(r) \in Receipts /\ Cancelled(r) \in Receipts
<1>1. \A s \in {"launching", "running"}, p \in {"unknown", "running"} : Transition(r, s, p) \in Receipts
  BY DEF Receipts, Transition, Outcomes
<1>2. \A o \in Outcomes, p \in {"not_started", "unknown", "stopped", "finished"} : Finish(r, o, p) \in Receipts
  BY DEF Receipts, Finish, Outcomes
<1>3. Recover(r) \in Receipts
  BY <1>2 DEF Recover, Outcomes
<1>4. Cancelled(r) \in Receipts
  BY DEF Receipts, Cancelled
<1> QED BY <1>1, <1>2, <1>3, <1>4

\* A transition and a request to cancel leave the outcome as it is.
LEMMA KeepsOutcome ==
  ASSUME NEW r \in Receipts
  PROVE  /\ \A s, p : Transition(r, s, p).outcome = r.outcome
         /\ Cancelled(r).outcome = r.outcome
  BY DEF Receipts, Transition, Cancelled

\* What the store writes over a receipt does not make it a success, but for a
\* result that says so.
LEMMA NoSuccess ==
  ASSUME NEW r \in Receipts, r.outcome # "succeeded"
  PROVE  /\ \A s, p : Transition(r, s, p).outcome # "succeeded"
         /\ \A p : \A o \in Outcomes \ {"succeeded"} : Finish(r, o, p).outcome # "succeeded"
         /\ Recover(r).outcome # "succeeded" /\ Cancelled(r).outcome # "succeeded"
<1>1. \A s, p : Transition(r, s, p).outcome # "succeeded"
  BY DEF Receipts, Transition
<1>2. \A p : \A o \in Outcomes \ {"succeeded"} : Finish(r, o, p).outcome # "succeeded"
  BY DEF Receipts, Finish
<1>3. Recover(r).outcome # "succeeded"
  BY <1>2 DEF Recover, Outcomes
<1>4. Cancelled(r).outcome # "succeeded"
  BY DEF Receipts, Cancelled
<1> QED BY <1>1, <1>2, <1>3, <1>4

\* The actions of a task write a receipt and move the task.
LEMMA TaskTypes ==
  ASSUME TypeOK, NEW k \in Attempts, TaskStep(k)
  PROVE  TypeOK'
<1>0. receipt[k] \in Receipts /\ receipt \in [Attempts -> Receipts]
  BY DEF TypeOK, Receipts
<1>e. ASSUME NEW o \in Outcomes, NEW p \in {"not_started", "unknown", "stopped", "finished"}, EndTask(k, o, p)
      PROVE  receipt' \in [Attempts -> Receipts]
             /\ task' \in [Attempts -> {"none", "queued", "admitting", "forking", "forked", "collecting", "killing"}]
  BY <1>0, <1>e, ReceiptTypes DEF EndTask, TypeOK
<1>1. CASE CancelQueued(k)
  BY <1>1, <1>e DEF CancelQueued, TypeOK, Receipts, Outcomes, machine
<1>2. CASE Fork(k)
  BY <1>2 DEF Fork, TypeOK, disk
<1>3. CASE ForkFails(k)
  BY <1>3, <1>e DEF ForkFails, TypeOK, Receipts, Outcomes, machine
<1>4. ASSUME NEW z \in BOOLEAN, Enter(k, z) PROVE TypeOK'
  <2>1. CASE EndTask(k, "cancelled", "not_started") \/ EndTask(k, "failed", "not_started")
    BY <2>1, <1>4, <1>e DEF Enter, TypeOK, Receipts, Outcomes, machine
  <2>2. CASE receipt' = [receipt EXCEPT ![k] = Transition(receipt[k], "launching", "unknown")]
             /\ task' = [task EXCEPT ![k] = "admitting"]
    <3>1. receipt' \in [Attempts -> Receipts] BY <2>2, <1>0, ReceiptTypes
    <3> QED BY <3>1, <2>2, <1>4 DEF Enter, TypeOK, Receipts, machine
  <2> QED BY <2>1, <2>2, <1>4 DEF Enter
<1>5. ASSUME NEW z \in BOOLEAN, Admit(k, z) PROVE TypeOK'
  <2>1. CASE EndTask(k, "cancelled", "not_started") \/ EndTask(k, "failed", "not_started")
    BY <2>1, <1>5, <1>e DEF Admit, TypeOK, Receipts, Outcomes, machine
  <2>2. CASE UNCHANGED receipt /\ task' = [task EXCEPT ![k] = "forking"]
    BY <2>2, <1>5 DEF Admit, TypeOK, machine
  <2> QED BY <2>1, <2>2, <1>5 DEF Admit
<1>6. ASSUME NEW z \in BOOLEAN, Launched(k, z) PROVE TypeOK'
  <2>1. receipt' \in [Attempts -> Receipts] BY <1>6, <1>0, ReceiptTypes DEF Launched
  <2> QED BY <2>1, <1>6 DEF Launched, TypeOK, Receipts, machine
<1>7. ASSUME NEW r \in RuntimeResults, NEW c \in BOOLEAN, EngineEnds(k, r[1], r[2], c) PROVE TypeOK'
  <2>1. r[1] \in Outcomes /\ r[2] \in {"not_started", "unknown", "stopped", "finished"}
    BY DEF RuntimeResults, Outcomes
  <2>2. receipt' \in [Attempts -> Receipts]
        /\ task' \in [Attempts -> {"none", "queued", "admitting", "forking", "forked", "collecting", "killing"}]
    BY <2>1, <1>7, <1>e DEF EngineEnds, Outcomes
  <2> QED BY <2>2, <1>7 DEF EngineEnds, TypeOK, Receipts
<1> QED BY <1>1, <1>2, <1>3, <1>4, <1>5, <1>6, <1>7 DEF TaskStep
\* A tombstone is a binding.
LEMMA TombstoneType ==
  ASSUME TypeOK, NEW k \in Attempts
  PROVE  Tombstone(k) \in [Attempts -> [local : BOOLEAN, cancelled : BOOLEAN]]
<1>1. binding[k] \in [local : BOOLEAN, cancelled : BOOLEAN] BY DEF TypeOK
<1>2. [binding[k] EXCEPT !.cancelled = TRUE] \in [local : BOOLEAN, cancelled : BOOLEAN] BY <1>1
<1> QED BY <1>2 DEF Tombstone, TypeOK

\* The calls of the supervisor, stop_turn and the ends of the process.
LEMMA CallTypes ==
  ASSUME TypeOK, NEW k \in Attempts,
         \/ Handle(k) \/ CallEngine(k) \/ Granted(k) \/ Leave(k)
         \/ Start(k) \/ StartRefused(k) \/ Followed(k) \/ CancelFollowed(k)
         \/ Stop(k) \/ StopAnswers(k) \/ OrphanEnds(k)
  PROVE  TypeOK'
<1>0. receipt[k] \in Receipts /\ receipt \in [Attempts -> Receipts]
  BY DEF TypeOK, Receipts
<1>1. CASE Handle(k)
  BY <1>1 DEF Handle, TypeOK, machine
<1>2. CASE CallEngine(k) \/ Granted(k) \/ Leave(k) \/ StartRefused(k) \/ Followed(k)
  BY <1>2 DEF CallEngine, Granted, Leave, StartRefused, Followed, HandlerTo, TypeOK, disk, machine
<1>3. CASE Start(k)
  <2>1. receipt' \in [Attempts -> Receipts] BY <1>0, <1>3 DEF Start, Receipts
  <2> QED BY <2>1, <1>3 DEF Start, TypeOK, Receipts, machine
<1>4. CASE CancelFollowed(k)
  <2>1. receipt' \in [Attempts -> Receipts] BY <1>0, <1>4, ReceiptTypes DEF CancelFollowed
  <2> QED BY <2>1, <1>4 DEF CancelFollowed, TypeOK, Receipts, machine
<1>5. CASE Stop(k)
  <2>1. receipt' \in [Attempts -> Receipts] BY <1>0, <1>5, ReceiptTypes DEF Stop
  <2>2. binding' \in [Attempts -> [local : BOOLEAN, cancelled : BOOLEAN]]
    BY <1>5, TombstoneType DEF Stop
  <2>3. verdict' \in [Attempts ->
           [status : {"none", "unknown", "not_started", "confirmed", "already_finished"},
            finished : {"unset", "yes", "no"}]]
    BY <1>5 DEF Stop, TypeOK
  <2> QED BY <2>1, <2>2, <2>3, <1>5 DEF Stop, TypeOK, Receipts, machine
<1>6. CASE StopAnswers(k)
  <2>1. StopStatus(k) \in {"unknown", "not_started", "confirmed", "already_finished"} BY DEF StopStatus
  <2> QED BY <2>1, <1>6 DEF StopAnswers, TypeOK, machine
<1>7. CASE OrphanEnds(k)
  BY <1>7 DEF OrphanEnds, TypeOK, disk
<1> QED BY <1>1, <1>2, <1>3, <1>4, <1>5, <1>6, <1>7

\* The last shutdown step, a crash and a new process keep the columns typed.
LEMMA EndTypes ==
  ASSUME TypeOK, Crash \/ Close \/ Closed \/ (\E k \in Attempts : CrashInStop(k))
  PROVE  TypeOK'
<1>0. receipt \in [Attempts -> Receipts]
  BY DEF TypeOK, Receipts
<1>1. ASSUME NEW b \in [Attempts -> [local : BOOLEAN, cancelled : BOOLEAN]], NewProcess(b), crashes' = crashes + 1
      PROVE  TypeOK'
  <2>1. receipt' \in [Attempts -> Receipts] BY <1>0, <1>1, ReceiptTypes DEF NewProcess
  <2>2. binding' \in [Attempts -> [local : BOOLEAN, cancelled : BOOLEAN]] BY <1>1 DEF NewProcess
  <2>3. UNCHANGED <<verdict, alive, launches>> /\ closed' = FALSE /\ stopping' = {}
        /\ handler' = [k \in Attempts |-> "none"] /\ task' = [k \in Attempts |-> "none"]
    BY <1>1 DEF NewProcess, machine
  <2>4. handler' \in [Attempts -> {"none", "bound", "asking", "granted", "following"}] BY <2>3
  <2>5. task' \in [Attempts -> {"none", "queued", "admitting", "forking", "forked", "collecting", "killing"}]
    BY <2>3
  <2>6. closed' \in BOOLEAN /\ stopping' \subseteq Attempts BY <2>3
  <2>7. crashes' \in Nat BY <1>1 DEF TypeOK
  <2>8. verdict' \in [Attempts ->
           [status : {"none", "unknown", "not_started", "confirmed", "already_finished"},
            finished : {"unset", "yes", "no"}]]
        /\ alive' \subseteq Attempts /\ launches' \in [Attempts -> Nat]
    BY <2>3 DEF TypeOK
  <2> QED BY <2>1, <2>2, <2>4, <2>5, <2>6, <2>7, <2>8, Zenon DEF TypeOK, Receipts
<1>2. CASE Crash \/ Closed
  BY <1>1, <1>2 DEF Crash, Closed, TypeOK
<1>3. ASSUME NEW k \in Attempts, CrashInStop(k) PROVE TypeOK'
  <2>1. Tombstone(k) \in [Attempts -> [local : BOOLEAN, cancelled : BOOLEAN]] BY TombstoneType
  <2> QED BY <2>1, <1>1, <1>3 DEF CrashInStop
<1>4. CASE Close
  <2>1. receipt' \in [Attempts -> Receipts] BY <1>0, <1>4, ReceiptTypes DEF Close
  <2> QED BY <2>1, <1>4 DEF Close, TypeOK, Receipts, machine
<1> QED BY <1>2, <1>3, <1>4

\* The actions that touch one attempt.
CallStep(k) ==
    \/ Handle(k) \/ CallEngine(k) \/ Granted(k) \/ Leave(k)
    \/ Start(k) \/ StartRefused(k) \/ Followed(k) \/ CancelFollowed(k)
    \/ Stop(k) \/ StopAnswers(k) \/ OrphanEnds(k)

\* The steps as the proofs below take them: by what they may touch.
LEMMA NextSplits ==
  ASSUME Next
  PROVE  \/ \E k \in Attempts : CallStep(k) \/ TaskStep(k)
         \/ Crash \/ Close \/ Closed \/ (\E k \in Attempts : CrashInStop(k))
  BY DEF Next, Tasks, CallStep

\* Every column and coroutine keeps its type.
LEMMA TypeStep == TypeOK /\ [Next]_vars => TypeOK'
<1> SUFFICES ASSUME TypeOK, [Next]_vars PROVE TypeOK'
  OBVIOUS
<1>1. CASE UNCHANGED vars
  BY <1>1 DEF vars, TypeOK
<1>2. CASE Next
  BY <1>2, NextSplits, TaskTypes, CallTypes, EndTypes DEF CallStep
<1> QED BY <1>1, <1>2

-----------------------------------------------------------------------------
(* One attempt.                                                              *)

\* Nothing that is said of attempt j changes.
Same(j) ==
    /\ binding'[j] = binding[j] /\ receipt'[j] = receipt[j] /\ verdict'[j] = verdict[j]
    /\ task'[j] = task[j] /\ launches'[j] = launches[j]
    /\ (j \in stopping') = (j \in stopping) /\ (j \in alive') = (j \in alive)

\* An attempt that nothing touches stays as it is.
LEMMA RowFrame == ASSUME NEW j \in Attempts, Row(j), Same(j) PROVE Row(j)'
  BY DEF Row, Same, TaskAgrees, LaunchAgrees, StopAgrees, Active, CancelRequested, Decided

\* The actions of one attempt touch no other.
LEMMA OthersSame ==
  ASSUME TypeOK, NEW k \in Attempts, CallStep(k) \/ TaskStep(k), NEW j \in Attempts \ {k}
  PROVE  Same(j)
<1>1. CASE TaskStep(k)
  <2>1. CASE CancelQueued(k) \/ Fork(k) \/ ForkFails(k)
    BY <2>1 DEF CancelQueued, Fork, ForkFails, EndTask, Same, TypeOK, machine, disk
  <2>2. ASSUME NEW z \in BOOLEAN, Enter(k, z) \/ Admit(k, z) \/ Launched(k, z) PROVE Same(j)
    BY <2>2 DEF Enter, Admit, Launched, EndTask, Same, TypeOK, machine
  <2>3. ASSUME NEW r \in RuntimeResults, NEW c \in BOOLEAN, EngineEnds(k, r[1], r[2], c) PROVE Same(j)
    BY <2>3 DEF EngineEnds, EndTask, Same, TypeOK
  <2> QED BY <1>1, <2>1, <2>2, <2>3 DEF TaskStep
<1>2. CASE Handle(k) \/ CallEngine(k) \/ Granted(k) \/ Leave(k) \/ StartRefused(k) \/ Followed(k)
  BY <1>2 DEF Handle, CallEngine, Granted, Leave, StartRefused, Followed, HandlerTo, Same, TypeOK, disk, machine
<1>3. CASE Start(k) \/ CancelFollowed(k) \/ StopAnswers(k) \/ OrphanEnds(k)
  BY <1>3 DEF Start, CancelFollowed, StopAnswers, OrphanEnds, Same, TypeOK, disk, machine
<1>4. CASE Stop(k)
  BY <1>4 DEF Stop, Tombstone, Same, TypeOK, machine
<1> QED BY <1>1, <1>2, <1>3, <1>4 DEF CallStep

\* The actions of a task keep its receipt, its process and its verdict in step.
LEMMA TaskRow ==
  ASSUME TypeOK, NEW k \in Attempts, Row(k), TaskStep(k)
  PROVE  Row(k)'
<1> USE DEF Row, TaskAgrees, LaunchAgrees, StopAgrees, Active, Decided, CancelRequested
<1>1. CASE CancelQueued(k)
  BY <1>1 DEF CancelQueued, EndTask, Finish, Supported, TypeOK, machine, NoReceipt, Outcomes
<1>2. CASE Fork(k)
  BY <1>2 DEF Fork, TypeOK, disk, NoReceipt, Outcomes
<1>3. CASE ForkFails(k)
  BY <1>3 DEF ForkFails, EndTask, Finish, Supported, TypeOK, machine, NoReceipt, Outcomes
<1>4. ASSUME NEW z \in BOOLEAN, Enter(k, z) PROVE Row(k)'
  <2>1. CASE EndTask(k, "cancelled", "not_started")
    BY <2>1, <1>4 DEF Enter, EndTask, Finish, Supported, TypeOK, machine, NoReceipt, Outcomes
  <2>2. CASE EndTask(k, "failed", "not_started")
    BY <2>2, <1>4 DEF Enter, EndTask, Finish, Supported, TypeOK, machine, NoReceipt, Outcomes
  <2>3. CASE /\ ~CancelRequested(k) /\ ~binding[k].cancelled
             /\ receipt' = [receipt EXCEPT ![k] = Transition(receipt[k], "launching", "unknown")]
             /\ task' = [task EXCEPT ![k] = "admitting"]
    BY <2>3, <1>4 DEF Enter, Transition, TypeOK, machine, NoReceipt, Outcomes
  <2> QED BY <2>1, <2>2, <2>3, <1>4 DEF Enter
<1>5. ASSUME NEW z \in BOOLEAN, Admit(k, z) PROVE Row(k)'
  BY <1>5 DEF Admit, EndTask, Finish, Supported, TypeOK, machine, NoReceipt, Outcomes
<1>6. ASSUME NEW z \in BOOLEAN, Launched(k, z) PROVE Row(k)'
  BY <1>6 DEF Launched, Transition, TypeOK, machine, NoReceipt, Outcomes
<1>7. ASSUME NEW r \in RuntimeResults, NEW c \in BOOLEAN, EngineEnds(k, r[1], r[2], c) PROVE Row(k)'
  BY <1>7 DEF EngineEnds, RuntimeResults, EndTask, Finish, Supported, TypeOK, NoReceipt, Outcomes
<1> QED BY <1>1, <1>2, <1>3, <1>4, <1>5, <1>6, <1>7 DEF TaskStep

\* So do the calls of the supervisor and stop_turn.
LEMMA CallRow ==
  ASSUME TypeOK, NEW k \in Attempts, Row(k), CallStep(k)
  PROVE  Row(k)'
<1> USE DEF Row, TaskAgrees, LaunchAgrees, StopAgrees, Active, Decided, CancelRequested
<1>1. CASE Handle(k)
  BY <1>1 DEF Handle, TypeOK, machine
<1>2. CASE CallEngine(k) \/ Granted(k) \/ Leave(k) \/ StartRefused(k) \/ Followed(k)
  BY <1>2 DEF CallEngine, Granted, Leave, StartRefused, Followed, HandlerTo, disk, machine
<1>3. CASE Start(k)
  BY <1>3 DEF Start, Accepts, TypeOK, machine, NoReceipt, Outcomes
<1>4. CASE CancelFollowed(k)
  BY <1>4 DEF CancelFollowed, Cancelled, TypeOK, machine, NoReceipt, Outcomes
<1>5. CASE Stop(k)
  BY <1>5 DEF Stop, Tombstone, Cancelled, TypeOK, machine, NoReceipt, Outcomes
<1>6. CASE StopAnswers(k)
  BY <1>6 DEF StopAnswers, StopStatus, TypeOK, machine, NoReceipt, Outcomes
<1>7. CASE OrphanEnds(k)
  BY <1>7 DEF OrphanEnds, TypeOK, disk
<1> QED BY <1>1, <1>2, <1>3, <1>4, <1>5, <1>6, <1>7 DEF CallStep

\* The end of the process ends every task; what may have run is unknown.
LEMMA EndRows ==
  ASSUME TypeOK, NEW j \in Attempts, Row(j),
         Crash \/ Close \/ Closed \/ (\E k \in Attempts : CrashInStop(k))
  PROVE  Row(j)'
<1> USE DEF Row, TaskAgrees, LaunchAgrees, StopAgrees, Active, Decided, CancelRequested
<1>1. ASSUME NEW b, NewProcess(b), binding[j].cancelled => b[j].cancelled
      PROVE  Row(j)'
  BY <1>1 DEF NewProcess, Recover, Finish, Supported, TypeOK, machine, NoReceipt, Outcomes
<1>2. CASE Crash \/ Closed
  BY <1>1, <1>2 DEF Crash, Closed
<1>3. ASSUME NEW k \in Attempts, CrashInStop(k) PROVE Row(j)'
  <2>1. binding[j].cancelled => Tombstone(k)[j].cancelled BY DEF Tombstone, TypeOK
  <2> QED BY <2>1, <1>1, <1>3 DEF CrashInStop
<1>4. CASE Close
  BY <1>4 DEF Close, Cancelled, TypeOK, machine, NoReceipt, Outcomes
<1> QED BY <1>2, <1>3, <1>4

-----------------------------------------------------------------------------
(* The attempts of one scope.                                                *)

\* No task takes a lock, and what becomes unknown gives its lock back.
Calm ==
    \A j \in Attempts :
        /\ Working(j)' => Working(j)
        /\ receipt'[j].outcome = "unknown" =>
               receipt[j].outcome = "unknown" \/ (Working(j) /\ ~Working(j)')

\* The launch is the step that takes the lock.
Launches(k) ==
    /\ task[k] = "queued" /\ ScopeFree(k) /\ ~ScopeBlocked(ScopeOf[k])
    /\ receipt' = [receipt EXCEPT ![k] = Transition(receipt[k], "launching", "unknown")]
    /\ task' = [task EXCEPT ![k] = "admitting"]

\* Every step but the launch is calm, or ends every task.
LEMMA CalmSteps ==
  ASSUME TypeOK, \A j \in Attempts : Row(j), Next
  PROVE  \/ Calm \/ (\A j \in Attempts : ~Working(j)')
         \/ \E k \in Attempts : Launches(k)
<1> USE DEF Row, TaskAgrees, Working, Active
<1>1. ASSUME NEW k \in Attempts, CallStep(k) PROVE Calm
  <2>1. \A j \in Attempts \ {k} : Same(j) BY <1>1, OthersSame
  <2>2. Working(k)' => Working(k)
    BY <1>1 DEF CallStep, Handle, CallEngine, Granted, Leave, Start, StartRefused, Followed, CancelFollowed,
                Stop, StopAnswers, OrphanEnds, HandlerTo, TypeOK, disk, machine
  <2>3. receipt'[k].outcome = receipt[k].outcome
    BY <1>1 DEF CallStep, Handle, CallEngine, Granted, Leave, Start, StartRefused, Followed, CancelFollowed,
                Stop, StopAnswers, OrphanEnds, HandlerTo, Cancelled, TypeOK, disk, machine
  <2> QED BY <2>1, <2>2, <2>3 DEF Calm, Same
<1>2. ASSUME NEW k \in Attempts, TaskStep(k), ~Launches(k) PROVE Calm
  <2>1. \A j \in Attempts \ {k} : Same(j) BY <1>2, OthersSame
  <2>2. SUFFICES /\ Working(k)' => Working(k)
                 /\ receipt'[k].outcome = "unknown" =>
                        receipt[k].outcome = "unknown" \/ (Working(k) /\ ~Working(k)')
    BY <2>1 DEF Calm, Same
  <2>3. CASE CancelQueued(k) \/ Fork(k) \/ ForkFails(k)
    BY <2>3 DEF CancelQueued, Fork, ForkFails, EndTask, Finish, Supported, TypeOK, disk
  <2>4. ASSUME NEW z \in BOOLEAN, Enter(k, z)
        PROVE  /\ Working(k)' => Working(k)
               /\ receipt'[k].outcome = "unknown" =>
                      receipt[k].outcome = "unknown" \/ (Working(k) /\ ~Working(k)')
    <3>1. EndTask(k, "cancelled", "not_started") \/ EndTask(k, "failed", "not_started")
      BY <1>2, <2>4 DEF Enter, Launches
    <3> QED BY <3>1 DEF EndTask, Finish, Supported, TypeOK
  <2>5. ASSUME NEW z \in BOOLEAN, Admit(k, z) \/ Launched(k, z)
        PROVE  /\ Working(k)' => Working(k)
               /\ receipt'[k].outcome = "unknown" =>
                      receipt[k].outcome = "unknown" \/ (Working(k) /\ ~Working(k)')
    <3>1. Working(k) BY <2>5 DEF Admit, Launched
    <3>2. task'[k] = "none" \/ receipt'[k].outcome = receipt[k].outcome
      <4>1. CASE Admit(k, z) BY <4>1 DEF Admit, EndTask, TypeOK
      <4>2. CASE Launched(k, z)
        <5>1. receipt[k] \in Receipts /\ DOMAIN receipt = Attempts BY DEF TypeOK, Receipts
        <5> QED BY <4>2, <5>1, KeepsOutcome DEF Launched
      <4> QED BY <2>5, <4>1, <4>2
    <3> QED BY <3>1, <3>2
  <2>6. ASSUME NEW r \in RuntimeResults, NEW c \in BOOLEAN, EngineEnds(k, r[1], r[2], c)
        PROVE  /\ Working(k)' => Working(k)
               /\ receipt'[k].outcome = "unknown" =>
                      receipt[k].outcome = "unknown" \/ (Working(k) /\ ~Working(k)')
    <3>1. task'[k] = "none" /\ Working(k) BY <2>6 DEF EngineEnds, EndTask, TypeOK
    <3> QED BY <3>1
  <2> QED BY <1>2, <2>3, <2>4, <2>5, <2>6 DEF TaskStep
<1>3. ASSUME NEW b, NewProcess(b) PROVE \A j \in Attempts : ~Working(j)'
  BY <1>3 DEF NewProcess
<1>4. CASE Close
  BY <1>4 DEF Close, Cancelled, Calm, TypeOK
<1> QED BY <1>1, <1>2, <1>3, <1>4, NextSplits DEF Crash, CrashInStop, Closed

\* A scope is held by one task, and an unknown outcome is never run over.
LEMMA ExclusionStep ==
  ASSUME TypeOK, \A j \in Attempts : Row(j), Exclusion, Next
  PROVE  Exclusion'
<1>1. CASE Calm
  <2>1. ASSUME NEW j \in Attempts, NEW k \in Attempts, ScopeOf[j] = ScopeOf[k], Working(j)', Working(k)'
        PROVE  j = k
    BY <1>1, <2>1 DEF Calm, Exclusion
  <2>2. ASSUME NEW k \in Attempts, Working(k)', NEW j \in Attempts, ScopeOf[j] = ScopeOf[k],
               receipt'[j].outcome = "unknown"
        PROVE  FALSE
    <3>1. Working(k) /\ receipt[j].outcome # "unknown" BY <1>1, <2>2 DEF Calm, Exclusion, ScopeBlocked
    <3>2. Working(j) /\ ~Working(j)' BY <1>1, <2>2, <3>1 DEF Calm
    <3> QED BY <2>2, <3>1, <3>2 DEF Exclusion
  <2> QED BY <2>1, <2>2 DEF Exclusion, ScopeBlocked
<1>2. CASE \A j \in Attempts : ~Working(j)'
  BY <1>2 DEF Exclusion
<1>3. ASSUME NEW k \in Attempts, Launches(k) PROVE Exclusion'
  <2>1. \A j \in Attempts : ScopeOf[j] = ScopeOf[k] => ~Working(j)
    BY <1>3 DEF Launches, ScopeFree, Working
  <2>2. \A j \in Attempts : /\ receipt'[j].outcome = receipt[j].outcome
                            /\ j # k => (Working(j)' <=> Working(j))
    BY <1>3 DEF Launches, Transition, Working, TypeOK
  <2> QED BY <1>3, <2>1, <2>2 DEF Exclusion, ScopeBlocked, Launches
<1> QED BY <1>1, <1>2, <1>3, CalmSteps

\* A process is created in a scope where none is left.
LEMMA ProcessStep ==
  ASSUME TypeOK, \A j \in Attempts : Row(j), Exclusion, OneProcessPerScope, Next
  PROVE  OneProcessPerScope'
<1>1. ASSUME NEW k \in Attempts, Fork(k) PROVE OneProcessPerScope'
  <2>1. ASSUME NEW j \in alive, ScopeOf[j] = ScopeOf[k] PROVE j = k
    <3>1. j \in Attempts /\ Row(j) /\ Working(k) BY <1>1 DEF TypeOK, Fork, Working
    <3>2. receipt[j].outcome # "unknown" BY <2>1, <3>1 DEF Exclusion, ScopeBlocked
    <3>3. Working(j) BY <3>1, <3>2 DEF Row, TaskAgrees, LaunchAgrees, Working, Active
    <3> QED BY <2>1, <3>1, <3>3 DEF Exclusion
  <2> QED BY <1>1, <2>1 DEF Fork, OneProcessPerScope
<1>2. ASSUME ~\E k \in Attempts : Fork(k) PROVE alive' \subseteq alive
  <2>1. ASSUME NEW k \in Attempts, CallStep(k) PROVE alive' \subseteq alive
    BY <2>1 DEF CallStep, Handle, CallEngine, Granted, Leave, Start, StartRefused, Followed, CancelFollowed,
                Stop, StopAnswers, OrphanEnds, HandlerTo, disk, machine
  <2>2. ASSUME NEW k \in Attempts, TaskStep(k) PROVE alive' \subseteq alive
    BY <1>2, <2>2 DEF TaskStep, CancelQueued, ForkFails, Enter, Admit, Launched, EngineEnds, machine
  <2>3. CASE Crash \/ Close \/ Closed \/ (\E k \in Attempts : CrashInStop(k))
    BY <2>3 DEF Crash, Close, Closed, CrashInStop, NewProcess, machine
  <2> QED BY <2>1, <2>2, <2>3, NextSplits
<1> QED BY <1>1, <1>2 DEF OneProcessPerScope

\* Only a start that found room adds a task.
LEMMA BoundStep ==
  ASSUME TypeOK, \A j \in Attempts : Row(j), Bounded, Next
  PROVE  Bounded'
<1>0. Cardinality(Tasked) \in Nat /\ QueueLimit \in Nat
  BY FS_CardinalityType, LocalAssumption DEF Bounded
<1>1. ASSUME NEW k \in Attempts, Start(k), receipt[k].state = "none" PROVE Bounded'
  <2>1. Tasked' = Tasked \cup {k} BY <1>1 DEF Tasked, Active, Start, TypeOK
  <2>2. Cardinality(Tasked) < QueueLimit BY <1>1 DEF Start, Accepts, Tasked
  <2>3. IsFiniteSet(Tasked') /\ Cardinality(Tasked') =< Cardinality(Tasked) + 1
    <3>1. IsFiniteSet(Tasked \cup {k}) /\ Cardinality(Tasked \cup {k}) =< Cardinality(Tasked) + 1
      <4>1. IsFiniteSet(Tasked) BY DEF Bounded
      <4>2. IsFiniteSet(Tasked \cup {k}) /\ Cardinality(Tasked \cup {k}) =
              IF k \in Tasked THEN Cardinality(Tasked) ELSE Cardinality(Tasked) + 1
        BY <4>1, FS_AddElement, Zenon
      <4> QED BY <1>0, <4>2
    <3> QED BY <2>1, <3>1
  <2>4. Cardinality(Tasked') \in Nat BY <2>3, FS_CardinalityType
  <2> QED BY <1>0, <2>2, <2>3, <2>4 DEF Bounded, QueueIsBounded, Tasked
<1>2. ASSUME ~\E k \in Attempts : Start(k) /\ receipt[k].state = "none" PROVE Tasked' \subseteq Tasked
  <2>1. ASSUME NEW k \in Attempts, CallStep(k) PROVE Tasked' \subseteq Tasked
    BY <1>2, <2>1 DEF CallStep, Handle, CallEngine, Granted, Leave, Start, StartRefused, Followed, CancelFollowed,
                Stop, StopAnswers, OrphanEnds, HandlerTo, disk, machine, Tasked, Active
  <2>2. ASSUME NEW k \in Attempts, TaskStep(k) PROVE Tasked' \subseteq Tasked
    <3>1. Active(k) BY <2>2 DEF TaskStep, CancelQueued, Fork, ForkFails, Enter, Admit, Launched, EngineEnds, Active
    <3>2. \A j \in Attempts \ {k} : task'[j] = task[j] BY <2>2, OthersSame DEF Same
    <3> QED BY <3>1, <3>2 DEF Tasked, Active
  <2>3. CASE Crash \/ Close \/ Closed \/ (\E k \in Attempts : CrashInStop(k))
    BY <2>3 DEF Crash, Close, Closed, CrashInStop, NewProcess, Tasked, Active
  <2> QED BY <2>1, <2>2, <2>3, NextSplits
<1>3. ASSUME Tasked' \subseteq Tasked PROVE Bounded'
  <2>1. IsFiniteSet(Tasked') /\ Cardinality(Tasked') =< Cardinality(Tasked)
    BY <1>3, FS_Subset DEF Bounded
  <2>2. Cardinality(Tasked') \in Nat BY <2>1, FS_CardinalityType
  <2> QED BY <1>0, <2>1, <2>2 DEF Bounded, QueueIsBounded, Tasked
<1> QED BY <1>1, <1>2, <1>3

-----------------------------------------------------------------------------
(* Safety.                                                                   *)

\* At first no attempt is known, no task runs and no scope is held.
LEMMA InitInv == Init => IInv
<1> SUFFICES ASSUME Init PROVE IInv
  OBVIOUS
<1>1. TypeOK BY DEF Init, TypeOK, NoReceipt
<1>2. ASSUME NEW k \in Attempts PROVE Row(k)
  BY DEF Init, Row, TaskAgrees, LaunchAgrees, StopAgrees, Active, Decided, NoReceipt
<1>3. Exclusion /\ OneProcessPerScope BY DEF Init, Exclusion, OneProcessPerScope, Working
<1>4. Bounded
  <2>1. Tasked = {} BY DEF Init, Tasked, Active
  <2> QED BY <2>1, FS_EmptySet, LocalAssumption DEF Bounded, QueueIsBounded, Tasked
<1> QED BY <1>1, <1>2, <1>3, <1>4 DEF IInv

\* Every step of the agent, of its engines and of the operating system keeps it.
LEMMA Inductive == IInv /\ [Next]_vars => IInv'
<1> SUFFICES ASSUME IInv, [Next]_vars PROVE IInv'
  OBVIOUS
<1>0. TypeOK' BY TypeStep DEF IInv
<1>1. CASE UNCHANGED vars
  <2>1. ASSUME NEW j \in Attempts PROVE Row(j)'
    BY <1>1, RowFrame DEF IInv, vars, Same
  <2>2. Exclusion' /\ OneProcessPerScope' /\ Bounded'
    BY <1>1 DEF IInv, vars, Exclusion, OneProcessPerScope, Bounded, QueueIsBounded, Tasked, Active,
                Working, ScopeBlocked
  <2> QED BY <1>0, <2>1, <2>2 DEF IInv
<1>2. CASE Next
  <2>1. ASSUME NEW j \in Attempts PROVE Row(j)'
    <3>1. ASSUME NEW k \in Attempts, CallStep(k) \/ TaskStep(k) PROVE Row(j)'
      BY <3>1, OthersSame, RowFrame, TaskRow, CallRow DEF IInv
    <3> QED BY <1>2, <3>1, NextSplits, EndRows DEF IInv
  <2> QED BY <1>0, <1>2, <2>1, ExclusionStep, ProcessStep, BoundStep DEF IInv
<1> QED BY <1>1, <1>2

\* The inductive invariant: each attempt's receipt, process, verdict and place in
\* the queue fit each other, and a scope that is held excludes the others.
THEOREM Invariant == Spec => []IInv
  BY InitInv, Inductive, PTL DEF Spec

\* Every column and every coroutine stays where the code can leave it.
THEOREM TypeCorrect == Spec => []TypeOK
  BY Invariant, PTL DEF IInv

\* "A transport replay or handler retry cannot create another native invocation",
\* and the ends of the agent's process cannot either.
THEOREM LaunchedOnce == Spec => []OneLaunchPerAttempt
<1>1. IInv => OneLaunchPerAttempt BY DEF IInv, OneLaunchPerAttempt, Row, LaunchAgrees
<1> QED BY <1>1, Invariant, PTL

\* A session has one native process at a time: its lock, the launch committed
\* before it and the outcomes that block it keep the others out.
THEOREM SessionIsExclusive == Spec => []OneProcessPerScope
  BY Invariant, PTL DEF IInv

\* What stop_turn has answered stays true.
THEOREM VerdictsHold == Spec => []StopIsProof
<1>1. IInv => StopIsProof
  BY DEF IInv, TypeOK, StopIsProof, Row, TaskAgrees, StopAgrees, Active, Decided
<1> QED BY <1>1, Invariant, PTL

\* No receipt calls a running process gone.
THEOREM ReceiptsHold == Spec => []ReceiptIsTruthful
<1>1. IInv => ReceiptIsTruthful BY DEF IInv, TypeOK, ReceiptIsTruthful, Row, LaunchAgrees
<1> QED BY <1>1, Invariant, PTL

\* The manager never has more tasks than queue_limit.
THEOREM QueueHolds == Spec => []QueueIsBounded
  BY Invariant, PTL DEF IInv, Bounded

\* A tombstone is also a request to cancel, and with one no task succeeds.
THEOREM StoppedStays == Spec => StoppedDoesNotSucceed
<1>1. IInv /\ IInv' /\ [Next]_vars =>
        [\A k \in Attempts :
           binding[k].cancelled /\ receipt[k].outcome = "none" =>
               receipt'[k].outcome # "succeeded"]_vars
  <2> SUFFICES ASSUME IInv, Next, NEW k \in Attempts, binding[k].cancelled, receipt[k].outcome = "none"
               PROVE  receipt'[k].outcome # "succeeded"
    BY DEF vars
  <2>0. Row(k) /\ TypeOK /\ receipt[k] \in Receipts /\ DOMAIN receipt = Attempts
    BY DEF IInv, TypeOK, Receipts
  <2>1. ASSUME NEW j \in Attempts, j # k, CallStep(j) \/ TaskStep(j) PROVE receipt'[k].outcome # "succeeded"
    BY <2>0, <2>1, OthersSame DEF Same
  <2>2. CASE CallStep(k)
    <3>1. receipt' = receipt \/ receipt' = [receipt EXCEPT ![k].state = "queued"]
          \/ receipt' = [receipt EXCEPT ![k] = Cancelled(receipt[k])]
      BY <2>2 DEF CallStep, Handle, CallEngine, Granted, Leave, Start, StartRefused, Followed, CancelFollowed,
                  Stop, StopAnswers, OrphanEnds, HandlerTo, disk, machine
    <3>2. [receipt[k] EXCEPT !.state = "queued"].outcome = receipt[k].outcome BY <2>0 DEF Receipts
    <3> QED BY <2>0, <3>1, <3>2, NoSuccess
  <2>3. CASE TaskStep(k)
    <3>1. CancelRequested(k)
      BY <2>0, <2>3 DEF Row, StopAgrees, Active, TaskStep, CancelQueued, Fork, ForkFails, Enter, Admit, Launched,
                        EngineEnds
    <3>2. ASSUME NEW o \in Outcomes \ {"succeeded"}, NEW p, EndTask(k, o, p)
          PROVE  receipt'[k].outcome # "succeeded"
      BY <2>0, <3>2, NoSuccess DEF EndTask
    <3>3. CASE CancelQueued(k) \/ Fork(k) \/ ForkFails(k)
      BY <2>0, <3>2, <3>3 DEF CancelQueued, Fork, ForkFails, disk, Outcomes
    <3>4. ASSUME NEW z \in BOOLEAN, Enter(k, z) \/ Admit(k, z) \/ Launched(k, z)
          PROVE  receipt'[k].outcome # "succeeded"
      <4>1. \/ EndTask(k, "cancelled", "not_started") \/ EndTask(k, "failed", "not_started")
            \/ receipt' = receipt
            \/ \E s, p : receipt' = [receipt EXCEPT ![k] = Transition(receipt[k], s, p)]
        BY <3>4 DEF Enter, Admit, Launched
      <4> QED BY <2>0, <3>2, <4>1, NoSuccess DEF Outcomes
    <3>5. ASSUME NEW r \in RuntimeResults, NEW c \in BOOLEAN, EngineEnds(k, r[1], r[2], c)
          PROVE  receipt'[k].outcome # "succeeded"
      <4>1. \E o \in Outcomes \ {"succeeded"}, p \in {"stopped", "unknown", "finished"} : EndTask(k, o, p)
        BY <3>1, <3>5 DEF EngineEnds, RuntimeResults, Outcomes
      <4> QED BY <3>2, <4>1
    <3> QED BY <2>3, <3>3, <3>4, <3>5 DEF TaskStep
  <2>4. CASE Crash \/ Close \/ Closed \/ (\E j \in Attempts : CrashInStop(j))
    <3>1. receipt'[k] \in {receipt[k], Recover(receipt[k]), Cancelled(receipt[k])}
      BY <2>4 DEF Crash, Close, Closed, CrashInStop, NewProcess
    <3> QED BY <2>0, <3>1, NoSuccess
  <2> QED BY <2>0, <2>1, <2>2, <2>3, <2>4, NextSplits
<1> QED BY <1>1, Invariant, PTL DEF Spec, StoppedDoesNotSucceed

===============================================================================
