# Anygarden: requests, agents and the processes behind them

Anygarden is a chat server whose rooms have people and agents. A message that
addresses an agent is a *request*; the server owes the room an answer to it, a
failure notice or a cancellation, although the agent is a process on another
machine that may crash, be reconfigured, restarted, disconnected, or answer late
and twice. The same holds one level up, for project executions and for tasks
delegated to another node's agent, and one level down, for the daemon that runs
the agent's process and for the agent that runs native engine processes. This
project models these protocols. All source paths below are under
`src/packages/cluster/anygarden/`.

## Inventory

| component | state | operations | what is hard |
|---|---|---|---|
| turn store (`db/models.py`, `turns/service.py`) | `AgentTurn`, `AgentTurnAttempt`, `AgentTurnOutbox` rows | the transactions below | state split over three tables |
| dispatch (`turns/service.py`) | outbox rows; frames between claim and confirmation | `create_turn`, `deliver_pending_outbox` | three steps, many callers, crash between any two |
| outcome (`turns/service.py`, `cancel.py`, `start_service.py`) | completion CAS, leases | `begin_completion` to `finish_deferred`, `record_lifecycle`, native-start permit, `cancel_general_turn` | late, duplicated and reordered frames |
| recovery (`turns/service.py`, `node/execution.py`, worker in `app.py`) | selected attempts | `cancel_invalid_turns`, `recover_stalled_turns`, shutdown fence | select, ask, visit: three moments; two retry budgets |
| agent lifecycle (`scheduler/lifecycle.py`) | generation, pending generation, drain deadline, desired and actual state | `request_start`, `request_stop`, `bump_generation`, `release_generation_drain`, `handle_report_actual_state` | drains, stale reads, stale reports |
| subscriptions (`ws/manager.py`, `ws/handler.py`) | one live socket per agent and room | subscribe, unsubscribe, generation-checked send | superseded sockets, broken writes |
| machine daemon (`machine/daemon.py`, `manifest_store.py`, `spawner.py`, `supervisor.py`, `crash_budget.py`) | manifest and runtime record on disk; reservations, owners, token futures and tracked processes in memory | save and reconcile frames, ask for a token and spawn, watch, restart, drain, shut down, re-adopt | asyncio tasks between awaits; a lock per agent; orders and grants out of order; the daemon's own death |
| room supervisor (`agent/client.py`, `agent/runtime/handler_wrapper.py`) | room lock, bounded queue, deduplication, cancelled turns | deliver, dispatch, run, drain, stop, disconnect | awaits before and after the engine; a queue whose only server may leave |
| local execution (`agent/runtime/execution/`, `agent/integrations/room_execution.py`) | bindings, receipts and stop verdicts in SQLite; tasks and scope locks | bind, start, launch, cancel, stop, recover, close | "not started" and "stopped" are promises about the future; death between commit and fork |
| peer fan-in (`orchestration/`, `mcp/tools.py`) | question groups, targets, drafts | ask, close with a draft, sweep, wake | read, decide in memory, write without a condition |
| project executions (`project_executions/`) | execution, mutation, stops, native slots | begin, delegate, permit, revise, cancel, deadline, limits, stop receipts | permits and answers on their way when the input changes |
| federated delegation (`federation/delegation.py`, `executor.py`, `execution_worker.py`, `agent/runtime/execution/control.py`) | the authority's record, the executor's binding and outbox, the agent's prepared rows | request, accept, launch, observe, report, cancel, retire | three parties, each durable on its own, and no common transaction |
| shared channels, campaigns, goals, budgets, workspaces, rooms, messages, auth, MCP, skills, API, frontend | see `PROJECT.json` | | not modelled: see the end |

How they interact: the room socket creates a turn in the transaction of the
message. The dispatcher hands it to the agent's live subscription under a lease
that belongs to the agent's current *generation*. In the agent, the client drops
what it has seen, the room supervisor runs one turn at a time, and the engine
call of a native engine becomes a local invocation with a durable receipt, which
asks the server for a permit before it forks. Frames come back over the room
socket and are believed only with the attempt's proof (attempt, generation, lease
token). An agent that asks its peers has its reply kept as a draft; the worker
wakes it when the peers are done. The recovery worker retries, fails or cancels
what stalls. A configuration change or a restart counts the generation up; the
lifecycle waits for the leases of the old generation, sends the machine a new
order, and the daemon replaces the process. A turn that belongs to a project
execution is permitted, stopped and counted by it; a delegated task is a
conversation of two nodes that ends in the same local execution.

What makes each correct:

- *turn engine*: at most one visible answer per request; one lease at a time; the
  room's order; two separate retry budgets; outcomes that never change; no work
  under an old generation; a stop that late orders cannot undo; every request
  settles and every drain ends;
- *daemon*: at most one process per agent, none that a stop cannot reach, no stop
  undone, nothing left after a shutdown, convergence to the manifest;
- *supervisor*: an engine call per attempt, in order, nobody forgotten, nothing
  started after its stop;
- *local execution*: a launch per attempt, a process per session scope, receipts
  and stop verdicts that are true and stay true;
- *peer fan-in*: one wake with everything in it, and always a wake;
- *project execution*: nothing of an older input runs on, no two invocations of a
  turn, no answer overlooked, an exhausted execution closes;
- *delegation*: one native process, reports that are true of the machine,
  agreement of the two nodes, nothing left behind, an end.

## Modules

| module | models |
|---|---|
| `TurnStore` | the rows, the constants, and the reads every operation shares |
| `TurnDispatch` | `create_turn`, `deliver_pending_outbox`, redelivery, server crash |
| `TurnOutcome` | replies, drafts, lifecycle frames, native-start permit, cancellation |
| `TurnRecovery` | `cancel_invalid_turns`, `recover_stalled_turns`, shutdown fence |
| `AgentGeneration` | lifecycle, daemon, subscription and gates |
| `TurnPromise` | the abstract specification: what the room is promised |
| `DurableTurns` | composition, fairness, properties, refinement mapping |
| `MachineDaemon` | one agent on one machine: message loop, spawn intents, watchers, crash budget, shutdown, death and re-adoption |
| `RoomSupervisor` | the agent process in one room |
| `LocalExecution` | bindings, receipts, verdicts and native processes of one agent |
| `PeerFanin` | the agents of a room that ask each other |
| `ProjectExecution` | one execution with its turns, permits, stops and limits |
| `FederatedDelegation` | one task delegated to another node |
| `TurnTypeProofs` | proof of type correctness of the turn engine |
| `DurableTurnsProofs` | proofs of its safety properties and of the refinement |
| `LocalExecutionProofs`, `ProjectExecutionProofs`, `RoomSupervisorProofs`, `FederatedDelegationProofs`, `MachineDaemonProofs`, `PeerFaninProofs` | proofs about the module each is named after |

The modules `MC...` are what the `.cfg` files instantiate. `PROJECT.json` ("map")
names for every definition the lines it models. Definitions called `Mut...` are
plausible slips of the definition after them; a property is kept only if such a
slip breaks it.

One module is a box in another: `AgentGeneration` has the daemon as the server sees
it (an order is accepted or rejected by the manifest fence, and a process follows
the manifest) and `MachineDaemon` opens that box; `ProjectExecution` and
`FederatedDelegation` have an invocation as its receipt shows it, and
`LocalExecution` opens that one: `StopIsProof` and `ReceiptIsTruthful` there are
what the other two assume of a stop and of a receipt.

### The turn engine

One agent serves one room. Turn `t` is the `t`-th message addressed to it.
`turn[t]` holds `state`, `active_attempt`, `retry_count`, whether a reply was
accepted and the delivery protocol (0: a client without proofs). `attempt[t][n]`
holds state, generation, lease, reason, native permit and `transient_retry`
(`spent`). `outbox[t][n]` is the row's state; a pending row is `waiting` or
`due`. `posted[t]` counts what the room saw. `flight` holds deliveries past
their claim, `received` every proof the agent was handed, `picked` what a
recovery pass selected. `agent` is the Agent row (`pending = 0` is NULL),
`bump` a `bump_generation` between reads and writes, `orders` every
desired-state frame ever sent, `daemon` the manifest on the machine's disk and
the process, `session` the subscription, `gate` what authorization asks.

- Times are reduced to the comparisons: a lease is held or expired, a row due or
  not, a deadline set or passed; time passing is an action.
- A lease token is drawn once per attempt and unguessable, so it is the attempt.
- A transaction that opens with `BEGIN IMMEDIATE`, or takes the turn's row lock
  in a savepoint, is one step. `bump_generation` does neither: `BumpReads` and
  `BumpLands` are two steps, and any other step may come between them. One change is
  under way at a time; what it lands on may be another's, an operator's or a drain's.
- An attempt that ended loses its lease, reason and permit in the model: the code
  never reads them again. The last attempt of a failed turn keeps whether the failure
  was transient, which the row has in the code too, for `NoticeMeansExhausted`.
- Frames the server rejects change no row and are no step.
- Message contents, prompts, manifests' contents and log rows are left out; a
  manifest is a model value that changes when a configuration does.

The agent is not trusted to behave: it may send any frame with any proof it was
ever handed, at any time and as often as it likes, or none. So a lost frame, a
duplicated one and a late one are all present.

Every operation is one action, with its trailing calls. Where the code releases
its transaction in the middle, it is several: a delivery is `ClaimRow`,
`SendFrame` (or `SendBreaks`) and `ConfirmDelivery`; a recovery pass is
`SelectStalled` and one `RecoverStalled` per attempt. The early returns of
`deliver_pending_outbox` are the actions `DropClosedRow`, `RefuseRow` and
`RetireFencedRow`. `live` in `SelectStalled` is the set of attempts whose agent
shows it is typing. `NodeShutdown` hands its fenced leases to a pass of its own.

### The machine daemon

`MachineDaemon` follows the code from await to await. `run` is the task that has
not suspended itself: while there is one, no other task moves. A task that needs
the agent's lock takes it if it is free and nobody waits, else it joins `queue`;
the lock is held across an await only while the loop kills a process and while an
intent creates one. `loop`, `intent[i]` and `proc[p].watch` are the program
counters of the message loop, of a call of `_request_token_and_spawn` and of a
process's watcher and callbacks. `reserved`, `owner`, `future` and `tracked` are the
daemon's maps `_running_generations`, `_spawn_owners`, `_token_futures` and
`Spawner._agents`, with 0 for "absent". `manifest` and `runtime` are the two files
that outlive the daemon.

- The server may send any frame at any time, so frames are lost, repeated and
  reordered; a grant names the intent's uuid, and may be late or never come.
- The agents of a machine share no state but the message loop, so one is modelled.
- A token, a profile, an environment and a report have no content; sending a
  report is the await it is.
- `Spawner.spawn` is two steps (`SpawnCreates`, `SpawnRegisters`) with the lock held,
  so that the daemon may die between the creation and the record.
- A crash budget's window is the choice of how many earlier crashes still count.
- A restart policy is chosen at creation and cannot be changed afterwards
  (`api/v1/agents.py:176`).

### The room supervisor

A key is a request and an attempt number (`_turn_key` without room and generation).
`lock` says who holds the room and at which await: `starting` (the lifecycle frames
before the engine), `engine`, `sending`, `stale` (the notice of a follow-up that
waited past its time), `draining`. `queue` is `_queues[room]`, `refusing` the
dispatches over the cap about to send their notice, `seen` the deliveries in order
of arrival. `shown`, `quiet`, `stale` and `lost` record what became of each.
`Deliver` is the client's deduplication with the dispatch that follows it without
an await; `Launch`, `EngineEnds`, `Send` and `Drain` are the holder from await to
await. When a message cannot be sent the exception leaves the drain and releases
the lock, as the code does, with the queue as it is.

### Local execution

Per attempt: the `binding` row with the tombstone, the `receipt`, the `verdict` of a
stop, the supervisor's `handler`, the manager's `task` and the native process.
`Handle` to `Start` follow `room_execution.py` up to the granted permit, `Enter` to
`EngineEnds` the task from the scope's lock to the end of the process tree, `Stop`
and `StopAnswers` the two halves of `stop_turn`. `Transition`, `Finish` and `Recover`
are the store's guarded writes. `Crash` and `CrashInStop` end the process between any
two of its transactions; its native processes, in a session of their own, may live
on until `OrphanEnds`. Which of the two engines runs makes no difference to the
state kept; `codex.py` is the one mapped.

### Peer questions

A group belongs to the caller's turn that asked and is named by it; a target is
the peer's turn. The code reads the rows, decides in memory and writes them back
without a condition, so `AskBegin`/`AskCommit`, `CloseBegin`/`CloseCommit` and
`SweepBegin`/`SweepCommit` are a transaction each, and `Overlaps` says which of them
others may commit inside, as READ COMMITTED allows. `_wake_one` claims the group with
a condition and is one step. Which waiting turns have exceeded the start timeout,
and when the cap passes, is the clock's choice. Turn ids are reserved for wakes, so
that the bound on turns is never what keeps a caller asleep.

### Project executions

`exec` is the execution's row with its awaiting mutation: a revision, a
cancellation, a deadline or a limit. Every server operation is one transaction that
locks that row. `Mutate` fences the turns and creates the stops for all four; `Settle`,
called with every receipt, ends the mutation when every stop is proved.
`att[a].local` says that the attempt was permitted an invocation, `proof` is its
terminal event. `agent[a].sure` is FALSE once the agent's process has ended inside an
invocation: from then on it can only answer "unknown". Task graphs, results,
approvals, questions, QA and artifacts of an execution write no turn, attempt or stop
of their own and are left out.

### Federated delegation

One delegation, and at most one job of the executor for it (`execution_worker.py`
keeps a set). `auth` and `log` are the authority's record and its command receipts,
`posted` the commands on their way: they may be late, overtake each other, and be
committed without the executor learning of it, since it may give up waiting at any
time and submit the same command again. `binding` and `pending` are the executor's
two rows, `job` the await at which its job is. `wire` carries the control frames in
order; they are lost with the connection. `prepared` is the agent's row, which
survives its process, and `receipt` the invocation's. A binding made for a
cancellation without knowledge of the agent's record (`_cancel_unprepared`) is not
`real`: the agent answers such frames as `_row` does, and the clean-up asks with
`describe` first. The executor
reads the record fresh from the authority (`execution_context.py`); reading it and
acting on it is one step, because what the authority may commit in between touches
nothing of the executor's and could as well come afterwards. Mirrors only wake the
worker, and are taken to be up to date.
The choice of an executor, reassignment after a rejection, grants, epochs and
memberships are left out.

## Runs

| run | question | bounds |
|---|---|---|
| `retry` | at most one answer, two budgets, notice only when a budget is spent, outcomes final, under every frame | 1 turn, budgets 1 and 1, every frame, membership and budget may end |
| `faults` | one fault anywhere, with and without proofs: one lease, and settling | 1 turn, 1 fault, legacy clients |
| `order` | order of two requests, and the refinement of `TurnPromise` | 2 turns, 1 retry each |
| `drain` | configuration changes against leases: the fence, the end of every drain | 1 turn, 1 retry, 2 generations, 2 manifests, overtaken changes, every frame but drafts and permits |
| `restart` | stops, starts and overlapping changes against late orders | 1 turn, 3 generations, 2 manifests, overtaken changes |
| `daemon` | one process, none out of reach, no stop undone | 2 generations, 3 intents, 1 fault, every policy |
| `converge` | convergence, and nothing left after a shutdown | 1 generation, 3 intents, 2 faults, every policy |
| `supervisor` | calls, order, stops, nobody forgotten, queue served | 3 requests, one of 2 attempts, queue of 2, 1 retry, 1 stop, 1 disconnection |
| `local_exec` | launches, scopes, truth of receipts and verdicts, ends | 3 attempts in 2 scopes, queue of 2, 1 stopped, 1 crash |
| `fanin` | one wake, with everything, always | 1 caller, 2 peers, 1 may be stopped, 4 turns, 1 worker; questions, closings and sweeps overlap |
| `execution` | no stale process, no second invocation, no answer overlooked, exhausted means closed | 2 turns, one of 2 attempts, 2 slots, 2 revisions, 1 crash, 1 participant may leave |
| `delegation` | one start, true reports, agreement, nothing left, an end | 3 cancellations, 3 faults |

Why the bounds are enough. The turn engine relates a turn to its own attempts, to the
agent's row, and (only in the order check) to earlier turns: one turn shows
everything but the order, two turns show the order. One retry of each budget
already has an old and a new attempt whose proofs may cross, and the two retries, in
either order, show that neither budget pays for the other. Two generations give an
old and a new one; a third lets a change that was overtaken lower the generation under a
start. A stop that a fallen generation undoes takes four (`StopUndone.cfg`); `StopIsFinal`
says how it comes to that and holds with four too (without turns), and is proved for every number. The
safety properties that matter most are also proved for every bound.

For the daemon, two generations give an old and a new process, and the one fault is
an exit, a failed spawn, a token timeout, a drain, a shutdown or the daemon's own
death; one generation with two faults lets a fault meet the recovery from another.
Three intents suffice for one owner, one it replaced and one that returns early; a
fourth waits to be dispatched. There is one pid more than generations and faults
call for, so that a process nothing called for has a number.

The supervisor has one turn running, one queued and one that arrives, with a cap of
two that a redelivered attempt can reach. In `local_exec` two attempts share a scope
and one has its own; three attempts meet a limit of two. `fanin` needs two peers for
an answer that comes while another is missing. `execution` has an old and a new
revision, a retried and an unretried turn, and as many slots as make the last one
contested. In `delegation` three faults let a crash, a lost connection and a lost
answer meet in any order, and three cancellations let one come after an unknown
outcome twice.

`CHECK_DEADLOCK FALSE`: when every request is settled and every bound used up the
systems rightly have nothing to do, and a daemon that was shut down has ended.

### Fairness

*Turn engine.* `FairSpec` assumes what the server keeps doing: the recovery worker
of `app.py` runs its pass for ever (weak fairness of dispatch, recovery,
cancellation of invalid turns and drain release), clocks move (leases, back-offs and
deadlines end), the daemon reconciles and reports periodically, its supervisor
restarts the process and the agent subscribes again. One assumption is strong: an
agent does not show signs of life at *every* pass for ever
(`SF_vars(SelectStalled({}))`). The code justifies it by the handler's
`turn_timeout_sec`. Nothing is assumed of agents' frames, users or operators, and
faults are finitely many.

*Daemon.* asyncio's ready queue is first in, first out, so a task that can go on does
so however often others run before it (strong fairness of the loop and of the other
tasks). The server answers every report with a snapshot
(`ws/machine_handler.py:166-170`) and a token request with a grant, and the loop comes
to each frame in turn; a dead daemon is started again by its service manager. Exits,
timeouts, failed spawns, drains and shutdowns are faults, never assumed.

*Supervisor and local execution.* The coroutine that holds the room, and the manager's
tasks, are scheduled; an engine call ends because it finishes, fails, or the engine
runtime's idle clock fires. Nothing is assumed of connections, stops or the server.

*Peer fan-in.* The worker's pass runs for ever and commits, a caller's turn ends (what
`EveryTurnSettles` shows of the engine), the clock reaches the cap. The peers may never
start and never answer.

*Project executions.* Stop receipts that have been received are handled, lost leases of
open turns are recovered, the worker's tick comes round. Agents need not answer: that
is why `LateProofSettles` begins when the last proof is there.

*Delegation.* The executor's worker ticks every two seconds and its jobs go on, the
authority serves the requests that reach it, the agent reads its socket, its
invocation ends. Faults are finitely many, and each may lose any one of these.

## Observations

What the code does although a reader would expect otherwise. Where a `.cfg` is named,
TLC shows the behaviour with it. The runs above state each property for what the code
does provide.

1. **The generation can fall** (`GenerationFalls.cfg`). `bump_generation` without
   leases counts the generation up but leaves an earlier drain request on record;
   `release_generation_drain` later promotes it, and the generation goes back. The
   daemon rejects the order, so the new configuration never starts. Numbers are then
   handed out twice, and a stop can be undone (`StopUndone.cfg`, `EveryStopIsFinal`): a
   change decided before a stop lands after it and lowers the generation, and the next stop
   is ordered below a start that is still under way. `StopIsFinal`, checked and proved with
   all of this going on, says that nothing else does it: only these two steps take the
   generation below something sent, a stop goes above everything unless it fell before, and
   a stop above everything stays there.
2. **A request can be stranded** (`Stranded.cfg`). `request_start` does not remap
   undelivered attempts. A stop and a start between two worker passes leave the
   request at a generation the dispatcher skips for ever, and every later request
   of the room behind it. Liveness is therefore checked without operator restarts.
3. **A bump can miss a lease** (`FenceRace.cfg`). `bump_generation` counts leases
   without a write transaction; a delivery claimed before it writes is neither
   drained nor moved, and an attempt moved by one change may be left behind by another.
   `GenerationFence`, checked and proved with changes overtaken at any point, says that only
   such a change, or an operator's start (which interrupts what is leased), puts a turn
   outside its agent's generation: no claim, frame, retry, crash, deadline or promotion does.
4. **A start can be lost** (`StartLost.cfg`). The callback of a process that ended
   drops the reservation the loop has just made for a newer generation. The start is
   ordered again while its first intent waits; that intent is cancelled, but its
   future stays in `_token_futures` through its rollback and its report, and an
   intent of the same generation that starts meanwhile returns early and leaves its
   reservation behind. No intent and no process owns it, and every later snapshot
   takes the generation as covered. `converge` has one generation: within one, an
   exit cannot meet a reservation of the next.
5. **A caller can be woken twice** (`Twice.cfg`). A closing that read the group as
   collecting writes "ready" after the worker, which had given the peer up, has
   already woken the caller. The claim of `_wake_one` ("two workers never wake a caller
   twice") then succeeds again. With two workers over one database whose passes overlap,
   nobody need be given up for it (`TwiceByTwo.cfg`): each marks the group ready on what it
   read, one after the other has woken the caller. `OneWakeUnlessRaced` leaves out the
   groups in which a worker gave a peer up, and those which two passes, or a pass and a
   question that came after its caller's end, both found done (`raced`); one wake is checked
   and proved for all others, whatever overlaps.
6. **A stop can remain unproved** (`StopReplay.cfg`). A stop is not delivered again after
   its 45 seconds or after an "unknown" answer, so the receipt that `agent/client.py:1257`
   counts on a replay to fetch is never asked for; a revision that is refused stays
   "revising" until it is cancelled.
7. **A failed send strands the queue** (`LeftBehind.cfg`). When a reply cannot be sent, the
   follow-ups wait until the next message is dispatched, and that one runs before them.
   `InOrderWhileConnected` and `QueueIsServed` leave this out.
8. A queued invocation that was asked to cancel when the process ended is recovered as
   "unknown", not as "not started", and blocks its scope.
9. **A caller can stay asleep** (`Orphan.cfg`). If the caller's turn closes between
   `ask_peer`'s check and its commit (`orchestration/peer_ask.py:213-241`), the closing has
   not seen the group and nobody marks it: the peers answer, and the caller, told that it
   "will be woken", is not. `ClosedCallerIsWoken` speaks of groups the closing saw. If
   the caller had asked before, the group is there to be marked, and the caller is woken
   with the new question still pending (`AskOverlaps.cfg`); `WakeSeesAll` is about the
   questions the closing could have seen, the others are marked `missed`.
10. Any failure of the executor's context read, a network error too, revokes the scope
    and cancels a running delegation (`federation/execution_worker.py:388-393`).
11. **A proof can come from nobody** (`LeftRoom.cfg`). A participant that is removed from the
    room (`rooms/router.py:868`) while a stop of its turn is open can no longer answer it:
    `record_stop_receipt` asks for its membership (`project_executions/stop_service.py:258-262`)
    and the stop is not delivered to it again. The revision or cancellation then waits for
    ever. `LateProofSettles` counts the proofs of participants that are still there.

Smaller ones:

- A refusal at dispatch closes the turn with the attempt of the row at hand
  (`turns/service.py:651`); if that row belongs to a superseded attempt, the active
  one stays leased on a closed turn, and a drain of its generation waits for it.
  `OneLeasePerTurn` therefore speaks of open turns.
- `close_local_execution` waits for `_spawn_tasks` (`machine/daemon.py:1784`); a restart
  after a crash runs in the watcher's task and is not among them. `ClosedMeansGone`
  therefore leaves out a restart under way. (The crash count cannot stand for it: a new
  reservation resets it, `daemon.py:847`, while a restart may still be running.)
- Under `restart_anywhere`, an exhausted crash budget stops whatever manifest is on
  disk by then (`daemon.py:1205`), a newer one too. Agents can no longer be created
  with that policy (`api/v1/agents.py:134`); `TombstoneHolds` leaves it out.
- An agent with the policy `stop` that exits is started again by the next snapshot,
  which finds its generation uncovered.
- A process whose daemon died before `record_runtime` is known to nobody (`lost`).

## Proofs

A theorem holds for every value of the constants that satisfies the named assumption of
its module (`TurnStoreAssumption`, `LocalAssumption`, ...). These say that counts and
budgets are naturals, that numbers of which one is needed are not zero, that tables have
their domains, and nothing about schedules or faults. No theorem has a further hypothesis.
Where the code does not provide what a reader would expect (Observations), the exception is
part of the property, named there and as narrow as the step or the row that causes it.

### The turn engine

`TurnTypeProofs` proves `TypeCorrect`. `TypeOK` alone is not inductive: promoting a
drain writes its manifest to the agent, so a drain on record must name one
(`DrainOnRecord`), and so must a bump under way (`BumpOnRecord`).

`DurableTurnsProofs` goes in two halves.

1. *Shape.* Every step of any actor, in a state that satisfies the invariant,
   leaves each turn alone or asks, takes up, puts back or settles one, or settles
   all open ones (`EveryStepHasShape`). This is the part that looks at actions,
   one step of the proof per action.
2. *Invariant.* The shapes keep `IInv`: a turn that is not settled has posted
   nothing (`Unanswered`), a turn that was not asked has no attempts
   (`Pristine`), only the active attempt of an open turn may run
   (`LiveIsActive`), a waiting turn waits for the delivery of its active attempt
   (`WaitingIsPending`), attempts are counted and paid for (`AttemptsArePaid`,
   `RetryBudgets`), and turns are asked and taken up in order (`AskedInOrder`,
   `RoomOrder`).

Why the strengthening is needed: one answer follows only if nothing was posted
before the turn closes; one lease follows only if undelivered attempts are
counted too, since each may become a lease; a retry stays inside the attempts
the budgets allow only if every attempt was paid for by `retry_count`; and a
`handler_started` frame cannot move a waiting turn only because its attempt is
still undelivered, which the code refuses.

From these: `AnsweredAtMostOnce`, `LeaseIsUnique`, `BudgetsAreKept`,
`RoomOrderIsKept`, `OutcomeIsFinal`, and `PromiseIsKept`, the refinement of
`TurnPromise` (`status` maps `pending` and `retrying` to waiting, `leased` to
working; `visible` counts replies and notices). Three more have an invariant of
their own beside `IInv`:

- `NoticesAreHonest`: a notice belongs to a failed turn (`NoticesAreTrue`), since the
  rows it is judged by would otherwise still change after it was posted.
- `FenceHolds`: a change that is not overtaken is decided on the leases that are there: with
  one it drains, which leaves the generation alone, and without one it moves every waiting
  attempt to the new generation (`RemapMoves`). A claim, a retry and a promotion take the
  agent's own generation, and everything else leaves both alone. So each turn that fits
  still fits (`FenceStep`), also beside turns that a change overtaken before left outside.
- `StopsAreFinal`: beside the types it needs that a process is up only where the daemon holds
  a start (`UpIsWanted`), and that a start not yet acknowledged is one (`UnackedIsStart`). A stop that finds nothing ahead goes above it (`StopGoesOnTop`); a change under way
  was decided below it and cannot send a start above (`StopStaysOnTop`), even when it lowers
  the generation; the daemon's high-watermark does the rest.

### The daemon

`MachineDaemonProofs`: `OnlyOne`, `NoneEscapes`, `StopsHold`. Two locks carry the
invariant: the agent's lock, under which one task at a time creates or kills
(`Exclusive`, `Marked`), and the reservation, which is the generation of what is tracked
or being created (`Reserved`, `Covering`). A restart is for a generation the manifest
reached and nothing older was created since (`Restarting`); a process whose end is being
reported is not tracked any more (`Retired`), without which its callback could drop its
successor; what the loop kills is still what is tracked when it has the lock
(`Targeted`). `StopsHold` needs that no process is ahead of the manifest, and where a
stop that has not been carried out yet must be (`Stopping`). `Retired` also settles what a
watcher does that finds its process marked by a kill: it ends without a word, and the
process stays tracked until the kill itself lets go of it.

`ClosingLeavesNothing` is about a step: a shutdown is confirmed over nothing, and nothing
is created after. Beside `IInv` it needs `Closing`: once the waits for tokens are
cancelled the loop rests, when the closer kills, every dispatched task has been gathered,
and what it kills is still what is tracked. Then what lives was tracked, and is killed.

### In the agent

`LocalExecutionProofs` (`LaunchedOnce`, `SessionIsExclusive`, `VerdictsHold`,
`ReceiptsHold`; and two that no run checks, `QueueHolds` and `StoppedStays`).
`Row(k)` ties an attempt's task, receipt, verdict and process to each other; a step
touches one row, or all when the process ends. Launching is recorded before the fork, so
a live process is behind "running" or "unknown" and never behind "not started"
(`LaunchAgrees`). `Exclusion` ties the attempts of a scope: one works, and none while an
unknown outcome blocks it, which is what keeps an orphan alone in its session.

`RoomSupervisorProofs` (`CalledOnce`, `EveryoneIsAnswered`, `ServedInOrder`,
`StopsPreventCalls`). A delivery is queued once, behind another that runs (`Queued`);
calls are counted by the tries of the turn that holds the lock (`Called`); and the lock is
let go of with an empty queue or by a message that was lost (`Released`). The last is the
weak spot of observation 7, and with it nobody is forgotten.

### Between agents and nodes

`ProjectExecutionProofs` (`NothingStaleRuns`, `TurnsRunOnce`, `SomethingToWaitFor`, and
`ProofsAreFinal`, which no run checks). What counts as a proof of an end was given after
the end (`Row`), every answer under way was asked for (`Framed`), while a turn has an
attempt to run its other attempts have nothing running (`Alone`), and what may run is of
the execution's input, or has a stop, or the execution has ended (`InStep`). The four are
stated over tables given as parameters, because a mutation fences, stops and may settle in
one step.

`FederatedDelegationProofs` (`StartsOnce`, `ClosedIsSo`, `ExecutorAgrees`,
`SettledStaysFenced`). The heart is `Truthful`: what a command says of the machine is true
when it is put on its way and stays true wherever it is held up, whether the executor
still waits for it or not. For that, what makes it true must be stable (`Lasts`): an
invocation that has ended stays ended, and one that is fenced, or never asked for, is never
started (`Unstartable`). Only the frame a job waits for is answered to it (`Waited`).

`PeerFaninProofs` (`WokenWithEverything`, `WokenOnlyOnce`), with questions, closings and
passes of any number of workers overlapping in any way. The transactions decide on what they
read and write it back without a condition, so `FaninInv` says of each what is still so when
it commits: a closing still closes an open turn (`ClosingsHold`), a sweep still finds over
what it found over (`SweepsHold`), and a group about to be marked ready has everything its
caller's closing knew of, or will have it with this very commit (`MarksHold`). A question
that commits when its caller has ended, or is ending in a transaction that cannot see it, is
`missed` from the start, and that is what the invariant exempts. `WokenOnlyOnce` rests on
one lemma, `OneMarker`: two transactions that mark the same group would each have had to
find done what the other still has to do, unless one of them gives a question up or neither
of them was needed (`Again`, which the commit records as `raced`). These are observations 5
and 9.

### What the provers do not reach

- Every safety property of the runs is proved. Liveness (`EveryTurnSettles`, `DrainEnds`, `Converges`, `QueueIsServed`,
  `InvocationsEnd`, `ClosedCallerIsWoken`, `LateProofSettles`, `ExhaustedCloses`,
  `DelegationEnds`) is model-checked under the fairness above.

How the modules are written for tlapm 1.4.5: an action that writes several columns of a
row writes the row once (`![t] = [turn[t] EXCEPT ...]`), since it takes two updates of the
same key in one `EXCEPT` for a contradiction, and a proof that rests on that proves nothing;
the arms of a `CASE` exclude each other; set comprehensions bind plain names, not tuples.

## Not modelled

- Several rooms or agents at once: the turn engine relates turns only within one agent
  and room, the agents of a machine and the rooms of an agent only share a loop.
- Placement among machines, migration, the daemon's other frames (memory, instructions,
  engines, workspaces, self-update), its reports' contents and transitional marks, a
  probe of a recorded process that fails or finds its pid reused
  (`machine/spawner.py:1479-1508`).
- Deletion of the trigger message; the `on_turn_terminal` hooks into tasks.
- Task graphs, results, approvals, QA and artifacts of a project execution; the ledger of
  budgets; worktree leases.
- Channel logs, mirrors, grants and certificates between nodes.
- What is a single transaction or input and output only: rooms, messages, presence, auth,
  templates, skills, memory, instructions, observability, adapters to model providers, the
  HTTP API, the frontend, packaging.

The composition of the turn engine with the modules inside the agent is left to the
interface each states; their product is out of TLC's reach.

## Plan

1. Refinements, step by step: the daemon's part of `AgentGeneration` by `MachineDaemon`,
   the agent's part of `ProjectExecution` by `LocalExecution`.
2. Further components as far as state is kept over several steps: the channel log and its
   mirrors, worktree leases, budget reservations.
