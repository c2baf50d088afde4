---------------------------- MODULE MachineDaemon ----------------------------
(***************************************************************************)
(* The machine daemon and one agent's process: the manifest and the        *)
(* runtime record on disk, the message loop that saves and reconciles      *)
(* desired-state frames, the spawn intents that wait for a token, the      *)
(* watchers of processes with the crash budget, shutdown, and the daemon's *)
(* own death and re-adoption of what survived it.                          *)
(*                                                                         *)
(* The daemon is one asyncio program.  A task that has not reached an      *)
(* await that suspends it keeps running (run) and nobody else does.  The   *)
(* agent's lock is taken at once if it is free and nobody waits, else in   *)
(* the order of arrival (queue); it is held across an await only while the *)
(* loop kills a process and while an intent creates one (Unlocked).        *)
(* Agents share nothing, so one is modelled.  Zero stands for "absent" in  *)
(* the daemon's maps and on its disk.                                      *)
(***************************************************************************)
EXTENDS Naturals, FiniteSets, Sequences

CONSTANTS
    MaxGeneration,   \* generations the server counts through
    MaxIntents,      \* intents under way at once: one more waits to be dispatched
    MaxFaults,       \* exits, timeouts, failed spawns, shutdowns, deaths of the daemon
    Policies         \* restart policies an agent may be created with, and max_restarts

ASSUME MachineDaemonAssumption ==
    /\ MaxGeneration \in Nat \ {0} /\ MaxIntents \in Nat \ {0} /\ MaxFaults \in Nat
    /\ Policies \subseteq
         [rule : {"stop", "restart_on_same_machine", "restart_anywhere"}, max : Nat]

VARIABLES
    manifest,   \* manifest.json, the durable high-watermark
    runtime,    \* runtime.json: the process on record
    proc,       \* the processes of the agent, with their watchers
    up,         \* the daemon runs
    tracked,    \* Spawner._agents
    reserved,   \* _running_generations
    owner,      \* _spawn_owners
    future,     \* _token_futures: whose future the grant resolves
    crashes,    \* the crash budget's timestamps
    policy,     \* the agent's restart policy, which never changes
    draining,   \* _draining
    intent,     \* calls of _request_token_and_spawn, numbered by their uuid
    loop,       \* the message loop
    closer,     \* close_local_execution
    run,        \* the task that has not suspended itself
    queue,      \* the tasks that wait for the agent's lock
    lost,       \* processes created by a daemon that died before it noted them
    faults      \* how many of MaxFaults have happened

disk == <<manifest, runtime>>
maps == <<reserved, owner, future>>
sched == <<run, queue>>
host == <<up, lost, faults, policy>>
vars == <<disk, maps, sched, host, proc, tracked, crashes, draining, intent, loop, closer>>

-----------------------------------------------------------------------------
Generations == 1..MaxGeneration
\* An intent's number is free again when it has returned: a grant that comes
\* later finds no owner with its uuid.
Intents == 1..MaxIntents
\* One pid to spare: a process that nothing called for would show.
Pids == 1..(MaxGeneration + MaxFaults + 1)

Frame == [gen : Generations, desired : {"running", "stopped"}]
NoManifest == [gen |-> 0, desired |-> "none"]
Manifest == {NoManifest} \cup [gen : 0..MaxGeneration, desired : {"running", "stopped"}]

Process == [state : {"unused", "alive", "dead"}, gen : 0..MaxGeneration,
            \* child: proc.wait; poll: an adopted one; the rest: callbacks
            watch : {"off", "child", "poll", "stopped", "crashed", "again", "giving"},
            doomed : BOOLEAN,                 \* intentional_stop
            next : 0..MaxGeneration]          \* the manifest a restart was decided on
Intent == [pc : {"none", "new", "waiting", "granted", "creating", "created",
                 "rollback", "clear", "return", "leaving"},
           gen : 0..MaxGeneration, token : {"none", "pending", "granted", "cancelled", "late"},
           task : BOOLEAN,                    \* in _spawn_tasks, not in a watcher
           pid : {0} \cup Pids]
Killing == {"stop", "replace", "orphan", "drain", "fence"}
Loop == [pc : {"off", "idle", "frame", "absent", "saved", "reconcile", "dispatch"} \cup Killing,
         seen : Manifest, target : {0} \cup Pids]
Closer == [pc : {"off", "waiting", "gather", "kill", "closed"}, target : {0} \cup Pids]

\* What has ended is forgotten: the code keeps no record of it.
NoProcess == [state |-> "unused", gen |-> 0, watch |-> "off", doomed |-> FALSE, next |-> 0]
Gone == [NoProcess EXCEPT !.state = "dead"]
NoIntent == [pc |-> "none", gen |-> 0, token |-> "none", task |-> FALSE, pid |-> 0]
Idle == [pc |-> "idle", seen |-> NoManifest, target |-> 0]
NotClosing == [pc |-> "off", target |-> 0]

Nobody == <<"nobody", 0>>
TheLoop == <<"loop", 0>>
AnIntent(i) == <<"intent", i>>
Watcher(p) == <<"watcher", p>>
Tasks == {TheLoop} \cup {AnIntent(i) : i \in Intents} \cup {Watcher(p) : p \in Pids}

TypeOK ==
    /\ manifest \in Manifest /\ runtime \in {0} \cup Pids
    /\ proc \in [Pids -> Process] /\ intent \in [Intents -> Intent]
    /\ up \in BOOLEAN /\ draining \in BOOLEAN
    /\ tracked \in {0} \cup Pids /\ reserved \in 0..MaxGeneration
    /\ owner \in {0} \cup Intents /\ future \in {0} \cup Intents
    /\ crashes \in Nat /\ policy \in Policies /\ faults \in 0..MaxFaults
    /\ loop \in Loop /\ closer \in Closer /\ lost \subseteq Pids
    /\ run \in Tasks \cup {Nobody} /\ queue \in Seq(Tasks)

Init ==
    /\ manifest = NoManifest /\ runtime = 0
    /\ proc = [p \in Pids |-> NoProcess] /\ intent = [i \in Intents |-> NoIntent]
    /\ up = TRUE /\ draining = FALSE
    /\ tracked = 0 /\ reserved = 0 /\ owner = 0 /\ future = 0
    /\ crashes = 0 /\ policy \in Policies /\ faults = 0 /\ lost = {}
    /\ loop = Idle /\ closer = NotClosing
    /\ run = Nobody /\ queue = <<>>

-----------------------------------------------------------------------------
Fault == faults < MaxFaults /\ faults' = faults + 1

Alive == {p \in Pids : proc[p].state = "alive"}

Unlocked ==
    /\ loop.pc \notin {"stop", "replace", "orphan"}
    /\ \A i \in Intents : intent[i].pc \notin {"creating", "created"}

Waiting(t) == \E k \in 1..Len(queue) : queue[k] = t

\* A step that needs no lock: the task goes on, or is resumed after an await.
Free(t) == run \in {Nobody, t} /\ queue' = queue

\* A step that takes the lock.
Take(t) ==
    /\ run \in {Nobody, t} /\ Unlocked
    /\ \/ queue = <<>> /\ queue' = queue
       \/ queue # <<>> /\ Head(queue) = t /\ queue' = Tail(queue)

\* Where a step ends: at an await, or still running.
Suspend == run' = Nobody
GoOn(t) == run' = t

NextPid == Cardinality({p \in Pids : proc[p].state # "unused"}) + 1

NextIntent == CHOOSE i \in Intents : intent[i] = NoIntent

NewIntent(g, task) ==
    /\ NoIntent \in {intent[i] : i \in Intents}
    /\ intent' = [intent EXCEPT ![NextIntent] =
                    [NoIntent EXCEPT !.pc = "new", !.gen = g, !.task = task]]

\* A pending token future is cancelled; a resolved one stays resolved.
Fenced == IF future # 0 /\ intent[future].token = "pending"
          THEN [intent EXCEPT ![future].token = "cancelled"] ELSE intent

\* The process group is terminated, by force if it has to be.
TerminateTree(p) == proc' = [proc EXCEPT ![p] = Gone]

\* Spawner._cleanup follows, if the process is still the tracked one.
Kill(p) ==
    /\ TerminateTree(p)
    /\ tracked' = IF tracked = p THEN 0 ELSE tracked
    /\ runtime' = IF tracked = p THEN 0 ELSE runtime

-----------------------------------------------------------------------------
(* The message loop.                                                       *)

Listening == up /\ loop.pc = "idle" /\ closer.pc = "off" /\ run = Nobody

Receives(f) ==
    /\ Listening
    /\ loop' = [Idle EXCEPT !.pc = "frame", !.seen = f]
    /\ GoOn(TheLoop)
    /\ UNCHANGED <<disk, maps, queue, host, proc, tracked, crashes, draining, intent, closer>>

\* save_if_authoritative: an older generation is stale, and a running frame
\* cannot revive a stopped generation.
Authoritative(f) ==
    /\ f.gen >= manifest.gen
    /\ ~(f.gen = manifest.gen /\ manifest.desired = "stopped" /\ f.desired = "running")

\* The frame is saved or rejected; either way its agent is reconciled, in a
\* batch after the other agents.
SavesFrame ==
    /\ loop.pc = "frame" /\ Take(TheLoop)
    /\ manifest' = IF Authoritative(loop.seen) THEN loop.seen ELSE manifest
    /\ loop' = [Idle EXCEPT !.pc = "saved"]
    /\ Suspend \/ GoOn(TheLoop)
    /\ UNCHANGED <<runtime, maps, host, proc, tracked, crashes, draining, intent, closer>>

\* A full snapshot without the agent while one is tracked.
OrphanBatch ==
    /\ Listening /\ tracked # 0
    /\ loop' = [Idle EXCEPT !.pc = "absent"]
    /\ GoOn(TheLoop)
    /\ UNCHANGED <<disk, maps, queue, host, proc, tracked, crashes, draining, intent, closer>>

\* A tombstone at the highest generation known, then the kill.
StopsOrphan ==
    LET highest == IF reserved > manifest.gen THEN reserved ELSE manifest.gen IN
    /\ loop.pc = "absent" /\ Take(TheLoop)
    /\ manifest' = [manifest EXCEPT !.gen = highest, !.desired = "stopped"]
    /\ loop' = [loop EXCEPT !.pc = "orphan"]
    /\ GoOn(TheLoop)
    /\ UNCHANGED <<runtime, maps, host, proc, tracked, crashes, draining, intent, closer>>

\* The manifest is read before the lock is taken.
ReconcileLoads ==
    /\ loop.pc = "saved" /\ Free(TheLoop)
    /\ IF draining \/ manifest = NoManifest
       THEN loop' = Idle /\ Suspend
       ELSE loop' = [loop EXCEPT !.pc = "reconcile", !.seen = manifest] /\ GoOn(TheLoop)
    /\ UNCHANGED <<disk, maps, host, proc, tracked, crashes, draining, intent, closer>>

\* A stop fences the token round trip and, after a report, kills what runs.
ReconcileStop ==
    /\ loop.pc = "reconcile" /\ loop.seen.desired = "stopped" /\ Take(TheLoop)
    /\ intent' = Fenced
    /\ IF tracked # 0
       THEN loop' = [loop EXCEPT !.pc = "stop"] /\ UNCHANGED reserved
       ELSE loop' = Idle /\ reserved' = 0
    /\ Suspend
    /\ UNCHANGED <<disk, owner, future, host, proc, tracked, crashes, draining, closer>>

\* A completed or reserved spawn of the same or a later generation.
Covered == reserved >= loop.seen.gen

\* The generation is reserved before its intent is dispatched.
Reserve ==
    /\ reserved' = loop.seen.gen /\ crashes' = 0 /\ intent' = Fenced
    /\ loop' = [loop EXCEPT !.pc = "dispatch", !.target = 0]
    /\ Suspend

MutNoReplace ==
    /\ loop.pc = "reconcile" /\ loop.seen.desired = "running" /\ Take(TheLoop)
    /\ \/ Covered /\ loop' = Idle /\ Suspend /\ UNCHANGED <<reserved, crashes, intent>>
       \/ ~Covered /\ Reserve
    /\ UNCHANGED <<disk, owner, future, host, proc, tracked, draining, closer>>

\* What runs is killed first.
ReconcileStart ==
    /\ loop.pc = "reconcile" /\ loop.seen.desired = "running" /\ Take(TheLoop)
    /\ \/ Covered /\ loop' = Idle /\ Suspend /\ UNCHANGED <<reserved, crashes, intent>>
       \/ ~Covered /\ tracked = 0 /\ Reserve
       \/ /\ ~Covered /\ tracked # 0
          /\ loop' = [loop EXCEPT !.pc = "replace"] /\ GoOn(TheLoop)
          /\ UNCHANGED <<reserved, crashes, intent>>
    /\ UNCHANGED <<disk, owner, future, host, proc, tracked, draining, closer>>

\* After the report that says "starting".
Dispatch ==
    /\ loop.pc = "dispatch" /\ loop' = Idle /\ Free(TheLoop) /\ Suspend
    /\ NewIntent(loop.seen.gen, TRUE)
    /\ UNCHANGED <<disk, maps, host, proc, tracked, crashes, draining, closer>>

\* A child that is known to have exited is only cleaned up.
KnownDead(p) == proc[p].state = "dead" /\ proc[p].watch = "child"

\* Spawner.kill marks the process before its first await.
LoopKills ==
    /\ loop.pc \in Killing /\ loop.target = 0 /\ tracked # 0 /\ Free(TheLoop)
    /\ loop' = [loop EXCEPT !.target = tracked]
    /\ proc' = [proc EXCEPT ![tracked].doomed = TRUE]
    /\ Suspend
    /\ UNCHANGED <<disk, maps, host, tracked, crashes, draining, intent, closer>>

LoopKilled ==
    /\ loop.pc \in Killing /\ Free(TheLoop)
    /\ \/ loop.target # 0 /\ Kill(loop.target)
       \/ loop.target = 0 /\ tracked # 0 /\ KnownDead(tracked) /\ Kill(tracked)
       \/ loop.target = 0 /\ tracked = 0 /\ UNCHANGED <<proc, tracked, runtime>>
    /\ \/ loop.pc = "replace" /\ Reserve
       \/ /\ loop.pc # "replace" /\ loop' = Idle /\ Suspend
          /\ reserved' = IF loop.pc = "drain" THEN reserved ELSE 0
          /\ UNCHANGED <<crashes, intent>>
    /\ UNCHANGED <<manifest, owner, future, host, draining, closer>>

\* The machine is told to drain: no lock is taken, no intent is waited for.
DrainFrame ==
    /\ Listening /\ ~draining /\ Fault
    /\ draining' = TRUE /\ loop' = [Idle EXCEPT !.pc = "drain"] /\ GoOn(TheLoop)
    /\ UNCHANGED <<disk, maps, queue, up, lost, policy, proc, tracked, crashes, intent, closer>>

\* A grant counts if it echoes the uuid of the owner: it may come late, for an
\* intent that is none any more, or never.
TokenGrant(i) ==
    /\ Listening /\ owner = i
    /\ future # 0 /\ intent[future].token = "pending"
    /\ intent' = [intent EXCEPT ![future].token = "granted"]
    /\ UNCHANGED <<disk, maps, sched, host, proc, tracked, crashes, draining, loop, closer>>

LoopStep ==
    \/ \E f \in Frame : Receives(f)
    \/ SavesFrame \/ OrphanBatch \/ StopsOrphan
    \/ ReconcileLoads \/ ReconcileStop \/ ReconcileStart
    \/ Dispatch \/ LoopKills \/ LoopKilled \/ DrainFrame
    \/ \E i \in Intents : TokenGrant(i)

-----------------------------------------------------------------------------
(* Spawn intents: _request_token_and_spawn and _spawn_owned.               *)

\* A task that starts while the daemon drains returns at once.
IntentDrained(i) ==
    /\ intent[i].pc = "new" /\ draining /\ ~Waiting(AnIntent(i)) /\ Free(AnIntent(i))
    /\ intent' = [intent EXCEPT ![i] = NoIntent] /\ Suspend
    /\ UNCHANGED <<disk, maps, host, proc, tracked, crashes, draining, loop, closer>>

Wanted(i) == manifest.desired = "running" /\ manifest.gen = intent[i].gen

\* A process of this generation runs already.
Current(i) == tracked # 0 /\ proc[tracked].gen >= intent[i].gen

\* Another intent of the same generation already waits for its token.
Doubled(i) == owner # 0 /\ intent[owner].gen = intent[i].gen /\ future # 0

\* The intent returns, leaving the reservation as it is, or becomes the owner
\* and asks for a token.
IntentEnters(i) ==
    /\ intent[i].pc = "new" /\ (draining => Waiting(AnIntent(i))) /\ Take(AnIntent(i))
    /\ \/ /\ ~Wanted(i) \/ Current(i) \/ Doubled(i)
          /\ intent' = [intent EXCEPT ![i] = NoIntent]
          /\ reserved' = IF Wanted(i) /\ Current(i) THEN proc[tracked].gen ELSE reserved
          /\ UNCHANGED <<owner, future>>
       \/ /\ Wanted(i) /\ ~Current(i) /\ ~Doubled(i)
          /\ owner' = i /\ future' = i
          /\ intent' = [Fenced EXCEPT ![i] = [Fenced[i] EXCEPT !.pc = "waiting", !.token = "pending"]]
          /\ UNCHANGED reserved
    /\ Suspend
    /\ UNCHANGED <<disk, host, proc, tracked, crashes, draining, loop, closer>>

\* The inner finally: at once with a token, else only after the rollback.
LeaveFuture(i) == future' = IF future = i THEN 0 ELSE future

IntentResumes(i) ==
    /\ intent[i].pc = "waiting" /\ Free(AnIntent(i)) /\ GoOn(AnIntent(i))
    /\ \/ /\ intent[i].token = "granted" /\ LeaveFuture(i)
          /\ intent' = [intent EXCEPT ![i].pc = "granted"]
       \/ /\ intent[i].token = "cancelled" /\ UNCHANGED future
          /\ intent' = [intent EXCEPT ![i].pc = "rollback"]
    /\ UNCHANGED <<disk, reserved, owner, host, proc, tracked, crashes, draining, loop, closer>>

TokenTimesOut(i) ==
    /\ intent[i].pc = "waiting" /\ intent[i].token = "pending" /\ Fault
    /\ Free(AnIntent(i)) /\ GoOn(AnIntent(i))
    /\ intent' = [intent EXCEPT ![i] = [intent[i] EXCEPT !.pc = "rollback", !.token = "late"]]
    /\ UNCHANGED <<disk, maps, up, lost, policy, proc, tracked, crashes, draining, loop, closer>>

MutUnchecked(i) == ~draining

\* What the wait for the token may have overtaken.
StillMine(i) == ~draining /\ Wanted(i) /\ owner = i /\ reserved = intent[i].gen

IntentChecks(i) ==
    /\ intent[i].pc = "granted" /\ Take(AnIntent(i))
    /\ \/ StillMine(i) /\ intent' = [intent EXCEPT ![i].pc = "creating"] /\ Suspend
       \/ ~StillMine(i) /\ intent' = [intent EXCEPT ![i].pc = "rollback"] /\ GoOn(AnIntent(i))
    /\ UNCHANGED <<disk, maps, host, proc, tracked, crashes, draining, loop, closer>>

\* Spawner.spawn, which would first kill a tracked process (see OneProcess).
SpawnCreates(i) ==
    /\ intent[i].pc = "creating" /\ NextPid \in Pids /\ Free(AnIntent(i)) /\ Suspend
    /\ proc' = [proc EXCEPT ![NextPid] = [NoProcess EXCEPT !.state = "alive", !.gen = intent[i].gen]]
    /\ intent' = [intent EXCEPT ![i] = [intent[i] EXCEPT !.pc = "created", !.pid = NextPid]]
    /\ UNCHANGED <<disk, maps, host, tracked, crashes, draining, loop, closer>>

SpawnFails(i) ==
    /\ intent[i].pc = "creating" /\ Fault /\ Free(AnIntent(i)) /\ GoOn(AnIntent(i))
    /\ intent' = [intent EXCEPT ![i].pc = "rollback"]
    /\ UNCHANGED <<disk, maps, up, lost, policy, proc, tracked, crashes, draining, loop, closer>>

MutNotRecorded(i) ==
    /\ intent[i].pc = "created" /\ Free(AnIntent(i)) /\ GoOn(AnIntent(i))
    /\ tracked' = intent[i].pid
    /\ proc' = [proc EXCEPT ![intent[i].pid].watch = "child"]
    /\ intent' = [intent EXCEPT ![i] = [intent[i] EXCEPT !.pc = "clear", !.pid = 0]]
    /\ UNCHANGED <<disk, maps, host, crashes, draining, loop, closer>>

\* The process is tracked, recorded on disk and watched.
SpawnRegisters(i) ==
    /\ intent[i].pc = "created" /\ Free(AnIntent(i)) /\ GoOn(AnIntent(i))
    /\ tracked' = intent[i].pid /\ runtime' = intent[i].pid
    /\ proc' = [proc EXCEPT ![intent[i].pid].watch = "child"]
    /\ intent' = [intent EXCEPT ![i] = [intent[i] EXCEPT !.pc = "clear", !.pid = 0]]
    /\ UNCHANGED <<manifest, maps, host, crashes, draining, loop, closer>>

MutRollBackNever(i) == FALSE

\* Only the owner gives its reservation back, and only without a process.
RollsBack(i) == owner = i /\ tracked = 0 /\ reserved = intent[i].gen

RollBack(i) ==
    /\ intent[i].pc = "rollback" /\ Take(AnIntent(i)) /\ GoOn(AnIntent(i))
    /\ reserved' = IF RollsBack(i) THEN 0 ELSE reserved
    /\ intent' = [intent EXCEPT ![i].pc = "clear"]
    /\ UNCHANGED <<disk, owner, future, host, proc, tracked, crashes, draining, loop, closer>>

\* The transitional state is cleared under the lock, and a report is sent
\* unless the token was late.
IntentClears(i) ==
    /\ intent[i].pc = "clear" /\ Take(AnIntent(i))
    /\ IF intent[i].token = "late" THEN GoOn(AnIntent(i)) ELSE Suspend
    /\ intent' = [intent EXCEPT ![i].pc = "return"]
    /\ UNCHANGED <<disk, maps, host, proc, tracked, crashes, draining, loop, closer>>

IntentReturns(i) ==
    /\ intent[i].pc = "return" /\ Free(AnIntent(i)) /\ GoOn(AnIntent(i)) /\ LeaveFuture(i)
    /\ intent' = [intent EXCEPT ![i].pc = "leaving"]
    /\ UNCHANGED <<disk, reserved, owner, host, proc, tracked, crashes, draining, loop, closer>>

\* The outer finally.
IntentLeaves(i) ==
    /\ intent[i].pc = "leaving" /\ Take(AnIntent(i)) /\ Suspend
    /\ owner' = IF owner = i THEN 0 ELSE owner
    /\ intent' = [intent EXCEPT ![i] = NoIntent]
    /\ UNCHANGED <<disk, reserved, future, host, proc, tracked, crashes, draining, loop, closer>>

IntentGoesOn(i) ==
    \/ IntentDrained(i) \/ IntentEnters(i) \/ IntentResumes(i) \/ IntentChecks(i)
    \/ SpawnCreates(i) \/ SpawnRegisters(i) \/ RollBack(i)
    \/ IntentClears(i) \/ IntentReturns(i) \/ IntentLeaves(i)

-----------------------------------------------------------------------------
(* Processes, their watchers and the crash budget.                         *)

ProcessExits(p) ==
    /\ proc[p].state = "alive" /\ Fault
    /\ proc' = [proc EXCEPT ![p].state = "dead"]
    /\ UNCHANGED <<disk, maps, sched, up, lost, policy, tracked, crashes, draining, intent, loop, closer>>

\* The exit code tells a crash; that of an adopted process is unknown and
\* counts as a normal one.
ExitSeen(p) == IF proc[p].watch = "child" THEN {"stopped", "crashed"} ELSE {"stopped"}

\* The watcher of a process that is being killed or was replaced says nothing;
\* any other retires its process before the callback.
WatcherNotices(p) ==
    /\ proc[p].state = "dead" /\ proc[p].watch \in {"child", "poll"} /\ Free(Watcher(p))
    /\ \/ /\ tracked # p /\ Suspend
          /\ proc' = [proc EXCEPT ![p] = Gone] /\ UNCHANGED <<tracked, runtime>>
       \/ /\ tracked = p /\ proc[p].doomed /\ Suspend
          /\ proc' = [proc EXCEPT ![p].watch = "off"] /\ UNCHANGED <<tracked, runtime>>
       \/ /\ tracked = p /\ ~proc[p].doomed
          /\ tracked' = 0 /\ runtime' = 0 /\ GoOn(Watcher(p))
          /\ \E exit \in ExitSeen(p) :
                proc' = [proc EXCEPT ![p] = [Gone EXCEPT !.watch = exit]]
    /\ UNCHANGED <<manifest, maps, host, crashes, draining, intent, loop, closer>>

\* _on_agent_stopped
AgentStopped(p) ==
    /\ proc[p].watch = "stopped" /\ Take(Watcher(p)) /\ Suspend
    /\ reserved' = IF tracked = 0 THEN 0 ELSE reserved
    /\ proc' = [proc EXCEPT ![p] = Gone]
    /\ UNCHANGED <<disk, owner, future, host, tracked, crashes, draining, intent, loop, closer>>

Restartable == ~draining /\ manifest.desired = "running" /\ policy.rule # "stop"

\* record_crash: this crash and those still inside the window fit the budget.
WithinBudget(n) == n =< policy.max

\* _on_agent_crashed up to its decision: ignored if a replacement runs, else
\* left to the server, restarted within the budget, or given up.
AgentCrashed(p) ==
    /\ proc[p].watch = "crashed" /\ Take(Watcher(p))
    /\ reserved' = IF tracked = 0 THEN 0 ELSE reserved
    /\ \/ /\ tracked # 0 \/ ~Restartable
          /\ proc' = [proc EXCEPT ![p] = Gone] /\ Suspend /\ UNCHANGED <<crashes, manifest>>
       \/ /\ tracked = 0 /\ Restartable
          /\ \E recent \in 0..crashes : crashes' = recent + 1
          /\ \/ /\ WithinBudget(crashes')
                /\ proc' = [proc EXCEPT ![p] = [proc[p] EXCEPT !.watch = "again", !.next = manifest.gen]]
                /\ GoOn(Watcher(p)) /\ UNCHANGED manifest
             \/ /\ ~WithinBudget(crashes') /\ policy.rule = "restart_anywhere"
                /\ proc' = [proc EXCEPT ![p].watch = "giving"] /\ Suspend /\ UNCHANGED manifest
             \/ /\ ~WithinBudget(crashes') /\ policy.rule # "restart_anywhere"
                /\ proc' = [proc EXCEPT ![p] = Gone] /\ Suspend
                /\ manifest' = [manifest EXCEPT !.desired = "stopped"]
    /\ UNCHANGED <<runtime, owner, future, host, tracked, draining, intent, loop, closer>>

\* The restart yields to a generation the server reserved meanwhile.
CrashRestart(p) ==
    /\ proc[p].watch = "again" /\ Take(Watcher(p))
    /\ proc' = [proc EXCEPT ![p] = Gone]
    /\ \/ /\ reserved < proc[p].next
          /\ reserved' = proc[p].next /\ NewIntent(proc[p].next, FALSE)
          /\ GoOn(AnIntent(NextIntent))
       \/ reserved >= proc[p].next /\ Suspend /\ UNCHANGED <<reserved, intent>>
    /\ UNCHANGED <<disk, owner, future, host, tracked, crashes, draining, loop, closer>>

\* The replacement request is sent first; then whatever manifest is on disk
\* is stopped.
GiveUp(p) ==
    /\ proc[p].watch = "giving" /\ Free(Watcher(p)) /\ Suspend
    /\ proc' = [proc EXCEPT ![p] = Gone]
    /\ manifest' = [manifest EXCEPT !.desired = "stopped"]
    /\ UNCHANGED <<runtime, maps, host, tracked, crashes, draining, intent, loop, closer>>

WatcherGoesOn(p) ==
    WatcherNotices(p) \/ AgentStopped(p) \/ AgentCrashed(p) \/ CrashRestart(p) \/ GiveUp(p)

-----------------------------------------------------------------------------
(* The lock.                                                               *)

AtLock(t) ==
    \/ t = TheLoop /\ loop.pc \in {"frame", "absent", "reconcile"}
    \/ \E i \in Intents : t = AnIntent(i) /\
         (intent[i].pc \in {"granted", "rollback", "clear", "leaving"} \/ (intent[i].pc = "new" /\ ~draining))
    \/ \E p \in Pids : t = Watcher(p) /\ proc[p].watch \in {"stopped", "crashed", "again"}

\* A task that finds the lock taken, or others before it, waits its turn.
Waits(t) ==
    /\ AtLock(t) /\ run \in {Nobody, t} /\ ~Waiting(t) /\ ~(Unlocked /\ queue = <<>>)
    /\ queue' = Append(queue, t) /\ Suspend
    /\ UNCHANGED <<disk, maps, host, proc, tracked, crashes, draining, intent, loop, closer>>

-----------------------------------------------------------------------------
(* Shutdown of a node, and the daemon's own death and restart.             *)

CloseBegins ==
    /\ up /\ closer.pc = "off" /\ run = Nobody /\ Fault
    /\ draining' = TRUE /\ closer' = [closer EXCEPT !.pc = "waiting"]
    /\ UNCHANGED <<disk, maps, sched, up, lost, policy, proc, tracked, crashes, intent, loop>>

\* The frame at hand is finished, then token waits are cancelled.
CloseFences ==
    /\ closer.pc = "waiting" /\ loop.pc = "idle" /\ run = Nobody
    /\ intent' = Fenced /\ closer' = [closer EXCEPT !.pc = "gather"]
    /\ UNCHANGED <<disk, maps, sched, host, proc, tracked, crashes, draining, loop>>

MutNoGather == TRUE

\* The tasks in _spawn_tasks; a restart runs in a watcher and is not one.
Gathered == \A i \in Intents : intent[i].task => intent[i].pc = "none"

CloseKills ==
    /\ closer.pc = "gather" /\ Gathered /\ run = Nobody
    /\ \/ /\ tracked = 0 /\ closer' = [closer EXCEPT !.pc = "closed"]
          /\ UNCHANGED <<proc, tracked, runtime>>
       \/ /\ tracked # 0 /\ KnownDead(tracked) /\ Kill(tracked)
          /\ closer' = [closer EXCEPT !.pc = "closed"]
       \/ /\ tracked # 0 /\ closer' = [pc |-> "kill", target |-> tracked]
          /\ proc' = [proc EXCEPT ![tracked].doomed = TRUE]
          /\ UNCHANGED <<tracked, runtime>>
    /\ UNCHANGED <<manifest, maps, sched, host, crashes, draining, intent, loop>>

CloseEnds ==
    /\ closer.pc = "kill" /\ run = Nobody
    /\ Kill(closer.target) /\ closer' = [pc |-> "closed", target |-> 0]
    /\ UNCHANGED <<manifest, maps, sched, host, crashes, draining, intent, loop>>

\* Everything in memory is gone; processes, manifest and record stay.
DaemonDies ==
    /\ up /\ Fault /\ up' = FALSE
    /\ lost' = lost \cup {intent[i].pid : i \in {j \in Intents : intent[j].pc = "created"}}
    /\ tracked' = 0 /\ reserved' = 0 /\ owner' = 0 /\ future' = 0 /\ crashes' = 0
    /\ draining' = FALSE /\ run' = Nobody /\ queue' = <<>>
    /\ loop' = [Idle EXCEPT !.pc = "off"] /\ closer' = NotClosing
    /\ intent' = [i \in Intents |-> NoIntent]
    /\ proc' = [p \in Pids |-> [NoProcess EXCEPT !.state = proc[p].state, !.gen = proc[p].gen]]
    /\ UNCHANGED <<disk, policy>>

\* A stopped manifest fences a process that outlived the daemon.
Tombstoned(p) == manifest.desired = "stopped" /\ manifest.gen >= proc[p].gen

\* Spawner.adopt: the recorded process is tracked and polled if it lives, else
\* its record is cleared.
Adopts == runtime \in Alive /\ tracked' = runtime /\ proc' = [proc EXCEPT ![runtime].watch = "poll"]

\* Adoption comes before anything else is done.
DaemonStarts ==
    /\ ~up /\ up' = TRUE
    /\ \/ /\ runtime \notin Alive
          /\ runtime' = 0 /\ loop' = Idle /\ UNCHANGED <<proc, tracked, reserved, run>>
       \/ /\ Adopts /\ reserved' = proc[runtime].gen
          /\ IF Tombstoned(runtime) THEN loop' = [Idle EXCEPT !.pc = "fence"] /\ GoOn(TheLoop)
                                    ELSE loop' = Idle /\ Suspend
          /\ UNCHANGED runtime
    /\ UNCHANGED <<manifest, owner, future, queue, lost, faults, policy, crashes, draining, intent, closer>>

Next ==
    \/ LoopStep
    \/ \E i \in Intents : IntentGoesOn(i) \/ TokenTimesOut(i) \/ SpawnFails(i)
    \/ \E p \in Pids : WatcherGoesOn(p) \/ ProcessExits(p)
    \/ \E t \in Tasks : Waits(t)
    \/ CloseBegins \/ CloseFences \/ CloseKills \/ CloseEnds
    \/ DaemonDies \/ DaemonStarts

Spec == Init /\ [][Next]_vars

-----------------------------------------------------------------------------
Kept == Alive \ lost

\* At most one process of the agent lives on the machine, whatever frames,
\* grants, crashes and restarts of the daemon overlap (daemon.py, #183, #451),
\* and none is created while one is tracked: the kill inside Spawner.spawn
\* ("spawn.replacing_existing") is never needed.  A process whose daemon died
\* between its creation and its record does not count: nothing knows of it.
OneProcess ==
    /\ Cardinality(Kept) =< 1
    /\ \A i \in Intents : intent[i].pc = "creating" => tracked = 0

\* No process escapes the daemon: it is tracked, about to be, or on record for
\* the next daemon, so that a stop can reach it.
EveryProcessIsReachable ==
    \A p \in Kept :
        \/ tracked = p
        \/ ~up /\ runtime = p
        \/ \E i \in Intents : intent[i].pc = "created" /\ intent[i].pid = p

\* Once the loop has dealt with a stop, nothing of that or an earlier
\* generation lives: an intent that waited for its token, a restart after a
\* crash and an adopted process all meet the tombstone.
TombstoneHolds ==
    /\ up /\ loop.pc = "idle" /\ ~draining
    /\ manifest.desired = "stopped" /\ policy.rule # "restart_anywhere"
    => \A p \in Kept : proc[p].gen > manifest.gen

\* No spawn storm: every process was called for by a generation or a fault.
\* Frames, grants and restarts that overlap never start one twice.
SpawnsArePaid == NextPid - 1 =< manifest.gen + faults

\* A restart after a crash creates its process.
Restarts == \E i \in Intents : ~intent[i].task /\ intent[i].pc \in {"creating", "created"}

\* A shutdown that succeeded leaves no process (node/execution.py:329,
\* "close_local_execution confirms every process group is gone"): when it is
\* confirmed nothing lives that the daemon knows of, and nothing is created
\* afterwards.  A restart is left out: it runs in the watcher's task, which nobody
\* waits for.
ClosedMeansGone ==
    [][closer'.pc = "closed" /\ (closer.pc = "closed" => Kept = {}) /\ ~Restarts
         => Kept' = {}]_vars

-----------------------------------------------------------------------------
\* Asyncio runs its ready tasks in turn, so a task that can go on does, however
\* often others run before it; a dead daemon is started again.  The server
\* answers every report with a snapshot, and a token request that reached it
\* with a grant: frames queue, and the loop comes to each of them.
LoopGoesOn ==
    \/ SavesFrame \/ StopsOrphan \/ ReconcileLoads \/ ReconcileStop \/ ReconcileStart
    \/ Dispatch \/ LoopKills \/ LoopKilled \/ Waits(TheLoop)

OthersGoOn ==
    \/ \E i \in Intents : IntentGoesOn(i) \/ Waits(AnIntent(i))
    \/ \E p \in Pids : WatcherGoesOn(p) \/ Waits(Watcher(p))

Fairness ==
    /\ SF_vars(LoopGoesOn)
    /\ SF_vars(OthersGoOn)
    /\ SF_vars(\E f \in Frame : Receives(f))
    /\ SF_vars(\E i \in Intents : TokenGrant(i))
    /\ WF_vars(DaemonStarts)

FairSpec == Spec /\ Fairness

Matches ==
    IF manifest.desired = "running"
    THEN \E p \in Kept : tracked = p /\ proc[p].gen = manifest.gen
    ELSE Kept = {}

\* "The machine autonomously converges toward that desired state"
\* (lifecycle.py:4-5): once faults are over, a daemon that is not shut down ends
\* up with exactly what its manifest says, for ever.
Converges == <>[](draining \/ Matches)
=============================================================================
