------------------------- MODULE MachineDaemonProofs -------------------------
(***************************************************************************)
(* Safety of the machine daemon, for any number of generations, intents    *)
(* and faults.  Two locks do the work: the agent's lock, under which a     *)
(* process is created, and the reservation, which is the generation of     *)
(* what is tracked or being created.                                       *)
(***************************************************************************)
EXTENDS MachineDaemon, FiniteSetTheorems, SequenceTheorems, TLAPS

\* An intent that holds the lock to create a process.
Spawning(i) == intent[i].pc \in {"creating", "created"}

\* Only one task holds the lock across an await.
Exclusive ==
    /\ \A i, j \in Intents : Spawning(i) /\ Spawning(j) => i = j
    /\ loop.pc \in {"stop", "replace", "orphan"} => \A i \in Intents : ~Spawning(i)

\* A process is created for the reservation, by its owner, and not beside another.
Reserved ==
    \A i \in Intents : Spawning(i) =>
        /\ tracked = 0 /\ owner = i /\ reserved = intent[i].gen
        /\ intent[i].gen =< manifest.gen
        /\ manifest.desired = "running" \/ policy.rule = "restart_anywhere"
        /\ intent[i].pc = "created" =>
              /\ intent[i].pid # 0 /\ proc[intent[i].pid].gen = intent[i].gen
              /\ proc[intent[i].pid].watch = "off"

\* The reservation is that of the tracked process, and no owner still asks for a
\* token for its generation.
Covering ==
    /\ tracked # 0 => reserved = proc[tracked].gen
    /\ \A i \in Intents :
          owner = i /\ intent[i].pc \in {"waiting", "granted"} /\ tracked # 0 =>
              proc[tracked].gen # intent[i].gen

\* What was created since a crash is no older than what its restart is for.
Restarting ==
    \A p \in Pids :
        /\ proc[p].watch = "again" =>
              /\ proc[p].next =< manifest.gen
              /\ tracked # 0 => proc[tracked].gen >= proc[p].next
              /\ \A i \in Intents : Spawning(i) => intent[i].gen >= proc[p].next
        /\ proc[p].watch = "giving" => policy.rule = "restart_anywhere"

\* A process whose end is being reported is not tracked any more.
Callbacks == {"stopped", "crashed", "again", "giving"}

Retired == \A p \in Pids : proc[p].watch \in Callbacks => tracked # p

\* A dead daemon does nothing; a new one has no intents before it is fenced.
Lives ==
    /\ IF up THEN runtime = tracked /\ loop.pc # "off"
             ELSE tracked = 0 /\ loop.pc = "off" /\ closer = NotClosing
    /\ ~up \/ loop.pc = "fence" => \A i \in Intents : intent[i] = NoIntent
    /\ ~up => \A p \in Pids : proc[p].watch = "off"
    /\ loop.pc = "fence" =>
           \A p \in Pids : proc[p].watch \notin {"child", "crashed", "again", "giving"}

\* The loop kills what it found tracked.
Targeted ==
    /\ loop.pc \notin Killing => loop.target = 0
    /\ loop.pc \in Killing \ {"drain"} /\ loop.target # 0 => tracked \in {0, loop.target}

\* Nothing is created while a process is being killed, nor by a daemon that drains.
NobodySpawns == \A i \in Intents : ~Spawning(i)

Marked ==
    /\ loop.target # 0 \/ closer.target # 0 => NobodySpawns
    /\ closer.target # 0 => closer.pc = "kill"
    /\ loop.pc = "drain" \/ closer.pc # "off" => draining

\* A stop is carried out before the loop takes another frame.
Carried ==
    /\ up /\ ~draining /\ manifest.desired = "stopped"
    /\ policy.rule # "restart_anywhere" /\ Kept # {}
    => \/ loop.pc \in {"saved", "stop", "orphan", "fence"}
       \/ loop.pc = "reconcile" /\ loop.seen.desired = "stopped"

\* No process is ahead of the manifest.
Stopping == (\A p \in Kept : proc[p].gen =< manifest.gen) /\ Carried

IInv ==
    /\ TypeOK /\ Exclusive /\ Reserved /\ Covering /\ Restarting /\ Lives /\ Targeted
    /\ Marked /\ Retired
    /\ EveryProcessIsReachable /\ Stopping
-----------------------------------------------------------------------------
(* Types.                                                                    *)

\* What starts, ends and waits has the type it is declared with.
LEMMA Constants ==
  /\ MaxGeneration \in Nat /\ MaxFaults \in Nat /\ 0 \notin Pids /\ 0 \notin Intents
  /\ Generations \subseteq 0..MaxGeneration /\ Pids \subseteq Nat /\ 0 \in 0..MaxGeneration
  /\ NoIntent \in Intent /\ NoProcess \in Process /\ Gone \in Process /\ Idle \in Loop
  /\ NotClosing \in Closer /\ NoManifest \in Manifest
  /\ \A i \in Intents : AnIntent(i) \in Tasks
  /\ \A p \in Pids : Watcher(p) \in Tasks
  /\ TheLoop \in Tasks
<1>1. MaxGeneration \in Nat /\ MaxFaults \in Nat BY MachineDaemonAssumption
<1>2. /\ 0 \notin Pids /\ 0 \notin Intents /\ Generations \subseteq 0..MaxGeneration
      /\ Pids \subseteq Nat /\ 0 \in 0..MaxGeneration
  BY <1>1 DEF Pids, Intents, Generations
<1>3. NoIntent \in Intent BY <1>2 DEF NoIntent, Intent
<1>4. NoProcess \in Process /\ Gone \in Process BY <1>2 DEF NoProcess, Gone, Process
<1>5. NoManifest \in Manifest /\ Idle \in Loop /\ NotClosing \in Closer
  BY DEF NoManifest, Manifest, Idle, Loop, NotClosing, Closer
<1>6. TheLoop \in Tasks /\ \A i \in Intents : AnIntent(i) \in Tasks BY DEF Tasks
<1>7. \A p \in Pids : Watcher(p) \in Tasks BY DEF Tasks
<1> QED BY <1>1, <1>2, <1>3, <1>4, <1>5, <1>6, <1>7

\* The manifest's generation, before and after a step.
LEMMA ManifestFacts ==
  /\ TypeOK => manifest.gen \in 0..MaxGeneration /\ manifest.gen \in Nat
  /\ TypeOK' => manifest'.gen \in 0..MaxGeneration /\ manifest'.gen \in Nat
BY Constants DEF TypeOK, Manifest, NoManifest

\* A process, with its generation and the one its restart is for.
LEMMA ProcessFacts ==
  ASSUME TypeOK, NEW p \in Pids
  PROVE  proc[p] \in Process /\ proc[p].gen \in Nat /\ proc[p].next \in Nat
BY Constants DEF TypeOK, Process

\* An intent and its generation.
LEMMA IntentFacts ==
  ASSUME TypeOK, NEW i \in Intents
  PROVE  intent[i] \in Intent /\ intent[i].gen \in Nat
BY Constants DEF TypeOK, Intent

\* Whoever takes a step keeps the queue of waiting tasks.
LEMMA Locking ==
  ASSUME TypeOK, NEW t \in Tasks, Take(t) \/ Free(t)
  PROVE  queue' \in Seq(Tasks)
<1>1. queue \in Seq(Tasks) BY DEF TypeOK
<1>2. queue # <<>> => Tail(queue) \in Seq(Tasks) BY <1>1, HeadTailProperties
<1> QED BY <1>1, <1>2 DEF Take, Free

\* Fencing cancels a token and moves no intent.
LEMMA Fencing ==
  ASSUME TypeOK
  PROVE  /\ Fenced \in [Intents -> Intent]
         /\ \A i \in Intents : /\ Fenced[i].pc = intent[i].pc /\ Fenced[i].gen = intent[i].gen
                               /\ Fenced[i].pid = intent[i].pid
<1>1. intent \in [Intents -> Intent] /\ future \in {0} \cup Intents BY DEF TypeOK
<1>2. CASE future # 0 /\ intent[future].token = "pending"
  <2> DEFINE fenced == [intent[future] EXCEPT !.token = "cancelled"]
  <2>1. Fenced = [intent EXCEPT ![future] = fenced] BY <1>2 DEF Fenced
  <2>2. future \in Intents /\ intent[future] \in Intent BY <1>1, <1>2
  <2>3. /\ fenced \in Intent /\ fenced.pc = intent[future].pc /\ fenced.gen = intent[future].gen
        /\ fenced.pid = intent[future].pid
    BY <2>2 DEF Intent
  <2> HIDE DEF fenced
  <2> QED BY <1>1, <2>1, <2>2, <2>3
<1>3. CASE ~(future # 0 /\ intent[future].token = "pending")
  BY <1>1, <1>3 DEF Fenced
<1> QED BY <1>2, <1>3

\* A new intent takes a place that was free.
LEMMA NewIntents ==
  ASSUME TypeOK, NEW g \in 0..MaxGeneration, NEW task \in BOOLEAN, NewIntent(g, task)
  PROVE  /\ intent' \in [Intents -> Intent] /\ NextIntent \in Intents
         /\ intent[NextIntent] = NoIntent
         /\ intent'[NextIntent].pc = "new" /\ intent'[NextIntent].gen = g
         /\ \A i \in Intents \ {NextIntent} : intent'[i] = intent[i]
<1> DEFINE new == [NoIntent EXCEPT !.pc = "new", !.gen = g, !.task = task]
<1>1. intent \in [Intents -> Intent] BY DEF TypeOK
<1>2. NextIntent \in Intents /\ intent[NextIntent] = NoIntent BY <1>1 DEF NewIntent, NextIntent
<1>3. new \in Intent /\ new.pc = "new" /\ new.gen = g BY DEF NoIntent, Intent
<1>4. intent' = [intent EXCEPT ![NextIntent] = new] BY DEF NewIntent
<1> HIDE DEF new, NextIntent
<1> QED BY <1>1, <1>2, <1>3, <1>4

\* The tree of a process is gone, and with it its record if it was tracked.
LEMMA Killed ==
  ASSUME TypeOK, NEW p \in Pids, Kill(p)
  PROVE  /\ proc' \in [Pids -> Process] /\ proc'[p] = Gone
         /\ \A q \in Pids \ {p} : proc'[q] = proc[q]
         /\ tracked' \in {0} \cup Pids /\ runtime' \in {0} \cup Pids
         /\ tracked = p => tracked' = 0 /\ runtime' = 0
         /\ tracked # p => tracked' = tracked /\ runtime' = runtime
BY Constants DEF Kill, TerminateTree, TypeOK
-----------------------------------------------------------------------------
(* What a step may do that neither creates nor registers a process.          *)

Asking(i) == intent[i].pc \in {"waiting", "granted"}

Shape ==
    /\ UNCHANGED <<up, policy, lost>>
    /\ \A i \in Intents :
          /\ Spawning(i)' => /\ Spawning(i) /\ intent'[i].pc = intent[i].pc
                             /\ intent'[i].gen = intent[i].gen /\ intent'[i].pid = intent[i].pid
          /\ intent[i].pc = "created" =>
                /\ intent'[i].pc = "created" /\ intent'[i].pid = intent[i].pid
                /\ proc'[intent[i].pid].gen = proc[intent[i].pid].gen
                /\ proc'[intent[i].pid].watch = proc[intent[i].pid].watch
          /\ Asking(i)' /\ owner' = i =>
                \/ Asking(i) /\ owner = i /\ intent'[i].gen = intent[i].gen
                \/ tracked # 0 => proc[tracked].gen # intent'[i].gen
    /\ \A p \in Pids :
          /\ proc'[p].state = "alive" => proc[p].state = "alive"
          /\ proc'[p].state = "alive" \/ tracked' = p => proc'[p].gen = proc[p].gen
          /\ proc'[p].watch = "again" =>
                \/ proc[p].watch = "again" /\ proc'[p].next = proc[p].next
                \/ proc'[p].next =< manifest'.gen /\ tracked' = 0 /\ NobodySpawns'
          /\ proc'[p].watch = "giving" =>
                proc[p].watch = "giving" \/ policy.rule = "restart_anywhere"
          /\ proc'[p].watch \in Callbacks => proc[p].watch \in Callbacks \/ tracked' # p
    /\ \/ tracked' = tracked /\ runtime' = runtime
       \/ tracked # 0 /\ tracked' = 0 /\ runtime' = 0 /\ proc'[tracked].state # "alive"
    /\ reserved' = reserved \/ (tracked' = 0 /\ NobodySpawns')
    /\ owner' = owner \/ NobodySpawns'
    /\ \/ manifest' = manifest
       \/ /\ manifest'.gen >= manifest.gen
          /\ NobodySpawns' \/ policy.rule = "restart_anywhere"
    /\ \/ loop' = loop
       \/ /\ loop.pc # "off" /\ loop'.pc # "off" /\ Targeted'
          /\ loop'.pc = "fence" => loop.pc = "fence"
          /\ loop'.pc \in {"stop", "replace", "orphan"} \/ loop'.target # 0 => NobodySpawns'
          /\ loop'.pc = "drain" => draining'
    /\ closer' = closer \/ (draining' /\ (closer'.target # 0 => closer'.pc = "kill" /\ NobodySpawns'))
    /\ draining => draining'
    /\ up \/ /\ UNCHANGED <<intent, closer>>
             /\ \A p \in Pids : proc'[p].watch = proc[p].watch
    /\ loop'.pc = "fence" =>
          /\ \A i \in Intents : intent[i] = NoIntent => intent'[i] = NoIntent
          /\ \A p \in Pids : proc'[p].watch \in {"child", "crashed", "again", "giving"} =>
                                proc[p].watch \in {"child", "crashed", "again", "giving"}
    /\ Carried'

\* Such a step keeps everything but the types.
LEMMA ShapeKeeps == IInv /\ TypeOK' /\ Shape => IInv'
<1> SUFFICES ASSUME IInv, TypeOK', Shape PROVE IInv'
  OBVIOUS
<1>1. Exclusive'
  <2>1. \A i \in Intents : Spawning(i)' => Spawning(i) BY DEF Shape
  <2>2. \A i, j \in Intents : Spawning(i)' /\ Spawning(j)' => i = j
    BY <2>1 DEF IInv, Exclusive
  <2>3. loop'.pc \in {"stop", "replace", "orphan"} => \A i \in Intents : ~Spawning(i)'
    BY <2>1 DEF IInv, Exclusive, Shape, NobodySpawns
  <2> QED BY <2>2, <2>3 DEF Exclusive
<1>2. Reserved'
  <2> SUFFICES ASSUME NEW i \in Intents, Spawning(i)'
               PROVE  /\ tracked' = 0 /\ owner' = i /\ reserved' = intent'[i].gen
                      /\ intent'[i].gen =< manifest'.gen
                      /\ manifest'.desired = "running" \/ policy'.rule = "restart_anywhere"
                      /\ intent'[i].pc = "created" =>
                            /\ intent'[i].pid # 0 /\ proc'[intent'[i].pid].gen = intent'[i].gen
                            /\ proc'[intent'[i].pid].watch = "off"
    BY DEF Reserved
  <2>1. /\ Spawning(i) /\ intent'[i].pc = intent[i].pc /\ intent'[i].gen = intent[i].gen
        /\ intent'[i].pid = intent[i].pid /\ ~NobodySpawns'
    BY DEF Shape, NobodySpawns
  <2>2. /\ tracked = 0 /\ owner = i /\ reserved = intent[i].gen /\ intent[i].gen =< manifest.gen
        /\ manifest.desired = "running" \/ policy.rule = "restart_anywhere"
        /\ intent[i].pc = "created" =>
              /\ intent[i].pid # 0 /\ proc[intent[i].pid].gen = intent[i].gen
              /\ proc[intent[i].pid].watch = "off"
    BY <2>1 DEF IInv, Reserved
  <2>3. tracked' = 0 /\ owner' = owner /\ reserved' = reserved /\ policy' = policy
    BY <2>1, <2>2 DEF Shape
  <2>4. \/ manifest' = manifest
        \/ manifest'.gen >= manifest.gen /\ policy.rule = "restart_anywhere"
    BY <2>1 DEF Shape
  <2>5. manifest.gen \in Nat /\ manifest'.gen \in Nat /\ intent[i].gen \in Nat
    BY ManifestFacts, IntentFacts DEF IInv
  <2>6. intent[i].pc = "created" =>
              /\ proc'[intent[i].pid].gen = proc[intent[i].pid].gen
              /\ proc'[intent[i].pid].watch = proc[intent[i].pid].watch
    BY DEF Shape
  <2> QED BY <2>1, <2>2, <2>3, <2>4, <2>5, <2>6
<1>3. Covering'
  <2>1. tracked' # 0 => tracked' = tracked /\ tracked \in Pids
    BY DEF Shape, IInv, TypeOK
  <2>2. tracked' # 0 => reserved' = reserved /\ proc'[tracked'].gen = proc[tracked].gen
    BY <2>1 DEF Shape
  <2>3. tracked' # 0 => reserved' = proc'[tracked'].gen
    BY <2>1, <2>2 DEF IInv, Covering
  <2>4. ASSUME NEW i \in Intents, owner' = i, Asking(i)', tracked' # 0
        PROVE  proc'[tracked'].gen # intent'[i].gen
    <3>1. \/ Asking(i) /\ owner = i /\ intent'[i].gen = intent[i].gen
          \/ tracked # 0 => proc[tracked].gen # intent'[i].gen
      BY <2>4 DEF Shape
    <3> QED BY <2>1, <2>2, <2>4, <3>1 DEF IInv, Covering, Asking
  <2> QED BY <2>3, <2>4 DEF Covering, Asking
<1>4. Restarting'
  <2> SUFFICES ASSUME NEW p \in Pids
               PROVE  /\ proc'[p].watch = "again" =>
                           /\ proc'[p].next =< manifest'.gen
                           /\ tracked' # 0 => proc'[tracked'].gen >= proc'[p].next
                           /\ \A i \in Intents : Spawning(i)' => intent'[i].gen >= proc'[p].next
                      /\ proc'[p].watch = "giving" => policy'.rule = "restart_anywhere"
    BY DEF Restarting
  <2>1. proc'[p].watch = "giving" => policy'.rule = "restart_anywhere"
    BY DEF Shape, IInv, Restarting
  <2>2. CASE proc'[p].watch = "again" /\ proc[p].watch = "again" /\ proc'[p].next = proc[p].next
    <3>1. manifest.gen \in Nat /\ manifest'.gen \in Nat /\ proc[p].next \in Nat
          /\ manifest'.gen >= manifest.gen
      BY ManifestFacts, ProcessFacts DEF IInv, Shape
    <3>2. proc[p].next =< manifest.gen BY <2>2 DEF IInv, Restarting
    <3>3. tracked' # 0 => tracked' = tracked /\ proc'[tracked].gen = proc[tracked].gen
      BY DEF Shape, IInv, TypeOK
    <3>4. tracked' # 0 => proc[tracked].gen >= proc[p].next
      BY <2>2, <3>3 DEF IInv, Restarting
    <3>5. \A i \in Intents : Spawning(i)' => intent'[i].gen >= proc[p].next
      BY <2>2 DEF IInv, Restarting, Shape
    <3> QED BY <2>1, <2>2, <3>1, <3>2, <3>3, <3>4, <3>5
  <2>3. CASE proc'[p].next =< manifest'.gen /\ tracked' = 0 /\ NobodySpawns'
    BY <2>1, <2>3 DEF NobodySpawns
  <2>4. CASE proc'[p].watch # "again"
    BY <2>1, <2>4
  <2> QED BY <2>2, <2>3, <2>4 DEF Shape
<1>5. Lives'
  <2>1. IF up' THEN runtime' = tracked' /\ loop'.pc # "off"
               ELSE tracked' = 0 /\ loop'.pc = "off" /\ closer' = NotClosing
    BY DEF IInv, Lives, Shape
  <2>2. ~up' \/ loop'.pc = "fence" => \A i \in Intents : intent'[i] = NoIntent
    BY DEF IInv, Lives, Shape
  <2>3. ~up' => \A p \in Pids : proc'[p].watch = "off"
    BY DEF IInv, Lives, Shape
  <2>4. loop'.pc = "fence" =>
           \A p \in Pids : proc'[p].watch \notin {"child", "crashed", "again", "giving"}
    BY DEF IInv, Lives, Shape
  <2> QED BY <2>1, <2>2, <2>3, <2>4 DEF Lives
<1>6. Targeted'
  BY DEF IInv, Targeted, Shape
<1>7. \A p \in Pids : p \in Kept' => p \in Kept /\ proc'[p].gen = proc[p].gen
  BY DEF Kept, Alive, Shape
<1>8. EveryProcessIsReachable'
  <2> SUFFICES ASSUME NEW p \in Kept'
               PROVE  \/ tracked' = p \/ (~up' /\ runtime' = p)
                      \/ \E i \in Intents : intent'[i].pc = "created" /\ intent'[i].pid = p
    BY DEF EveryProcessIsReachable
  <2>1. p \in Pids /\ proc'[p].state = "alive" BY DEF Kept, Alive
  <2>2. \/ tracked = p \/ (~up /\ runtime = p)
        \/ \E i \in Intents : intent[i].pc = "created" /\ intent[i].pid = p
    <3>1. p \in Kept BY <1>7, <2>1
    <3> QED BY <3>1 DEF IInv, EveryProcessIsReachable
  <2>3. CASE tracked = p
    <3>1. \/ tracked' = tracked /\ runtime' = runtime
          \/ tracked # 0 /\ tracked' = 0 /\ runtime' = 0 /\ proc'[tracked].state # "alive"
      BY DEF Shape
    <3> QED BY <2>1, <2>3, <3>1
  <2>4. CASE ~up /\ runtime = p BY <2>1, <2>4 DEF Shape, IInv, Lives
  <2>5. CASE \E i \in Intents : intent[i].pc = "created" /\ intent[i].pid = p
    BY <2>5 DEF Shape
  <2> QED BY <2>2, <2>3, <2>4, <2>5
<1>9. Stopping'
  <2>1. \A p \in Kept' : proc'[p].gen =< manifest'.gen
    <3> SUFFICES ASSUME NEW p \in Kept' PROVE proc'[p].gen =< manifest'.gen
      OBVIOUS
    <3>1. p \in Pids BY DEF Kept, Alive
    <3>2. p \in Kept /\ proc'[p].gen = proc[p].gen BY <1>7, <3>1
    <3>3. manifest.gen \in Nat /\ manifest'.gen \in Nat /\ proc[p].gen \in Nat
          /\ manifest'.gen >= manifest.gen
      BY <3>1, ManifestFacts, ProcessFacts DEF IInv, Shape
    <3>4. proc[p].gen =< manifest.gen BY <3>2 DEF IInv, Stopping
    <3> QED BY <3>2, <3>3, <3>4
  <2> QED BY <2>1 DEF Stopping, Shape
<1>10. Marked'
  <2>1. NobodySpawns => NobodySpawns' BY DEF Shape, NobodySpawns
  <2> QED BY <2>1 DEF IInv, Marked, Shape
<1>11. Retired'
  <2>1. \A p \in Pids : tracked' = p => tracked = p BY Constants DEF Shape
  <2> QED BY <2>1 DEF IInv, Retired, Shape
<1> QED BY <1>1, <1>2, <1>3, <1>4, <1>5, <1>6, <1>8, <1>9, <1>10, <1>11 DEF IInv
-----------------------------------------------------------------------------
(* Who may take a step.                                                      *)

\* What is under way shows that the daemon runs; a free lock, that nothing is
\* being created.
LEMMA Awake ==
  ASSUME IInv
  PROVE  /\ \A i \in Intents : intent[i] # NoIntent => up /\ loop.pc # "fence"
         /\ loop.pc # "off" \/ closer # NotClosing \/ tracked # 0 => up
         /\ \A p \in Pids : proc[p].watch # "off" => up
         /\ Unlocked => NobodySpawns
         /\ \A i \in Intents : intent[i].pc # "none" => intent[i] # NoIntent
BY DEF IInv, Lives, Unlocked, NobodySpawns, Spawning, NoIntent

\* The intents keep their places, or a new one begins.
Alike ==
    \A i \in Intents :
        \/ /\ intent'[i].pc = intent[i].pc /\ intent'[i].gen = intent[i].gen
           /\ intent'[i].pid = intent[i].pid
        \/ intent[i] = NoIntent /\ intent'[i].pc = "new"

\* A step of the loop that kills nothing.
LEMMA LoopKeeps ==
  ASSUME IInv, up, loop.pc # "off",
         UNCHANGED <<runtime, up, lost, policy, proc, tracked, owner, closer>>,
         intent' \in [Intents -> Intent], Alike,
         manifest' \in Manifest,
         manifest' = manifest \/ (manifest'.gen >= manifest.gen /\ NobodySpawns),
         reserved' \in 0..MaxGeneration,
         reserved' = reserved \/ (tracked = 0 /\ NobodySpawns),
         loop' \in Loop, loop'.pc # "off", Targeted',
         loop'.pc = "fence" => loop.pc = "fence" /\ intent' = intent,
         loop'.pc \in {"stop", "replace", "orphan"} \/ loop'.target # 0 => NobodySpawns,
         loop'.pc = "drain" => draining', draining => draining',
         draining' \in BOOLEAN, crashes' \in Nat, future' \in {0} \cup Intents,
         queue' \in Seq(Tasks), run' \in Tasks \cup {Nobody}, faults' \in 0..MaxFaults,
         Carried'
  PROVE  IInv'
<1>1. TypeOK' BY DEF IInv, TypeOK
<1>2. \A i \in Intents : Spawning(i)' => Spawning(i)
  BY DEF Alike, Spawning
<1>3. NobodySpawns => NobodySpawns' BY <1>2 DEF NobodySpawns
<1>4. \A i \in Intents :
          /\ Spawning(i)' => /\ Spawning(i) /\ intent'[i].pc = intent[i].pc
                             /\ intent'[i].gen = intent[i].gen /\ intent'[i].pid = intent[i].pid
          /\ intent[i].pc = "created" =>
                /\ intent'[i].pc = "created" /\ intent'[i].pid = intent[i].pid
                /\ proc'[intent[i].pid].gen = proc[intent[i].pid].gen
                /\ proc'[intent[i].pid].watch = proc[intent[i].pid].watch
          /\ Asking(i)' => Asking(i) /\ intent'[i].gen = intent[i].gen
  BY DEF Alike, Spawning, Asking, NoIntent
<1>5. \A p \in Pids :
          /\ proc'[p].state = "alive" => proc[p].state = "alive"
          /\ proc'[p].state = "alive" \/ tracked' = p => proc'[p].gen = proc[p].gen
          /\ proc'[p].watch = "again" => proc[p].watch = "again" /\ proc'[p].next = proc[p].next
          /\ proc'[p].watch = "giving" => proc[p].watch = "giving"
          /\ proc'[p].watch = proc[p].watch
  OBVIOUS
<1>6. Shape
  BY <1>3, <1>4, <1>5 DEF Shape
<1> QED BY <1>1, <1>6, ShapeKeeps

\* A step of one intent that creates nothing.
LEMMA IntentKeeps ==
  ASSUME IInv, NEW i \in Intents, intent[i] # NoIntent, intent[i].pc # "created",
         NEW new \in Intent, intent' = [intent EXCEPT ![i] = new],
         new.pc \notin {"creating", "created"},
         new.pc \in {"waiting", "granted"} => Asking(i) /\ new.gen = intent[i].gen,
         UNCHANGED <<manifest, runtime, up, lost, policy, proc, tracked, crashes, draining,
                     loop, closer>>,
         reserved' \in 0..MaxGeneration,
         reserved' = reserved \/ (tracked = 0 /\ NobodySpawns),
         owner' = owner \/ (owner' = 0 /\ NobodySpawns),
         future' \in {0} \cup Intents, queue' \in Seq(Tasks), run' \in Tasks \cup {Nobody},
         faults' \in 0..MaxFaults
  PROVE  IInv'
<1>1. TypeOK' BY DEF IInv, TypeOK
<1>2. intent'[i] = new /\ \A j \in Intents \ {i} : intent'[j] = intent[j]
  BY DEF IInv, TypeOK
<1>3. \A j \in Intents : Spawning(j)' => Spawning(j) /\ intent'[j] = intent[j]
  BY <1>2 DEF Spawning
<1>4. NobodySpawns => NobodySpawns' BY <1>3 DEF NobodySpawns
<1>5. \A j \in Intents :
          /\ intent[j].pc = "created" =>
                /\ intent'[j] = intent[j]
                /\ proc'[intent[j].pid].gen = proc[intent[j].pid].gen
                /\ proc'[intent[j].pid].watch = proc[intent[j].pid].watch
          /\ Asking(j)' => Asking(j) /\ intent'[j].gen = intent[j].gen
  BY <1>2 DEF Asking
<1>6. \A j \in Intents : owner' = j => owner = j
  BY Constants
<1>7. \A p \in Pids :
          /\ proc'[p].state = "alive" => proc[p].state = "alive"
          /\ proc'[p].state = "alive" \/ tracked' = p => proc'[p].gen = proc[p].gen
          /\ proc'[p].watch = "again" => proc[p].watch = "again" /\ proc'[p].next = proc[p].next
          /\ proc'[p].watch = "giving" => proc[p].watch = "giving"
          /\ proc'[p].watch = proc[p].watch
  OBVIOUS
<1>8. up /\ loop'.pc # "fence" BY Awake
<1>9. Carried'
  BY DEF IInv, Stopping, Carried, Kept, Alive
<1>10. Shape
  BY <1>3, <1>4, <1>5, <1>6, <1>7, <1>8, <1>9 DEF Shape
<1> QED BY <1>1, <1>10, ShapeKeeps
-----------------------------------------------------------------------------
(* The message loop.                                                         *)

\* Whoever takes the lock, or needs none, leaves the queue and the running task
\* typed.
LEMMA Sched ==
  ASSUME TypeOK, NEW t \in Tasks
  PROVE  /\ Take(t) => queue' \in Seq(Tasks) /\ (IInv => NobodySpawns)
         /\ Free(t) => queue' \in Seq(Tasks)
         /\ Suspend => run' \in Tasks \cup {Nobody}
         /\ GoOn(t) => run' \in Tasks \cup {Nobody}
BY Locking, Awake DEF Take, Suspend, GoOn

\* Nothing is decided but where the loop goes on.
LEMMA LoopMoves ==
  ASSUME IInv, up, loop.pc # "off",
         UNCHANGED <<disk, maps, host, proc, tracked, crashes, draining, intent, closer>>,
         loop' \in Loop, loop'.pc \notin {"off", "fence", "drain"}, loop'.target = 0, Targeted',
         loop'.pc \in {"stop", "replace", "orphan"} => NobodySpawns,
         queue' \in Seq(Tasks), run' \in Tasks \cup {Nobody}, Carried'
  PROVE  IInv'
<1>1. /\ intent' \in [Intents -> Intent] /\ manifest' \in Manifest
      /\ reserved' \in 0..MaxGeneration /\ draining' \in BOOLEAN /\ crashes' \in Nat
      /\ future' \in {0} \cup Intents /\ faults' \in 0..MaxFaults
  BY DEF IInv, TypeOK, disk, maps, host
<1>2. Alike BY DEF Alike
<1> QED BY <1>1, <1>2, LoopKeeps DEF disk, maps, host

\* Nothing lives on with a stopped manifest while the loop is idle.
LEMMA IdleIsDone ==
  ASSUME IInv, loop.pc \in {"idle", "frame", "absent", "dispatch", "drain", "replace"}
  PROVE  ~(/\ up /\ ~draining /\ manifest.desired = "stopped"
           /\ policy.rule # "restart_anywhere" /\ Kept # {})
BY DEF IInv, Stopping, Carried

\* Every process is tracked or being created.
LEMMA NothingKept ==
  ASSUME IInv, up, tracked = 0, NobodySpawns
  PROVE  Kept = {}
<1> SUFFICES ASSUME NEW p \in Kept PROVE FALSE
  OBVIOUS
<1>1. p \in Pids BY DEF Kept, Alive
<1>2. \E i \in Intents : intent[i].pc = "created"
  BY <1>1, Constants DEF IInv, EveryProcessIsReachable
<1> QED BY <1>2 DEF NobodySpawns, Spawning

\* The same processes are kept if none changes and none is lost.
LEMMA SameKept == UNCHANGED <<proc, lost>> => Kept' = Kept
BY DEF Kept, Alive

\* A frame is taken from the socket.
LEMMA ReceivesKeeps == ASSUME IInv, NEW f \in Frame, Receives(f) PROVE IInv'
<1>1. up /\ loop.pc = "idle" BY DEF Receives, Listening
<1>2. f \in Manifest BY Constants DEF Frame, Manifest
<1>3. /\ loop' \in Loop /\ loop'.pc = "frame" /\ loop'.target = 0
  BY <1>2, Constants DEF Receives, Idle, Loop
<1>4. Targeted' BY <1>3 DEF Targeted, Killing
<1>5. Carried' BY <1>1, IdleIsDone, SameKept DEF Carried, Receives, host, disk
<1>6. queue' \in Seq(Tasks) /\ run' \in Tasks \cup {Nobody}
  BY Constants, Sched DEF Receives, IInv, TypeOK
<1> QED BY <1>1, <1>3, <1>4, <1>5, <1>6, LoopMoves DEF Receives

\* A snapshot without the agent is taken from the socket.
LEMMA OrphanBatchKeeps == ASSUME IInv, OrphanBatch PROVE IInv'
<1>1. up /\ loop.pc = "idle" BY DEF OrphanBatch, Listening
<1>2. /\ loop' \in Loop /\ loop'.pc = "absent" /\ loop'.target = 0
  BY Constants DEF OrphanBatch, Idle, Loop
<1>3. Targeted' BY <1>2 DEF Targeted, Killing
<1>4. Carried' BY <1>1, IdleIsDone, SameKept DEF Carried, OrphanBatch, host, disk
<1>5. queue' \in Seq(Tasks) /\ run' \in Tasks \cup {Nobody}
  BY Constants, Sched DEF OrphanBatch, IInv, TypeOK
<1> QED BY <1>1, <1>2, <1>3, <1>4, <1>5, LoopMoves DEF OrphanBatch

\* The frame on disk is never older than what was there.
LEMMA SavesFrameKeeps == ASSUME IInv, SavesFrame PROVE IInv'
<1>1. loop.pc = "frame" /\ Take(TheLoop) BY DEF SavesFrame
<1>2. up BY <1>1, Awake
<1>3. loop.seen \in Manifest /\ manifest \in Manifest BY DEF IInv, TypeOK, Loop
<1>4. /\ manifest' \in Manifest
      /\ manifest' = manifest \/ manifest'.gen >= manifest.gen
  BY <1>3 DEF SavesFrame, Authoritative
<1>5. /\ loop' \in Loop /\ loop'.pc = "saved" /\ loop'.target = 0
  BY Constants DEF SavesFrame, Idle, Loop
<1>6. Targeted' BY <1>5 DEF Targeted, Killing
<1>7. Carried' BY <1>5 DEF Carried
<1>8. queue' \in Seq(Tasks) /\ NobodySpawns /\ run' \in Tasks \cup {Nobody}
  BY <1>1, Constants, Sched DEF SavesFrame, IInv
<1>9. /\ intent' \in [Intents -> Intent] /\ reserved' \in 0..MaxGeneration /\ draining' \in BOOLEAN
      /\ crashes' \in Nat /\ future' \in {0} \cup Intents /\ faults' \in 0..MaxFaults
  BY DEF SavesFrame, IInv, TypeOK, maps, host
<1>10. Alike BY DEF Alike, SavesFrame
<1> QED BY <1>1, <1>2, <1>4, <1>5, <1>6, <1>7, <1>8, <1>9, <1>10, LoopKeeps
        DEF SavesFrame, maps, host

\* A tombstone is written over whatever generation is known.
LEMMA StopsOrphanKeeps == ASSUME IInv, StopsOrphan PROVE IInv'
<1>1. loop.pc = "absent" /\ Take(TheLoop) BY DEF StopsOrphan
<1>2. up BY <1>1, Awake
<1>3. reserved \in 0..MaxGeneration /\ manifest \in Manifest /\ loop \in Loop
  BY DEF IInv, TypeOK
<1>4. manifest.gen \in 0..MaxGeneration BY ManifestFacts DEF IInv
<1>5. DEFINE highest == IF reserved > manifest.gen THEN reserved ELSE manifest.gen
<1>6. highest \in 0..MaxGeneration /\ highest >= manifest.gen BY <1>3, <1>4, Constants
<1>7. manifest' = [manifest EXCEPT !.gen = highest, !.desired = "stopped"]
  BY DEF StopsOrphan
<1> HIDE DEF highest
<1>8. manifest' \in Manifest /\ manifest'.gen >= manifest.gen
  BY <1>3, <1>6, <1>7 DEF Manifest, NoManifest
<1>9. loop' \in Loop /\ loop'.pc = "orphan" /\ loop'.target = loop.target
  BY <1>3 DEF StopsOrphan, Loop, Killing
<1>10. Targeted' BY <1>1, <1>9 DEF IInv, Targeted, Killing
<1>11. Carried' BY <1>9 DEF Carried
<1>12. queue' \in Seq(Tasks) /\ NobodySpawns /\ run' \in Tasks \cup {Nobody}
  BY <1>1, Constants, Sched DEF StopsOrphan, IInv
<1>13. /\ intent' \in [Intents -> Intent] /\ reserved' \in 0..MaxGeneration /\ draining' \in BOOLEAN
       /\ crashes' \in Nat /\ future' \in {0} \cup Intents /\ faults' \in 0..MaxFaults
  BY DEF StopsOrphan, IInv, TypeOK, maps, host
<1>14. Alike BY DEF Alike, StopsOrphan
<1> QED BY <1>1, <1>2, <1>8, <1>9, <1>10, <1>11, <1>12, <1>13, <1>14, LoopKeeps
        DEF StopsOrphan, maps, host

\* The manifest on disk is read, to be reconciled once the lock is had.
LEMMA ReconcileLoadsKeeps == ASSUME IInv, ReconcileLoads PROVE IInv'
<1>1. loop.pc = "saved" /\ Free(TheLoop) BY DEF ReconcileLoads
<1>2. up BY <1>1, Awake
<1>3. loop \in Loop /\ manifest \in Manifest /\ loop.target = 0
  BY <1>1 DEF IInv, TypeOK, Targeted, Killing
<1>4. \/ (draining \/ manifest = NoManifest) /\ loop' = Idle /\ Suspend
      \/ loop' = [loop EXCEPT !.pc = "reconcile", !.seen = manifest] /\ GoOn(TheLoop)
  BY DEF ReconcileLoads
<1>5. CASE (draining \/ manifest = NoManifest) /\ loop' = Idle /\ Suspend
  <2>1. loop' \in Loop /\ loop'.pc = "idle" /\ loop'.target = 0 BY <1>5, Constants DEF Idle
  <2>2. Targeted' BY <2>1 DEF Targeted, Killing
  <2>3. Carried'
    BY <1>5 DEF Carried, ReconcileLoads, NoManifest, disk
  <2> QED BY <1>1, <1>2, <1>5, <2>1, <2>2, <2>3, Sched, Constants, LoopMoves
          DEF ReconcileLoads, IInv
<1>6. CASE loop' = [loop EXCEPT !.pc = "reconcile", !.seen = manifest] /\ GoOn(TheLoop)
  <2>1. /\ loop' \in Loop /\ loop'.pc = "reconcile" /\ loop'.target = 0 /\ loop'.seen = manifest
    BY <1>3, <1>6 DEF Loop
  <2>2. Targeted' BY <2>1 DEF Targeted, Killing
  <2>3. Carried'
    BY <2>1 DEF Carried, ReconcileLoads, disk
  <2> QED BY <1>1, <1>2, <1>6, <2>1, <2>2, <2>3, Sched, Constants, LoopMoves
          DEF ReconcileLoads, IInv
<1> QED BY <1>4, <1>5, <1>6

\* Stopping kills what is tracked; without anything tracked it is done.
LEMMA ReconcileStopKeeps == ASSUME IInv, ReconcileStop PROVE IInv'
<1>1. /\ loop.pc = "reconcile" /\ loop.seen.desired = "stopped" /\ Take(TheLoop)
      /\ intent' = Fenced /\ Suspend
  BY DEF ReconcileStop
<1>2. up BY <1>1, Awake
<1>3. loop \in Loop /\ loop.target = 0
  BY <1>1 DEF IInv, TypeOK, Targeted, Killing
<1>4. intent' \in [Intents -> Intent] /\ Alike
  BY <1>1, Fencing DEF Alike, IInv
<1>5. queue' \in Seq(Tasks) /\ NobodySpawns /\ run' \in Tasks \cup {Nobody}
  BY <1>1, Constants, Sched DEF IInv
<1>6. /\ manifest' = manifest /\ manifest' \in Manifest /\ reserved \in 0..MaxGeneration
      /\ draining' \in BOOLEAN /\ crashes' \in Nat /\ future' \in {0} \cup Intents
      /\ faults' \in 0..MaxFaults
  BY DEF ReconcileStop, IInv, TypeOK, disk, host
<1>7. CASE tracked # 0 /\ loop' = [loop EXCEPT !.pc = "stop"] /\ UNCHANGED reserved
  <2>1. loop' \in Loop /\ loop'.pc = "stop" /\ loop'.target = 0
    BY <1>3, <1>7 DEF Loop, Killing
  <2>2. Targeted' /\ Carried' BY <2>1 DEF Targeted, Killing, Carried
  <2> QED BY <1>1, <1>2, <1>4, <1>5, <1>6, <1>7, <2>1, <2>2, LoopKeeps
          DEF ReconcileStop, disk, host
<1>8. CASE tracked = 0 /\ loop' = Idle /\ reserved' = 0
  <2>1. loop' \in Loop /\ loop'.pc = "idle" /\ loop'.target = 0
    BY <1>8, Constants DEF Idle
  <2>2. Targeted' BY <2>1 DEF Targeted, Killing
  <2>3. Kept = {} BY <1>2, <1>5, <1>8, NothingKept
  <2>4. Carried' BY <2>3, SameKept DEF Carried, ReconcileStop, host
  <2> QED BY <1>1, <1>2, <1>4, <1>5, <1>6, <1>8, <2>1, <2>2, <2>4, LoopKeeps, Constants
          DEF ReconcileStop, disk, host
<1> QED BY <1>7, <1>8 DEF ReconcileStop

\* A reservation is made when nothing lives and nothing is being created.
LEMMA ReserveKeeps ==
  ASSUME IInv, loop.pc = "reconcile", loop.seen.desired = "running", NobodySpawns, tracked = 0,
         Reserve, queue' \in Seq(Tasks),
         UNCHANGED <<disk, owner, future, host, proc, tracked, draining, closer>>
  PROVE  IInv'
<1>1. up BY Awake
<1>2. loop \in Loop /\ loop.target = 0
  BY DEF IInv, TypeOK, Targeted, Killing
<1>3. intent' \in [Intents -> Intent] /\ Alike
  BY Fencing DEF Alike, IInv, Reserve
<1>4. run' \in Tasks \cup {Nobody} BY DEF Reserve, Suspend
<1>5. /\ manifest' = manifest /\ manifest' \in Manifest /\ crashes' = 0
      /\ draining' \in BOOLEAN /\ future' \in {0} \cup Intents /\ faults' \in 0..MaxFaults
  BY DEF Reserve, IInv, TypeOK, disk, host
<1>6. loop' \in Loop /\ loop'.pc = "dispatch" /\ loop'.target = 0
  BY <1>2, Constants DEF Reserve, Loop
<1>7. reserved' \in 0..MaxGeneration
  BY <1>2, Constants DEF Reserve, Loop, Manifest, NoManifest
<1>8. Targeted' BY <1>6 DEF Targeted, Killing
<1>9. Kept = {} BY <1>1, NothingKept
<1>10. Carried' BY <1>9, SameKept DEF Carried, host
<1> QED BY <1>1, <1>3, <1>4, <1>5, <1>6, <1>7, <1>8, <1>10, LoopKeeps
        DEF Reserve, disk, host

\* Starting reserves the generation, at once or after a kill.
LEMMA ReconcileStartKeeps == ASSUME IInv, ReconcileStart PROVE IInv'
<1>1. loop.pc = "reconcile" /\ loop.seen.desired = "running" /\ Take(TheLoop)
  BY DEF ReconcileStart
<1>2. up BY <1>1, Awake
<1>3. loop \in Loop /\ loop.target = 0
  BY <1>1 DEF IInv, TypeOK, Targeted, Killing
<1>4. queue' \in Seq(Tasks) /\ NobodySpawns BY <1>1, Constants, Sched DEF IInv
<1>5. ~(/\ up /\ ~draining /\ manifest.desired = "stopped"
        /\ policy.rule # "restart_anywhere" /\ Kept # {})
  BY <1>1 DEF IInv, Stopping, Carried
<1>6. CASE Covered /\ loop' = Idle /\ Suspend /\ UNCHANGED <<reserved, crashes, intent>>
  <2>1. loop' \in Loop /\ loop'.pc = "idle" /\ loop'.target = 0
    BY <1>6, Constants DEF Idle
  <2>2. Targeted' BY <2>1 DEF Targeted, Killing
  <2>3. Carried' BY <1>5, SameKept DEF Carried, ReconcileStart, host, disk
  <2> QED BY <1>1, <1>2, <1>4, <1>6, <2>1, <2>2, <2>3, Sched, Constants, LoopMoves
          DEF ReconcileStart, IInv, maps
<1>7. CASE ~Covered /\ tracked = 0 /\ Reserve
  BY <1>1, <1>4, <1>7, ReserveKeeps DEF ReconcileStart
<1>8. CASE /\ tracked # 0 /\ loop' = [loop EXCEPT !.pc = "replace"] /\ GoOn(TheLoop)
           /\ UNCHANGED <<reserved, crashes, intent>>
  <2>1. loop' \in Loop /\ loop'.pc = "replace" /\ loop'.target = 0
    BY <1>3, <1>8 DEF Loop, Killing
  <2>2. Targeted' BY <2>1 DEF Targeted, Killing
  <2>3. Carried' BY <1>5, SameKept DEF Carried, ReconcileStart, host, disk
  <2> QED BY <1>1, <1>2, <1>4, <1>8, <2>1, <2>2, <2>3, Sched, Constants, LoopMoves
          DEF ReconcileStart, IInv, maps
<1> QED BY <1>6, <1>7, <1>8 DEF ReconcileStart

\* The intent is dispatched as a task.
LEMMA DispatchKeeps == ASSUME IInv, Dispatch PROVE IInv'
<1>1. loop.pc = "dispatch" /\ loop' = Idle /\ Free(TheLoop) /\ Suspend
      /\ NewIntent(loop.seen.gen, TRUE)
  BY DEF Dispatch
<1>2. up BY <1>1, Awake
<1>3. loop.seen.gen \in 0..MaxGeneration
  BY Constants DEF IInv, TypeOK, Loop, Manifest, NoManifest
<1>4. intent' \in [Intents -> Intent] /\ Alike
  BY <1>1, <1>3, NewIntents DEF Alike, IInv
<1>5. loop' \in Loop /\ loop'.pc = "idle" /\ loop'.target = 0
  BY <1>1, Constants DEF Idle
<1>6. Targeted' BY <1>5 DEF Targeted, Killing
<1>7. Carried' BY <1>1, IdleIsDone, SameKept DEF Carried, Dispatch, host, disk
<1>8. queue' \in Seq(Tasks) /\ run' \in Tasks \cup {Nobody}
  BY <1>1, Constants, Sched DEF IInv
<1>9. /\ manifest' \in Manifest /\ manifest' = manifest
      /\ reserved' \in 0..MaxGeneration /\ draining' \in BOOLEAN
      /\ crashes' \in Nat /\ future' \in {0} \cup Intents /\ faults' \in 0..MaxFaults
  BY DEF Dispatch, IInv, TypeOK, maps, host, disk
<1> QED BY <1>1, <1>2, <1>4, <1>5, <1>6, <1>7, <1>8, <1>9, LoopKeeps
        DEF Dispatch, maps, host, disk

\* Draining begins with a kill, whatever intents there are.
LEMMA DrainFrameKeeps == ASSUME IInv, DrainFrame PROVE IInv'
<1>1. up /\ loop.pc = "idle" /\ Fault /\ run = Nobody BY DEF DrainFrame, Listening
<1>2. /\ loop' \in Loop /\ loop'.pc = "drain" /\ loop'.target = 0
  BY Constants DEF DrainFrame, Idle, Loop, Killing
<1>3. Targeted' BY <1>2 DEF Targeted, Killing
<1>4. Carried' BY DEF Carried, DrainFrame
<1>5. /\ manifest' \in Manifest /\ manifest' = manifest
      /\ intent' \in [Intents -> Intent] /\ queue' \in Seq(Tasks)
      /\ reserved' \in 0..MaxGeneration /\ draining' \in BOOLEAN
      /\ crashes' \in Nat /\ future' \in {0} \cup Intents
  BY DEF DrainFrame, IInv, TypeOK, maps, disk
<1>6. faults' \in 0..MaxFaults BY <1>1, Constants DEF Fault, IInv, TypeOK
<1>7. run' \in Tasks \cup {Nobody} BY Constants DEF DrainFrame, GoOn
<1>8. Alike BY DEF Alike, DrainFrame
<1> QED BY <1>1, <1>2, <1>3, <1>4, <1>5, <1>6, <1>7, <1>8, LoopKeeps
        DEF DrainFrame, maps, disk

\* A grant resolves the future of whoever owns the spawn.
LEMMA TokenGrantKeeps == ASSUME IInv, NEW i \in Intents, TokenGrant(i) PROVE IInv'
<1>1. /\ up /\ loop.pc = "idle" /\ future # 0
      /\ intent' = [intent EXCEPT ![future].token = "granted"]
  BY DEF TokenGrant, Listening
<1>2. intent \in [Intents -> Intent] /\ future \in Intents /\ intent[future] \in Intent
  BY <1>1 DEF IInv, TypeOK
<1>3. DEFINE new == [intent[future] EXCEPT !.token = "granted"]
<1>4. /\ new \in Intent /\ new.pc = intent[future].pc /\ new.gen = intent[future].gen
      /\ new.pid = intent[future].pid
  BY <1>2 DEF Intent
<1>5. intent' = [intent EXCEPT ![future] = new] BY <1>1
<1> HIDE DEF new
<1>6. intent' \in [Intents -> Intent] /\ Alike
  BY <1>2, <1>4, <1>5 DEF Alike
<1>7. /\ manifest' \in Manifest /\ manifest' = manifest /\ queue' \in Seq(Tasks)
      /\ reserved' \in 0..MaxGeneration /\ draining' \in BOOLEAN /\ loop' \in Loop
      /\ crashes' \in Nat /\ future' \in {0} \cup Intents /\ faults' \in 0..MaxFaults
      /\ run' \in Tasks \cup {Nobody}
  BY DEF TokenGrant, IInv, TypeOK, maps, host, disk, sched
<1>8. Targeted' /\ loop' = loop /\ loop.target = 0
  BY <1>1 DEF TokenGrant, Targeted, IInv, Killing
<1>9. Carried' BY <1>1, IdleIsDone, SameKept DEF Carried, TokenGrant, host, disk
<1> QED BY <1>1, <1>6, <1>7, <1>8, <1>9, LoopKeeps
        DEF TokenGrant, maps, host, disk
-----------------------------------------------------------------------------
(* Killing, exits and watchers.                                              *)

Watched == {"child", "crashed", "again", "giving"}

\* A step that leaves the intents where they are.
LEMMA ProcessesKeep ==
  ASSUME IInv, UNCHANGED <<up, lost, policy, owner, future>>,
         up \/ (/\ UNCHANGED <<intent, closer>>
                /\ \A p \in Pids : proc'[p].watch = proc[p].watch),
         \/ intent' = intent
         \/ intent' \in [Intents -> Intent] /\ Alike /\ loop'.pc # "fence",
         proc' \in [Pids -> Process],
         \A p \in Pids :
            /\ proc'[p].state = "alive" => proc[p].state = "alive"
            /\ proc'[p].state = "alive" \/ tracked' = p => proc'[p].gen = proc[p].gen
            /\ proc'[p].watch = "again" =>
                  \/ proc[p].watch = "again" /\ proc'[p].next = proc[p].next
                  \/ proc'[p].next =< manifest'.gen /\ tracked' = 0 /\ NobodySpawns
            /\ proc'[p].watch = "giving" =>
                  proc[p].watch = "giving" \/ policy.rule = "restart_anywhere"
            /\ proc'[p].watch \in Watched => proc[p].watch \in Watched
            /\ proc'[p].watch \in Callbacks => proc[p].watch \in Callbacks \/ tracked' # p
            /\ NobodySpawns \/ (proc[p].watch = "off" =>
                  proc'[p].watch = proc[p].watch /\ proc'[p].gen = proc[p].gen),
         \/ tracked' = tracked /\ runtime' = runtime
         \/ tracked # 0 /\ tracked' = 0 /\ runtime' = 0 /\ proc'[tracked].state # "alive",
         reserved' \in 0..MaxGeneration,
         reserved' = reserved \/ (tracked' = 0 /\ NobodySpawns),
         manifest' \in Manifest,
         \/ manifest' = manifest
         \/ /\ manifest'.gen >= manifest.gen
            /\ NobodySpawns \/ policy.rule = "restart_anywhere",
         loop' \in Loop,
         \/ loop' = loop
         \/ /\ loop.pc # "off" /\ loop'.pc # "off" /\ Targeted'
            /\ loop'.pc = "fence" => loop.pc = "fence"
            /\ loop'.pc \in {"stop", "replace", "orphan"} \/ loop'.target # 0 => NobodySpawns
            /\ loop'.pc = "drain" => draining',
         closer' = closer \/ (draining' /\ (closer'.target # 0 => closer'.pc = "kill" /\ NobodySpawns)),
         draining => draining', closer' \in Closer, draining' \in BOOLEAN, crashes' \in Nat, faults' \in 0..MaxFaults,
         queue' \in Seq(Tasks), run' \in Tasks \cup {Nobody}, Carried'
  PROVE  IInv'
<1>1. tracked' \in {0} \cup Pids /\ runtime' \in {0} \cup Pids
  BY DEF IInv, TypeOK
<1>2. TypeOK'
  BY <1>1 DEF IInv, TypeOK
<1>3. NobodySpawns => NobodySpawns' BY DEF NobodySpawns, Spawning, Alike
<1>4. \A i \in Intents :
          /\ Spawning(i)' => /\ Spawning(i) /\ intent'[i].pc = intent[i].pc
                             /\ intent'[i].gen = intent[i].gen /\ intent'[i].pid = intent[i].pid
          /\ intent[i].pc = "created" =>
                intent'[i].pc = "created" /\ intent'[i].pid = intent[i].pid
          /\ Asking(i)' => Asking(i) /\ intent'[i].gen = intent[i].gen
  BY DEF Spawning, Asking, Alike, NoIntent
<1>5. ASSUME NEW i \in Intents, intent[i].pc = "created"
      PROVE  /\ proc'[intent[i].pid].gen = proc[intent[i].pid].gen
             /\ proc'[intent[i].pid].watch = proc[intent[i].pid].watch
  <2>1. ~NobodySpawns /\ Spawning(i) BY <1>5 DEF NobodySpawns, Spawning
  <2>2. proc[intent[i].pid].watch = "off" /\ intent[i].pid # 0
    BY <1>5, <2>1 DEF IInv, Reserved
  <2>3. intent[i].pid \in Pids BY <2>2, IntentFacts DEF IInv, Intent
  <2> QED BY <2>1, <2>2, <2>3
<1>6. Shape
  BY <1>3, <1>4, <1>5 DEF Shape, Watched
<1> QED BY <1>2, <1>6, ShapeKeeps

\* What is left of a process that was killed.
LEMMA KilledShape ==
  ASSUME IInv, NEW p \in Pids, Kill(p)
  PROVE  /\ proc' \in [Pids -> Process]
         /\ \A q \in Pids :
              /\ proc'[q].state = "alive" => proc[q].state = "alive"
              /\ proc'[q].state = "alive" \/ tracked' = q => proc'[q].gen = proc[q].gen
              /\ proc'[q].watch # "off" =>
                    proc'[q].watch = proc[q].watch /\ proc'[q].next = proc[q].next
         /\ \/ tracked' = tracked /\ runtime' = runtime
            \/ tracked # 0 /\ tracked' = 0 /\ runtime' = 0 /\ proc'[tracked].state # "alive"
         /\ tracked \in {0, p} => tracked' = 0
         /\ Kept' \subseteq Kept \/ lost' # lost
<1>1. /\ proc' \in [Pids -> Process] /\ proc'[p] = Gone
      /\ \A q \in Pids \ {p} : proc'[q] = proc[q]
      /\ tracked = p => tracked' = 0 /\ runtime' = 0
      /\ tracked # p => tracked' = tracked /\ runtime' = runtime
  BY Killed DEF IInv
<1>2. proc'[p].state = "dead" /\ proc'[p].watch = "off"
  BY <1>1 DEF Gone, NoProcess
<1>3. tracked' # p BY <1>1, Constants
<1>4. \A q \in Pids :
        /\ proc'[q].state = "alive" => proc[q].state = "alive"
        /\ proc'[q].state = "alive" \/ tracked' = q => proc'[q].gen = proc[q].gen
        /\ proc'[q].watch # "off" =>
              proc'[q].watch = proc[q].watch /\ proc'[q].next = proc[q].next
  BY <1>1, <1>2, <1>3 DEF Watched
<1>5. \/ tracked' = tracked /\ runtime' = runtime
      \/ tracked # 0 /\ tracked' = 0 /\ runtime' = 0 /\ proc'[tracked].state # "alive"
  BY <1>1, <1>2, Constants
<1>6. Kept' \subseteq Kept \/ lost' # lost BY <1>4 DEF Kept, Alive
<1> QED BY <1>1, <1>4, <1>5, <1>6

\* Killing begins with a mark on the process.
LEMMA Doomed ==
  ASSUME TypeOK, NEW d \in Pids, proc' = [proc EXCEPT ![d].doomed = TRUE]
  PROVE  /\ proc' \in [Pids -> Process]
         /\ \A p \in Pids : /\ proc'[p].state = proc[p].state /\ proc'[p].gen = proc[p].gen
                            /\ proc'[p].watch = proc[p].watch /\ proc'[p].next = proc[p].next
<1> DEFINE new == [proc[d] EXCEPT !.doomed = TRUE]
<1>1. proc \in [Pids -> Process] /\ proc[d] \in Process BY DEF TypeOK
<1>2. /\ new \in Process /\ new.state = proc[d].state /\ new.gen = proc[d].gen
      /\ new.watch = proc[d].watch /\ new.next = proc[d].next
  BY <1>1 DEF Process
<1>3. proc' = [proc EXCEPT ![d] = new] OBVIOUS
<1> HIDE DEF new
<1> QED BY <1>1, <1>2, <1>3

\* The loop marks what it will kill.
LEMMA LoopKillsKeeps == ASSUME IInv, LoopKills PROVE IInv'
<1>1. /\ loop.pc \in Killing /\ loop.target = 0 /\ tracked # 0 /\ Free(TheLoop) /\ Suspend
      /\ loop' = [loop EXCEPT !.target = tracked]
      /\ proc' = [proc EXCEPT ![tracked].doomed = TRUE]
  BY DEF LoopKills
<1>2. up /\ tracked \in Pids /\ loop \in Loop /\ proc \in [Pids -> Process]
  BY <1>1, Awake DEF IInv, TypeOK
<1>3. /\ proc' \in [Pids -> Process]
      /\ \A p \in Pids : /\ proc'[p].state = proc[p].state /\ proc'[p].gen = proc[p].gen
                         /\ proc'[p].watch = proc[p].watch /\ proc'[p].next = proc[p].next
  BY <1>1, <1>2, Doomed DEF IInv
<1>4. loop' \in Loop /\ loop'.pc = loop.pc /\ loop'.target = tracked
  BY <1>1, <1>2 DEF Loop
<1>5. Targeted' /\ loop'.pc # "off"
  BY <1>1, <1>4 DEF Targeted, Killing, LoopKills
<1>6. NobodySpawns /\ (loop.pc = "drain" => draining)
  BY <1>1 DEF IInv, Reserved, NobodySpawns, Marked
<1>7. Kept' = Kept BY <1>3 DEF Kept, Alive, LoopKills, host
<1>8. Carried'
  BY <1>1, <1>4, <1>7 DEF Carried, IInv, Stopping, LoopKills, disk, host, Killing
<1>9. queue' \in Seq(Tasks) /\ run' \in Tasks \cup {Nobody}
  BY <1>1, Constants, Sched DEF IInv
<1>10. /\ manifest' \in Manifest /\ reserved' \in 0..MaxGeneration /\ draining' \in BOOLEAN
       /\ crashes' \in Nat /\ faults' \in 0..MaxFaults /\ closer' \in Closer
  BY DEF LoopKills, IInv, TypeOK, maps, host, disk
<1> QED BY <1>1, <1>2, <1>3, <1>4, <1>5, <1>6, <1>8, <1>9, <1>10, ProcessesKeep
        DEF LoopKills, disk, maps, host
\* What the loop has killed is gone, and the reservation goes or moves on.
LEMMA LoopKilledKeeps == ASSUME IInv, LoopKilled PROVE IInv'
<1>1. /\ loop.pc \in Killing /\ Free(TheLoop)
      /\ \/ loop.target # 0 /\ Kill(loop.target)
         \/ loop.target = 0 /\ tracked # 0 /\ KnownDead(tracked) /\ Kill(tracked)
         \/ loop.target = 0 /\ tracked = 0 /\ UNCHANGED <<proc, tracked, runtime>>
      /\ \/ loop.pc = "replace" /\ Reserve
         \/ /\ loop.pc # "replace" /\ loop' = Idle /\ Suspend
            /\ reserved' = IF loop.pc = "drain" THEN reserved ELSE 0
            /\ UNCHANGED <<crashes, intent>>
      /\ UNCHANGED <<manifest, owner, future, host, draining, closer>>
  BY DEF LoopKilled
<1>2. /\ up /\ loop \in Loop /\ tracked \in {0} \cup Pids /\ loop.target \in {0} \cup Pids
      /\ proc \in [Pids -> Process] /\ loop.seen \in Manifest
  BY <1>1, Awake DEF IInv, TypeOK, Loop, Killing
<1>3. loop.pc # "drain" => NobodySpawns
  BY <1>1 DEF IInv, Exclusive, Lives, NobodySpawns, Spawning, Killing, NoIntent
<1>4. loop.pc # "drain" /\ loop.target # 0 => tracked \in {0, loop.target}
  BY <1>1 DEF IInv, Targeted
<1>5. /\ proc' \in [Pids -> Process]
      /\ \A q \in Pids :
              /\ proc'[q].state = "alive" => proc[q].state = "alive"
              /\ proc'[q].state = "alive" \/ tracked' = q => proc'[q].gen = proc[q].gen
              /\ proc'[q].watch # "off" =>
                    proc'[q].watch = proc[q].watch /\ proc'[q].next = proc[q].next
      /\ \/ tracked' = tracked /\ runtime' = runtime
         \/ tracked # 0 /\ tracked' = 0 /\ runtime' = 0 /\ proc'[tracked].state # "alive"
      /\ loop.pc # "drain" => tracked' = 0
      /\ Kept' \subseteq Kept
  <2>1. lost' = lost BY <1>1 DEF host
  <2>2. CASE loop.target # 0 /\ Kill(loop.target)
    BY <1>2, <1>4, <2>1, <2>2, KilledShape
  <2>3. CASE loop.target = 0 /\ tracked # 0 /\ KnownDead(tracked) /\ Kill(tracked)
    BY <1>2, <2>1, <2>3, KilledShape
  <2>4. CASE loop.target = 0 /\ tracked = 0 /\ UNCHANGED <<proc, tracked, runtime>>
    BY <1>2, <2>1, <2>4, SameKept
  <2> QED BY <1>1, <2>2, <2>3, <2>4
<1>6. loop.pc # "drain" => Kept' = {}
  <2> SUFFICES ASSUME loop.pc # "drain", NEW p \in Kept' PROVE FALSE
    OBVIOUS
  <2>1. p \in Pids /\ proc'[p].state = "alive" /\ p \in Kept BY <1>5 DEF Kept, Alive
  <2>2. tracked # p BY <1>2, <1>5, <2>1, Constants
  <2> QED BY <1>2, <1>3, <2>1, <2>2 DEF IInv, EveryProcessIsReachable, NobodySpawns, Spawning
<1>7. /\ loop' \in Loop /\ loop'.pc \in {"idle", "dispatch"} /\ loop'.target = 0
      /\ run' \in Tasks \cup {Nobody} /\ crashes' \in Nat /\ reserved' \in 0..MaxGeneration
      /\ reserved' = reserved \/ (tracked' = 0 /\ NobodySpawns)
      /\ intent' = intent \/ (intent' \in [Intents -> Intent] /\ Alike)
  <2>1. CASE loop.pc = "replace" /\ Reserve
    <3>1. loop' \in Loop /\ loop'.pc = "dispatch" /\ loop'.target = 0
      BY <1>2, <2>1, Constants DEF Reserve, Loop
    <3>2. run' \in Tasks \cup {Nobody} /\ crashes' = 0 BY <2>1 DEF Reserve, Suspend
    <3>3. reserved' \in 0..MaxGeneration
      BY <1>2, <2>1, Constants DEF Reserve, Manifest, NoManifest
    <3>4. tracked' = 0 /\ NobodySpawns BY <1>3, <1>5, <2>1
    <3>5. intent' \in [Intents -> Intent] /\ Alike
      BY <2>1, Fencing DEF Alike, IInv, Reserve
    <3> QED BY <3>1, <3>2, <3>3, <3>4, <3>5
  <2>2. CASE /\ loop.pc # "replace" /\ loop' = Idle /\ Suspend
             /\ reserved' = IF loop.pc = "drain" THEN reserved ELSE 0
             /\ UNCHANGED <<crashes, intent>>
    <3>1. loop' \in Loop /\ loop'.pc = "idle" /\ loop'.target = 0
      BY <2>2, Constants DEF Idle
    <3>2. run' \in Tasks \cup {Nobody} BY <2>2 DEF Suspend
    <3>3. crashes' \in Nat /\ reserved' \in 0..MaxGeneration
      BY <2>2, Constants DEF IInv, TypeOK
    <3> QED BY <1>3, <1>5, <2>2, <3>1, <3>2, <3>3
  <2> QED BY <1>1, <2>1, <2>2
<1>8. Targeted' BY <1>7 DEF Targeted, Killing
<1>9. Carried'
  <2>1. CASE loop.pc = "drain"
    BY <1>1, <1>5, <2>1, IdleIsDone DEF Carried, host
  <2>2. CASE loop.pc # "drain"
    BY <1>6, <2>2 DEF Carried
  <2> QED BY <2>1, <2>2
<1>10. queue' \in Seq(Tasks) BY <1>1, Constants, Sched DEF IInv
<1>11. /\ manifest' \in Manifest /\ manifest' = manifest /\ draining' \in BOOLEAN
       /\ faults' \in 0..MaxFaults /\ closer' \in Closer
       /\ UNCHANGED <<up, lost, policy, owner, future, draining, closer>>
  BY <1>1 DEF IInv, TypeOK, host
<1>12. \A q \in Pids :
            /\ proc'[q].watch = "again" => proc[q].watch = "again" /\ proc'[q].next = proc[q].next
            /\ proc'[q].watch = "giving" => proc[q].watch = "giving"
            /\ proc'[q].watch \in Watched => proc[q].watch \in Watched
            /\ proc'[q].watch \in Callbacks => proc[q].watch \in Callbacks
  BY <1>5 DEF Watched, Callbacks
<1>13. loop.pc # "off" BY <1>1 DEF Killing
<1>14. NobodySpawns \/ proc' = proc
  BY <1>1 DEF IInv, Reserved, NobodySpawns, Marked
<1> QED BY <1>2, <1>5, <1>7, <1>8, <1>9, <1>10, <1>11, <1>12, <1>13, <1>14, ProcessesKeep
-----------------------------------------------------------------------------
(* Spawn intents.                                                            *)

\* What an intent's step leaves in place is typed.
LEMMA Unmoved ==
  ASSUME IInv
  PROVE  /\ reserved \in 0..MaxGeneration /\ future \in {0} \cup Intents
         /\ faults \in 0..MaxFaults /\ intent \in [Intents -> Intent]
BY DEF IInv, TypeOK

\* An intent that meets a draining daemon returns.
LEMMA IntentDrainedKeeps == ASSUME IInv, NEW i \in Intents, IntentDrained(i) PROVE IInv'
<1>1. intent[i].pc = "new" /\ intent[i] # NoIntent BY Awake DEF IntentDrained
<1>2. NoIntent \in Intent /\ NoIntent.pc = "none" BY Constants DEF NoIntent
<1>3. queue' \in Seq(Tasks) /\ run' \in Tasks \cup {Nobody}
  BY Constants, Sched DEF IntentDrained, IInv
<1> QED BY <1>1, <1>2, <1>3, Unmoved, IntentKeeps DEF IntentDrained, disk, maps, host

\* An intent that is not wanted, or doubled, returns; another becomes the owner.
LEMMA IntentEntersKeeps == ASSUME IInv, NEW i \in Intents, IntentEnters(i) PROVE IInv'
<1>1. /\ intent[i].pc = "new" /\ Take(AnIntent(i)) /\ Suspend
      /\ UNCHANGED <<disk, host, proc, tracked, crashes, draining, loop, closer>>
  BY DEF IntentEnters
<1>2. /\ intent[i] # NoIntent /\ NobodySpawns /\ up /\ loop.pc # "fence"
      /\ queue' \in Seq(Tasks) /\ run' \in Tasks \cup {Nobody}
  BY <1>1, Awake, Sched, Constants DEF IInv
<1>3. CASE /\ intent' = [intent EXCEPT ![i] = NoIntent]
           /\ reserved' = IF Wanted(i) /\ Current(i) THEN proc[tracked].gen ELSE reserved
           /\ UNCHANGED <<owner, future>>
  <2>1. reserved' = reserved BY <1>3 DEF Current, IInv, Covering
  <2>2. NoIntent \in Intent /\ NoIntent.pc = "none" BY Constants DEF NoIntent
  <2> QED BY <1>1, <1>2, <1>3, <2>1, <2>2, Unmoved, IntentKeeps DEF disk, host
<1>4. CASE /\ ~Current(i) /\ owner' = i /\ future' = i /\ UNCHANGED reserved
           /\ intent' = [Fenced EXCEPT ![i] = [Fenced[i] EXCEPT !.pc = "waiting", !.token = "pending"]]
  <2> DEFINE new == [Fenced[i] EXCEPT !.pc = "waiting", !.token = "pending"]
  <2>1. /\ Fenced \in [Intents -> Intent] /\ Fenced[i] \in Intent
        /\ \A j \in Intents : /\ Fenced[j].pc = intent[j].pc /\ Fenced[j].gen = intent[j].gen
                              /\ Fenced[j].pid = intent[j].pid
    BY Fencing DEF IInv
  <2>2. new \in Intent /\ new.pc = "waiting" /\ new.gen = intent[i].gen
    BY <2>1 DEF Intent
  <2>3. intent' = [Fenced EXCEPT ![i] = new] BY <1>4
  <2> HIDE DEF new
  <2>4. /\ intent' \in [Intents -> Intent] /\ intent'[i] = new
        /\ \A j \in Intents \ {i} : /\ intent'[j].pc = intent[j].pc /\ intent'[j].gen = intent[j].gen
                                    /\ intent'[j].pid = intent[j].pid
    BY <2>1, <2>2, <2>3
  <2>5. TypeOK'
    BY <1>1, <1>2, <1>4, <2>4 DEF IInv, TypeOK, disk, host
  <2>6. tracked # 0 => proc[tracked].gen # intent'[i].gen
    <3> SUFFICES ASSUME tracked # 0 PROVE proc[tracked].gen # intent'[i].gen
      OBVIOUS
    <3>1. ~(proc[tracked].gen >= intent[i].gen) BY <1>4 DEF Current
    <3>2. tracked \in Pids BY DEF IInv, TypeOK
    <3>3. proc[tracked].gen \in Nat /\ intent[i].gen \in Nat
      BY <3>2, ProcessFacts, IntentFacts DEF IInv
    <3> QED BY <2>2, <2>4, <3>1, <3>3
  <2>7. \A j \in Intents :
          /\ ~Spawning(j)' /\ intent[j].pc # "created"
          /\ Asking(j)' /\ owner' = j => j = i
    BY <1>2, <1>4, <2>2, <2>4 DEF NobodySpawns, Spawning
  <2>8. NobodySpawns' BY <2>7 DEF NobodySpawns
  <2>9. Carried'
    BY <1>1, SameKept DEF IInv, Stopping, Carried, disk, host
  <2>10. \A p \in Pids :
          /\ proc'[p].watch = proc[p].watch
          /\ proc'[p].state = "alive" => proc[p].state = "alive"
          /\ proc'[p].state = "alive" \/ tracked' = p => proc'[p].gen = proc[p].gen
          /\ proc'[p].watch = "again" => proc[p].watch = "again" /\ proc'[p].next = proc[p].next
          /\ proc'[p].watch = "giving" => proc[p].watch = "giving"
    BY <1>1
  <2>11. Shape
    BY <1>1, <1>2, <1>4, <2>6, <2>7, <2>8, <2>9, <2>10 DEF Shape, disk, host
  <2> QED BY <2>5, <2>11, ShapeKeeps
<1> QED BY <1>3, <1>4 DEF IntentEnters

\* An answered intent leaves its future.
LEMMA IntentResumesKeeps == ASSUME IInv, NEW i \in Intents, IntentResumes(i) PROVE IInv'
<1>1. /\ intent[i].pc = "waiting" /\ intent[i] # NoIntent /\ intent[i] \in Intent /\ Asking(i)
  BY Awake DEF IntentResumes, IInv, TypeOK, Asking
<1>2. queue' \in Seq(Tasks) /\ run' \in Tasks \cup {Nobody}
  BY Constants, Sched DEF IntentResumes, IInv
<1>3. future' \in {0} \cup Intents BY Unmoved DEF IntentResumes, LeaveFuture
<1>4. PICK pc \in {"granted", "rollback"} : intent' = [intent EXCEPT ![i].pc = pc]
  BY DEF IntentResumes
<1> DEFINE new == [intent[i] EXCEPT !.pc = pc]
<1>5. new \in Intent /\ new.pc = pc /\ new.gen = intent[i].gen BY <1>1 DEF Intent
<1>6. intent' = [intent EXCEPT ![i] = new] BY <1>4
<1> HIDE DEF new
<1> QED BY <1>1, <1>2, <1>3, <1>5, <1>6, Unmoved, IntentKeeps
        DEF IntentResumes, disk, maps, host

\* A late token rolls the spawn back.
LEMMA TokenTimesOutKeeps == ASSUME IInv, NEW i \in Intents, TokenTimesOut(i) PROVE IInv'
<1>1. /\ intent[i].pc = "waiting" /\ intent[i] # NoIntent /\ intent[i] \in Intent /\ Fault
  BY Awake DEF TokenTimesOut, IInv, TypeOK
<1>2. queue' \in Seq(Tasks) /\ run' \in Tasks \cup {Nobody}
  BY Constants, Sched DEF TokenTimesOut, IInv
<1>3. faults' \in 0..MaxFaults BY <1>1, Unmoved, Constants DEF Fault
<1> DEFINE new == [intent[i] EXCEPT !.pc = "rollback", !.token = "late"]
<1>4. new \in Intent /\ new.pc = "rollback" BY <1>1 DEF Intent
<1>5. intent' = [intent EXCEPT ![i] = new] BY DEF TokenTimesOut
<1> HIDE DEF new
<1> QED BY <1>1, <1>2, <1>3, <1>4, <1>5, Unmoved, IntentKeeps
        DEF TokenTimesOut, disk, maps

\* An intent moves on to a place where it neither asks nor creates.
LEMMA IntentMoves ==
  ASSUME IInv, NEW i \in Intents, intent[i].pc \notin {"none", "created"},
         NEW pc \in {"rollback", "clear", "return", "leaving"},
         intent' = [intent EXCEPT ![i].pc = pc],
         UNCHANGED <<disk, up, lost, policy, proc, tracked, crashes, draining, loop, closer>>,
         reserved' \in 0..MaxGeneration,
         reserved' = reserved \/ (tracked = 0 /\ NobodySpawns),
         owner' = owner, future' \in {0} \cup Intents, faults' \in 0..MaxFaults,
         Take(AnIntent(i)) \/ Free(AnIntent(i)), Suspend \/ GoOn(AnIntent(i))
  PROVE  IInv'
<1>1. intent[i] # NoIntent /\ intent[i] \in Intent BY Awake DEF IInv, TypeOK
<1>2. queue' \in Seq(Tasks) /\ run' \in Tasks \cup {Nobody} BY Constants, Sched DEF IInv
<1> DEFINE new == [intent[i] EXCEPT !.pc = pc]
<1>3. new \in Intent /\ new.pc = pc BY <1>1 DEF Intent
<1>4. intent' = [intent EXCEPT ![i] = new] OBVIOUS
<1> HIDE DEF new
<1> QED BY <1>1, <1>2, <1>3, <1>4, IntentKeeps DEF disk

\* A creation that fails gives the lock up.
LEMMA SpawnFailsKeeps == ASSUME IInv, NEW i \in Intents, SpawnFails(i) PROVE IInv'
<1>1. faults' \in 0..MaxFaults BY Unmoved, Constants DEF SpawnFails, Fault
<1> QED BY <1>1, Unmoved, IntentMoves DEF SpawnFails, maps

\* A reservation is given back only without a process.
LEMMA RollBackKeeps == ASSUME IInv, NEW i \in Intents, RollBack(i) PROVE IInv'
<1>1. NobodySpawns BY Sched, Constants DEF RollBack, IInv
<1>2. /\ reserved' \in 0..MaxGeneration
      /\ reserved' = reserved \/ (tracked = 0 /\ NobodySpawns)
  BY <1>1, Unmoved, Constants DEF RollBack, RollsBack
<1>3. /\ intent[i].pc \notin {"none", "created"} /\ intent' = [intent EXCEPT ![i].pc = "clear"]
      /\ UNCHANGED <<disk, up, lost, policy, proc, tracked, crashes, draining, loop, closer>>
      /\ owner' = owner /\ future' \in {0} \cup Intents /\ faults' \in 0..MaxFaults
      /\ Take(AnIntent(i)) /\ GoOn(AnIntent(i))
  BY Unmoved DEF RollBack, host
<1> QED BY <1>2, <1>3, IntentMoves

\* The transitional state is cleared.
LEMMA IntentClearsKeeps == ASSUME IInv, NEW i \in Intents, IntentClears(i) PROVE IInv'
BY Unmoved, IntentMoves DEF IntentClears, host, maps

\* The inner finally forgets the future.
LEMMA IntentReturnsKeeps == ASSUME IInv, NEW i \in Intents, IntentReturns(i) PROVE IInv'
<1>1. future' \in {0} \cup Intents BY Unmoved DEF IntentReturns, LeaveFuture
<1> QED BY <1>1, Unmoved, IntentMoves DEF IntentReturns, host

\* The outer finally forgets the owner, under the lock.
LEMMA IntentLeavesKeeps == ASSUME IInv, NEW i \in Intents, IntentLeaves(i) PROVE IInv'
<1>1. /\ intent[i].pc = "leaving" /\ intent[i] # NoIntent /\ NobodySpawns
  BY Awake, Sched, Constants DEF IntentLeaves, IInv
<1>2. NoIntent \in Intent /\ NoIntent.pc = "none" BY Constants DEF NoIntent
<1>3. queue' \in Seq(Tasks) /\ run' \in Tasks \cup {Nobody}
  BY Constants, Sched DEF IntentLeaves, IInv
<1>4. owner' = owner \/ (owner' = 0 /\ NobodySpawns) BY <1>1 DEF IntentLeaves
<1> QED BY <1>1, <1>2, <1>3, <1>4, Unmoved, IntentKeeps DEF IntentLeaves, disk, host
-----------------------------------------------------------------------------
(* A process is created and registered.                                      *)

\* The owner of a reservation that is still wanted takes the lock, and nothing
\* is tracked.
LEMMA SpawnBegins ==
  ASSUME IInv, NEW i \in Intents, intent[i].pc = "granted", Take(AnIntent(i)), StillMine(i),
         intent' = [intent EXCEPT ![i].pc = "creating"], Suspend,
         UNCHANGED <<disk, maps, host, proc, tracked, crashes, draining, loop, closer>>
  PROVE  IInv'
<1>1. /\ intent[i] # NoIntent /\ intent[i] \in Intent /\ NobodySpawns /\ up /\ loop.pc # "fence"
      /\ queue' \in Seq(Tasks) /\ run' \in Tasks \cup {Nobody}
      /\ loop.pc \notin {"stop", "replace", "orphan"}
  BY Awake, Sched, Constants DEF IInv, TypeOK, Take, Unlocked
<1>2. /\ ~draining /\ manifest.desired = "running" /\ manifest.gen = intent[i].gen
      /\ owner = i /\ reserved = intent[i].gen
  BY DEF StillMine, Wanted
<1>3. tracked = 0
  BY <1>2 DEF IInv, Covering
<1> DEFINE new == [intent[i] EXCEPT !.pc = "creating"]
<1>4. new \in Intent /\ new.pc = "creating" /\ new.gen = intent[i].gen BY <1>1 DEF Intent
<1>5. intent' = [intent EXCEPT ![i] = new] OBVIOUS
<1> HIDE DEF new
<1>6. /\ intent' \in [Intents -> Intent] /\ intent'[i] = new
      /\ \A j \in Intents \ {i} : intent'[j] = intent[j]
  BY <1>4, <1>5, Unmoved
<1>7. TypeOK' BY <1>1, <1>6 DEF IInv, TypeOK, disk, maps, host
<1>8. \A j \in Intents : Spawning(j)' <=> j = i
  BY <1>1, <1>4, <1>6 DEF NobodySpawns, Spawning
<1>9. Exclusive' BY <1>1, <1>8 DEF Exclusive
<1>10. manifest.gen \in Nat BY ManifestFacts DEF IInv
<1>11. Reserved'
  BY <1>2, <1>3, <1>4, <1>6, <1>8, <1>10 DEF Reserved, disk, maps, host
<1>12. Covering' BY <1>3 DEF Covering
<1>13. Restarting'
  <2> SUFFICES ASSUME NEW p \in Pids
               PROVE  /\ proc'[p].watch = "again" =>
                           /\ proc'[p].next =< manifest'.gen
                           /\ tracked' # 0 => proc'[tracked'].gen >= proc'[p].next
                           /\ \A j \in Intents : Spawning(j)' => intent'[j].gen >= proc'[p].next
                      /\ proc'[p].watch = "giving" => policy'.rule = "restart_anywhere"
    BY DEF Restarting
  <2>1. /\ proc[p].watch = "again" => proc[p].next =< manifest.gen
        /\ proc[p].watch = "giving" => policy.rule = "restart_anywhere"
    BY DEF IInv, Restarting
  <2>2. proc[p].next \in Nat BY ProcessFacts DEF IInv
  <2>3. proc[p].watch = "again" => new.gen >= proc[p].next
    BY <1>2, <1>4, <1>10, <2>1, <2>2
  <2> QED BY <1>3, <1>6, <1>8, <2>1, <2>3 DEF disk, host
<1>14. Lives' BY <1>1 DEF IInv, Lives, disk, host
<1>15. Targeted' BY DEF IInv, Targeted
<1>16. Marked'
  <2>1. loop.target = 0 /\ closer.target = 0
    BY <1>1, <1>2 DEF IInv, Targeted, Marked, Killing
  <2> QED BY <1>2, <2>1 DEF IInv, Marked
<1>17. Kept' = Kept BY SameKept DEF host
<1>18. EveryProcessIsReachable'
  BY <1>1, <1>3, <1>6, <1>17, Constants DEF IInv, EveryProcessIsReachable, NobodySpawns, Spawning, Kept, Alive
<1>19. Stopping' BY <1>17 DEF IInv, Stopping, Carried, disk, host
<1>20. Retired' BY DEF IInv, Retired
<1> QED BY <1>7, <1>9, <1>11, <1>12, <1>13, <1>14, <1>15, <1>16, <1>18, <1>19, <1>20 DEF IInv

\* A granted intent creates its process only if it still owns the spawn.
LEMMA IntentChecksKeeps == ASSUME IInv, NEW i \in Intents, IntentChecks(i) PROVE IInv'
<1>1. /\ intent[i].pc = "granted" /\ Take(AnIntent(i))
      /\ UNCHANGED <<disk, maps, host, proc, tracked, crashes, draining, loop, closer>>
  BY DEF IntentChecks
<1>2. CASE StillMine(i) /\ intent' = [intent EXCEPT ![i].pc = "creating"] /\ Suspend
  BY <1>1, <1>2, SpawnBegins
<1>3. CASE intent' = [intent EXCEPT ![i].pc = "rollback"] /\ GoOn(AnIntent(i))
  BY <1>1, <1>3, Unmoved, IntentMoves DEF host, maps
<1> QED BY <1>2, <1>3 DEF IntentChecks

\* The process lives; the lock is held until it is registered.
LEMMA SpawnCreatesKeeps == ASSUME IInv, NEW i \in Intents, SpawnCreates(i) PROVE IInv'
<1> DEFINE pid == NextPid
           born == [NoProcess EXCEPT !.state = "alive", !.gen = intent[i].gen]
           new == [intent[i] EXCEPT !.pc = "created", !.pid = pid]
<1>1. /\ intent[i].pc = "creating" /\ pid \in Pids
      /\ proc' = [proc EXCEPT ![pid] = born] /\ intent' = [intent EXCEPT ![i] = new]
      /\ UNCHANGED <<disk, maps, host, tracked, crashes, draining, loop, closer>>
  BY DEF SpawnCreates
<1>2. /\ intent[i] # NoIntent /\ intent[i] \in Intent /\ up /\ loop.pc # "fence" /\ Spawning(i)
      /\ queue' \in Seq(Tasks) /\ run' \in Tasks \cup {Nobody}
  BY <1>1, Awake, Sched, Constants DEF IInv, TypeOK, SpawnCreates, Spawning
<1>3. /\ born \in Process /\ born.gen = intent[i].gen /\ born.watch = "off"
  BY <1>2, Constants DEF Process, NoProcess, Intent
<1>4. new \in Intent /\ new.pc = "created" /\ new.pid = pid /\ new.gen = intent[i].gen
  BY <1>1, <1>2 DEF Intent
<1> HIDE DEF born, new, pid
<1>5. /\ proc' \in [Pids -> Process] /\ proc'[pid] = born
      /\ \A p \in Pids \ {pid} : proc'[p] = proc[p]
  BY <1>1, <1>3 DEF IInv, TypeOK
<1>6. /\ intent' \in [Intents -> Intent] /\ intent'[i] = new
      /\ \A j \in Intents \ {i} : intent'[j] = intent[j]
  BY <1>1, <1>4, Unmoved
<1>7. TypeOK' BY <1>1, <1>2, <1>5, <1>6 DEF IInv, TypeOK, disk, maps, host
<1>8. /\ \A j \in Intents : Spawning(j)' <=> j = i
      /\ \A j \in Intents : Spawning(j) <=> j = i
  BY <1>2, <1>4, <1>6 DEF IInv, Exclusive, Spawning
<1>9. /\ tracked = 0 /\ owner = i /\ reserved = intent[i].gen /\ intent[i].gen =< manifest.gen
      /\ manifest.desired = "running" \/ policy.rule = "restart_anywhere"
  BY <1>2 DEF IInv, Reserved
<1>10. Exclusive' BY <1>1, <1>8 DEF IInv, Exclusive
<1>11. Reserved'
  BY <1>1, <1>3, <1>4, <1>5, <1>6, <1>8, <1>9, Constants DEF Reserved, disk, maps, host
<1>12. Covering' BY <1>1, <1>9 DEF Covering
<1>13. Restarting'
  <2> SUFFICES ASSUME NEW p \in Pids
               PROVE  /\ proc'[p].watch = "again" =>
                           /\ proc'[p].next =< manifest'.gen
                           /\ tracked' # 0 => proc'[tracked'].gen >= proc'[p].next
                           /\ \A j \in Intents : Spawning(j)' => intent'[j].gen >= proc'[p].next
                      /\ proc'[p].watch = "giving" => policy'.rule = "restart_anywhere"
    BY DEF Restarting
  <2>1. CASE p = pid BY <1>3, <1>5, <2>1
  <2>2. CASE p # pid
    <3>1. proc'[p] = proc[p] BY <1>5, <2>2
    <3>2. /\ proc[p].watch = "again" => proc[p].next =< manifest.gen
                                        /\ intent[i].gen >= proc[p].next
          /\ proc[p].watch = "giving" => policy.rule = "restart_anywhere"
      BY <1>2 DEF IInv, Restarting
    <3> QED BY <1>1, <1>4, <1>6, <1>8, <1>9, <3>1, <3>2 DEF disk, host
  <2> QED BY <2>1, <2>2
<1>14. Lives' BY <1>1, <1>2 DEF IInv, Lives, disk, host
<1>15. Targeted' BY <1>1 DEF IInv, Targeted
<1>16. Marked' BY <1>1, <1>2 DEF IInv, Marked, NobodySpawns
<1>17. Kept' \subseteq Kept \cup {pid}
  BY <1>1, <1>5 DEF Kept, Alive, host
<1>18. EveryProcessIsReachable'
  <2> SUFFICES ASSUME NEW p \in Kept'
               PROVE  \E j \in Intents : intent'[j].pc = "created" /\ intent'[j].pid = p
    BY DEF EveryProcessIsReachable
  <2>1. CASE p = pid BY <1>4, <1>6, <2>1
  <2>2. CASE p # pid
    <3>1. p \in Kept /\ p \in Pids BY <1>17, <2>2 DEF Kept, Alive
    <3>2. PICK j \in Intents : intent[j].pc = "created" /\ intent[j].pid = p
      BY <1>2, <1>9, <3>1, Constants DEF IInv, EveryProcessIsReachable
    <3>3. FALSE BY <1>1, <1>8, <3>2 DEF Spawning
    <3> QED BY <3>3
  <2> QED BY <2>1, <2>2
<1>19. Stopping'
  <2>1. ASSUME NEW p \in Kept' PROVE proc'[p].gen =< manifest'.gen
    <3>1. CASE p = pid BY <1>1, <1>3, <1>5, <1>9, <3>1 DEF disk
    <3>2. CASE p # pid
      <4>1. p \in Kept /\ p \in Pids BY <1>17, <2>1, <3>2 DEF Kept, Alive
      <4> QED BY <1>1, <1>5, <3>2, <4>1 DEF IInv, Stopping, disk
    <3> QED BY <3>1, <3>2
  <2>2. Carried' BY <1>1, <1>9 DEF Carried, disk, host
  <2> QED BY <2>1, <2>2 DEF Stopping
<1>20. Retired' BY <1>1, <1>9, Constants DEF Retired
<1> QED BY <1>7, <1>10, <1>11, <1>12, <1>13, <1>14, <1>15, <1>16, <1>18, <1>19, <1>20 DEF IInv

\* The created process is tracked and recorded, and the lock is released.
LEMMA SpawnRegistersKeeps == ASSUME IInv, NEW i \in Intents, SpawnRegisters(i) PROVE IInv'
<1> DEFINE pid == intent[i].pid
           born == [proc[pid] EXCEPT !.watch = "child"]
           new == [intent[i] EXCEPT !.pc = "clear", !.pid = 0]
<1>1. /\ intent[i].pc = "created" /\ tracked' = pid /\ runtime' = pid
      /\ proc' = [proc EXCEPT ![pid] = born] /\ intent' = [intent EXCEPT ![i] = new]
      /\ UNCHANGED <<manifest, maps, host, crashes, draining, loop, closer>>
  BY DEF SpawnRegisters
<1>2. /\ intent[i] # NoIntent /\ intent[i] \in Intent /\ up /\ loop.pc # "fence" /\ Spawning(i)
      /\ queue' \in Seq(Tasks) /\ run' \in Tasks \cup {Nobody}
  BY <1>1, Awake, Sched, Constants DEF IInv, TypeOK, SpawnRegisters, Spawning
<1>3. /\ tracked = 0 /\ owner = i /\ reserved = intent[i].gen /\ intent[i].gen =< manifest.gen
      /\ pid # 0 /\ proc[pid].gen = intent[i].gen
  BY <1>1, <1>2 DEF IInv, Reserved
<1>4. pid \in Pids /\ proc[pid] \in Process /\ proc \in [Pids -> Process]
  BY <1>2, <1>3 DEF Intent, IInv, TypeOK
<1>5. /\ born \in Process /\ born.gen = proc[pid].gen /\ born.watch = "child"
      /\ born.state = proc[pid].state
  BY <1>4 DEF Process
<1>6. new \in Intent /\ new.pc = "clear" BY <1>2 DEF Intent
<1>7. loop.pc \notin {"stop", "replace", "orphan"} /\ loop.target = 0 /\ ~NobodySpawns
  BY <1>2 DEF IInv, Exclusive, Marked, NobodySpawns
<1> HIDE DEF born, new, pid
<1>8. /\ proc' \in [Pids -> Process] /\ proc'[pid] = born
      /\ \A p \in Pids \ {pid} : proc'[p] = proc[p]
  BY <1>1, <1>4, <1>5
<1>9. /\ intent' \in [Intents -> Intent] /\ intent'[i] = new
      /\ \A j \in Intents \ {i} : intent'[j] = intent[j]
  BY <1>1, <1>6, Unmoved
<1>10. TypeOK' BY <1>1, <1>2, <1>4, <1>8, <1>9 DEF IInv, TypeOK, maps, host
<1>11. \A j \in Intents : ~Spawning(j)'
  BY <1>2, <1>6, <1>9 DEF IInv, Exclusive, Spawning
<1>12. Exclusive' /\ Reserved' BY <1>11 DEF Exclusive, Reserved
<1>13. Covering'
  BY <1>1, <1>3, <1>5, <1>6, <1>8, <1>9, Constants DEF Covering, maps
<1>14. Restarting'
  <2> SUFFICES ASSUME NEW p \in Pids
               PROVE  /\ proc'[p].watch = "again" =>
                           proc'[p].next =< manifest'.gen /\ proc'[pid].gen >= proc'[p].next
                      /\ proc'[p].watch = "giving" => policy'.rule = "restart_anywhere"
    BY <1>1, <1>11 DEF Restarting
  <2>1. CASE p = pid BY <1>5, <1>8, <2>1
  <2>2. CASE p # pid
    <3>1. proc'[p] = proc[p] BY <1>8, <2>2
    <3>2. /\ proc[p].watch = "again" => proc[p].next =< manifest.gen
                                        /\ intent[i].gen >= proc[p].next
          /\ proc[p].watch = "giving" => policy.rule = "restart_anywhere"
      BY <1>2 DEF IInv, Restarting
    <3> QED BY <1>1, <1>3, <1>5, <1>8, <3>1, <3>2 DEF host
  <2> QED BY <2>1, <2>2
<1>15. Lives'
  BY <1>1, <1>2 DEF IInv, Lives, host
<1>16. Targeted' BY <1>1, <1>7 DEF IInv, Targeted
<1>17. Marked' BY <1>1, <1>11 DEF IInv, Marked, NobodySpawns
<1>18. Kept' = Kept /\ \A p \in Pids : proc'[p].gen = proc[p].gen
  BY <1>1, <1>4, <1>5, <1>8 DEF Kept, Alive, host
<1>19. EveryProcessIsReachable'
  <2> SUFFICES ASSUME NEW p \in Kept PROVE p = pid
    BY <1>1, <1>18 DEF EveryProcessIsReachable
  <2>1. p \in Pids BY DEF Kept, Alive
  <2>2. PICK j \in Intents : intent[j].pc = "created" /\ intent[j].pid = p
    BY <1>2, <1>3, <2>1, Constants DEF IInv, EveryProcessIsReachable
  <2>3. j = i BY <1>2, <2>2 DEF IInv, Exclusive, Spawning
  <2> QED BY <2>2, <2>3 DEF pid
<1>20. Stopping'
  <2>1. Kept \subseteq Pids BY DEF Kept, Alive
  <2>2. Carried' BY <1>1, <1>18 DEF IInv, Stopping, Carried, host
  <2> QED BY <1>1, <1>18, <2>1, <2>2 DEF IInv, Stopping
<1>21. Retired' BY <1>1, <1>5, <1>8 DEF Retired, Callbacks
<1> QED BY <1>10, <1>12, <1>13, <1>14, <1>15, <1>16, <1>17, <1>19, <1>20, <1>21 DEF IInv
-----------------------------------------------------------------------------
(* Processes, their watchers and the crash budget.                           *)

\* A report of a process's end moves on; what is tracked stays.
LEMMA ReportKeeps ==
  ASSUME IInv, NEW p \in Pids, proc[p].watch \in Callbacks,
         NEW new \in Process, proc' = [proc EXCEPT ![p] = new],
         new.state = "alive" => proc[p].state = "alive" /\ new.gen = proc[p].gen,
         new.watch \in {"off", "again", "giving"},
         new.watch # "off" => proc[p].watch = "crashed",
         new.watch = "again" => new.next =< manifest'.gen /\ tracked = 0 /\ NobodySpawns,
         new.watch = "giving" => policy.rule = "restart_anywhere",
         UNCHANGED <<runtime, up, lost, policy, owner, future, faults, tracked, draining,
                     loop, closer>>,
         \/ intent' = intent
         \/ intent' \in [Intents -> Intent] /\ Alike /\ loop.pc # "fence",
         reserved' \in 0..MaxGeneration,
         reserved' = reserved \/ (tracked = 0 /\ NobodySpawns),
         manifest' \in Manifest,
         \/ manifest' = manifest
         \/ /\ manifest'.gen = manifest.gen
            /\ (NobodySpawns /\ Kept = {}) \/ policy.rule = "restart_anywhere",
         crashes' \in Nat, queue' \in Seq(Tasks), run' \in Tasks \cup {Nobody}
  PROVE  IInv'
<1>1. /\ up /\ tracked # p /\ proc[p].watch # "off" /\ loop \in Loop /\ closer \in Closer
      /\ draining \in BOOLEAN /\ faults \in 0..MaxFaults /\ proc \in [Pids -> Process]
      /\ manifest.gen \in Nat
  BY Awake, ManifestFacts DEF IInv, Retired, TypeOK, Callbacks
<1>2. /\ proc' \in [Pids -> Process] /\ proc'[p] = new
      /\ \A q \in Pids \ {p} : proc'[q] = proc[q]
  BY <1>1
<1>3. Kept' \subseteq Kept BY <1>1, <1>2 DEF Kept, Alive
<1>4. Carried'
  BY <1>3 DEF IInv, Stopping, Carried
<1>5. ASSUME NEW q \in Pids
      PROVE  /\ proc'[q].state = "alive" => proc[q].state = "alive"
             /\ proc'[q].state = "alive" \/ tracked' = q => proc'[q].gen = proc[q].gen
             /\ proc'[q].watch = "again" =>
                  \/ proc[q].watch = "again" /\ proc'[q].next = proc[q].next
                  \/ proc'[q].next =< manifest'.gen /\ tracked' = 0 /\ NobodySpawns
             /\ proc'[q].watch = "giving" =>
                  proc[q].watch = "giving" \/ policy.rule = "restart_anywhere"
             /\ proc'[q].watch \in Watched => proc[q].watch \in Watched
             /\ proc'[q].watch \in Callbacks => proc[q].watch \in Callbacks \/ tracked' # q
             /\ NobodySpawns \/ (proc[q].watch = "off" =>
                  proc'[q].watch = proc[q].watch /\ proc'[q].gen = proc[q].gen)
  <2>1. CASE q = p BY <1>1, <1>2, <2>1 DEF Watched, Callbacks
  <2>2. CASE q # p BY <1>2, <2>2
  <2> QED BY <2>1, <2>2
<1>6. \/ manifest' = manifest
      \/ /\ manifest'.gen >= manifest.gen
         /\ NobodySpawns \/ policy.rule = "restart_anywhere"
  BY <1>1
<1> QED BY <1>1, <1>2, <1>4, <1>5, <1>6, ProcessesKeep

\* A process may exit while the daemon is down.
LEMMA ProcessExitsKeeps == ASSUME IInv, NEW p \in Pids, ProcessExits(p) PROVE IInv'
<1> DEFINE new == [proc[p] EXCEPT !.state = "dead"]
<1>1. /\ proc' = [proc EXCEPT ![p] = new] /\ Fault
      /\ UNCHANGED <<disk, maps, sched, up, lost, policy, tracked, crashes, draining, intent, loop, closer>>
  BY DEF ProcessExits
<1>2. proc \in [Pids -> Process] /\ proc[p] \in Process BY DEF IInv, TypeOK
<1>3. /\ new \in Process /\ new.state = "dead" /\ new.gen = proc[p].gen
      /\ new.watch = proc[p].watch /\ new.next = proc[p].next
  BY <1>2 DEF Process
<1> HIDE DEF new
<1>4. /\ proc' \in [Pids -> Process]
      /\ \A q \in Pids : /\ proc'[q].state = "alive" => proc[q].state = "alive"
                         /\ proc'[q].gen = proc[q].gen /\ proc'[q].watch = proc[q].watch
                         /\ proc'[q].next = proc[q].next
  BY <1>1, <1>2, <1>3
<1>5. faults' \in 0..MaxFaults BY <1>1, Unmoved, Constants DEF Fault
<1>6. Kept' \subseteq Kept BY <1>1, <1>4 DEF Kept, Alive
<1>7. Carried' BY <1>1, <1>6 DEF IInv, Stopping, Carried, disk
<1>8. /\ UNCHANGED <<up, lost, policy, owner, future, intent, closer, tracked, runtime,
                     reserved, manifest, loop, draining, crashes, queue, run>>
      /\ manifest \in Manifest /\ reserved \in 0..MaxGeneration /\ loop \in Loop
      /\ closer \in Closer /\ draining \in BOOLEAN /\ crashes \in Nat
      /\ queue \in Seq(Tasks) /\ run \in Tasks \cup {Nobody}
  BY <1>1 DEF disk, maps, sched, IInv, TypeOK
<1> QED BY <1>4, <1>5, <1>7, <1>8, ProcessesKeep

\* An exit that nobody meant retires the process before it is reported.
LEMMA WatcherNoticesKeeps == ASSUME IInv, NEW p \in Pids, WatcherNotices(p) PROVE IInv'
<1>1. /\ proc[p].state = "dead" /\ proc[p].watch \in {"child", "poll"} /\ Free(Watcher(p))
      /\ UNCHANGED <<manifest, maps, host, crashes, draining, intent, loop, closer>>
  BY DEF WatcherNotices
<1>2. up /\ proc \in [Pids -> Process] /\ proc[p] \in Process
  BY <1>1, Awake DEF IInv, TypeOK
<1>3. \E new \in Process :
        /\ proc' = [proc EXCEPT ![p] = new]
        /\ new.state = "dead" /\ new.watch \in {"off", "stopped", "crashed"}
        /\ new.watch = "crashed" => proc[p].watch = "child"
        /\ \/ /\ UNCHANGED <<tracked, runtime>> /\ new.watch = "off"
              /\ tracked = p => new.gen = proc[p].gen
           \/ tracked = p /\ tracked' = 0 /\ runtime' = 0
        /\ Suspend \/ GoOn(Watcher(p))
  <2>1. CASE /\ tracked # p /\ Suspend
             /\ proc' = [proc EXCEPT ![p] = Gone] /\ UNCHANGED <<tracked, runtime>>
    <3>1. Gone \in Process /\ Gone.state = "dead" /\ Gone.watch = "off"
      BY Constants DEF Gone, NoProcess
    <3> QED BY <2>1, <3>1
  <2>2. CASE /\ tracked = p /\ proc[p].doomed /\ Suspend
             /\ proc' = [proc EXCEPT ![p].watch = "off"] /\ UNCHANGED <<tracked, runtime>>
    <3> DEFINE new == [proc[p] EXCEPT !.watch = "off"]
    <3>1. new \in Process /\ new.state = "dead" /\ new.watch = "off" /\ new.gen = proc[p].gen
      BY <1>1, <1>2 DEF Process
    <3>2. proc' = [proc EXCEPT ![p] = new] BY <2>2
    <3> HIDE DEF new
    <3> QED BY <2>2, <3>1, <3>2
  <2>3. CASE /\ tracked = p /\ ~proc[p].doomed
             /\ tracked' = 0 /\ runtime' = 0 /\ GoOn(Watcher(p))
             /\ \E exit \in ExitSeen(p) :
                  proc' = [proc EXCEPT ![p] = [Gone EXCEPT !.watch = exit]]
    <3>1. PICK exit \in ExitSeen(p) : proc' = [proc EXCEPT ![p] = [Gone EXCEPT !.watch = exit]]
      BY <2>3
    <3>2. exit \in {"stopped", "crashed"} /\ (exit = "crashed" => proc[p].watch = "child")
      BY <3>1 DEF ExitSeen
    <3> DEFINE new == [Gone EXCEPT !.watch = exit]
    <3>3. new \in Process /\ new.state = "dead" /\ new.watch = exit
      BY <3>2, Constants DEF Process, Gone, NoProcess
    <3>4. proc' = [proc EXCEPT ![p] = new] BY <3>1
    <3> HIDE DEF new
    <3> QED BY <2>3, <3>2, <3>3, <3>4
  <2> QED BY <2>1, <2>2, <2>3 DEF WatcherNotices
<1>4. PICK new \in Process :
        /\ proc' = [proc EXCEPT ![p] = new]
        /\ new.state = "dead" /\ new.watch \in {"off", "stopped", "crashed"}
        /\ new.watch = "crashed" => proc[p].watch = "child"
        /\ \/ /\ UNCHANGED <<tracked, runtime>> /\ new.watch = "off"
              /\ tracked = p => new.gen = proc[p].gen
           \/ tracked = p /\ tracked' = 0 /\ runtime' = 0
        /\ Suspend \/ GoOn(Watcher(p))
  BY <1>3
<1>5. /\ proc' \in [Pids -> Process] /\ proc'[p] = new
      /\ \A q \in Pids \ {p} : proc'[q] = proc[q]
  BY <1>2, <1>4
<1>6. ASSUME NEW q \in Pids
      PROVE  /\ proc'[q].state = "alive" => proc[q].state = "alive"
             /\ proc'[q].state = "alive" \/ tracked' = q => proc'[q].gen = proc[q].gen
             /\ proc'[q].watch = "again" =>
                  \/ proc[q].watch = "again" /\ proc'[q].next = proc[q].next
                  \/ proc'[q].next =< manifest'.gen /\ tracked' = 0 /\ NobodySpawns
             /\ proc'[q].watch = "giving" =>
                  proc[q].watch = "giving" \/ policy.rule = "restart_anywhere"
             /\ proc'[q].watch \in Watched => proc[q].watch \in Watched
             /\ proc'[q].watch \in Callbacks => proc[q].watch \in Callbacks \/ tracked' # q
             /\ NobodySpawns \/ (proc[q].watch = "off" =>
                  proc'[q].watch = proc[q].watch /\ proc'[q].gen = proc[q].gen)
  <2>1. CASE q = p BY <1>1, <1>4, <1>5, <2>1, Constants DEF Watched, Callbacks
  <2>2. CASE q # p BY <1>5, <2>2
  <2> QED BY <2>1, <2>2
<1>7. \/ tracked' = tracked /\ runtime' = runtime
      \/ tracked # 0 /\ tracked' = 0 /\ runtime' = 0 /\ proc'[tracked].state # "alive"
  BY <1>4, <1>5, Constants
<1>8. queue' \in Seq(Tasks) /\ run' \in Tasks \cup {Nobody}
  BY <1>1, <1>4, Constants, Sched DEF IInv
<1>9. Kept' \subseteq Kept BY <1>1, <1>6 DEF Kept, Alive, host
<1>10. Carried' BY <1>1, <1>9 DEF IInv, Stopping, Carried, host
<1>11. /\ UNCHANGED <<up, lost, policy, owner, future, intent, closer,
                     reserved, manifest, loop, draining, crashes, faults>>
      /\ manifest \in Manifest /\ reserved \in 0..MaxGeneration /\ loop \in Loop
      /\ closer \in Closer /\ draining \in BOOLEAN /\ crashes \in Nat /\ faults \in 0..MaxFaults
  BY <1>1 DEF maps, host, IInv, TypeOK
<1> QED BY <1>2, <1>5, <1>6, <1>7, <1>8, <1>10, <1>11, ProcessesKeep

\* The end of a report: the process is forgotten.
LEMMA ReportEnds ==
  /\ Gone \in Process /\ Gone.state # "alive" /\ Gone.watch = "off"
BY Constants DEF Gone, NoProcess

\* A normal exit frees the reservation if nothing else is tracked.
LEMMA AgentStoppedKeeps == ASSUME IInv, NEW p \in Pids, AgentStopped(p) PROVE IInv'
<1>1. /\ proc[p].watch \in Callbacks /\ Take(Watcher(p)) /\ Suspend
      /\ reserved' = IF tracked = 0 THEN 0 ELSE reserved
      /\ proc' = [proc EXCEPT ![p] = Gone]
      /\ UNCHANGED <<disk, owner, future, host, tracked, crashes, draining, intent, loop, closer>>
  BY DEF AgentStopped, Callbacks
<1>2. /\ NobodySpawns /\ queue' \in Seq(Tasks) /\ run' \in Tasks \cup {Nobody}
  BY <1>1, Sched, Constants DEF IInv
<1>3. manifest \in Manifest /\ crashes \in Nat BY DEF IInv, TypeOK
<1>4. UNCHANGED <<runtime, manifest, up, lost, policy, faults>> BY <1>1 DEF disk, host
<1>5. reserved' \in 0..MaxGeneration /\ (reserved' = reserved \/ (tracked = 0 /\ NobodySpawns))
  BY <1>1, <1>2, Unmoved, Constants
<1> QED BY <1>1, <1>2, <1>3, <1>4, <1>5, ReportEnds, ReportKeeps

\* A crash is decided on under the lock: nothing is being created meanwhile.
LEMMA AgentCrashedKeeps == ASSUME IInv, NEW p \in Pids, AgentCrashed(p) PROVE IInv'
<1>1. /\ proc[p].watch = "crashed" /\ Take(Watcher(p))
      /\ reserved' = IF tracked = 0 THEN 0 ELSE reserved
      /\ UNCHANGED <<runtime, owner, future, host, tracked, draining, intent, loop, closer>>
  BY DEF AgentCrashed
<1>2. NobodySpawns /\ queue' \in Seq(Tasks) /\ proc[p].watch \in Callbacks /\ up
  BY <1>1, Sched, Awake, Constants DEF IInv, Callbacks
<1>3. /\ manifest \in Manifest /\ crashes \in Nat /\ proc[p] \in Process
      /\ manifest.gen \in 0..MaxGeneration
  BY ManifestFacts DEF IInv, TypeOK
<1>4. UNCHANGED <<up, lost, policy, faults>> BY <1>1 DEF host
<1>5. reserved' \in 0..MaxGeneration /\ (reserved' = reserved \/ (tracked = 0 /\ NobodySpawns))
  BY <1>1, <1>2, Unmoved, Constants
<1>6. crashes' \in Nat
  BY <1>3 DEF AgentCrashed
<1>7. CASE proc' = [proc EXCEPT ![p] = Gone] /\ Suspend /\ UNCHANGED manifest
  <2>1. run' \in Tasks \cup {Nobody} BY <1>7 DEF Suspend
  <2> QED BY <1>1, <1>2, <1>3, <1>4, <1>5, <1>6, <1>7, <2>1, ReportEnds, ReportKeeps
<1>8. CASE /\ tracked = 0 /\ GoOn(Watcher(p)) /\ UNCHANGED manifest
           /\ proc' = [proc EXCEPT ![p] = [proc[p] EXCEPT !.watch = "again", !.next = manifest.gen]]
  <2> DEFINE new == [proc[p] EXCEPT !.watch = "again", !.next = manifest.gen]
  <2>1. /\ new \in Process /\ new.state = proc[p].state /\ new.gen = proc[p].gen
        /\ new.watch = "again" /\ new.next = manifest.gen
    BY <1>3 DEF Process
  <2>2. run' \in Tasks \cup {Nobody} BY <1>8, Constants DEF GoOn
  <2>3. proc' = [proc EXCEPT ![p] = new] BY <1>8
  <2>4. manifest.gen =< manifest'.gen BY <1>3, <1>8, Constants
  <2> HIDE DEF new
  <2> QED BY <1>1, <1>2, <1>3, <1>4, <1>5, <1>6, <1>8, <2>1, <2>2, <2>3, <2>4, ReportKeeps
<1>9. CASE /\ policy.rule = "restart_anywhere" /\ Suspend /\ UNCHANGED manifest
           /\ proc' = [proc EXCEPT ![p].watch = "giving"]
  <2> DEFINE new == [proc[p] EXCEPT !.watch = "giving"]
  <2>1. /\ new \in Process /\ new.state = proc[p].state /\ new.gen = proc[p].gen
        /\ new.watch = "giving"
    BY <1>3 DEF Process
  <2>2. run' \in Tasks \cup {Nobody} BY <1>9 DEF Suspend
  <2>3. proc' = [proc EXCEPT ![p] = new] BY <1>9
  <2> HIDE DEF new
  <2> QED BY <1>1, <1>2, <1>3, <1>4, <1>5, <1>6, <1>9, <2>1, <2>2, <2>3, ReportKeeps
<1>10. CASE /\ tracked = 0 /\ proc' = [proc EXCEPT ![p] = Gone] /\ Suspend
            /\ manifest' = [manifest EXCEPT !.desired = "stopped"]
  <2>1. manifest' \in Manifest /\ manifest'.gen = manifest.gen
    BY <1>3, <1>10, Constants DEF Manifest, NoManifest
  <2>2. run' \in Tasks \cup {Nobody} BY <1>10 DEF Suspend
  <2>3. Kept = {} BY <1>2, <1>10, NothingKept
  <2> QED BY <1>1, <1>2, <1>3, <1>4, <1>5, <1>6, <1>10, <2>1, <2>2, <2>3, ReportEnds, ReportKeeps
<1> QED BY <1>7, <1>8, <1>9, <1>10 DEF AgentCrashed

\* A restart reserves its generation: had anything been created since, it would
\* be of that generation at least.
LEMMA CrashRestartKeeps == ASSUME IInv, NEW p \in Pids, CrashRestart(p) PROVE IInv'
<1>1. /\ proc[p].watch = "again" /\ Take(Watcher(p))
      /\ proc' = [proc EXCEPT ![p] = Gone]
      /\ UNCHANGED <<disk, owner, future, host, tracked, crashes, draining, loop, closer>>
  BY DEF CrashRestart
<1>2. /\ NobodySpawns /\ queue' \in Seq(Tasks) /\ proc[p].watch \in Callbacks
      /\ proc[p].next \in 0..MaxGeneration /\ loop.pc # "fence"
  BY <1>1, Sched, Constants, ProcessFacts DEF IInv, Callbacks, Process, Lives
<1>3. manifest \in Manifest /\ crashes \in Nat BY DEF IInv, TypeOK
<1>4. UNCHANGED <<runtime, manifest, up, lost, policy, faults>> BY <1>1 DEF disk, host
<1>5. CASE /\ reserved < proc[p].next /\ reserved' = proc[p].next
           /\ NewIntent(proc[p].next, FALSE) /\ GoOn(AnIntent(NextIntent))
  <2>1. tracked = 0
    <3> SUFFICES ASSUME tracked # 0 PROVE FALSE
      OBVIOUS
    <3>1. reserved >= proc[p].next BY <1>1 DEF IInv, Covering, Restarting
    <3>2. reserved \in Nat /\ proc[p].next \in Nat BY Unmoved, ProcessFacts, Constants DEF IInv
    <3> QED BY <1>5, <3>1, <3>2
  <2>2. intent' \in [Intents -> Intent] /\ Alike /\ NextIntent \in Intents
    BY <1>2, <1>5, NewIntents DEF Alike, IInv
  <2>3. run' \in Tasks \cup {Nobody} BY <1>5, <2>2, Constants DEF GoOn
  <2> QED BY <1>1, <1>2, <1>3, <1>4, <1>5, <2>1, <2>2, <2>3, ReportEnds, ReportKeeps
<1>6. CASE Suspend /\ UNCHANGED <<reserved, intent>>
  <2>1. run' \in Tasks \cup {Nobody} BY <1>6 DEF Suspend
  <2> QED BY <1>1, <1>2, <1>3, <1>4, <1>6, <2>1, Unmoved, ReportEnds, ReportKeeps
<1> QED BY <1>5, <1>6 DEF CrashRestart

\* Without the lock, whatever manifest is on disk is stopped.
LEMMA GiveUpKeeps == ASSUME IInv, NEW p \in Pids, GiveUp(p) PROVE IInv'
<1>1. /\ proc[p].watch = "giving" /\ Free(Watcher(p)) /\ Suspend
      /\ proc' = [proc EXCEPT ![p] = Gone]
      /\ manifest' = [manifest EXCEPT !.desired = "stopped"]
      /\ UNCHANGED <<runtime, maps, host, tracked, crashes, draining, intent, loop, closer>>
  BY DEF GiveUp
<1>2. /\ queue' \in Seq(Tasks) /\ run' \in Tasks \cup {Nobody} /\ proc[p].watch \in Callbacks
      /\ policy.rule = "restart_anywhere"
  BY <1>1, Sched, Constants DEF IInv, Callbacks, Restarting
<1>3. manifest \in Manifest /\ crashes \in Nat /\ manifest.gen \in 0..MaxGeneration
  BY ManifestFacts DEF IInv, TypeOK
<1>4. manifest' \in Manifest /\ manifest'.gen = manifest.gen
  BY <1>1, <1>3, Constants DEF Manifest, NoManifest
<1>5. UNCHANGED <<reserved, owner, future, up, lost, policy, faults>> BY <1>1 DEF maps, host
<1> QED BY <1>1, <1>2, <1>3, <1>4, <1>5, Unmoved, ReportEnds, ReportKeeps
-----------------------------------------------------------------------------
(* The lock, shutdown, and the daemon's death and restart.                   *)

\* A step that changes no process and no place of an intent or of the loop.
LEMMA ShutdownKeeps ==
  ASSUME IInv, up,
         UNCHANGED <<disk, maps, up, lost, policy, crashes, proc, tracked, loop>>,
         intent' = intent \/ (intent' \in [Intents -> Intent] /\ Alike /\ loop.pc # "fence"),
         closer' \in Closer, draining' = TRUE,
         closer'.target # 0 => closer'.pc = "kill" /\ NobodySpawns,
         queue' \in Seq(Tasks), run' \in Tasks \cup {Nobody}, faults' \in 0..MaxFaults
  PROVE  IInv'
<1>1. /\ UNCHANGED <<manifest, runtime, reserved, owner, future>>
      /\ manifest \in Manifest /\ reserved \in 0..MaxGeneration /\ crashes \in Nat
      /\ loop \in Loop /\ proc \in [Pids -> Process]
  BY DEF disk, maps, IInv, TypeOK
<1>2. Carried' BY DEF Carried
<1> QED BY <1>1, <1>2, ProcessesKeep

\* Waiting for the lock changes nothing else.
LEMMA WaitsKeeps == ASSUME IInv, NEW t \in Tasks, Waits(t) PROVE IInv'
<1>1. queue' \in Seq(Tasks) /\ run' \in Tasks \cup {Nobody}
  BY AppendProperties DEF Waits, Suspend, IInv, TypeOK
<1>2. /\ UNCHANGED <<up, lost, policy, owner, future, intent, closer, tracked, runtime, proc,
                     reserved, manifest, loop, draining, crashes, faults>>
      /\ manifest \in Manifest /\ reserved \in 0..MaxGeneration /\ loop \in Loop
      /\ closer \in Closer /\ draining \in BOOLEAN /\ crashes \in Nat /\ faults \in 0..MaxFaults
      /\ proc \in [Pids -> Process]
  BY DEF Waits, disk, maps, host, IInv, TypeOK
<1>3. Carried' BY <1>2, SameKept DEF IInv, Stopping, Carried
<1> QED BY <1>1, <1>2, <1>3, ProcessesKeep

\* A step that changes nothing.
LEMMA StutterKeeps == ASSUME IInv, UNCHANGED vars PROVE IInv'
<1>1. /\ UNCHANGED <<up, lost, policy, owner, future, intent, closer, tracked, runtime, proc,
                     reserved, manifest, loop, draining, crashes, faults, queue, run>>
      /\ manifest \in Manifest /\ reserved \in 0..MaxGeneration /\ loop \in Loop
      /\ closer \in Closer /\ draining \in BOOLEAN /\ crashes \in Nat /\ faults \in 0..MaxFaults
      /\ proc \in [Pids -> Process] /\ queue \in Seq(Tasks) /\ run \in Tasks \cup {Nobody}
  BY DEF vars, disk, maps, sched, host, IInv, TypeOK
<1>2. Carried' BY <1>1, SameKept DEF IInv, Stopping, Carried
<1> QED BY <1>1, <1>2, ProcessesKeep

\* A shutdown drains the daemon first.
LEMMA CloseBeginsKeeps == ASSUME IInv, CloseBegins PROVE IInv'
<1>1. /\ up /\ closer.pc = "off" /\ Fault /\ draining' = TRUE
      /\ closer' = [closer EXCEPT !.pc = "waiting"]
      /\ UNCHANGED <<disk, maps, sched, up, lost, policy, proc, tracked, crashes, intent, loop>>
  BY DEF CloseBegins
<1>2. closer \in Closer /\ closer.target = 0 BY <1>1 DEF IInv, TypeOK, Marked
<1>3. closer' \in Closer /\ closer'.target = 0 BY <1>1, <1>2 DEF Closer
<1>4. faults' \in 0..MaxFaults BY <1>1, Unmoved, Constants DEF Fault
<1>5. queue' \in Seq(Tasks) /\ run' \in Tasks \cup {Nobody}
  BY <1>1 DEF sched, IInv, TypeOK
<1> QED BY <1>1, <1>3, <1>4, <1>5, ShutdownKeeps

\* Token waits are cancelled; what is being created goes on.
LEMMA CloseFencesKeeps == ASSUME IInv, CloseFences PROVE IInv'
<1>1. /\ closer.pc = "waiting" /\ loop.pc = "idle" /\ intent' = Fenced
      /\ closer' = [closer EXCEPT !.pc = "gather"]
      /\ UNCHANGED <<disk, maps, sched, host, proc, tracked, crashes, draining, loop>>
  BY DEF CloseFences
<1>2. closer \in Closer /\ closer.target = 0 /\ draining = TRUE /\ up
  BY <1>1, Awake DEF IInv, TypeOK, Marked
<1>3. closer' \in Closer /\ closer'.target = 0 BY <1>1, <1>2 DEF Closer
<1>4. intent' \in [Intents -> Intent] /\ Alike
  BY <1>1, Fencing DEF Alike, IInv
<1>5. queue' \in Seq(Tasks) /\ run' \in Tasks \cup {Nobody} /\ faults' \in 0..MaxFaults
      /\ UNCHANGED <<up, lost, policy>>
  BY <1>1 DEF sched, host, IInv, TypeOK
<1> QED BY <1>1, <1>2, <1>3, <1>4, <1>5, ShutdownKeeps

\* A kill by the one that shuts the node down.
LEMMA ShutdownKills ==
  ASSUME IInv, up, NEW p \in Pids, Kill(p),
         UNCHANGED <<manifest, maps, sched, host, crashes, draining, intent, loop>>,
         draining, closer' \in Closer, closer'.target = 0,
         NobodySpawns \/ proc[p].watch # "off"
  PROVE  IInv'
<1>1. /\ UNCHANGED <<manifest, reserved, owner, future, up, lost, policy, faults, run, queue>>
      /\ manifest \in Manifest /\ reserved \in 0..MaxGeneration /\ crashes \in Nat
      /\ loop \in Loop /\ faults \in 0..MaxFaults /\ draining = TRUE
      /\ queue \in Seq(Tasks) /\ run \in Tasks \cup {Nobody}
  BY DEF maps, sched, host, IInv, TypeOK
<1>2. /\ proc' \in [Pids -> Process]
      /\ \A q \in Pids :
              /\ proc'[q].state = "alive" => proc[q].state = "alive"
              /\ proc'[q].state = "alive" \/ tracked' = q => proc'[q].gen = proc[q].gen
              /\ proc'[q].watch # "off" =>
                    proc'[q].watch = proc[q].watch /\ proc'[q].next = proc[q].next
      /\ \/ tracked' = tracked /\ runtime' = runtime
         \/ tracked # 0 /\ tracked' = 0 /\ runtime' = 0 /\ proc'[tracked].state # "alive"
  BY KilledShape
<1>3. \A q \in Pids :
            /\ proc'[q].watch = "again" => proc[q].watch = "again" /\ proc'[q].next = proc[q].next
            /\ proc'[q].watch = "giving" => proc[q].watch = "giving"
            /\ proc'[q].watch \in Watched => proc[q].watch \in Watched
            /\ proc'[q].watch \in Callbacks => proc[q].watch \in Callbacks
  BY <1>2 DEF Watched, Callbacks
<1>4. Carried' BY <1>1 DEF Carried
<1>5. \A q \in Pids \ {p} : proc'[q] = proc[q] BY Killed DEF IInv
<1>6. \A q \in Pids : NobodySpawns \/ (proc[q].watch = "off" =>
                  proc'[q].watch = proc[q].watch /\ proc'[q].gen = proc[q].gen)
  BY <1>5
<1> QED BY <1>1, <1>2, <1>3, <1>4, <1>6, ProcessesKeep

\* What is tracked at a shutdown is killed, or marked first.
LEMMA CloseKillsKeeps == ASSUME IInv, CloseKills PROVE IInv'
<1>1. /\ closer.pc = "gather"
      /\ \/ /\ tracked = 0 /\ closer' = [closer EXCEPT !.pc = "closed"]
            /\ UNCHANGED <<proc, tracked, runtime>>
         \/ /\ tracked # 0 /\ KnownDead(tracked) /\ Kill(tracked)
            /\ closer' = [closer EXCEPT !.pc = "closed"]
         \/ /\ tracked # 0 /\ closer' = [pc |-> "kill", target |-> tracked]
            /\ proc' = [proc EXCEPT ![tracked].doomed = TRUE]
            /\ UNCHANGED <<tracked, runtime>>
      /\ UNCHANGED <<manifest, maps, sched, host, crashes, draining, intent, loop>>
  BY DEF CloseKills
<1>2. /\ closer \in Closer /\ closer.target = 0 /\ draining = TRUE /\ up
      /\ tracked \in {0} \cup Pids
  BY <1>1, Awake DEF IInv, TypeOK, Marked, NotClosing
<1>3. [closer EXCEPT !.pc = "closed"] \in Closer /\ [closer EXCEPT !.pc = "closed"].target = 0
  BY <1>2 DEF Closer
<1>4. /\ UNCHANGED <<manifest, reserved, owner, future, up, lost, policy, faults, run, queue>>
      /\ faults \in 0..MaxFaults /\ queue \in Seq(Tasks) /\ run \in Tasks \cup {Nobody}
  BY <1>1 DEF maps, sched, host, IInv, TypeOK
<1>5. CASE /\ tracked = 0 /\ closer' = [closer EXCEPT !.pc = "closed"]
           /\ UNCHANGED <<proc, tracked, runtime>>
  BY <1>1, <1>2, <1>3, <1>4, <1>5, ShutdownKeeps DEF disk, maps
<1>6. tracked # 0 => NobodySpawns BY DEF IInv, Reserved, NobodySpawns
<1>7. CASE /\ tracked # 0 /\ KnownDead(tracked) /\ Kill(tracked)
           /\ closer' = [closer EXCEPT !.pc = "closed"]
  BY <1>1, <1>2, <1>3, <1>6, <1>7, ShutdownKills
<1>8. CASE /\ tracked # 0 /\ closer' = [pc |-> "kill", target |-> tracked]
           /\ proc' = [proc EXCEPT ![tracked].doomed = TRUE]
           /\ UNCHANGED <<tracked, runtime>>
  <2>1. /\ proc' \in [Pids -> Process]
        /\ \A p \in Pids : /\ proc'[p].state = proc[p].state /\ proc'[p].gen = proc[p].gen
                           /\ proc'[p].watch = proc[p].watch /\ proc'[p].next = proc[p].next
    BY <1>2, <1>8, Doomed DEF IInv
  <2>2. closer' \in Closer /\ closer'.pc = "kill" BY <1>2, <1>8 DEF Closer
  <2>3. /\ manifest \in Manifest /\ reserved \in 0..MaxGeneration /\ crashes \in Nat
        /\ loop \in Loop
    BY DEF IInv, TypeOK
  <2>4. Carried' BY <1>1, <1>2 DEF Carried
  <2> QED BY <1>1, <1>2, <1>4, <1>6, <1>8, <2>1, <2>2, <2>3, <2>4, ProcessesKeep
<1> QED BY <1>1, <1>5, <1>7, <1>8

\* What the shutdown marked is killed.
LEMMA CloseEndsKeeps == ASSUME IInv, CloseEnds PROVE IInv'
<1>1. /\ closer.pc = "kill" /\ Kill(closer.target) /\ closer' = [pc |-> "closed", target |-> 0]
      /\ UNCHANGED <<manifest, maps, sched, host, crashes, draining, intent, loop>>
  BY DEF CloseEnds
<1>2. /\ closer \in Closer /\ draining = TRUE /\ up /\ closer.target \in {0} \cup Pids
      /\ closer.target # 0 => NobodySpawns
  BY <1>1, Awake DEF IInv, TypeOK, Marked, NotClosing, Closer
<1>3. closer' \in Closer /\ closer'.target = 0 BY <1>1 DEF Closer
<1>4. CASE closer.target \in Pids
  BY <1>1, <1>2, <1>3, <1>4, Constants, ShutdownKills
<1>5. CASE closer.target = 0
  <2>1. proc' = proc BY <1>1, <1>5, Constants DEF Kill, TerminateTree, IInv, TypeOK
  <2>2. UNCHANGED <<tracked, runtime>>
    BY <1>1, <1>2, <1>5 DEF Kill, IInv, Lives
  <2>3. /\ UNCHANGED <<up, lost, policy>> /\ run' \in Tasks \cup {Nobody}
        /\ queue' \in Seq(Tasks) /\ faults' \in 0..MaxFaults
    BY <1>1 DEF sched, host, IInv, TypeOK
  <2> QED BY <1>1, <1>2, <1>3, <2>1, <2>2, <2>3, ShutdownKeeps DEF disk
<1> QED BY <1>2, <1>4, <1>5

\* What was tracked is on record; what was being created is lost.
LEMMA DaemonDiesKeeps == ASSUME IInv, DaemonDies PROVE IInv'
<1>1. /\ up /\ Fault /\ up' = FALSE
      /\ lost' = lost \cup {intent[i].pid : i \in {j \in Intents : intent[j].pc = "created"}}
      /\ tracked' = 0 /\ reserved' = 0 /\ owner' = 0 /\ future' = 0 /\ crashes' = 0
      /\ draining' = FALSE /\ run' = Nobody /\ queue' = <<>>
      /\ loop' = [Idle EXCEPT !.pc = "off"] /\ closer' = NotClosing
      /\ intent' = [i \in Intents |-> NoIntent]
      /\ proc' = [p \in Pids |-> [NoProcess EXCEPT !.state = proc[p].state, !.gen = proc[p].gen]]
      /\ UNCHANGED <<manifest, runtime, policy>>
  BY DEF DaemonDies, disk
<1>2. ASSUME NEW p \in Pids
      PROVE  /\ proc'[p] \in Process /\ proc'[p].state = proc[p].state
             /\ proc'[p].gen = proc[p].gen /\ proc'[p].watch = "off"
  <2>1. proc[p] \in Process BY DEF IInv, TypeOK
  <2>2. proc'[p] = [NoProcess EXCEPT !.state = proc[p].state, !.gen = proc[p].gen] BY <1>1
  <2> QED BY <2>1, <2>2, Constants DEF NoProcess, Process
<1>3. /\ loop' \in Loop /\ loop'.pc = "off" /\ loop'.target = 0
      /\ closer'.pc = "off" /\ closer'.target = 0 /\ closer' \in Closer
  BY <1>1, Constants DEF Idle, Loop, NotClosing
<1>4. /\ intent' \in [Intents -> Intent]
      /\ \A i \in Intents : intent'[i] = NoIntent /\ intent'[i].pc = "none"
  BY <1>1, Constants DEF NoIntent
<1>5. proc' \in [Pids -> Process] BY <1>1, <1>2
<1>6. lost' \subseteq Pids
  <2>1. \A i \in Intents : intent[i].pc = "created" => intent[i].pid \in Pids
    <3> SUFFICES ASSUME NEW i \in Intents, intent[i].pc = "created" PROVE intent[i].pid \in Pids
      OBVIOUS
    <3>1. intent[i].pid # 0 BY DEF IInv, Reserved, Spawning
    <3> QED BY <3>1, IntentFacts DEF IInv, Intent
  <2> QED BY <1>1, <2>1 DEF IInv, TypeOK
<1>7. queue' \in Seq(Tasks) BY <1>1, EmptySeq
<1>8. faults' \in 0..MaxFaults
  <2>1. Fault BY <1>1
  <2> QED BY <2>1, Unmoved, Constants DEF Fault
<1>9. TypeOK'
  BY <1>1, <1>3, <1>4, <1>5, <1>6, <1>7, <1>8, Constants DEF IInv, TypeOK
<1>10. Exclusive' /\ Reserved' BY <1>4 DEF Exclusive, Reserved, Spawning
<1>11. Covering' BY <1>1 DEF Covering
<1>12. Restarting' /\ Retired' BY <1>2 DEF Restarting, Retired, Callbacks
<1>13. Lives' BY <1>1, <1>2, <1>3, <1>4 DEF Lives
<1>14. Targeted' /\ Marked' BY <1>3 DEF Targeted, Marked, Killing
<1>15. ASSUME NEW p \in Kept'
       PROVE  p \in Pids /\ p \in Kept /\ tracked = p /\ runtime = p
  <2>1. p \in Pids /\ proc'[p].state = "alive" /\ p \notin lost' BY DEF Kept, Alive
  <2>2. p \in Kept BY <1>1, <1>2, <2>1 DEF Kept, Alive
  <2>3. ~\E i \in Intents : intent[i].pc = "created" /\ intent[i].pid = p BY <1>1, <2>1
  <2> QED BY <1>1, <2>1, <2>2, <2>3 DEF IInv, EveryProcessIsReachable, Lives
<1>16. EveryProcessIsReachable' BY <1>1, <1>15 DEF EveryProcessIsReachable
<1>17. Stopping' BY <1>1, <1>2, <1>15 DEF IInv, Stopping, Carried
<1> QED BY <1>9, <1>10, <1>11, <1>12, <1>13, <1>14, <1>16, <1>17 DEF IInv

\* The next daemon adopts what is on record, and nothing else is kept.
LEMMA DaemonStartsKeeps == ASSUME IInv, DaemonStarts PROVE IInv'
<1>1. /\ ~up /\ up' = TRUE
      /\ UNCHANGED <<manifest, owner, future, queue, lost, faults, policy, crashes, draining, intent, closer>>
  BY DEF DaemonStarts
<1>2. /\ tracked = 0 /\ closer = NotClosing
      /\ \A i \in Intents : intent[i] = NoIntent
      /\ \A p \in Pids : proc[p].watch = "off"
  BY <1>1 DEF IInv, Lives
<1>3. \A i \in Intents : intent'[i].pc = "none" BY <1>1, <1>2 DEF NoIntent
<1>4. \A p \in Kept : p \in Pids /\ runtime = p /\ proc[p].gen =< manifest.gen
  BY <1>2, <1>3, Constants DEF IInv, EveryProcessIsReachable, Stopping, NoIntent, Kept, Alive
<1>5. PICK pc \in {"idle", "fence"} :
        /\ loop' = [Idle EXCEPT !.pc = pc] /\ run' \in Tasks \cup {Nobody}
        /\ \/ /\ runtime \notin Alive /\ runtime' = 0 /\ UNCHANGED <<proc, tracked, reserved>>
              /\ pc = "idle"
           \/ /\ Adopts /\ reserved' = proc[runtime].gen /\ UNCHANGED runtime
              /\ Tombstoned(runtime) => pc = "fence"
  <2>1. Idle = [Idle EXCEPT !.pc = "idle"] BY DEF Idle
  <2>2. CASE runtime \notin Alive /\ runtime' = 0 /\ loop' = Idle /\ UNCHANGED <<proc, tracked, reserved, run>>
    BY <2>1, <2>2 DEF IInv, TypeOK
  <2>3. CASE /\ Adopts /\ reserved' = proc[runtime].gen /\ UNCHANGED runtime
             /\ IF Tombstoned(runtime) THEN loop' = [Idle EXCEPT !.pc = "fence"] /\ GoOn(TheLoop)
                                       ELSE loop' = Idle /\ Suspend
    BY <2>1, <2>3, Constants DEF GoOn, Suspend
  <2> QED BY <2>2, <2>3 DEF DaemonStarts
<1>6. loop' \in Loop /\ loop'.pc = pc /\ loop'.target = 0
  BY <1>5, Constants DEF Idle, Loop, Killing
<1>7. /\ proc' \in [Pids -> Process] /\ tracked' \in {0} \cup Pids /\ runtime' = tracked'
      /\ reserved' \in 0..MaxGeneration
      /\ \A p \in Pids : /\ proc'[p].state = proc[p].state /\ proc'[p].gen = proc[p].gen
                         /\ proc'[p].watch \in {"off", "poll"}
      /\ tracked' # 0 => reserved' = proc[tracked'].gen
      /\ \A p \in Kept : tracked' = p /\ (Tombstoned(p) => pc = "fence")
  <2>1. proc \in [Pids -> Process] /\ reserved \in 0..MaxGeneration BY DEF IInv, TypeOK
  <2>2. CASE /\ runtime \notin Alive /\ runtime' = 0 /\ UNCHANGED <<proc, tracked, reserved>>
    BY <1>2, <1>4, <2>1, <2>2 DEF Kept
  <2>3. CASE /\ Adopts /\ reserved' = proc[runtime].gen /\ UNCHANGED runtime
             /\ Tombstoned(runtime) => pc = "fence"
    <3> DEFINE new == [proc[runtime] EXCEPT !.watch = "poll"]
    <3>1. runtime \in Pids /\ proc[runtime] \in Process BY <2>1, <2>3 DEF Adopts, Alive
    <3>2. new \in Process /\ new.state = proc[runtime].state /\ new.gen = proc[runtime].gen
          /\ new.watch = "poll" /\ proc[runtime].gen \in 0..MaxGeneration
      BY <3>1 DEF Process
    <3>3. proc' = [proc EXCEPT ![runtime] = new] /\ tracked' = runtime
      BY <2>3 DEF Adopts
    <3> HIDE DEF new
    <3>4. /\ proc' \in [Pids -> Process]
          /\ \A p \in Pids : /\ proc'[p].state = proc[p].state /\ proc'[p].gen = proc[p].gen
                             /\ proc'[p].watch \in {"off", "poll"}
      BY <1>2, <2>1, <3>1, <3>2, <3>3
    <3> QED BY <1>4, <2>3, <3>1, <3>2, <3>3, <3>4
  <2> QED BY <1>5, <2>2, <2>3
<1>8. TypeOK' BY <1>1, <1>5, <1>6, <1>7 DEF IInv, TypeOK
<1>9. Exclusive' /\ Reserved' BY <1>3 DEF Exclusive, Reserved, Spawning
<1>10. Covering' BY <1>3, <1>7, Constants DEF Covering
<1>11. Restarting' /\ Retired' BY <1>7 DEF Restarting, Retired, Callbacks
<1>12. Lives' BY <1>1, <1>2, <1>5, <1>6, <1>7 DEF Lives
<1>13. Targeted' BY <1>6 DEF Targeted
<1>14. Marked' BY <1>1, <1>2, <1>6 DEF Marked, NotClosing
<1>15. Kept' = Kept BY <1>1, <1>7 DEF Kept, Alive
<1>16. EveryProcessIsReachable' BY <1>7, <1>15 DEF EveryProcessIsReachable
<1>17. Carried'
  <2>1. ASSUME NEW p \in Kept, manifest.desired = "stopped" PROVE pc = "fence"
    <3>1. manifest.gen \in Nat /\ proc[p].gen \in Nat /\ proc[p].gen =< manifest.gen
      BY <1>4, ManifestFacts, ProcessFacts DEF IInv
    <3> QED BY <1>7, <2>1, <3>1 DEF Tombstoned
  <2> QED BY <1>1, <1>6, <1>15, <2>1 DEF Carried
<1>18. Stopping' BY <1>1, <1>4, <1>7, <1>15, <1>17 DEF Stopping
<1> QED BY <1>8, <1>9, <1>10, <1>11, <1>12, <1>13, <1>14, <1>16, <1>18 DEF IInv

-----------------------------------------------------------------------------
(* The invariant and the properties.                                         *)

\* A first daemon has nothing to reach.
LEMMA Initially == Init => IInv
<1> SUFFICES ASSUME Init PROVE IInv
  OBVIOUS
<1>1. /\ manifest = NoManifest /\ runtime = 0
      /\ proc = [p \in Pids |-> NoProcess] /\ intent = [i \in Intents |-> NoIntent]
      /\ up = TRUE /\ draining = FALSE
      /\ tracked = 0 /\ reserved = 0 /\ owner = 0 /\ future = 0
      /\ crashes = 0 /\ policy \in Policies /\ faults = 0 /\ lost = {}
      /\ loop = Idle /\ closer = NotClosing /\ run = Nobody /\ queue = <<>>
  BY DEF Init
<1>2. /\ \A p \in Pids : proc[p].state = "unused" /\ proc[p].watch = "off"
      /\ \A i \in Intents : intent[i] = NoIntent /\ intent[i].pc = "none"
      /\ loop.pc = "idle" /\ loop.target = 0 /\ closer.pc = "off" /\ closer.target = 0
      /\ manifest.desired = "none"
  BY <1>1 DEF NoProcess, NoIntent, Idle, NotClosing, NoManifest
<1>3. queue \in Seq(Tasks) BY <1>1, EmptySeq
<1>4. TypeOK
  <2>1. proc \in [Pids -> Process] /\ intent \in [Intents -> Intent] BY <1>1, Constants
  <2>2. 0 \in 0..MaxFaults /\ 0 \in Nat BY Constants
  <2>3. lost \subseteq Pids /\ up \in BOOLEAN /\ draining \in BOOLEAN BY <1>1
  <2> QED BY <1>1, <1>3, <2>1, <2>2, <2>3, Constants DEF TypeOK
<1>5. Kept = {} BY <1>2 DEF Kept, Alive
<1>6. Exclusive /\ Reserved BY <1>2 DEF Exclusive, Reserved, Spawning
<1>7. Covering /\ Restarting /\ Retired BY <1>1, <1>2 DEF Covering, Restarting, Retired, Callbacks
<1>8. Lives /\ Targeted /\ Marked BY <1>1, <1>2 DEF Lives, Targeted, Marked, Killing
<1>9. EveryProcessIsReachable /\ Stopping
  BY <1>5 DEF EveryProcessIsReachable, Stopping, Carried
<1> QED BY <1>4, <1>6, <1>7, <1>8, <1>9 DEF IInv

\* Every step keeps the invariant.
LEMMA Inductive == IInv /\ [Next]_vars => IInv'
<1> SUFFICES ASSUME IInv, [Next]_vars PROVE IInv'
  OBVIOUS
<1>1. CASE LoopStep
  <2>1. ASSUME NEW f \in Frame, Receives(f) PROVE IInv' BY <2>1, ReceivesKeeps
  <2>2. CASE SavesFrame BY <2>2, SavesFrameKeeps
  <2>3. CASE OrphanBatch BY <2>3, OrphanBatchKeeps
  <2>4. CASE StopsOrphan BY <2>4, StopsOrphanKeeps
  <2>5. CASE ReconcileLoads BY <2>5, ReconcileLoadsKeeps
  <2>6. CASE ReconcileStop BY <2>6, ReconcileStopKeeps
  <2>7. CASE ReconcileStart BY <2>7, ReconcileStartKeeps
  <2>8. CASE Dispatch BY <2>8, DispatchKeeps
  <2>9. CASE LoopKills BY <2>9, LoopKillsKeeps
  <2>10. CASE LoopKilled BY <2>10, LoopKilledKeeps
  <2>11. CASE DrainFrame BY <2>11, DrainFrameKeeps
  <2>12. ASSUME NEW i \in Intents, TokenGrant(i) PROVE IInv' BY <2>12, TokenGrantKeeps
  <2> QED BY <1>1, <2>1, <2>2, <2>3, <2>4, <2>5, <2>6, <2>7, <2>8, <2>9, <2>10, <2>11, <2>12
          DEF LoopStep
<1>2. ASSUME NEW i \in Intents, IntentGoesOn(i) \/ TokenTimesOut(i) \/ SpawnFails(i) PROVE IInv'
  <2>1. CASE IntentDrained(i) BY <2>1, IntentDrainedKeeps
  <2>2. CASE IntentEnters(i) BY <2>2, IntentEntersKeeps
  <2>3. CASE IntentResumes(i) BY <2>3, IntentResumesKeeps
  <2>4. CASE IntentChecks(i) BY <2>4, IntentChecksKeeps
  <2>5. CASE SpawnCreates(i) BY <2>5, SpawnCreatesKeeps
  <2>6. CASE SpawnRegisters(i) BY <2>6, SpawnRegistersKeeps
  <2>7. CASE RollBack(i) BY <2>7, RollBackKeeps
  <2>8. CASE IntentClears(i) BY <2>8, IntentClearsKeeps
  <2>9. CASE IntentReturns(i) BY <2>9, IntentReturnsKeeps
  <2>10. CASE IntentLeaves(i) BY <2>10, IntentLeavesKeeps
  <2>11. CASE TokenTimesOut(i) BY <2>11, TokenTimesOutKeeps
  <2>12. CASE SpawnFails(i) BY <2>12, SpawnFailsKeeps
  <2> QED BY <1>2, <2>1, <2>2, <2>3, <2>4, <2>5, <2>6, <2>7, <2>8, <2>9, <2>10, <2>11, <2>12
          DEF IntentGoesOn
<1>3. ASSUME NEW p \in Pids, WatcherGoesOn(p) \/ ProcessExits(p) PROVE IInv'
  <2>1. CASE WatcherNotices(p) BY <2>1, WatcherNoticesKeeps
  <2>2. CASE AgentStopped(p) BY <2>2, AgentStoppedKeeps
  <2>3. CASE AgentCrashed(p) BY <2>3, AgentCrashedKeeps
  <2>4. CASE CrashRestart(p) BY <2>4, CrashRestartKeeps
  <2>5. CASE GiveUp(p) BY <2>5, GiveUpKeeps
  <2>6. CASE ProcessExits(p) BY <2>6, ProcessExitsKeeps
  <2> QED BY <1>3, <2>1, <2>2, <2>3, <2>4, <2>5, <2>6 DEF WatcherGoesOn
<1>4. ASSUME NEW t \in Tasks, Waits(t) PROVE IInv' BY <1>4, WaitsKeeps
<1>5. CASE CloseBegins BY <1>5, CloseBeginsKeeps
<1>6. CASE CloseFences BY <1>6, CloseFencesKeeps
<1>7. CASE CloseKills BY <1>7, CloseKillsKeeps
<1>8. CASE CloseEnds BY <1>8, CloseEndsKeeps
<1>9. CASE DaemonDies BY <1>9, DaemonDiesKeeps
<1>10. CASE DaemonStarts BY <1>10, DaemonStartsKeeps
<1>11. CASE UNCHANGED vars BY <1>11, StutterKeeps
<1> QED BY <1>1, <1>2, <1>3, <1>4, <1>5, <1>6, <1>7, <1>8, <1>9, <1>10, <1>11 DEF Next

\* The inductive invariant holds of the daemon, whatever overlaps
\* (daemon.py, _message_loop, _request_token_and_spawn, spawner.py).
THEOREM Invariant == Spec => []IInv
<1> QED BY Initially, Inductive, PTL DEF Spec

\* Every map, task, queue and record of the daemon keeps its type.
THEOREM TypeCorrect == Spec => []TypeOK
<1>1. IInv => TypeOK BY DEF IInv
<1> QED BY <1>1, Invariant, PTL

\* All that lives on is one process, of the daemon or of the record it left.
LEMMA KeptIsOne ==
  ASSUME IInv
  PROVE  \E p : Kept \subseteq {p}
<1>1. \A p \in Kept : p \in Pids BY DEF Kept, Alive
<1>2. CASE ~up
  <2>1. \A i \in Intents : intent[i].pc = "none" BY <1>2 DEF IInv, Lives, NoIntent
  <2> QED BY <1>1, <1>2, <2>1, Constants DEF IInv, EveryProcessIsReachable, Lives
<1>3. CASE up /\ NobodySpawns
  BY <1>3 DEF IInv, EveryProcessIsReachable, NobodySpawns, Spawning
<1>4. CASE up /\ ~NobodySpawns
  <2>1. PICK i \in Intents : Spawning(i) BY <1>4 DEF NobodySpawns
  <2>2. tracked = 0 BY <2>1 DEF IInv, Reserved
  <2>3. \A j \in Intents : intent[j].pc = "created" => j = i
    BY <2>1 DEF IInv, Exclusive, Spawning
  <2>4. Kept \subseteq {intent[i].pid}
    BY <1>1, <1>4, <2>2, <2>3, Constants DEF IInv, EveryProcessIsReachable
  <2> QED BY <2>4
<1> QED BY <1>2, <1>3, <1>4

\* At most one process of the agent lives on the machine, and none is created
\* beside another (daemon.py, the spawn gate; spawner.py, spawn).
THEOREM OnlyOne == Spec => []OneProcess
<1>1. ASSUME IInv PROVE OneProcess
  <2>1. PICK p : Kept \subseteq {p} BY <1>1, KeptIsOne
  <2>2. IsFiniteSet({p}) /\ Cardinality({p}) = 1 BY FS_Singleton
  <2>3. Cardinality(Kept) =< 1 BY <2>1, <2>2, FS_Subset
  <2>4. \A i \in Intents : intent[i].pc = "creating" => tracked = 0
    BY <1>1 DEF IInv, Reserved, Spawning
  <2> QED BY <2>3, <2>4 DEF OneProcess
<1> QED BY <1>1, Invariant, PTL

\* No process escapes the daemon and its record (spawner.py, record_runtime,
\* adopt and _cleanup).
THEOREM NoneEscapes == Spec => []EveryProcessIsReachable
<1>1. IInv => EveryProcessIsReachable BY DEF IInv
<1> QED BY <1>1, Invariant, PTL

\* Once the loop has dealt with a stop nothing of its generation, or of an
\* earlier one, lives (daemon.py, _reconcile_agent and _stop_orphan).
THEOREM StopsHold == Spec => []TombstoneHolds
<1>1. IInv => TombstoneHolds
  <2> SUFFICES ASSUME IInv, up, loop.pc = "idle", ~draining, manifest.desired = "stopped",
                      policy.rule # "restart_anywhere"
               PROVE  \A p \in Kept : proc[p].gen > manifest.gen
    BY DEF TombstoneHolds
  <2>1. Kept = {} BY IdleIsDone
  <2> QED BY <2>1
<1> QED BY <1>1, Invariant, PTL
-----------------------------------------------------------------------------
(* What a shutdown leaves.                                                   *)

\* Once the token waits are cancelled the loop takes no more frames, so that nothing
\* it dispatched comes after the tasks that were waited for; and what the closing
\* kills stays what is tracked.
Closing ==
    /\ closer.pc \in {"gather", "kill", "closed"} => loop.pc = "idle"
    /\ closer.pc \in {"kill", "closed"} => Gathered
    /\ closer.target # 0 => tracked \in {0, closer.target}
    /\ closer.pc = "kill" => closer.target # 0

\* The loop does nothing more.
LEMMA LoopRests ==
  ASSUME IInv, Closing, LoopStep
  PROVE  closer' = closer /\ closer.pc \notin {"gather", "kill", "closed"}
<1>1. closer' = closer
  BY DEF LoopStep, Receives, SavesFrame, OrphanBatch, StopsOrphan, ReconcileLoads,
         ReconcileStop, ReconcileStart, Dispatch, LoopKills, LoopKilled, DrainFrame, TokenGrant
<1>2. closer.pc = "off" \/ loop.pc # "idle"
  BY DEF LoopStep, Receives, SavesFrame, OrphanBatch, StopsOrphan, ReconcileLoads, Killing,
         ReconcileStop, ReconcileStart, Dispatch, LoopKills, LoopKilled, DrainFrame, TokenGrant,
         Listening
<1> QED BY <1>1, <1>2 DEF Closing

\* No task of the loop comes back, and nothing is tracked anew while a process is killed.
LEMMA OthersGather ==
  ASSUME IInv,
         \/ \E i \in Intents : IntentGoesOn(i) \/ TokenTimesOut(i) \/ SpawnFails(i)
         \/ \E p \in Pids : WatcherGoesOn(p) \/ ProcessExits(p)
         \/ \E t \in Tasks : Waits(t)
  PROVE  /\ loop' = loop /\ closer' = closer
         /\ Gathered => Gathered'
         /\ closer.target # 0 => tracked' \in {0, tracked}
<1>1. intent \in [Intents -> Intent]
  BY DEF IInv, TypeOK
<1>2. ASSUME NEW i \in Intents, IntentGoesOn(i) \/ TokenTimesOut(i) \/ SpawnFails(i)
      PROVE  /\ loop' = loop /\ closer' = closer
             /\ Gathered => Gathered'
             /\ closer.target # 0 => tracked' \in {0, tracked}
  <2>1. loop' = loop /\ closer' = closer
    BY <1>2 DEF IntentGoesOn, TokenTimesOut, SpawnFails, IntentDrained, IntentEnters,
                IntentResumes, IntentChecks, SpawnCreates, SpawnRegisters, RollBack,
                IntentClears, IntentReturns, IntentLeaves
  <2>2. intent[i].pc # "none"
    BY <1>2 DEF IntentGoesOn, TokenTimesOut, SpawnFails, IntentDrained, IntentEnters,
                IntentResumes, IntentChecks, SpawnCreates, SpawnRegisters, RollBack,
                IntentClears, IntentReturns, IntentLeaves
  <2>3. \A j \in Intents : /\ j # i => intent'[j].pc = intent[j].pc /\ intent'[j].task = intent[j].task
                           /\ intent'[i].task \in {FALSE, intent[i].task}
    <3>1. CASE IntentEnters(i)
      <4> DEFINE new == [Fenced[i] EXCEPT !.pc = "waiting", !.token = "pending"]
      <4>1. \/ intent' = [intent EXCEPT ![i] = NoIntent]
            \/ intent' = [Fenced EXCEPT ![i] = new]
        BY <3>1 DEF IntentEnters
      <4>2. /\ Fenced \in [Intents -> Intent]
            /\ \A j \in Intents : Fenced[j].pc = intent[j].pc
        BY Fencing DEF IInv
      <4>3. \A j \in Intents : Fenced[j].task = intent[j].task
        BY <1>1 DEF Fenced, Intent
      <4>4. new.task = intent[i].task
        BY <4>2, <4>3 DEF Intent
      <4>5. NoIntent.task = FALSE
        BY DEF NoIntent
      <4> HIDE DEF Fenced, new
      <4>6. CASE intent' = [intent EXCEPT ![i] = NoIntent]
        BY <1>1, <4>5, <4>6
      <4>7. CASE intent' = [Fenced EXCEPT ![i] = new]
        BY <4>2, <4>3, <4>4, <4>7
      <4> QED BY <4>1, <4>6, <4>7
    <3>2. CASE IntentDrained(i) \/ IntentLeaves(i)
      <4>1. intent' = [intent EXCEPT ![i] = NoIntent]
        BY <3>2 DEF IntentDrained, IntentLeaves
      <4>2. NoIntent.task = FALSE
        BY DEF NoIntent
      <4> QED BY <1>1, <4>1, <4>2
    <3>3. ASSUME \/ IntentResumes(i) \/ IntentChecks(i) \/ SpawnCreates(i) \/ SpawnRegisters(i)
                 \/ RollBack(i) \/ IntentClears(i) \/ IntentReturns(i) \/ TokenTimesOut(i)
                 \/ SpawnFails(i)
          PROVE  /\ \A j \in Intents \ {i} : intent'[j] = intent[j]
                 /\ intent'[i].task = intent[i].task
      <4>1. PICK new : intent' = [intent EXCEPT ![i] = new] /\ new.task = intent[i].task
        <5>1. intent[i] \in Intent
          BY <1>1
        <5>2. CASE IntentResumes(i) \/ IntentChecks(i) \/ RollBack(i) \/ IntentClears(i)
                   \/ IntentReturns(i) \/ SpawnFails(i)
          <6>1. PICK pc : intent' = [intent EXCEPT ![i].pc = pc]
            BY <5>2 DEF IntentResumes, IntentChecks, RollBack, IntentClears, IntentReturns, SpawnFails
          <6> DEFINE row == [intent[i] EXCEPT !.pc = pc]
          <6>2. intent' = [intent EXCEPT ![i] = row] /\ row.task = intent[i].task
            BY <5>1, <6>1 DEF Intent
          <6> QED BY <6>2
        <5>3. CASE SpawnCreates(i)
          <6> DEFINE row == [intent[i] EXCEPT !.pc = "created", !.pid = NextPid]
          <6>1. intent' = [intent EXCEPT ![i] = row]
            BY <5>3 DEF SpawnCreates
          <6>2. row.task = intent[i].task
            BY <5>1 DEF Intent
          <6> HIDE DEF row
          <6> QED BY <6>1, <6>2
        <5>4. CASE SpawnRegisters(i)
          <6> DEFINE row == [intent[i] EXCEPT !.pc = "clear", !.pid = 0]
          <6>1. intent' = [intent EXCEPT ![i] = row]
            BY <5>4 DEF SpawnRegisters
          <6>2. row.task = intent[i].task
            BY <5>1 DEF Intent
          <6> HIDE DEF row
          <6> QED BY <6>1, <6>2
        <5>5. CASE TokenTimesOut(i)
          <6> DEFINE row == [intent[i] EXCEPT !.pc = "rollback", !.token = "late"]
          <6>1. intent' = [intent EXCEPT ![i] = row]
            BY <5>5 DEF TokenTimesOut
          <6>2. row.task = intent[i].task
            BY <5>1 DEF Intent
          <6> HIDE DEF row
          <6> QED BY <6>1, <6>2
        <5> QED BY <3>3, <5>2, <5>3, <5>4, <5>5
      <4> QED BY <1>1, <4>1
    <3> QED BY <1>2, <3>1, <3>2, <3>3 DEF IntentGoesOn
  <2>4. Gathered => Gathered'
    BY <2>2, <2>3 DEF Gathered
  <2>5. SpawnRegisters(i) => closer.target = 0
    BY DEF SpawnRegisters, IInv, Marked, NobodySpawns, Spawning
  <2>6. ~SpawnRegisters(i) => tracked' = tracked
    BY <1>2 DEF IntentGoesOn, TokenTimesOut, SpawnFails, IntentDrained, IntentEnters,
                IntentResumes, IntentChecks, SpawnCreates, RollBack,
                IntentClears, IntentReturns, IntentLeaves
  <2> QED BY <2>1, <2>4, <2>5, <2>6
<1>3. ASSUME NEW p \in Pids, WatcherGoesOn(p) \/ ProcessExits(p)
      PROVE  /\ loop' = loop /\ closer' = closer
             /\ Gathered => Gathered'
             /\ closer.target # 0 => tracked' \in {0, tracked}
  <2>1. loop' = loop /\ closer' = closer /\ tracked' \in {0, tracked}
    BY <1>3 DEF WatcherGoesOn, ProcessExits, WatcherNotices, AgentStopped, AgentCrashed,
                CrashRestart, GiveUp
  <2>2. intent' = intent \/ NewIntent(proc[p].next, FALSE)
    BY <1>3 DEF WatcherGoesOn, ProcessExits, WatcherNotices, AgentStopped, AgentCrashed,
                CrashRestart, GiveUp
  <2>3. ASSUME NewIntent(proc[p].next, FALSE), Gathered PROVE Gathered'
    <3>1. intent' = [intent EXCEPT ![NextIntent] =
                       [NoIntent EXCEPT !.pc = "new", !.gen = proc[p].next, !.task = FALSE]]
      BY <2>3 DEF NewIntent
    <3>2. \A j \in Intents : intent'[j] = intent[j] \/ intent'[j].task = FALSE
      BY <1>1, <3>1 DEF NoIntent
    <3> QED BY <2>3, <3>2 DEF Gathered
  <2> QED BY <2>1, <2>2, <2>3 DEF Gathered
<1>4. ASSUME NEW t \in Tasks, Waits(t)
      PROVE  /\ loop' = loop /\ closer' = closer
             /\ Gathered => Gathered'
             /\ closer.target # 0 => tracked' \in {0, tracked}
  BY <1>4 DEF Waits, Gathered
<1> QED BY <1>2, <1>3, <1>4
LEMMA ClosingStep == ASSUME IInv, Closing, [Next]_vars PROVE Closing'
<1>1. /\ closer.target # 0 => closer.pc = "kill"
      /\ ~up => closer = NotClosing
  BY DEF IInv, Marked, Lives
<1>2. ASSUME LoopStep PROVE Closing'
  BY <1>1, <1>2, LoopRests DEF Closing
<1>3. ASSUME \/ \E i \in Intents : IntentGoesOn(i) \/ TokenTimesOut(i) \/ SpawnFails(i)
             \/ \E p \in Pids : WatcherGoesOn(p) \/ ProcessExits(p)
             \/ \E t \in Tasks : Waits(t)
      PROVE  Closing'
  BY <1>3, OthersGather DEF Closing
<1>4. ASSUME CloseBegins PROVE Closing'
  <2>1. closer.pc = "off" /\ closer' = [closer EXCEPT !.pc = "waiting"]
    BY <1>4 DEF CloseBegins
  <2>2. closer \in Closer
    BY DEF IInv, TypeOK
  <2>3. closer'.pc = "waiting" /\ closer'.target = 0
    BY <1>1, <2>1, <2>2 DEF Closer
  <2> QED BY <2>3 DEF Closing
<1>5. ASSUME CloseFences PROVE Closing'
  <2>1. /\ closer.pc = "waiting" /\ closer' = [closer EXCEPT !.pc = "gather"]
        /\ loop.pc = "idle" /\ loop' = loop
    BY <1>5 DEF CloseFences
  <2>2. closer \in Closer
    BY DEF IInv, TypeOK
  <2>3. closer'.pc = "gather" /\ closer'.target = 0
    BY <1>1, <2>1, <2>2 DEF Closer
  <2> QED BY <2>1, <2>3 DEF Closing
<1>6. ASSUME CloseKills PROVE Closing'
  <2>1. /\ closer.pc = "gather" /\ Gathered /\ loop' = loop /\ intent' = intent
        /\ \/ closer' = [closer EXCEPT !.pc = "closed"]
           \/ closer' = [pc |-> "kill", target |-> tracked] /\ tracked' = tracked /\ tracked # 0
    BY <1>6 DEF CloseKills
  <2>2. closer \in Closer
    BY DEF IInv, TypeOK
  <2>3. \/ closer'.target = 0 /\ closer'.pc = "closed"
        \/ closer'.target = tracked /\ tracked' = tracked /\ tracked # 0
    BY <1>1, <2>1, <2>2 DEF Closer
  <2>4. loop.pc = "idle" /\ Gathered'
    BY <2>1 DEF Closing, Gathered
  <2> QED BY <2>1, <2>3, <2>4 DEF Closing
<1>7. ASSUME CloseEnds PROVE Closing'
  <2>1. /\ closer.pc = "kill" /\ closer' = [pc |-> "closed", target |-> 0]
        /\ loop' = loop /\ intent' = intent
    BY <1>7 DEF CloseEnds
  <2> QED BY <2>1 DEF Closing, Gathered
<1>8. ASSUME DaemonDies PROVE Closing'
  BY <1>8 DEF DaemonDies, NotClosing, Closing
<1>9. ASSUME DaemonStarts PROVE Closing'
  BY <1>1, <1>9 DEF DaemonStarts, NotClosing, Closing
<1>10. ASSUME UNCHANGED vars PROVE Closing'
  BY <1>10 DEF vars, disk, maps, sched, host, Closing, Gathered
<1> QED
  BY <1>2, <1>3, <1>4, <1>5, <1>6, <1>7, <1>8, <1>9, <1>10 DEF Next

\* Only an intent makes a process.
LEMMA NoneComesAlive ==
  ASSUME IInv, closer' = closer,
         \/ \E i \in Intents : IntentGoesOn(i) \/ TokenTimesOut(i) \/ SpawnFails(i)
         \/ \E p \in Pids : WatcherGoesOn(p) \/ ProcessExits(p)
         \/ \E t \in Tasks : Waits(t),
         \A i \in Intents : intent[i].pc # "creating"
  PROVE  Kept' \subseteq Kept
<1>1. proc \in [Pids -> Process]
  BY DEF IInv, TypeOK
<1>2. ASSUME NEW i \in Intents, IntentGoesOn(i) \/ TokenTimesOut(i) \/ SpawnFails(i)
      PROVE  Kept' \subseteq Kept
  <2>1. ~SpawnCreates(i)
    BY DEF SpawnCreates
  <2>2. CASE SpawnRegisters(i)
    <3>1. \A p \in Pids : proc'[p].state = proc[p].state
      BY <1>1, <2>2 DEF SpawnRegisters, Process
    <3>2. lost' = lost
      BY <2>2 DEF SpawnRegisters, host
    <3> QED BY <3>1, <3>2 DEF Kept, Alive
  <2>3. CASE ~SpawnRegisters(i)
    <3>1. proc' = proc /\ lost' = lost
      BY <1>2, <2>1, <2>3 DEF IntentGoesOn, TokenTimesOut, SpawnFails, IntentDrained,
           IntentEnters, IntentResumes, IntentChecks, RollBack, IntentClears, IntentReturns,
           IntentLeaves, host
    <3> QED BY <3>1, SameKept
  <2> QED BY <2>2, <2>3
<1>3. ASSUME NEW p \in Pids, WatcherGoesOn(p) \/ ProcessExits(p)
      PROVE  Kept' \subseteq Kept
  <2>1. PICK row : proc' = [proc EXCEPT ![p] = row] /\ row.state \in {"dead", proc[p].state}
    <3>1. CASE ProcessExits(p) \/ GiveUp(p) \/ AgentStopped(p) \/ CrashRestart(p)
      <4>1. Gone.state = "dead"
        BY DEF Gone, NoProcess
      <4> DEFINE ended == [proc[p] EXCEPT !.state = "dead"]
      <4>2. ended.state = "dead"
        BY <1>1 DEF Process
      <4>3. proc' = [proc EXCEPT ![p] = ended] \/ proc' = [proc EXCEPT ![p] = Gone]
        BY <3>1 DEF ProcessExits, GiveUp, AgentStopped, CrashRestart
      <4> HIDE DEF ended
      <4> QED BY <4>1, <4>2, <4>3
    <3>2. CASE WatcherNotices(p)
      <4>1. Gone.state = "dead" /\ \A w : [Gone EXCEPT !.watch = w].state = "dead"
        BY DEF Gone, NoProcess
      <4> DEFINE quiet == [proc[p] EXCEPT !.watch = "off"]
      <4>2. quiet.state = proc[p].state
        BY <1>1 DEF Process
      <4>3. \/ proc' = [proc EXCEPT ![p] = quiet] \/ proc' = [proc EXCEPT ![p] = Gone]
            \/ \E w : proc' = [proc EXCEPT ![p] = [Gone EXCEPT !.watch = w]]
        BY <3>2 DEF WatcherNotices
      <4> HIDE DEF quiet
      <4> QED BY <4>1, <4>2, <4>3
    <3>3. CASE AgentCrashed(p)
      <4>1. Gone.state = "dead"
        BY DEF Gone, NoProcess
      <4> DEFINE again == [proc[p] EXCEPT !.watch = "again", !.next = manifest.gen]
                 giving == [proc[p] EXCEPT !.watch = "giving"]
      <4>2. again.state = proc[p].state /\ giving.state = proc[p].state
        BY <1>1 DEF Process
      <4>3. \/ proc' = [proc EXCEPT ![p] = again] \/ proc' = [proc EXCEPT ![p] = Gone]
            \/ proc' = [proc EXCEPT ![p] = giving]
        BY <3>3 DEF AgentCrashed
      <4> HIDE DEF again, giving
      <4> QED BY <4>1, <4>2, <4>3
    <3> QED BY <1>3, <3>1, <3>2, <3>3 DEF WatcherGoesOn
  <2>2. lost' = lost
    BY <1>3 DEF WatcherGoesOn, ProcessExits, WatcherNotices, AgentStopped, AgentCrashed,
                CrashRestart, GiveUp, host
  <2>3. \A q \in Pids : proc'[q].state = "alive" => proc[q].state = "alive"
    BY <1>1, <2>1
  <2> QED BY <2>2, <2>3 DEF Kept, Alive
<1>4. ASSUME NEW t \in Tasks, Waits(t) PROVE Kept' \subseteq Kept
  BY <1>4, SameKept DEF Waits, host
<1> QED BY <1>2, <1>3, <1>4

\* What is killed was all there was.
LEMMA KillLeavesNothing ==
  ASSUME IInv, up, NobodySpawns, lost' = lost,
         \/ tracked = 0 /\ proc' = proc
         \/ \E p \in Pids : tracked \in {0, p} /\ Kill(p)
  PROVE  Kept' = {}
<1>1. \A q \in Kept : tracked # 0 /\ q = tracked
  BY Constants DEF IInv, EveryProcessIsReachable, NobodySpawns, Spawning, Kept, Alive
<1>2. CASE tracked = 0 /\ proc' = proc
  BY <1>1, <1>2, SameKept
<1>3. ASSUME NEW p \in Pids, tracked \in {0, p}, Kill(p) PROVE Kept' = {}
  <2>1. proc'[p] = Gone /\ \A q \in Pids \ {p} : proc'[q] = proc[q]
    BY <1>3, Killed DEF IInv
  <2>2. Gone.state # "alive"
    BY DEF Gone, NoProcess
  <2>3. ASSUME NEW q \in Kept' PROVE FALSE
    <3>1. q \in Pids /\ q # p /\ q \in Kept
      BY <2>1, <2>2, <2>3 DEF Kept, Alive
    <3> QED BY <1>1, <1>3, <3>1
  <2> QED BY <2>3
<1> QED BY <1>2, <1>3

\* A shutdown that is confirmed leaves no process, and none is created afterwards
\* (daemon.py, close_local_execution), unless a restart after a crash is under way.
THEOREM ClosingLeavesNothing == Spec => ClosedMeansGone
<1> DEFINE Leaves == closer'.pc = "closed" /\ (closer.pc = "closed" => Kept = {}) /\ ~Restarts
                       => Kept' = {}
<1>1. Init => Closing
  BY DEF Init, Closing, NotClosing
<1>2. IInv /\ Closing /\ [Next]_vars => Closing'
  BY ClosingStep
<1>3. ASSUME IInv, Closing, Next, closer'.pc = "closed", closer.pc = "closed" => Kept = {},
             ~Restarts
      PROVE  Kept' = {}
  <2>1. ~up => closer.pc = "off"
    BY <1>3 DEF IInv, Lives, NotClosing
  <2>2. ~LoopStep
    BY <1>3, LoopRests
  <2>3. CASE \/ \E i \in Intents : IntentGoesOn(i) \/ TokenTimesOut(i) \/ SpawnFails(i)
             \/ \E p \in Pids : WatcherGoesOn(p) \/ ProcessExits(p)
             \/ \E t \in Tasks : Waits(t)
    <3>1. closer' = closer
      BY <1>3, <2>3, OthersGather
    <3>2. \A i \in Intents : intent[i].pc # "creating"
      BY <1>3, <3>1 DEF Closing, Gathered, Restarts
    <3>3. Kept' \subseteq Kept
      BY <1>3, <2>3, <3>1, <3>2, NoneComesAlive
    <3> QED BY <1>3, <3>1, <3>3
  <2>4. CASE CloseKills
    <3>1. closer.pc = "gather" /\ Gathered /\ lost' = lost
      BY <2>4 DEF CloseKills, host
    <3>2. up
      BY <2>1, <3>1
    <3>3. NobodySpawns
      BY <1>3, <3>1 DEF Gathered, Restarts, NobodySpawns, Spawning
    <3>4. \/ tracked = 0 /\ proc' = proc
          \/ tracked \in Pids /\ Kill(tracked)
      BY <1>3, <2>4 DEF CloseKills, IInv, TypeOK
    <3> QED BY <1>3, <3>1, <3>2, <3>3, <3>4, KillLeavesNothing
  <2>5. CASE CloseEnds
    <3>1. closer.pc = "kill" /\ Kill(closer.target) /\ lost' = lost
      BY <2>5 DEF CloseEnds, host
    <3>2. up
      BY <2>1, <3>1
    <3>3. closer.target \in Pids
      BY <1>3, <3>1 DEF IInv, TypeOK, Closer, Closing
    <3>4. tracked \in {0, closer.target} /\ NobodySpawns
      BY <1>3, <3>3, Constants DEF Closing, IInv, Marked
    <3> QED BY <1>3, <3>1, <3>2, <3>3, <3>4, KillLeavesNothing
  <2>6. CASE CloseBegins \/ CloseFences
    <3>1. \/ closer' = [closer EXCEPT !.pc = "waiting"]
          \/ closer' = [closer EXCEPT !.pc = "gather"]
      BY <2>6 DEF CloseBegins, CloseFences
    <3>2. closer \in Closer
      BY <1>3 DEF IInv, TypeOK
    <3>3. closer'.pc # "closed"
      BY <3>1, <3>2 DEF Closer
    <3> QED BY <1>3, <3>3
  <2>7. CASE DaemonDies \/ DaemonStarts
    <3>1. closer' = NotClosing \/ (~up /\ closer' = closer)
      BY <2>7 DEF DaemonDies, DaemonStarts
    <3>2. closer'.pc = "off"
      BY <2>1, <3>1 DEF NotClosing
    <3> QED BY <1>3, <3>2
  <2> QED BY <1>3, <2>2, <2>3, <2>4, <2>5, <2>6, <2>7 DEF Next
<1>4. IInv /\ Closing /\ [Next]_vars => [Leaves]_vars
  BY <1>3
<1> HIDE DEF Leaves
<1>5. Spec => [][Leaves]_vars
  BY <1>1, <1>2, <1>4, Invariant, PTL DEF Spec
<1> QED BY <1>5 DEF Leaves, ClosedMeansGone
=============================================================================
