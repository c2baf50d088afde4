--------------------------- MODULE AgentGeneration ---------------------------
(***************************************************************************)
(* The agent's generation, the number every attempt, process and report is *)
(* fenced by: bump_generation and release_generation_drain (a change of    *)
(* configuration drains the leases of the old generation first),           *)
(* request_start, request_stop and handle_report_actual_state, with the    *)
(* daemon's manifest fence and the agent's subscription, from how the      *)
(* server uses them.  The agent is placed on one machine with capacity.    *)
(* pending = 0 stands for pending_generation IS NULL.  acked says that the *)
(* start was acknowledged, so that its lifecycle lease is free again.      *)
(***************************************************************************)
EXTENDS TurnStore

\* Only an intent nobody has been handed moves to another generation.
MovesWithGeneration(t, n) ==
    /\ attempt[t][n].state = "pending"
    /\ n = turn[t].active /\ Open(t) /\ ~turn[t].accepted
    /\ gate.member /\ gate.open

RemapPending(old, new) ==
    [t \in Turns |-> [n \in AttemptNumbers |->
        IF attempt[t][n].gen = old /\ MovesWithGeneration(t, n)
        THEN [attempt[t][n] EXCEPT !.gen = new] ELSE attempt[t][n]]]

NoDrain(a) == [a EXCEPT !.pending = 0, !.pendingManifest = "none", !.deadline = "none"]

\* The frame goes out after the commit: it may be overtaken by later ones.
SendOrder(g, desired) == orders' = orders \cup {[gen |-> g, desired |-> desired]}

-----------------------------------------------------------------------------
EditConfig(m) ==
    /\ config' = m /\ m # config
    /\ UNCHANGED <<turnVars, wireVars, agent, bump, orders, daemon, session, gate, faults>>

\* What bump_generation decides from what it read: a stopped agent only counts
\* the change; a change taken back before its drain ended cancels the drain;
\* while leases are held the next generation is asked for; else it comes now.
BumpKind ==
    IF agent.desired = "stopped" THEN "stopped"
    ELSE IF config = agent.manifest THEN IF agent.pending # 0 THEN "cancel" ELSE "none"
    ELSE IF config = agent.pendingManifest THEN "none"
    ELSE IF ActiveLeases(agent.generation) # {} THEN "drain" ELSE "now"

BumpDecision == [kind |-> BumpKind, generation |-> agent.generation,
                 pending |-> agent.pending, manifest |-> config]

\* The writes: absolute values computed from what was read.  "now" leaves a
\* drain that was asked for earlier on record.
BumpWrites(b) ==
    LET next == b.generation + 1
        wanted == IF b.pending = 0 THEN next ELSE b.pending + 1 IN
    /\ \/ /\ b.kind = "stopped" /\ next =< MaxGeneration
          /\ agent' = [agent EXCEPT !.generation = next]
          /\ attempt' = RemapPending(b.generation, next) /\ UNCHANGED orders
       \/ /\ b.kind = "cancel"
          /\ agent' = NoDrain(agent)
          /\ attempt' = RemapPending(b.pending, b.generation) /\ UNCHANGED orders
       \/ /\ b.kind = "drain" /\ wanted =< MaxGeneration
          /\ agent' = [agent EXCEPT !.pending = wanted, !.pendingManifest = b.manifest,
                                    !.deadline = "set"]
          /\ attempt' = IF b.pending # 0 THEN RemapPending(b.pending, wanted) ELSE attempt
          /\ UNCHANGED orders
       \/ /\ b.kind = "now" /\ next =< MaxGeneration
          /\ agent' = [agent EXCEPT !.generation = next, !.manifest = b.manifest]
          /\ attempt' = RemapPending(b.generation, next) /\ SendOrder(next, "running")
    /\ UNCHANGED <<turn, outbox, posted, wireVars, config, daemon, session, gate, faults>>

\* bump_generation takes no write lock before it reads the agent and counts the
\* leases: what others commit until it writes escapes it.
BumpReads ==
    /\ bump = NoBump /\ BumpKind # "none"
    /\ bump' = BumpDecision
    /\ UNCHANGED <<turnVars, wireVars, agent, config, orders, daemon, session, gate, faults>>

BumpLands == bump # NoBump /\ bump' = NoBump /\ BumpWrites(bump)

MutDrainedAnyway == TRUE

\* The old generation has no lease left.
Drained == ActiveLeases(agent.generation) = {}

ReleaseGenerationDrain ==
    /\ agent.pending # 0 /\ Drained
    /\ agent' = NoDrain([agent EXCEPT !.generation = agent.pending,
                                      !.manifest = agent.pendingManifest])
    /\ attempt' = RemapPending(agent.generation, agent.pending)
    /\ IF agent.desired = "running" THEN SendOrder(agent.pending, "running")
                                    ELSE UNCHANGED orders
    /\ UNCHANGED <<turn, outbox, posted, wireVars, config, bump, daemon, session, gate, faults>>

DeadlinePasses ==
    /\ agent.deadline = "set"
    /\ agent' = [agent EXCEPT !.deadline = "passed"]
    /\ UNCHANGED <<turnVars, wireVars, config, bump, orders, daemon, session, gate, faults>>

-----------------------------------------------------------------------------
\* A start that is still unacknowledged is only sent again, in its generation.
RequestStart ==
    /\ Restarts
    /\ ~(agent.desired = "running" /\ agent.actual = "running")
    /\ IF agent.acked
       THEN /\ agent.generation < MaxGeneration
            /\ agent' = NoDrain([agent EXCEPT !.desired = "running", !.actual = "pending",
                                              !.generation = @ + 1, !.acked = FALSE,
                                              !.manifest = config])
       ELSE agent' = [agent EXCEPT !.manifest = config]
    /\ SendOrder(agent'.generation, "running")
    /\ UNCHANGED <<turnVars, wireVars, config, bump, daemon, session, gate, faults>>

\* A stop advances the generation: a delayed running frame is older than it.
RequestStop ==
    /\ Restarts /\ agent.generation < MaxGeneration
    /\ agent' = NoDrain([agent EXCEPT
          !.desired = "stopped", !.generation = @ + 1, !.acked = TRUE,
          !.actual = IF @ \in {"running", "pending"} THEN "stopping" ELSE @])
    /\ SendOrder(agent'.generation, "stopped")
    /\ UNCHANGED <<turnVars, wireVars, config, bump, daemon, session, gate, faults>>

\* A report counts only for the current generation; while a stop is under way
\* a living process is an observation of the past and a crash is the stop.
ReportActualState ==
    LET seen == IF daemon.up THEN "running" ELSE "crashed" IN
    /\ daemon.mark = agent.generation
    /\ \/ /\ agent.desired = "running"
          /\ agent' = [agent EXCEPT !.actual = seen, !.acked = TRUE]
       \/ /\ agent.desired = "stopped" /\ seen = "crashed"
          /\ agent' = [agent EXCEPT !.actual = "stopped"]
    /\ agent' # agent
    /\ UNCHANGED <<turnVars, wireVars, config, bump, orders, daemon, session, gate, faults>>

-----------------------------------------------------------------------------
MutNoWatermark(o) == o.gen # daemon.mark

\* The manifest on the machine's disk is a high-watermark: an older order is
\* stale, and a start of the same generation cannot revive a stopped one.
DaemonAccepts(o) ==
    \/ o.gen > daemon.mark
    \/ o.gen = daemon.mark /\ daemon.desired = "running" /\ o.desired = "stopped"

\* The order is saved and reconciled: the process of an older generation is
\* replaced, a stopped one ends.
DaemonApplies(o) ==
    /\ DaemonAccepts(o)
    /\ daemon' = [mark |-> o.gen, desired |-> o.desired, up |-> o.desired = "running"]
    /\ session' = Disconnected
    /\ UNCHANGED <<turnVars, wireVars, agent, config, bump, orders, gate, faults>>

ProcessCrashes ==
    /\ daemon.up /\ Fault
    /\ daemon' = [daemon EXCEPT !.up = FALSE]
    /\ session' = Disconnected
    /\ UNCHANGED <<turnVars, wireVars, agent, config, bump, orders, gate>>

ProcessRestarts ==
    /\ ~daemon.up /\ daemon.desired = "running"
    /\ daemon' = [daemon EXCEPT !.up = TRUE]
    /\ UNCHANGED <<turnVars, wireVars, agent, config, bump, orders, session, gate, faults>>

\* A newer subscription of the agent supersedes the older one.
Subscribe(legacy) ==
    /\ daemon.up /\ ~session.up
    /\ session' = [up |-> TRUE, legacy |-> legacy, gen |-> daemon.mark]
    /\ UNCHANGED <<turnVars, wireVars, agent, config, bump, orders, daemon, gate, faults>>

Unsubscribe ==
    /\ session.up /\ Fault
    /\ session' = Disconnected
    /\ UNCHANGED <<turnVars, wireVars, agent, config, bump, orders, daemon, gate>>

\* Membership or the workspace lease ends, the room is archived, the budget of
\* the scope reaches its hard stop.
RevokeGate(which) ==
    /\ gate[which]
    /\ gate' = [gate EXCEPT ![which] = FALSE]
    /\ UNCHANGED <<turnVars, wireVars, hostVars, faults>>

GenerationStep ==
    \/ \E m \in Manifests : EditConfig(m)
    \/ BumpReads \/ BumpLands \/ ReleaseGenerationDrain \/ DeadlinePasses
    \/ RequestStart \/ RequestStop \/ ReportActualState
    \/ \E o \in orders : DaemonApplies(o)
    \/ ProcessCrashes \/ ProcessRestarts
    \/ \E legacy \in {FALSE} \cup {LegacyClients} : Subscribe(legacy)
    \/ Unsubscribe
    \/ \E which \in Revocable : RevokeGate(which)
=============================================================================
