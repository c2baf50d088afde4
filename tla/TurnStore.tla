------------------------------ MODULE TurnStore ------------------------------
(***************************************************************************)
(* The rows a durable turn is made of, and what every operation on them    *)
(* reads.  One agent serves one room: a turn is the n-th message of the    *)
(* room that was addressed to the agent, so turns are numbered in the      *)
(* order of Message.seq.  Times are abstracted to what the code compares:  *)
(* a lease is held or expired, an outbox row is due or not, the deadline   *)
(* of a generation drain is unset, set or passed.  A lease token is        *)
(* unguessable and drawn once per attempt, so it is the attempt itself.    *)
(* A transaction that opens with BEGIN IMMEDIATE or takes the turn's row   *)
(* lock in a savepoint is one step.                                        *)
(***************************************************************************)
EXTENDS Naturals, FiniteSets

CONSTANTS
    NumTurns,       \* how many messages are addressed to the agent
    MaxRetries,     \* AgentTurn.max_retries, the lease-recovery budget
    MaxTransient,   \* MAX_TRANSIENT_RETRIES, the transient-failure budget
    Redispatches,   \* retry_count values a turn may be created with
    MaxGeneration,  \* bound: the highest generation that is explored
    MaxFaults,      \* bound: crashes, disconnections and lost frames explored
    Manifests,      \* effective runtime configurations of the agent
    Frames,         \* what an agent may say about a turn it was handed
    Revocable,      \* gates that may be revoked: member, open, budget
    LegacyClients,  \* whether clients without turn proofs take part
    Restarts        \* whether an operator stops and starts the agent

ASSUME TurnStoreAssumption ==
    /\ NumTurns \in Nat /\ MaxRetries \in Nat /\ MaxTransient \in Nat
    /\ MaxGeneration \in Nat \ {0} /\ MaxFaults \in Nat
    /\ Redispatches \subseteq Nat /\ Redispatches # {}
    /\ IsFiniteSet(Manifests) /\ Manifests # {}
    /\ Frames \subseteq {"reply", "draft", "started", "permit", "ok", "cancelled",
                        "skipped", "transient", "permanent"}
    /\ Revocable \subseteq {"member", "open", "budget"}
    /\ LegacyClients \in BOOLEAN /\ Restarts \in BOOLEAN

Turns == 1..NumTurns
AttemptNumbers == 1..(MaxRetries + MaxTransient + 1)
Generations == 0..MaxGeneration

VARIABLES
    turn,      \* AgentTurn rows
    attempt,   \* AgentTurnAttempt rows, by turn and attempt_number
    outbox,    \* AgentTurnOutbox rows, one per attempt
    posted,    \* messages a turn made visible: replies and failure notices
    flight,    \* deliveries past their claim: about to be sent or confirmed
    received,  \* turn proofs the agent has ever been handed
    picked,    \* attempts a recovery pass selected and has not visited yet
    agent,     \* the Agent row
    config,    \* the configuration the next materialized manifest is built of
    bump,      \* what a bump_generation under way has decided to write
    orders,    \* desired-state frames sent to the machine, delivered late or never
    daemon,    \* the machine daemon: generation fence and agent process
    session,   \* the agent's subscription to the room
    gate,      \* authorization: membership, open room, budget
    faults     \* faults so far

turnVars == <<turn, attempt, outbox, posted>>
wireVars == <<flight, received, picked>>
hostVars == <<agent, config, bump, orders, daemon, session>>
vars == <<turn, attempt, outbox, posted, flight, received, picked,
          agent, config, bump, orders, daemon, session, gate, faults>>

-----------------------------------------------------------------------------
ActiveAttemptStates == {"leased", "started"}
OpenTurnStates == {"pending", "leased", "retrying"}
TerminalTurnStates == {"completed", "cancelled", "failed"}
AttemptStates == {"none", "pending", "interrupted"}
                     \cup ActiveAttemptStates \cup TerminalTurnStates

TurnRecord == [state: {"none"} \cup OpenTurnStates \cup TerminalTurnStates,
               active: Nat, retries: Nat, accepted: BOOLEAN, protocol: {0, 1}]
AttemptRecord == [state: AttemptStates, gen: Generations,
                  lease: {"none", "held", "expired"},
                  reason: {"none", "transient", "explicit"},
                  native: BOOLEAN, spent: BOOLEAN]
\* A pending row is due once its available_at has come.
PendingRowStates == {"waiting", "due"}
RowStates == {"none", "delivered", "cancelled"} \cup PendingRowStates
PostedRecord == [reply: Nat, notice: Nat]
Proof == [t: Turns, n: AttemptNumbers, g: Generations, legacy: BOOLEAN]
Delivery == [proof: Proof, n: AttemptNumbers, step: {"send", "confirm"}]
AgentRecord == [desired: {"running", "stopped"},
                actual: {"pending", "running", "crashed", "stopping", "stopped"},
                generation: Generations, pending: Generations, acked: BOOLEAN,
                manifest: Manifests, pendingManifest: Manifests \cup {"none"},
                deadline: {"none", "set", "passed"}]
Order == [gen: Generations, desired: {"running", "stopped"}]
DaemonRecord == [mark: Generations, desired: {"running", "stopped"}, up: BOOLEAN]
SessionRecord == [up: BOOLEAN, legacy: BOOLEAN, gen: Generations]
BumpRecord == [kind: {"none", "stopped", "cancel", "drain", "now"},
               generation: Generations, pending: Generations,
               manifest: Manifests \cup {"none"}]
GateRecord == [member: BOOLEAN, open: BOOLEAN, budget: BOOLEAN]

NoTurn == [state |-> "none", active |-> 0, retries |-> 0,
           accepted |-> FALSE, protocol |-> 1]
NoAttempt == [state |-> "none", gen |-> 0, lease |-> "none",
              reason |-> "none", native |-> FALSE, spent |-> FALSE]
NoBump == [kind |-> "none", generation |-> 0, pending |-> 0, manifest |-> "none"]
NewAttempt(g) == [NoAttempt EXCEPT !.state = "pending", !.gen = g]
\* An attempt that ended: its lease, reason and permit are never read again.
Ended(a, state) == [NoAttempt EXCEPT !.state = state, !.gen = a.gen, !.spent = a.spent]

-----------------------------------------------------------------------------
Open(t) == turn[t].state \in OpenTurnStates
Active(t, n) == attempt[t][n].state \in ActiveAttemptStates

\* The participant still has an execution role and its workspace lease, the
\* room is not archived and the agent is wanted running.
Authorized == gate.member /\ gate.open /\ agent.desired = "running"

\* Transient retries the turn spent on attempts before number n.
TransientUsed(t, n) ==
    Cardinality({m \in AttemptNumbers : m < n /\ attempt[t][m].spent})

\* Leases still held at generation g, whatever the state of their turn.
ActiveLeases(g) ==
    {x \in Turns \X AttemptNumbers : Active(x[1], x[2]) /\ attempt[x[1]][x[2]].gen = g}

Fault == faults < MaxFaults /\ faults' = faults + 1
Disconnected == [up |-> FALSE, legacy |-> FALSE, gen |-> 0]
=============================================================================
