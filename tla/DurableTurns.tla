---------------------------- MODULE DurableTurns ----------------------------
(***************************************************************************)
(* The durable-turn engine of a general room: dispatch, outcome, recovery  *)
(* and the agent's generations over one store, interleaved freely.         *)
(***************************************************************************)
EXTENDS TurnDispatch, TurnRecovery, AgentGeneration

\* A running agent of generation 1, connected or about to connect.
Init ==
    /\ turn = [t \in Turns |-> NoTurn]
    /\ attempt = [t \in Turns |-> [n \in AttemptNumbers |-> NoAttempt]]
    /\ outbox = [t \in Turns |-> [n \in AttemptNumbers |-> "none"]]
    /\ posted = [t \in Turns |-> [reply |-> 0, notice |-> 0]]
    /\ flight = {} /\ received = {} /\ picked = {}
    /\ config \in Manifests /\ bump = NoBump
    /\ agent = [desired |-> "running", actual |-> "running", generation |-> 1,
                pending |-> 0, acked |-> TRUE, manifest |-> config,
                pendingManifest |-> "none", deadline |-> "none"]
    /\ orders = {[gen |-> 1, desired |-> "running"]}
    /\ daemon = [mark |-> 1, desired |-> "running", up |-> TRUE]
    /\ session = Disconnected
    /\ gate = [member |-> TRUE, open |-> TRUE, budget |-> TRUE]
    /\ faults = 0

Next == DispatchStep \/ OutcomeStep \/ RecoveryStep \/ GenerationStep

Spec == Init /\ [][Next]_vars

\* What the server, the daemon and the clock keep doing.  The recovery worker
\* runs its pass forever, so does every delivery it starts; leases, back-offs
\* and drain deadlines end; the daemon reconciles and reports periodically, its
\* supervisor restarts the process and the agent subscribes again.  An agent
\* does not signal a turn at every single pass forever (its handler is bounded
\* by turn_timeout_sec): that is the one strong assumption.
Fairness ==
    /\ WF_vars(CancelInvalidTurns)
    /\ WF_vars(\E t \in Turns, n \in AttemptNumbers :
          DropClosedRow(t, n) \/ RefuseRow(t, n) \/ RetireFencedRow(t, n) \/ ClaimRow(t, n))
    /\ WF_vars(\E t \in Turns, n \in AttemptNumbers : RowComesDue(t, n))
    /\ WF_vars(\E f \in flight : SendFrame(f) \/ ConfirmDelivery(f))
    /\ WF_vars(\E t \in Turns, n \in AttemptNumbers : LeaseExpires(t, n))
    /\ SF_vars(SelectStalled({}))
    /\ WF_vars(\E v \in picked : RecoverStalled(v))
    /\ WF_vars(ReleaseGenerationDrain) /\ WF_vars(DeadlinePasses)
    /\ WF_vars(\E o \in orders : DaemonApplies(o)) /\ WF_vars(ReportActualState)
    /\ WF_vars(ProcessRestarts) /\ WF_vars(Subscribe(FALSE))

FairSpec == Spec /\ Fairness

-----------------------------------------------------------------------------
TypeOK ==
    /\ turn \in [Turns -> TurnRecord]
    /\ attempt \in [Turns -> [AttemptNumbers -> AttemptRecord]]
    /\ outbox \in [Turns -> [AttemptNumbers -> RowStates]]
    /\ posted \in [Turns -> PostedRecord]
    /\ flight \subseteq Delivery /\ received \subseteq Proof
    /\ picked \subseteq [t: Turns, n: AttemptNumbers, live: BOOLEAN]
    /\ agent \in AgentRecord /\ config \in Manifests /\ bump \in BumpRecord
    /\ orders \subseteq Order /\ daemon \in DaemonRecord /\ session \in SessionRecord
    /\ gate \in GateRecord /\ faults \in 0..MaxFaults

\* A request is answered at most once: however often it was delivered, retried
\* and replied to, the room sees one reply or one failure notice, never both
\* (service.py: the completion CAS and the recovery fence exclude each other).
AtMostOneAnswer ==
    \A t \in Turns : posted[t].reply + posted[t].notice =< 1

\* At most one attempt of an open turn holds a lease, and it is the active one:
\* recovery fences the old attempt before it creates the next.
OneLeasePerTurn ==
    \A t \in Turns, n \in AttemptNumbers :
        Open(t) /\ Active(t, n) => n = turn[t].active

\* The lease and the transient budget are spent separately, and neither more
\* often than its bound, in whatever order failures come (EXE-10, ENG-03).
RetryBudgets ==
    \A t \in Turns : turn[t].state # "none" =>
        LET used == TransientUsed(t, turn[t].active) IN
        /\ used =< MaxTransient
        /\ turn[t].active - 1 - used =< MaxRetries

\* While an earlier request of the room is open, no later one holds a lease:
\* the agent works on the room's requests in message order.
RoomOrder ==
    \A t \in Turns, n \in AttemptNumbers :
        Active(t, n) /\ Open(t) => ~PriorOpen(t)

\* Turn t is inside the fence: its active attempt holds no lease of another
\* generation than the agent's, and waits for the current or the pending one.
Fits(t) ==
    /\ Current(t).state \in ActiveAttemptStates => Current(t).gen = agent.generation
    /\ Current(t).state = "pending" =>
          \/ Current(t).gen = agent.generation
          \/ agent.pending # 0 /\ Current(t).gen = agent.pending

\* A change of configuration is written that was decided on something else than
\* what is there now.
Overtaken == BumpLands /\ bump # BumpDecision

\* An operator's start counts up whatever is leased.
Restarted == agent.acked /\ ~agent'.acked

\* Config changes never run beside the old process: while the agent is allowed to
\* work, no claim, reply, retry, drain, promotion or change taken back puts an open
\* turn outside the fence.  Two things may, an operator's start and a change that
\* was overtaken between bump_generation's reads and its writes (lifecycle.py).
GenerationFence ==
    [][Authorized /\ Authorized' => \A t \in Turns :
          (Open(t) => Fits(t)) /\ Open(t)' => Fits(t)' \/ Overtaken \/ Restarted]_vars

\* The room is told of a failure only when the budget for that failure is spent:
\* a turn that used up its transient retries keeps its lease retries, and the
\* other way round, in whatever order they fail (clients without proofs get none).
NoticeMeansExhausted ==
    \A t \in Turns : posted[t].notice > 0 /\ turn[t].protocol = 1 =>
        LET used == TransientUsed(t, turn[t].active) IN
        IF Current(t).reason = "transient" THEN used = MaxTransient
                                           ELSE turn[t].retries - used >= MaxRetries

\* No order and no change under way is of a generation still to come.
NothingIsAhead ==
    /\ \A o \in orders : o.gen =< agent.generation
    /\ bump.generation =< agent.generation

\* Some stop is above every start that was sent, and above the start that a change
\* of configuration under way may still send.
StopIsOnTop ==
    \E s \in orders :
        /\ s.desired = "stopped"
        /\ \A o \in orders : o.desired = "running" => o.gen =< s.gen
        /\ bump.kind = "now" => bump.generation < s.gen

\* The daemon holds the operator's last stop.
HoldsLastStop ==
    /\ agent.desired = "stopped" /\ daemon.desired = "stopped"
    /\ \A o \in orders : o.desired = "stopped" => o.gen =< daemon.mark

\* A drain is promoted that a later generation has overtaken.
PromotesThePast == ReleaseGenerationDrain /\ agent.pending < agent.generation

\* A stop is final until the next start: no start order that is still under way,
\* no reconnecting daemon and no configuration change revives the process
\* (lifecycle.py, request_stop: the stop is a generation transition).  Every stop
\* goes on top of what is under way unless the generation fell before, which takes a
\* change that was overtaken or the promotion of an overtaken drain; a stop on top
\* stays there, however late the orders and whatever lands; and a daemon that
\* holds it starts nothing.
StopIsFinal ==
    [][/\ NothingIsAhead => NothingIsAhead' \/ Overtaken \/ PromotesThePast
       /\ NothingIsAhead /\ agent.desired = "running" /\ agent'.desired = "stopped"
             => StopIsOnTop'
       /\ StopIsOnTop /\ agent.desired = "stopped" /\ agent'.desired = "stopped"
             => StopIsOnTop' /\ (HoldsLastStop => ~daemon'.up)]_vars

\* A closed turn stays closed with the outcome it got, and its accepted reply
\* stays accepted, whatever frames, passes and cancellations still come.
TerminalIsFinal ==
    [][\A t \in Turns : turn[t].state \in TerminalTurnStates =>
          turn'[t].state = turn[t].state /\ turn'[t].accepted = turn[t].accepted]_vars

\* Every request is settled: answered, cancelled or failed with a notice.
EveryTurnSettles ==
    \A t \in Turns : Open(t) ~> ~Open(t)

\* A drain ends: its leases finish or are interrupted at the deadline, and the
\* pending generation is promoted or taken back.
DrainEnds == agent.pending # 0 ~> agent.pending = 0

-----------------------------------------------------------------------------
\* The abstract view of a turn: a leased turn is being worked on.
Status(t) ==
    CASE turn[t].state = "none" -> "none"
      [] turn[t].state \in {"pending", "retrying"} -> "waiting"
      [] turn[t].state = "leased" -> "working"
      [] OTHER -> "settled"

Promise == INSTANCE TurnPromise WITH
    Requests <- Turns,
    status <- [t \in Turns |-> Status(t)],
    visible <- [t \in Turns |-> posted[t].reply + posted[t].notice]

\* The durable-turn engine implements the promise made to the room, through
\* every redelivery, retry, crash and late frame.
PromiseKept == Promise!PromiseSpec

-----------------------------------------------------------------------------
\* lifecycle.py: "Stop is a monotonic generation transition ... so the daemon
\* can reject any delayed lower generation": the server never hands out a
\* generation below one it handed out before, even if no change is overtaken.
GenerationNeverFalls == [][agent'.generation >= agent.generation \/ Overtaken]_vars

\* lifecycle.py: a stop's generation is there "so the daemon can reject any delayed
\* lower generation": a stop it holds is final, whatever happened before it.
EveryStopIsFinal ==
    [][HoldsLastStop /\ agent'.desired = "stopped" => ~daemon'.up]_vars

\* lifecycle.py: bump_generation is to restart the agent "draining active durable
\* leases first": no lease of an open turn is of an older generation.
NoStaleLease ==
    ~Restarts /\ Authorized => \A t \in Turns : Open(t) => Fits(t)

\* service.py: "Delivery is at-least-once": a request whose agent is running
\* and allowed does not wait for ever.
DeliveryIsAtLeastOnce == EveryTurnSettles
=============================================================================
