------------------------------ MODULE PeerFanin ------------------------------
(***************************************************************************)
(* Peer questions and their fan-in in one room (orchestration/peer_ask.py, *)
(* orchestration/peer_fanin.py, the ask_peer tool and the caller's reply). *)
(*                                                                         *)
(* An agent that asks peers does not answer: its reply is kept as a draft, *)
(* the peers' turns settle the group's targets, and the recovery worker    *)
(* wakes the caller once everybody is done.  The rows are read, decided    *)
(* upon in memory and written back without a condition, so a transaction   *)
(* is two steps here: what it reads and decides, and its commit.           *)
(***************************************************************************)
EXTENDS Integers, FiniteSets

CONSTANTS
    NumAgents,      \* agents of the room
    MaxTurns,       \* turns ever created, the wakes among them
    MaxRequests,    \* turns started by a person
    MaxAsks,        \* ask_peer calls under way at once
    Callers,        \* agents that persons address
    Outcomes,       \* how turns may end
    Workers,        \* recovery workers over the one database
    Stoppable,      \* agents an operator may stop and start
    Overlaps        \* which transactions others may commit inside: "close", "sweep",
                    \* and "ask" if a turn may close inside its own ask_peer call

ASSUME FaninAssumption ==
    /\ NumAgents \in Nat /\ MaxTurns \in Nat /\ MaxRequests \in Nat /\ MaxAsks \in Nat
    /\ Stoppable \subseteq 1..NumAgents /\ Callers \subseteq 1..NumAgents
    /\ Outcomes \subseteq {"completed", "failed", "cancelled"}
    /\ Overlaps \subseteq {"ask", "close", "sweep"}

Agents == 1..NumAgents
Turns == 1..MaxTurns          \* numbered in order of creation

VARIABLES
    turn,     \* the AgentTurn rows: whose, started by what, for which group
    group,    \* the PeerAskGroup of a caller turn
    target,   \* the PeerAskTarget of a peer's turn
    running,  \* desired_state = "running"
    tx        \* transactions that have read and not yet committed

vars == <<turn, group, target, running, tx>>

TerminalTurnStates == {"completed", "failed", "cancelled"}
TerminalTargetStates == TerminalTurnStates \cup {"timeout"}

NoTurn == [agent |-> 0, kind |-> "none", of |-> 0, state |-> "none"]
\* expired, raced and missed are history: the properties read them and no step does.
NoGroup == [state |-> "none", closed |-> FALSE, draft |-> FALSE, late |-> FALSE,
            expired |-> FALSE, raced |-> FALSE]
NoTarget == [group |-> 0, state |-> "none", reply |-> FALSE, missed |-> FALSE]

Init ==
    /\ turn = [t \in Turns |-> NoTurn]
    /\ group = [t \in Turns |-> NoGroup]
    /\ target = [t \in Turns |-> NoTarget]
    /\ running = [a \in Agents |-> TRUE]
    /\ tx = {}

Used == Cardinality({t \in Turns : turn[t].state # "none"})
\* A turn without an active attempt waits; with one it runs.
Open(t) == turn[t].state \in {"waiting", "running"}
TargetsOf(g) == {t \in Turns : target[t].group = g}
WakesOf(g) == {t \in Turns : turn[t].kind = "wake" /\ turn[t].of = g}

\* The bound on turns must not be what keeps a caller asleep: ids are kept for the
\* questions under way and for the wakes of groups not yet ended.
Asks == {x \in tx : x.kind = "ask"}
Reserved ==
    LET groups == {g \in Turns : group[g].state \in {"collecting", "ready"}}
    IN Cardinality(groups \cup {x.t : x \in Asks})
       + Cardinality({y \in Asks \X Agents : y[2] \in y[1].peers})
Room(n) == Used + Reserved + n =< MaxTurns

\* Nothing may happen between the read and the commit of a transaction that
\* the database serialises.  ask_peer never takes the writer's lock first.
Quiet == \A x \in tx : x.kind = "ask" \/ x.kind \in Overlaps
Undisturbed(t, kind) == "ask" \in Overlaps \/ \A x \in tx : x.kind = kind => x.t # t

-----------------------------------------------------------------------------
\* turns/service.py, create_turn: an agent that is not to run gets a turn that
\* is born cancelled.
NewTurn(a, kind, of) ==
    [agent |-> a, kind |-> kind, of |-> of,
     state |-> IF running[a] THEN "waiting" ELSE "cancelled"]

\* A person mentions an agent.
Request(a) ==
    /\ Quiet /\ Room(1) /\ a \in Callers
    /\ Cardinality({t \in Turns : turn[t].kind = "request"}) < MaxRequests
    /\ turn' = [turn EXCEPT ![Used + 1] = NewTurn(a, "request", 0)]
    /\ UNCHANGED <<group, target, running, tx>>

\* A delivered turn runs; a fenced attempt leaves it waiting for the next one.
Lease(t) ==
    /\ Quiet /\ turn[t].state = "waiting"
    /\ turn' = [turn EXCEPT ![t].state = "running"]
    /\ UNCHANGED <<group, target, running, tx>>

Retry(t) ==
    /\ Quiet /\ turn[t].state = "running"
    /\ turn' = [turn EXCEPT ![t].state = "waiting"]
    /\ UNCHANGED <<group, target, running, tx>>

SetRunning(a) ==
    /\ Quiet /\ a \in Stoppable
    /\ running' = [running EXCEPT ![a] = ~running[a]]
    /\ UNCHANGED <<turn, group, target, tx>>

-----------------------------------------------------------------------------
\* peer_ask.py, _open_turn: the tool call carries no turn id, so it belongs to
\* the newest open turn that runs, or else to the newest open one.
OpenTurn(a) ==
    LET mine == {t \in Turns : turn[t].agent = a /\ Open(t)}
        ran == {t \in mine : turn[t].state = "running"}
        pool == IF ran # {} THEN ran ELSE mine
    IN IF pool = {} THEN 0 ELSE CHOOSE t \in pool : \A u \in pool : u =< t

\* check_peer_ask: a peer with an open turn is already answering.
MayAsk(p) == \A t \in Turns : turn[t].agent = p => ~Open(t)

\* The ask_peer tool: who asks is resolved and the peers are checked.  A turn
\* that a question started (hop 2) cannot ask on: its request goes back to its
\* caller as text of the result.
AskBegin(a, peers) ==
    LET t == OpenTurn(a) IN
    /\ Quiet /\ t # 0 /\ turn[t].kind # "question"
    /\ peers # {} /\ \A p \in peers : MayAsk(p)
    /\ Room(Cardinality(peers) + IF group[t].state = "none" THEN 1 ELSE 0)
    /\ Undisturbed(t, "close") /\ Cardinality(Asks) < MaxAsks
    /\ tx' = tx \cup {[kind |-> "ask", t |-> t, peers |-> peers]}
    /\ UNCHANGED <<turn, group, target, running>>

\* Plausible slip: the group is done as soon as its peers are.
MutDoneEarly(g, grp, tgt) ==
    /\ grp[g].state = "collecting"
    /\ \A t \in Turns : tgt[t].group = g => tgt[t].state \in TerminalTargetStates

\* _mark_ready_if_done, on given rows.
Done(g, grp, tgt) ==
    /\ grp[g].state = "collecting" /\ grp[g].closed
    /\ \A t \in Turns : tgt[t].group = g => tgt[t].state \in TerminalTargetStates

MarkReady(gs, grp) ==
    [g \in Turns |-> IF g \in gs THEN [grp[g] EXCEPT !.state = "ready"] ELSE grp[g]]

\* The turn is over, or about to be by a transaction that does not see what others
\* commit: a question that comes now is one its closing missed.
Ending(t) == ~Open(t) \/ \E y \in tx : y.kind = "close" /\ y.t = t

\* A group has one closing that completes it, of its caller or of its last question.
\* A worker's pass, and the end of a question that came late, may find it done too.
Again(y, g) == /\ y.kind \in {"close", "sweep"} /\ g \in y.marks
               /\ y.kind = "close" => target[y.t].missed
Races(x, g) == \E y \in tx \ {x} : Again(y, g)

\* open_or_join_group and post_question: the group of the turn, and one target and
\* one turn per peer in the order they are named.  A turn born cancelled settles its
\* target at once, which can complete the group only if it is the first: after that
\* a question of this call is either pending or found the group marked.
AskCommit(x) ==
    LET id(p) == Used + 1 + Cardinality({q \in x.peers : q < p})
        new == {id(p) : p \in x.peers}
        of(t) == CHOOSE p \in x.peers : id(p) = t
        joined == IF group[x.t].state = "none"
                  THEN [group EXCEPT ![x.t] = [NoGroup EXCEPT !.state = "collecting"]]
                  ELSE group
    IN
    /\ x \in tx /\ x.kind = "ask" /\ Used + Cardinality(x.peers) =< MaxTurns
    /\ turn' = [t \in Turns |->
                  IF t \in new THEN NewTurn(of(t), "question", x.t) ELSE turn[t]]
    /\ target' = [t \in Turns |->
                    IF t \notin new THEN target[t]
                    ELSE [NoTarget EXCEPT !.group = x.t, !.missed = Ending(x.t),
                            !.state = IF running[of(t)] THEN "pending" ELSE "cancelled"]]
    /\ \E first \in x.peers :
          group' = IF ~running[first] /\ Done(x.t, joined, target)
                   THEN MarkReady({x.t}, [joined EXCEPT ![x.t].raced = @ \/ Races(x, x.t)])
                   ELSE joined
    /\ tx' = tx \ {x}
    /\ UNCHANGED running

-----------------------------------------------------------------------------
\* mark_turn_terminal and on_turn_terminal in the transaction that closes a
\* turn: the peer's target is settled, the caller's group learns that the
\* caller is done, and a group whose two sides are done becomes ready.  The
\* reply of a caller that asked is absorbed as its draft (ws/handler.py).
CloseBegin(t, outcome) ==
    LET settles == target[t].group # 0 /\ target[t].state = "pending"
        tgt == IF settles THEN [target EXCEPT ![t].state = outcome] ELSE target
        closes == group[t].state # "none" /\ ~group[t].closed
        grp == IF closes THEN [group EXCEPT ![t].closed = TRUE] ELSE group
        asked == (IF settles THEN {target[t].group} ELSE {}) \cup (IF closes THEN {t} ELSE {})
    IN
    /\ Quiet /\ Open(t) /\ Undisturbed(t, "ask")
    /\ outcome = "completed" => turn[t].state = "running"
    /\ \A x \in tx : x.kind = "close" => x.t # t
    /\ tx' = tx \cup {[kind |-> "close", t |-> t, outcome |-> outcome,
                       settles |-> settles, closes |-> closes,
                       marks |-> {g \in asked : Done(g, grp, tgt)}]}
    /\ UNCHANGED <<turn, group, target, running>>

CloseCommit(x) ==
    /\ x \in tx /\ x.kind = "close"
    /\ turn' = [turn EXCEPT ![x.t].state = x.outcome]
    /\ target' = IF ~x.settles THEN target
                 ELSE [target EXCEPT ![x.t] = [target[x.t] EXCEPT
                         !.state = x.outcome, !.reply = x.outcome = "completed"]]
    /\ group' = LET closed == [group EXCEPT ![x.t] =
                      [group[x.t] EXCEPT !.closed = TRUE, !.draft = x.outcome = "completed"]]
                    raced(grp) == [g \in Turns |-> [grp[g] EXCEPT !.raced =
                      @ \/ (Again(x, g) /\ Races(x, g))]]
                IN MarkReady(x.marks, raced(IF x.closes THEN closed ELSE group))
    /\ tx' = tx \ {x}
    /\ UNCHANGED running

-----------------------------------------------------------------------------
\* The last-resort cap of a group passes.
DeadlinePasses(g) ==
    /\ Quiet /\ group[g].state = "collecting" /\ ~group[g].late
    /\ group' = [group EXCEPT ![g].late = TRUE]
    /\ UNCHANGED <<turn, target, running, tx>>

\* Plausible slip: only the groups touched in this pass are checked.
MutSweepTouched(w, unstarted) ==
    LET late == {t \in Turns : /\ target[t].state = "pending"
                               /\ group[target[t].group].state = "collecting"
                               /\ group[target[t].group].late}
        gone == late \cup unstarted
        tgt == [t \in Turns |-> IF t \in gone THEN [target[t] EXCEPT !.state = "timeout"]
                                 ELSE target[t]]
    IN
    /\ Quiet /\ gone # {} /\ \A x \in tx : x.kind = "sweep" => x.w # w
    /\ tx' = tx \cup {[kind |-> "sweep", w |-> w, ended |-> {}, gone |-> gone,
                       marks |-> {g \in {target[t].group : t \in gone} : Done(g, group, tgt)}]}
    /\ UNCHANGED <<turn, group, target, running>>

\* The unsettled targets of collecting groups, and those whose turn waits.
Collecting == {t \in Turns : /\ target[t].state = "pending"
                             /\ group[target[t].group].state = "collecting"}
Unstarted == {t \in Collecting : turn[t].state = "waiting"}

\* _advance_collecting: unsettled targets of collecting groups take the outcome
\* of their turn, or time out: past the group's cap, or when the turn has not
\* started for the start timeout (which of the waiting turns those are is the
\* clock's choice).  Every group whose caller is done is checked again.
SweepBegin(w, unstarted) ==
    LET ended == {t \in Collecting : turn[t].state \in TerminalTurnStates}
        gone == {t \in Collecting \ ended : group[target[t].group].late} \cup unstarted
        tgt == [t \in Turns |-> CASE t \in ended -> [target[t] EXCEPT !.state = turn[t].state]
                                  [] t \in gone -> [target[t] EXCEPT !.state = "timeout"]
                                  [] OTHER -> target[t]]
    IN
    /\ Quiet /\ \A x \in tx : x.kind = "sweep" => x.w # w
    /\ LET marks == {g \in Turns : Done(g, group, tgt)} IN
       /\ ended \cup gone \cup marks # {}
       /\ tx' = tx \cup {[kind |-> "sweep", w |-> w, ended |-> ended, gone |-> gone,
                          marks |-> marks]}
    /\ UNCHANGED <<turn, group, target, running>>

SweepCommit(x) ==
    /\ x \in tx /\ x.kind = "sweep"
    /\ target' = [t \in Turns |->
                    CASE t \in x.ended -> [target[t] EXCEPT !.state = turn[t].state,
                                             !.reply = turn[t].state = "completed"]
                      [] t \in x.gone -> [target[t] EXCEPT !.state = "timeout"]
                      [] OTHER -> target[t]]
    /\ group' = MarkReady(x.marks,
                  [g \in Turns |-> [group[g] EXCEPT
                     !.expired = group[g].expired \/ \E t \in x.gone : target[t].group = g,
                     !.raced = group[g].raced \/ (Again(x, g) /\ Races(x, g))]])
    /\ tx' = tx \ {x}
    /\ UNCHANGED <<turn, running>>

\* Plausible slip: the claim does not require the group to be ready.
MutWakeUnclaimed(w, g) ==
    /\ Quiet /\ \A x \in tx : x.kind = "sweep" => x.w # w
    /\ group[g].state \in {"ready", "woken"} /\ Used < MaxTurns
    /\ turn' = [turn EXCEPT ![Used + 1] = NewTurn(turn[g].agent, "wake", g)]
    /\ group' = [group EXCEPT ![g].state =
                   IF running[turn[g].agent] THEN "woken" ELSE "abandoned"]
    /\ UNCHANGED <<target, running, tx>>

\* _wake_one: the claim and the wake are one transaction.  A caller that is not
\* to run is given up.
Wake(w, g) ==
    /\ Quiet /\ \A x \in tx : x.kind = "sweep" => x.w # w
    /\ group[g].state = "ready" /\ Used < MaxTurns
    /\ turn' = [turn EXCEPT ![Used + 1] = NewTurn(turn[g].agent, "wake", g)]
    /\ group' = [group EXCEPT ![g].state =
                   IF running[turn[g].agent] THEN "woken" ELSE "abandoned"]
    /\ UNCHANGED <<target, running, tx>>

-----------------------------------------------------------------------------
Next ==
    \/ \E a \in Agents : Request(a) \/ SetRunning(a)
    \/ \E t \in Turns : Lease(t) \/ Retry(t) \/ DeadlinePasses(t)
    \/ \E a \in Agents : \E peers \in SUBSET (Agents \ {a}) : AskBegin(a, peers)
    \/ \E t \in Turns, outcome \in Outcomes : CloseBegin(t, outcome)
    \/ \E w \in Workers, unstarted \in SUBSET Unstarted : SweepBegin(w, unstarted)
    \/ \E x \in tx : AskCommit(x) \/ CloseCommit(x) \/ SweepCommit(x)
    \/ \E w \in Workers, g \in Turns : Wake(w, g)

Spec == Init /\ [][Next]_vars

\* The worker's pass runs forever and commits; a caller's turn ends (the turn
\* engine settles every turn); the clock reaches the cap.  Nothing is assumed of
\* the peers: they may never start and never answer.
Progress ==
    \/ \E w \in Workers, unstarted \in SUBSET Unstarted : SweepBegin(w, unstarted)
    \/ \E x \in tx : AskCommit(x) \/ CloseCommit(x) \/ SweepCommit(x)
    \/ \E w \in Workers, g \in Turns : Wake(w, g)
    \/ \E g \in Turns : DeadlinePasses(g)
    \/ \E t \in Turns, o \in Outcomes : turn[t].kind # "question" /\ CloseBegin(t, o)

FairSpec == Spec /\ WF_vars(Progress)

-----------------------------------------------------------------------------
TypeOK ==
    /\ turn \in [Turns -> [agent: Agents \cup {0}, of: Turns \cup {0},
                           kind: {"none", "request", "question", "wake"},
                           state: {"none", "waiting", "running"} \cup TerminalTurnStates]]
    /\ group \in [Turns -> [state: {"none", "collecting", "ready", "woken", "abandoned"},
                            closed: BOOLEAN, draft: BOOLEAN, late: BOOLEAN,
                            expired: BOOLEAN, raced: BOOLEAN]]
    /\ target \in [Turns -> [group: Turns \cup {0}, reply: BOOLEAN, missed: BOOLEAN,
                             state: {"none", "pending"} \cup TerminalTargetStates]]
    /\ running \in [Agents -> BOOLEAN]
    /\ \A x \in tx : x.kind \in {"ask", "close", "sweep"}

\* "Claim the group so two workers never wake a caller twice" (_wake_one): a
\* group gives its caller one wake turn.
OneWake == \A g \in Turns : Cardinality(WakesOf(g)) =< 1

\* The same where no worker gave a question up.
OneWakeUnlessExpired ==
    \A g \in Turns : ~group[g].expired => Cardinality(WakesOf(g)) =< 1

\* The same however closings, questions and passes overlap, except where the code
\* does not provide it: a worker gave a question up, or found the group done while
\* another worker, or a question that came after its caller's end, did too.
OneWakeUnlessRaced ==
    \A g \in Turns : ~group[g].expired /\ ~group[g].raced => Cardinality(WakesOf(g)) =< 1

\* A peer that answered is in the result with its answer, unless the worker gave
\* its question up before.
Heard(g, t) == /\ target[t].state \in TerminalTargetStates
               /\ turn[t].state = "completed" => target[t].reply \/ group[g].expired

\* The caller is woken when its turn is over and with everything it had asked before
\* the closing of that turn had read.
WakeSeesAll ==
    [][\A g \in Turns : group[g].state = "ready" /\ group'[g].state # "ready" =>
         /\ group[g].closed /\ ~Open(g)
         /\ \A t \in TargetsOf(g) : ~target[t].missed => Heard(g, t)]_vars

\* "When every peer has finished you will be woken with their answers and your
\* draft" (the answer of ask_peer), of whatever it asked.
WakeSeesEveryQuestion ==
    [][\A g \in Turns : group[g].state = "ready" /\ group'[g].state # "ready" =>
         \A t \in TargetsOf(g) : Heard(g, t)]_vars

\* Every group whose caller's closing saw it wakes its caller (with a turn that is
\* born cancelled when the caller is not to run), however the closings of the
\* peers and of the caller overlap, and whoever never starts or never answers.
Waits(g) == group[g].closed /\ WakesOf(g) = {}
ClosedCallerIsWoken == (\E g \in Turns : Waits(g)) ~> (\A g \in Turns : ~Waits(g))

\* The same answer of ask_peer: every caller that asked is woken.
EveryCallerIsWoken ==
    \A g \in Turns : group[g].state # "none" ~> WakesOf(g) # {}

=============================================================================
