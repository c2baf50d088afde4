---------------------------- MODULE TurnDispatch ----------------------------
(***************************************************************************)
(* From the message to the agent's socket: create_turn and                 *)
(* deliver_pending_outbox.  A delivery is three steps with no transaction  *)
(* around them: the claim of the outbox row and of the execution lease,    *)
(* the socket write, and the confirmation.  Any number of callers run them *)
(* concurrently (the recovery worker, every socket that becomes ready).    *)
(***************************************************************************)
EXTENDS TurnStore

\* The turn, its first attempt and its first outbox row are inserted with the
\* message.  A turn the agent may not take is born cancelled, with no row.
CreateTurn(t, r) ==
    LET state == IF Authorized THEN "pending" ELSE "cancelled" IN
    /\ turn[t].state = "none"
    /\ \A u \in 1..(t - 1) : turn[u].state # "none"
    /\ gate.open
    /\ turn' = [turn EXCEPT ![t] = [NoTurn EXCEPT !.state = state, !.active = 1,
                                                  !.retries = r]]
    /\ attempt' = [attempt EXCEPT ![t][1] =
                      [NewAttempt(agent.generation) EXCEPT !.state = state]]
    /\ outbox' = IF state = "pending" THEN [outbox EXCEPT ![t][1] = "due"] ELSE outbox
    /\ UNCHANGED <<posted, wireVars, hostVars, gate, faults>>

-----------------------------------------------------------------------------
RowDue(t, n) == outbox[t][n] = "due"

MutPriorLeased(t) == \E u \in 1..(t - 1) : turn[u].state = "leased"

\* An earlier request of this room is still open: user intent keeps its order
\* across delivery retries.
PriorOpen(t) == \E u \in 1..(t - 1) : Open(u)

\* A retry made for a pending generation stays away from the old process.
CurrentGeneration(t, n) == attempt[t][n].gen = agent.generation

RetireRow(t, n) == outbox' = [outbox EXCEPT ![t][n] = "cancelled"]

\* The row outlived its turn.
DropClosedRow(t, n) ==
    /\ RowDue(t, n) /\ ~Open(t)
    /\ RetireRow(t, n)
    /\ UNCHANGED <<turn, attempt, posted, wireVars, hostVars, gate, faults>>

\* The gates are asked again at dispatch; a refusal closes the turn and the
\* attempt of THIS row.
RefuseRow(t, n) ==
    /\ RowDue(t, n) /\ Open(t)
    /\ ~Authorized \/ (CurrentGeneration(t, n) /\ ~gate.budget)
    /\ turn' = [turn EXCEPT ![t].state = "cancelled"]
    /\ attempt' = [attempt EXCEPT ![t][n] = Ended(@, "cancelled")]
    /\ RetireRow(t, n)
    /\ UNCHANGED <<posted, wireVars, hostVars, gate, faults>>

\* Everything that must hold before the row may be claimed.
Deliverable(t, n) ==
    /\ RowDue(t, n) /\ Open(t)
    /\ Authorized /\ gate.budget
    /\ CurrentGeneration(t, n)
    /\ ~PriorOpen(t)
    /\ session.up
    /\ session.legacy \/ session.gen = attempt[t][n].gen

\* A subscription that named no generation gets one legacy delivery.
Rollout(t) == IF session.legacy THEN 0 ELSE turn[t].protocol

\* The row of an attempt that was fenced meanwhile.
RetireFencedRow(t, n) ==
    /\ Deliverable(t, n)
    /\ ~Active(t, n) /\ attempt[t][n].state # "pending"
    /\ turn' = [turn EXCEPT ![t].protocol = Rollout(t)]
    /\ RetireRow(t, n)
    /\ UNCHANGED <<attempt, posted, wireVars, hostVars, gate, faults>>

\* One transaction claims the row for OUTBOX_RECLAIM_SEC and, the first time,
\* the execution lease.  A row still pending when it is due again is claimed
\* and sent again.
ClaimRow(t, n) ==
    /\ Deliverable(t, n)
    /\ Active(t, n) \/ attempt[t][n].state = "pending"
    /\ outbox' = [outbox EXCEPT ![t][n] = "waiting"]
    /\ IF attempt[t][n].state = "pending"
       THEN /\ attempt' = [attempt EXCEPT ![t][n] =
                              [attempt[t][n] EXCEPT !.state = "leased", !.lease = "held"]]
            /\ turn' = [turn EXCEPT ![t] =
                           [turn[t] EXCEPT !.state = "leased", !.protocol = Rollout(t)]]
       ELSE /\ turn' = [turn EXCEPT ![t].protocol = Rollout(t)]
            /\ UNCHANGED attempt
    /\ flight' = flight \cup
         {[proof |-> IF session.legacy
                     THEN [t |-> t, n |-> 1, g |-> 0, legacy |-> TRUE]
                     ELSE [t |-> t, n |-> n, g |-> attempt[t][n].gen, legacy |-> FALSE],
           n |-> n, step |-> "send"]}
    /\ UNCHANGED <<posted, received, picked, hostVars, gate, faults>>

\* The socket accepts the frame only for the generation it was claimed for.
Accepts(p) == session.up /\ (p.legacy \/ session.gen = p.g)

Sent(f) == (flight \ {f}) \cup {[f EXCEPT !.step = "confirm"]}

SendFrame(f) ==
    /\ f.step = "send"
    /\ IF Accepts(f.proof)
       THEN received' = received \cup {f.proof} /\ flight' = Sent(f)
       ELSE flight' = flight \ {f} /\ UNCHANGED received
    /\ UNCHANGED <<turnVars, picked, hostVars, gate, faults>>

\* The connection breaks under the write: the sender may or may not notice,
\* and the agent has not seen the frame.
SendBreaks(f) ==
    /\ f.step = "send" /\ Accepts(f.proof) /\ Fault
    /\ flight' \in {flight \ {f}, Sent(f)}
    /\ session' = Disconnected
    /\ UNCHANGED <<turnVars, received, picked, agent, config, bump, orders, daemon, gate>>

ConfirmDelivery(f) ==
    LET t == f.proof.t IN
    /\ f.step = "confirm"
    /\ flight' = flight \ {f}
    /\ outbox' = IF outbox[t][f.n] \in PendingRowStates /\ Open(t) /\ Active(t, f.n)
                 THEN [outbox EXCEPT ![t][f.n] = "delivered"] ELSE outbox
    /\ UNCHANGED <<turn, attempt, posted, received, picked, hostVars, gate, faults>>

-----------------------------------------------------------------------------
\* available_at comes.
RowComesDue(t, n) ==
    /\ outbox[t][n] = "waiting"
    /\ outbox' = [outbox EXCEPT ![t][n] = "due"]
    /\ UNCHANGED <<turn, attempt, posted, wireVars, hostVars, gate, faults>>

\* The message also reaches the agent outside the outbox, with the request id and
\* without a proof: the stored task message is replayed on reconnect.
StrayCopy(t) ==
    /\ LegacyClients /\ Open(t) /\ session.up
    /\ received' = received \cup {[t |-> t, n |-> 1, g |-> 0, legacy |-> TRUE]}
    /\ UNCHANGED <<turnVars, flight, picked, hostVars, gate, faults>>

\* The server process dies: whatever was between two transactions is lost.
ServerCrash ==
    /\ Fault
    /\ flight' = {} /\ picked' = {} /\ bump' = NoBump /\ session' = Disconnected
    /\ UNCHANGED <<turnVars, received, agent, config, orders, daemon, gate>>

DispatchStep ==
    \/ \E t \in Turns, r \in Redispatches : CreateTurn(t, r)
    \/ \E t \in Turns, n \in AttemptNumbers :
          \/ DropClosedRow(t, n) \/ RefuseRow(t, n) \/ RetireFencedRow(t, n)
          \/ ClaimRow(t, n) \/ RowComesDue(t, n)
    \/ \E f \in flight : SendFrame(f) \/ SendBreaks(f) \/ ConfirmDelivery(f)
    \/ \E t \in Turns : StrayCopy(t)
    \/ ServerCrash
=============================================================================
