-------------------------- MODULE TurnTypeProofs ---------------------------
(***************************************************************************)
(* Type correctness of the durable-turn engine, for every number of turns, *)
(* every retry budget, every set of configurations, any number of faults.  *)
(***************************************************************************)
EXTENDS DurableTurns, TLAPS

-----------------------------------------------------------------------------
(* The types of the tables, and the record updates the actions make.         *)
TurnTable == [Turns -> TurnRecord]
AttemptTable == [Turns -> [AttemptNumbers -> AttemptRecord]]
OutboxTable == [Turns -> [AttemptNumbers -> RowStates]]

\* The first attempt exists whatever the budgets are.
LEMMA AttemptNumbersFacts == 1 \in AttemptNumbers /\ AttemptNumbers \subseteq Nat
  BY TurnStoreAssumption DEF AttemptNumbers

\* Generations start at 0 (none) and 1 (the first), and are counted upwards.
LEMMA GenerationFacts ==
  /\ 0 \in Generations /\ 1 \in Generations /\ Generations \subseteq Nat
  /\ \A g \in Generations : g + 1 =< MaxGeneration => g + 1 \in Generations
  /\ \A g \in Generations : g < MaxGeneration => g + 1 \in Generations
  BY TurnStoreAssumption DEF Generations

\* Ending an attempt keeps it an attempt, with its generation and its spent mark.
LEMMA EndedRecord ==
  ASSUME NEW a \in AttemptRecord, NEW s \in AttemptStates
  PROVE  /\ Ended(a, s) \in AttemptRecord /\ Ended(a, s).state = s
         /\ Ended(a, s).gen = a.gen /\ Ended(a, s).spent = a.spent
  BY DEF Ended, NoAttempt, AttemptRecord, AttemptStates

\* An attempt is inserted pending, at the generation it was made for.
LEMMA NewAttemptRecord ==
  ASSUME NEW g \in Generations
  PROVE  /\ NewAttempt(g) \in AttemptRecord
         /\ NewAttempt(g).state = "pending" /\ NewAttempt(g).gen = g
         /\ ~NewAttempt(g).spent
  BY DEF NewAttempt, NoAttempt, AttemptRecord, AttemptStates

\* What single columns of an attempt may be set to.
LEMMA AttemptColumns ==
  ASSUME NEW a \in AttemptRecord
  PROVE  /\ \A s \in AttemptStates : [a EXCEPT !.state = s] \in AttemptRecord
         /\ \A l \in {"none", "held", "expired"} : [a EXCEPT !.lease = l] \in AttemptRecord
         /\ \A g \in Generations : [a EXCEPT !.gen = g] \in AttemptRecord
         /\ \A b \in BOOLEAN : [a EXCEPT !.native = b] \in AttemptRecord
         /\ \A b \in BOOLEAN : [a EXCEPT !.spent = b] \in AttemptRecord
         /\ \A r \in {"none", "transient", "explicit"} :
               /\ [a EXCEPT !.reason = r] \in AttemptRecord
               /\ [a EXCEPT !.lease = "expired", !.reason = r] \in AttemptRecord
  BY DEF AttemptRecord

\* One attempt of one turn is rewritten; one outside the table changes nothing.
LEMMA AttemptWrite ==
  ASSUME NEW A \in AttemptTable, NEW t \in Turns, NEW n, NEW a \in AttemptRecord
  PROVE  [A EXCEPT ![t][n] = a] \in AttemptTable
  BY DEF AttemptTable

\* One column of one attempt is rewritten.
LEMMA AttemptColumnWrite ==
  ASSUME NEW A \in AttemptTable, NEW t \in Turns, NEW n
  PROVE  /\ \A s \in AttemptStates : [A EXCEPT ![t][n].state = s] \in AttemptTable
         /\ \A l \in {"none", "held", "expired"} : [A EXCEPT ![t][n].lease = l] \in AttemptTable
         /\ \A b \in BOOLEAN : [A EXCEPT ![t][n].native = b] \in AttemptTable
         /\ \A b \in BOOLEAN : [A EXCEPT ![t][n].spent = b] \in AttemptTable
         /\ \A r \in {"none", "transient", "explicit"} :
               [A EXCEPT ![t][n].reason = r] \in AttemptTable
<1>1. CASE n \in AttemptNumbers
  BY <1>1, AttemptColumns DEF AttemptTable
<1>2. CASE n \notin AttemptNumbers
  BY <1>2 DEF AttemptTable
<1> QED BY <1>1, <1>2

\* One row of the outbox is rewritten.
LEMMA OutboxWrite ==
  ASSUME NEW R \in OutboxTable, NEW t \in Turns, NEW n, NEW s \in RowStates
  PROVE  [R EXCEPT ![t][n] = s] \in OutboxTable
  BY DEF OutboxTable

\* One turn is rewritten.
LEMMA TurnWrite ==
  ASSUME NEW T \in TurnTable, NEW t \in Turns, NEW r \in TurnRecord
  PROVE  [T EXCEPT ![t] = r] \in TurnTable
  BY DEF TurnTable

\* One attempt ends where it stands.
LEMMA AttemptEnds ==
  ASSUME NEW A \in AttemptTable, NEW t \in Turns, NEW n, NEW s \in AttemptStates
  PROVE  [A EXCEPT ![t][n] = Ended(@, s)] \in AttemptTable
<1>1. CASE n \in AttemptNumbers
  <2>1. A[t][n] \in AttemptRecord
    BY <1>1 DEF AttemptTable
  <2> QED BY <1>1, <2>1, EndedRecord DEF AttemptTable
<1>2. CASE n \notin AttemptNumbers
  BY <1>2 DEF AttemptTable
<1> QED BY <1>1, <1>2

\* What single columns of a turn may be set to.
LEMMA TurnColumns ==
  ASSUME NEW r \in TurnRecord
  PROVE  /\ \A s \in OpenTurnStates \cup TerminalTurnStates :
               [r EXCEPT !.state = s] \in TurnRecord
         /\ \A p \in {0, 1} : [r EXCEPT !.protocol = p] \in TurnRecord
         /\ \A s \in OpenTurnStates \cup TerminalTurnStates, p \in {0, 1} :
               [r EXCEPT !.state = s, !.protocol = p] \in TurnRecord
         /\ \A s \in OpenTurnStates \cup TerminalTurnStates, b \in BOOLEAN :
               [r EXCEPT !.state = s, !.accepted = b] \in TurnRecord
         /\ \A s \in OpenTurnStates, n \in Nat, k \in Nat :
               [r EXCEPT !.state = s, !.active = n, !.retries = k] \in TurnRecord
  BY DEF TurnRecord

-----------------------------------------------------------------------------
(* Type correctness.  A drain on record names the manifest it will promote,  *)
(* and a bump under way the manifest it was decided on.                      *)
DrainOnRecord == agent.pending # 0 => agent.pendingManifest \in Manifests
BumpOnRecord == bump.kind # "none" => bump.manifest \in Manifests

TypeInv == TypeOK /\ DrainOnRecord /\ BumpOnRecord

\* The four tables, apart from the rest.
TablesOK == /\ turn \in TurnTable /\ attempt \in AttemptTable
            /\ outbox \in OutboxTable /\ posted \in [Turns -> PostedRecord]

WiresOK == /\ flight \subseteq Delivery /\ received \subseteq Proof
           /\ picked \subseteq [t: Turns, n: AttemptNumbers, live: BOOLEAN]

HostOK == /\ agent \in AgentRecord /\ config \in Manifests /\ bump \in BumpRecord
          /\ orders \subseteq Order /\ daemon \in DaemonRecord
          /\ session \in SessionRecord /\ gate \in GateRecord
          /\ faults \in 0..MaxFaults /\ DrainOnRecord /\ BumpOnRecord

\* The type invariant is the three together.
LEMMA TypeParts == TypeInv <=> TablesOK /\ WiresOK /\ HostOK
  BY DEF TypeInv, TypeOK, TablesOK, WiresOK, HostOK, TurnTable, AttemptTable, OutboxTable

\* The same of the next state.
LEMMA TypePartsNext == TypeInv' <=> TablesOK' /\ WiresOK' /\ HostOK'
  BY DEF TypeInv, TypeOK, TablesOK, WiresOK, HostOK, TurnTable, AttemptTable, OutboxTable,
         DrainOnRecord, BumpOnRecord

\* What is left unchanged keeps its types.
LEMMA HostStays == HostOK /\ UNCHANGED <<hostVars, gate, faults>> => HostOK'
  BY DEF HostOK, hostVars, DrainOnRecord, BumpOnRecord

\* So do the frames and selections under way,
LEMMA WiresStay == WiresOK /\ UNCHANGED wireVars => WiresOK'
  BY DEF WiresOK, wireVars

\* and the four tables.
LEMMA TablesStay == TablesOK /\ UNCHANGED turnVars => TablesOK'
  BY DEF TablesOK, turnVars

-----------------------------------------------------------------------------
\* A row of the outbox is rewritten and nothing else: the tables keep their types.
LEMMA RowOnly ==
  ASSUME TablesOK, NEW t \in Turns, NEW n, NEW s \in RowStates,
         outbox' = [outbox EXCEPT ![t][n] = s], UNCHANGED <<turn, attempt, posted>>
  PROVE  TablesOK'
  BY OutboxWrite DEF TablesOK

\* Every step of the dispatcher keeps the types.
LEMMA DispatchTypes == TypeInv /\ DispatchStep => TypeInv'
<1> SUFFICES ASSUME TypeInv, DispatchStep PROVE TablesOK' /\ WiresOK' /\ HostOK'
  BY TypePartsNext
<1>0. TablesOK /\ WiresOK /\ HostOK
  BY TypeParts
<1>1. ASSUME NEW t \in Turns, NEW r \in Redispatches, CreateTurn(t, r)
      PROVE  TablesOK' /\ WiresOK' /\ HostOK'
  <2> DEFINE state == IF Authorized THEN "pending" ELSE "cancelled"
             new == [NoTurn EXCEPT !.state = state, !.active = 1, !.retries = r]
             first == [NewAttempt(agent.generation) EXCEPT !.state = state]
  <2>1. new \in TurnRecord
    BY TurnStoreAssumption DEF TurnRecord, NoTurn, OpenTurnStates, TerminalTurnStates
  <2>2. agent.generation \in Generations
    BY <1>0 DEF HostOK, AgentRecord
  <2>3. first \in AttemptRecord
    BY <2>2, NewAttemptRecord, AttemptColumns DEF AttemptStates, TerminalTurnStates
  <2> HIDE DEF new, first
  <2>4. turn' \in TurnTable
    BY <1>0, <1>1, <2>1, TurnWrite DEF CreateTurn, TablesOK, new, state
  <2>5. attempt' \in AttemptTable
    BY <1>0, <1>1, <2>3, AttemptWrite DEF CreateTurn, TablesOK, first, state
  <2>6. outbox' \in OutboxTable
    BY <1>0, <1>1, OutboxWrite DEF CreateTurn, TablesOK, RowStates, PendingRowStates
  <2> QED BY <1>0, <1>1, <2>4, <2>5, <2>6, WiresStay, HostStays DEF CreateTurn, TablesOK
<1>2. ASSUME NEW t \in Turns, NEW n \in AttemptNumbers, DropClosedRow(t, n)
      PROVE  TablesOK' /\ WiresOK' /\ HostOK'
  BY <1>0, <1>2, RowOnly, WiresStay, HostStays DEF DropClosedRow, RetireRow, RowStates
<1>3. ASSUME NEW t \in Turns, NEW n \in AttemptNumbers, RefuseRow(t, n)
      PROVE  TablesOK' /\ WiresOK' /\ HostOK'
  <2>1. turn' \in TurnTable
    BY <1>0, <1>3, TurnColumns, TurnWrite DEF RefuseRow, TablesOK, TurnTable, TerminalTurnStates
  <2>2. attempt' \in AttemptTable
    BY <1>0, <1>3, AttemptEnds DEF RefuseRow, TablesOK, AttemptStates, TerminalTurnStates
  <2>3. outbox' \in OutboxTable
    BY <1>0, <1>3, OutboxWrite DEF RefuseRow, RetireRow, TablesOK, RowStates
  <2> QED BY <1>0, <1>3, <2>1, <2>2, <2>3, WiresStay, HostStays DEF RefuseRow, TablesOK
<1>4. ASSUME NEW t \in Turns, NEW n \in AttemptNumbers, RetireFencedRow(t, n)
      PROVE  TablesOK' /\ WiresOK' /\ HostOK'
  <2>1. Rollout(t) \in {0, 1}
    BY <1>0 DEF Rollout, TablesOK, TurnTable, TurnRecord
  <2>2. turn' \in TurnTable
    BY <1>0, <1>4, <2>1, TurnColumns DEF RetireFencedRow, TablesOK, TurnTable
  <2>3. outbox' \in OutboxTable
    BY <1>0, <1>4, OutboxWrite DEF RetireFencedRow, RetireRow, TablesOK, RowStates
  <2> QED BY <1>0, <1>4, <2>2, <2>3, WiresStay, HostStays DEF RetireFencedRow, TablesOK
<1>5. ASSUME NEW t \in Turns, NEW n \in AttemptNumbers, ClaimRow(t, n)
      PROVE  TablesOK' /\ WiresOK' /\ HostOK'
  <2>1. Rollout(t) \in {0, 1}
    BY <1>0 DEF Rollout, TablesOK, TurnTable, TurnRecord
  <2>2. turn' \in TurnTable
    <3> DEFINE taken == [turn[t] EXCEPT !.state = "leased", !.protocol = Rollout(t)]
               rolled == [turn[t] EXCEPT !.protocol = Rollout(t)]
    <3>1. turn' = [turn EXCEPT ![t] = taken] \/ turn' = [turn EXCEPT ![t] = rolled]
      BY <1>5 DEF ClaimRow
    <3>2. taken \in TurnRecord /\ rolled \in TurnRecord
      BY <1>0, <2>1, TurnColumns DEF TablesOK, TurnTable, OpenTurnStates
    <3> HIDE DEF taken, rolled
    <3> QED BY <1>0, <3>1, <3>2, TurnWrite DEF TablesOK
  <2>3. attempt[t][n] \in AttemptRecord
    BY <1>0 DEF TablesOK, AttemptTable
  <2>5. attempt' \in AttemptTable
    <3> DEFINE a == [attempt[t][n] EXCEPT !.state = "leased", !.lease = "held"]
    <3>1. attempt' = [attempt EXCEPT ![t][n] = a] \/ attempt' = attempt
      BY <1>5 DEF ClaimRow
    <3>2. a \in AttemptRecord
      BY <2>3 DEF AttemptRecord, AttemptStates, ActiveAttemptStates
    <3> HIDE DEF a
    <3>3. attempt \in AttemptTable
      BY <1>0 DEF TablesOK
    <3>4. CASE attempt' = [attempt EXCEPT ![t][n] = a]
      BY <3>2, <3>3, <3>4, AttemptWrite
    <3> QED BY <3>1, <3>3, <3>4
  <2>6. outbox' \in OutboxTable
    <3>1. outbox' = [outbox EXCEPT ![t][n] = "waiting"]
      BY <1>5 DEF ClaimRow
    <3> QED BY <1>0, <3>1, OutboxWrite DEF TablesOK, RowStates, PendingRowStates
  <2>7. flight' \subseteq Delivery
    <3> DEFINE p == IF session.legacy
                    THEN [t |-> t, n |-> 1, g |-> 0, legacy |-> TRUE]
                    ELSE [t |-> t, n |-> n, g |-> attempt[t][n].gen, legacy |-> FALSE]
    <3>1. attempt[t][n].gen \in Generations
      BY <2>3 DEF AttemptRecord
    <3>2. p \in Proof
      BY <3>1, AttemptNumbersFacts, GenerationFacts DEF Proof
    <3>3. flight' = flight \cup {[proof |-> p, n |-> n, step |-> "send"]}
      BY <1>5 DEF ClaimRow
    <3> HIDE DEF p
    <3> QED BY <1>0, <3>2, <3>3 DEF WiresOK, Delivery
  <2> QED BY <1>0, <1>5, <2>2, <2>5, <2>6, <2>7, HostStays DEF ClaimRow, TablesOK, WiresOK
<1>6. ASSUME NEW t \in Turns, NEW n \in AttemptNumbers, RowComesDue(t, n)
      PROVE  TablesOK' /\ WiresOK' /\ HostOK'
  BY <1>0, <1>6, RowOnly, WiresStay, HostStays DEF RowComesDue, RowStates, PendingRowStates
<1>7. ASSUME NEW f \in flight PROVE Sent(f) \subseteq Delivery /\ f.proof \in Proof /\ f.n \in AttemptNumbers
  BY <1>0 DEF Sent, WiresOK, Delivery
<1>8. ASSUME NEW f \in flight, SendFrame(f) PROVE TablesOK' /\ WiresOK' /\ HostOK'
  <2>1. WiresOK'
    BY <1>0, <1>7, <1>8 DEF SendFrame, WiresOK
  <2> QED BY <1>0, <1>8, <2>1, TablesStay, HostStays DEF SendFrame
<1>9. Disconnected \in SessionRecord
  BY GenerationFacts DEF Disconnected, SessionRecord
<1>10. Fault => faults' \in 0..MaxFaults
  BY <1>0, TurnStoreAssumption DEF Fault, HostOK
<1>11. ASSUME NEW f \in flight, SendBreaks(f) PROVE TablesOK' /\ WiresOK' /\ HostOK'
  <2>1. WiresOK'
    BY <1>0, <1>7, <1>11 DEF SendBreaks, WiresOK
  <2> QED BY <1>0, <1>9, <1>10, <1>11, <2>1, TablesStay
          DEF SendBreaks, HostOK, DrainOnRecord, BumpOnRecord
<1>12. ASSUME NEW f \in flight, ConfirmDelivery(f) PROVE TablesOK' /\ WiresOK' /\ HostOK'
  <2>1. f.proof.t \in Turns
    BY <1>7 DEF Proof
  <2>2. outbox' \in OutboxTable
    BY <1>0, <1>12, <2>1, OutboxWrite DEF ConfirmDelivery, TablesOK, RowStates
  <2> QED BY <1>0, <1>12, <2>2, HostStays DEF ConfirmDelivery, TablesOK, WiresOK
<1>13. ASSUME NEW t \in Turns, StrayCopy(t) PROVE TablesOK' /\ WiresOK' /\ HostOK'
  <2>1. [t |-> t, n |-> 1, g |-> 0, legacy |-> TRUE] \in Proof
    BY AttemptNumbersFacts, GenerationFacts DEF Proof
  <2> QED BY <1>0, <1>13, <2>1, TablesStay, HostStays DEF StrayCopy, WiresOK
<1>14. CASE ServerCrash
  <2>1. NoBump \in BumpRecord /\ NoBump.kind = "none"
    BY GenerationFacts DEF NoBump, BumpRecord
  <2> QED BY <1>0, <1>9, <1>10, <1>14, <2>1, TablesStay
          DEF ServerCrash, WiresOK, HostOK, DrainOnRecord, BumpOnRecord
<1> QED
  BY <1>1, <1>2, <1>3, <1>4, <1>5, <1>6, <1>8, <1>11, <1>12, <1>13, <1>14 DEF DispatchStep

-----------------------------------------------------------------------------
\* The turn's row after a frame of the agent is typed.
LEMMA SeenTypes ==
  ASSUME TablesOK, NEW p \in Proof
  PROVE  Seen(p) \in TurnRecord
<1>1. p.t \in Turns
  BY DEF Proof
<1>2. turn[p.t] \in TurnRecord /\ turn[p.t].protocol \in {0, 1}
  BY <1>1 DEF TablesOK, TurnTable, TurnRecord
<1> QED BY <1>2, TurnColumns DEF Seen

\* Closing the turn and its active attempt by a frame keeps their types.
LEMMA CloseByAgentTypes ==
  ASSUME TablesOK, NEW p \in Proof, NEW s \in TerminalTurnStates, CloseByAgent(p, s)
  PROVE  turn' \in TurnTable /\ attempt' \in AttemptTable
<1>1. p.t \in Turns /\ Seen(p) \in TurnRecord
  BY SeenTypes DEF Proof
<1>2. turn' \in TurnTable
  BY <1>1, TurnColumns, TurnWrite DEF CloseByAgent, TablesOK
<1>3. attempt' \in AttemptTable
  BY <1>1, AttemptEnds DEF CloseByAgent, TablesOK, AttemptStates
<1> QED BY <1>2, <1>3

\* So does expiring the lease of the active attempt.
LEMMA ExpireLeaseTypes ==
  ASSUME TablesOK, NEW p \in Proof, NEW r \in {"none", "transient", "explicit"},
         ExpireLease(p, r)
  PROVE  turn' \in TurnTable /\ attempt' \in AttemptTable
<1> DEFINE n == turn[p.t].active
           a == [Current(p.t) EXCEPT !.lease = "expired", !.reason = r]
<1>1. p.t \in Turns /\ Seen(p) \in TurnRecord
  BY SeenTypes DEF Proof
<1>2. turn' = [turn EXCEPT ![p.t] = Seen(p)] /\ attempt' = [attempt EXCEPT ![p.t][n] = a]
  BY DEF ExpireLease
<1>3. n \in AttemptNumbers => a \in AttemptRecord
  <2>1. n \in AttemptNumbers => Current(p.t) \in AttemptRecord
    BY <1>1 DEF Current, TablesOK, AttemptTable
  <2> QED BY <2>1, AttemptColumns
<1> HIDE DEF a, n
<1>4. attempt' \in AttemptTable
  <2>1. CASE n \in AttemptNumbers
    BY <1>1, <1>2, <1>3, <2>1, AttemptWrite DEF TablesOK
  <2>2. CASE n \notin AttemptNumbers
    BY <1>1, <1>2, <2>2 DEF TablesOK, AttemptTable
  <2> QED BY <2>1, <2>2
<1> QED BY <1>1, <1>2, <1>4, TurnWrite DEF TablesOK

\* The rows of a cancelled turn are rows.
LEMMA CancelRowsTypes ==
  ASSUME TablesOK, NEW t \in Turns
  PROVE  CancelRows(t) \in [AttemptNumbers -> RowStates]
  BY DEF CancelRows, TablesOK, OutboxTable, RowStates

\* Every frame of the agent and every cancellation keeps the types.
LEMMA OutcomeTypes == TypeInv /\ OutcomeStep => TypeInv'
<1> SUFFICES ASSUME TypeInv, OutcomeStep PROVE TablesOK' /\ WiresOK' /\ HostOK'
  BY TypePartsNext
<1>0. TablesOK /\ WiresOK /\ HostOK
  BY TypeParts
<1>1. ASSUME NEW p \in received PROVE p \in Proof /\ p.t \in Turns
  BY <1>0 DEF WiresOK, Proof
<1>2. ASSUME NEW p \in received, NEW deferred \in BOOLEAN, CompleteTurn(p, deferred)
      PROVE  TablesOK' /\ WiresOK' /\ HostOK'
  <2> DEFINE row == [Seen(p) EXCEPT !.state = "completed", !.accepted = ~deferred]
  <2>1. p.t \in Turns /\ Seen(p) \in TurnRecord
    BY <1>0, <1>1, SeenTypes
  <2>2. turn' = [turn EXCEPT ![p.t] = row]
    BY <1>2 DEF CompleteTurn
  <2>3. row \in TurnRecord
    BY <2>1, TurnColumns DEF TerminalTurnStates
  <2> HIDE DEF row
  <2>4. turn' \in TurnTable
    BY <1>0, <2>1, <2>2, <2>3, TurnWrite DEF TablesOK
  <2>5. attempt' \in AttemptTable
    BY <1>0, <1>2, <2>1, AttemptEnds
       DEF CompleteTurn, TablesOK, AttemptStates, TerminalTurnStates
  <2>6. posted' \in [Turns -> PostedRecord]
    BY <1>0, <1>2, <2>1 DEF CompleteTurn, TablesOK, PostedRecord
  <2> QED BY <1>0, <1>2, <2>4, <2>5, <2>6, WiresStay, HostStays DEF CompleteTurn, TablesOK
<1>3. ASSUME NEW p \in received, HandlerStarted(p) PROVE TablesOK' /\ WiresOK' /\ HostOK'
  <2>1. p.t \in Turns /\ Seen(p) \in TurnRecord
    BY <1>0, <1>1, SeenTypes
  <2>2. attempt' \in AttemptTable
    BY <1>0, <1>3, <2>1, AttemptColumnWrite
       DEF HandlerStarted, TablesOK, AttemptStates, ActiveAttemptStates
  <2>3. [Seen(p) EXCEPT !.state = "leased"] \in TurnRecord
    BY <2>1, TurnColumns DEF OpenTurnStates
  <2>4. turn' \in TurnTable
    BY <1>0, <1>3, <2>1, <2>3, TurnWrite DEF HandlerStarted, TablesOK
  <2> QED BY <1>0, <1>3, <2>2, <2>4, WiresStay, HostStays DEF HandlerStarted, TablesOK
<1>4. ASSUME NEW p \in received, NEW outcome \in Outcomes, HandlerFinished(p, outcome)
      PROVE  TablesOK' /\ WiresOK' /\ HostOK'
  <2>1. \/ \E s \in TerminalTurnStates : CloseByAgent(p, s)
        \/ \E r \in {"none", "transient", "explicit"} : ExpireLease(p, r)
    BY <1>4 DEF HandlerFinished, FinishActive, TerminalTurnStates
  <2>2. turn' \in TurnTable /\ attempt' \in AttemptTable
    BY <1>0, <1>1, <2>1, CloseByAgentTypes, ExpireLeaseTypes
  <2> QED BY <1>0, <1>4, <2>2, WiresStay, HostStays DEF HandlerFinished, TablesOK
<1>5. ASSUME NEW p \in received, AuthorizeNativeStart(p)
      PROVE  TablesOK' /\ WiresOK' /\ HostOK'
  <2>1. attempt' \in AttemptTable
    BY <1>0, <1>1, <1>5, AttemptColumnWrite DEF AuthorizeNativeStart, TablesOK
  <2> QED BY <1>0, <1>5, <2>1, WiresStay, HostStays DEF AuthorizeNativeStart, TablesOK
<1>6. ASSUME NEW t \in Turns, CancelGeneralTurn(t) PROVE TablesOK' /\ WiresOK' /\ HostOK'
  <2>1. turn' \in TurnTable
    BY <1>0, <1>6, TurnColumns DEF CancelGeneralTurn, TablesOK, TurnTable, TerminalTurnStates
  <2>2. attempt' \in AttemptTable
    BY <1>0, <1>6, AttemptEnds
       DEF CancelGeneralTurn, TablesOK, AttemptStates, TerminalTurnStates
  <2>3. outbox' \in OutboxTable
    BY <1>0, <1>6, CancelRowsTypes DEF CancelGeneralTurn, TablesOK, OutboxTable
  <2> QED BY <1>0, <1>6, <2>1, <2>2, <2>3, WiresStay, HostStays
          DEF CancelGeneralTurn, TablesOK
<1> QED
  BY <1>2, <1>3, <1>4, <1>5, <1>6 DEF OutcomeStep

-----------------------------------------------------------------------------
\* The attempt that a recovery creates belongs to a generation that exists.
LEMMA RetryGenerationTypes ==
  ASSUME HostOK, NEW t, NEW n
  PROVE  RetryGeneration(t, n) \in Generations
  BY DEF RetryGeneration, HostOK, AgentRecord

\* Visiting one stalled attempt keeps the types of the tables.
LEMMA RecoverTables ==
  ASSUME TablesOK, WiresOK, HostOK, NEW v \in picked, RecoverStalled(v)
  PROVE  TablesOK'
<1> DEFINE t == v.t  n == v.n
<1>1. t \in Turns /\ n \in AttemptNumbers
  BY DEF WiresOK
<1>2. turn[t] \in TurnRecord
  BY <1>1 DEF TablesOK, TurnTable
<1>3. Interrupt(t, n) \in AttemptRecord
  BY <1>1, EndedRecord DEF Interrupt, TablesOK, AttemptTable, AttemptStates
<1>4. \/ UNCHANGED turnVars \/ RenewLease(t, n) \/ CancelStalled(t, n)
      \/ FailStalled(t, n) \/ Redispatch(t, n)
  BY DEF RecoverStalled
<1> HIDE DEF t, n
<1>5. CASE UNCHANGED turnVars
  BY <1>5, TablesStay
<1>6. CASE RenewLease(t, n)
  BY <1>1, <1>6, AttemptColumnWrite DEF RenewLease, TablesOK
<1>7. CASE CancelStalled(t, n)
  <2>1. turn' \in TurnTable
    BY <1>1, <1>7, TurnColumns DEF CancelStalled, TablesOK, TurnTable, TerminalTurnStates
  <2>2. attempt' \in AttemptTable
    BY <1>1, <1>3, <1>7, AttemptWrite DEF CancelStalled, TablesOK
  <2> QED BY <1>7, <2>1, <2>2 DEF CancelStalled, TablesOK
<1>8. CASE FailStalled(t, n)
  <2>1. turn' \in TurnTable
    BY <1>1, <1>8, TurnColumns DEF FailStalled, TablesOK, TurnTable, TerminalTurnStates
  <2>2. posted' \in [Turns -> PostedRecord]
    BY <1>1, <1>8 DEF FailStalled, TablesOK, PostedRecord
  <2>3. [Interrupt(t, n) EXCEPT !.reason = IF TransientRetry(t, n) THEN "transient" ELSE "none"]
           \in AttemptRecord
    BY <1>3, AttemptColumns
  <2>4. attempt' \in AttemptTable
    BY <1>1, <1>8, <2>3, AttemptWrite DEF FailStalled, TablesOK
  <2> QED BY <1>8, <2>1, <2>2, <2>4 DEF FailStalled, TablesOK
<1>9. CASE Redispatch(t, n)
  <2> DEFINE next == turn[t].active + 1
             spent == TransientRetry(t, n)
             new == NewAttempt(RetryGeneration(t, n))
             old == [Interrupt(t, n) EXCEPT !.spent = spent]
             row == [turn[t] EXCEPT !.state = "retrying", !.active = next, !.retries = @ + 1]
  <2>1. turn[t].active + 1 \in Nat /\ turn[t].retries + 1 \in Nat
    BY <1>2 DEF TurnRecord
  <2>2. row \in TurnRecord
    BY <1>2, <2>1 DEF TurnRecord, OpenTurnStates
  <2>3. turn' = [turn EXCEPT ![t] = row]
    BY <1>9 DEF Redispatch
  <2>4. turn' \in TurnTable
    BY <1>1, <2>2, <2>3, TurnWrite DEF TablesOK
  <2>5. spent \in BOOLEAN
    BY DEF TransientRetry
  <2>6. new \in AttemptRecord
    BY NewAttemptRecord, RetryGenerationTypes
  <2>7. attempt' = [attempt EXCEPT ![t] = [m \in AttemptNumbers |->
                      IF m = next THEN new ELSE IF m = n THEN old ELSE attempt[t][m]]]
    BY <1>9 DEF Redispatch
  <2>8. outbox' = [outbox EXCEPT ![t][next] = IF spent THEN "waiting" ELSE "due"]
    BY <1>9 DEF Redispatch
  <2>9. old \in AttemptRecord
    BY <1>3, <2>5, AttemptColumns
  <2> HIDE DEF next, spent, new, old
  <2>10. attempt' \in AttemptTable
    BY <1>1, <2>6, <2>7, <2>9 DEF TablesOK, AttemptTable
  <2>11. outbox' \in OutboxTable
    BY <1>1, <2>8, OutboxWrite DEF TablesOK, RowStates, PendingRowStates
  <2> QED BY <1>9, <2>4, <2>10, <2>11 DEF Redispatch, TablesOK
<1> QED BY <1>4, <1>5, <1>6, <1>7, <1>8, <1>9

\* Every step of the recovery worker keeps the types.
LEMMA RecoveryTypes == TypeInv /\ RecoveryStep => TypeInv'
<1> SUFFICES ASSUME TypeInv, RecoveryStep PROVE TablesOK' /\ WiresOK' /\ HostOK'
  BY TypePartsNext
<1>0. TablesOK /\ WiresOK /\ HostOK
  BY TypeParts
<1>1. CASE CancelInvalidTurns
  <2>1. turn' \in TurnTable
    BY <1>0, <1>1, TurnColumns
       DEF CancelInvalidTurns, TablesOK, TurnTable, TerminalTurnStates
  <2>2. ASSUME NEW t \in Turns
        PROVE  [attempt[t] EXCEPT ![turn[t].active] = Ended(@, "cancelled")]
                  \in [AttemptNumbers -> AttemptRecord]
    BY <1>0, EndedRecord DEF TablesOK, AttemptTable, AttemptStates, TerminalTurnStates
  <2>3. attempt' \in AttemptTable
    BY <1>0, <1>1, <2>2 DEF CancelInvalidTurns, TablesOK, AttemptTable
  <2>4. outbox' \in OutboxTable
    BY <1>0, <1>1, CancelRowsTypes DEF CancelInvalidTurns, TablesOK, OutboxTable
  <2> QED BY <1>0, <1>1, <2>1, <2>3, <2>4, WiresStay, HostStays
          DEF CancelInvalidTurns, TablesOK
<1>2. ASSUME NEW live, SelectStalled(live) PROVE TablesOK' /\ WiresOK' /\ HostOK'
  <2> DEFINE stalled == {x \in Turns \X AttemptNumbers : Stalled(x[1], x[2])}
  <2>0. picked' = {[t |-> x[1], n |-> x[2], live |-> x \in live] : x \in stalled}
    BY <1>2 DEF SelectStalled
  <2>1. picked' \subseteq [t: Turns, n: AttemptNumbers, live: BOOLEAN]
    <3> SUFFICES ASSUME NEW v \in picked'
                 PROVE  v \in [t: Turns, n: AttemptNumbers, live: BOOLEAN]
      OBVIOUS
    <3>1. PICK x \in stalled : v = [t |-> x[1], n |-> x[2], live |-> x \in live]
      BY <2>0
    <3>2. x[1] \in Turns /\ x[2] \in AttemptNumbers /\ (x \in live) \in BOOLEAN
      OBVIOUS
    <3> QED BY <3>1, <3>2
  <2>2. WiresOK'
    BY <1>0, <1>2, <2>1 DEF SelectStalled, WiresOK
  <2> QED BY <1>0, <1>2, <2>2, TablesStay, HostStays DEF SelectStalled
<1>3. ASSUME NEW t \in Turns, NEW n \in AttemptNumbers, LeaseExpires(t, n)
      PROVE  TablesOK' /\ WiresOK' /\ HostOK'
  <2>1. attempt' \in AttemptTable
    BY <1>0, <1>3, AttemptColumnWrite DEF LeaseExpires, TablesOK
  <2> QED BY <1>0, <1>3, <2>1, WiresStay, HostStays DEF LeaseExpires, TablesOK
<1>4. ASSUME NEW v \in picked, RecoverStalled(v) PROVE TablesOK' /\ WiresOK' /\ HostOK'
  <2>1. TablesOK'
    BY <1>0, <1>4, RecoverTables
  <2> QED BY <1>0, <1>4, <2>1, HostStays DEF RecoverStalled, WiresOK
<1>5. CASE NodeShutdown
  <2> DEFINE Fenced(t, n) == Open(t) /\ Active(t, n) /\ attempt[t][n].gen = agent.generation
             Marked(t, n) == [attempt[t][n] EXCEPT
                 !.lease = "expired", !.reason = IF @ = "none" THEN "explicit" ELSE @]
  <2>1. ASSUME NEW t \in Turns, NEW n \in AttemptNumbers
        PROVE  Marked(t, n) \in AttemptRecord /\ attempt[t][n] \in AttemptRecord
    <3>1. attempt[t][n] \in AttemptRecord
      BY <1>0 DEF TablesOK, AttemptTable
    <3>2. \A a \in AttemptRecord :
             [a EXCEPT !.lease = "expired", !.reason = IF @ = "none" THEN "explicit" ELSE @]
                \in AttemptRecord
      BY DEF AttemptRecord
    <3> QED BY <3>1, <3>2
  <2>2. attempt' = [t \in Turns |-> [n \in AttemptNumbers |->
                       IF Fenced(t, n) THEN Marked(t, n) ELSE attempt[t][n]]]
    BY <1>5 DEF NodeShutdown
  <2>3. picked' = picked \cup {[t |-> x[1], n |-> x[2], live |-> FALSE] :
                      x \in {y \in Turns \X AttemptNumbers : Fenced(y[1], y[2])}}
    BY <1>5 DEF NodeShutdown
  <2> HIDE DEF Fenced, Marked
  <2>4. attempt' \in AttemptTable
    BY <2>1, <2>2 DEF AttemptTable
  <2>5. WiresOK'
    <3>1. ASSUME NEW v \in picked'
          PROVE  v \in [t: Turns, n: AttemptNumbers, live: BOOLEAN]
      <4>1. CASE v \in picked
        BY <1>0, <4>1 DEF WiresOK
      <4>2. CASE v \notin picked
        <5>1. PICK x \in {y \in Turns \X AttemptNumbers : Fenced(y[1], y[2])} :
                 v = [t |-> x[1], n |-> x[2], live |-> FALSE]
          BY <2>3, <4>2
        <5> QED BY <5>1
      <4> QED BY <4>1, <4>2
    <3> QED BY <1>0, <1>5, <3>1 DEF NodeShutdown, WiresOK
  <2>6. daemon' \in DaemonRecord /\ session' \in SessionRecord /\ faults' \in 0..MaxFaults
    <3>1. daemon' \in DaemonRecord
      BY <1>0, <1>5 DEF NodeShutdown, HostOK, DaemonRecord
    <3>2. session' \in SessionRecord
      BY <1>5, GenerationFacts DEF NodeShutdown, SessionRecord, Disconnected
    <3>3. faults' \in 0..MaxFaults
      <4>1. faults \in 0..MaxFaults /\ faults < MaxFaults /\ faults' = faults + 1
        BY <1>0, <1>5 DEF NodeShutdown, HostOK, Fault
      <4> QED BY <4>1, TurnStoreAssumption
    <3> QED BY <3>1, <3>2, <3>3
  <2>7. HostOK'
    BY <1>0, <1>5, <2>6 DEF NodeShutdown, HostOK, DrainOnRecord, BumpOnRecord
  <2> QED BY <1>0, <1>5, <2>4, <2>5, <2>7 DEF NodeShutdown, TablesOK
<1> QED
  BY <1>1, <1>2, <1>3, <1>4, <1>5 DEF RecoveryStep

-----------------------------------------------------------------------------
\* Moving undelivered attempts to a generation that exists keeps the tables.
LEMMA RemapTypes ==
  ASSUME TablesOK, NEW old, NEW new \in Generations
  PROVE  RemapPending(old, new) \in AttemptTable
<1>1. ASSUME NEW t \in Turns, NEW n \in AttemptNumbers
      PROVE  /\ attempt[t][n] \in AttemptRecord
             /\ [attempt[t][n] EXCEPT !.gen = new] \in AttemptRecord
  <2>1. attempt[t][n] \in AttemptRecord
    BY DEF TablesOK, AttemptTable
  <2> QED BY <2>1, AttemptColumns
<1> QED BY <1>1 DEF RemapPending, AttemptTable

\* An agent without a drain is an agent.
LEMMA NoDrainTypes ==
  ASSUME NEW a \in AgentRecord
  PROVE  NoDrain(a) \in AgentRecord /\ NoDrain(a).pending = 0
  BY GenerationFacts DEF NoDrain, AgentRecord

\* What bump_generation writes is typed: the generation it counts to is within
\* the bound and the manifest it records is a real one.
LEMMA BumpWritesTypes ==
  ASSUME TablesOK, WiresOK, HostOK, NEW b \in BumpRecord,
         b.kind # "none" => b.manifest \in Manifests, BumpWrites(b)
  PROVE  TablesOK' /\ WiresOK' /\ agent' \in AgentRecord /\ DrainOnRecord'
         /\ orders' \subseteq Order
<1> DEFINE next == b.generation + 1
           wanted == IF b.pending = 0 THEN next ELSE b.pending + 1
<1>1. /\ b.generation \in Generations /\ b.pending \in Generations
      /\ next =< MaxGeneration => next \in Generations
      /\ wanted =< MaxGeneration => wanted \in Generations
  <2>1. b.generation \in Generations /\ b.pending \in Generations
    BY DEF BumpRecord
  <2> QED BY <2>1, GenerationFacts
<1>2. agent \in AgentRecord /\ orders \subseteq Order /\ DrainOnRecord
  BY DEF HostOK
<1>3. /\ attempt' \in AttemptTable /\ agent' \in AgentRecord
      /\ orders' \subseteq Order /\ DrainOnRecord'
  <2>1. CASE /\ b.kind = "stopped" /\ next =< MaxGeneration
             /\ agent' = [agent EXCEPT !.generation = next]
             /\ attempt' = RemapPending(b.generation, next) /\ UNCHANGED orders
    <3>1. attempt' \in AttemptTable
      BY <1>1, <2>1, RemapTypes
    <3>2. agent' \in AgentRecord /\ DrainOnRecord'
      BY <1>1, <1>2, <2>1 DEF AgentRecord, DrainOnRecord
    <3> QED BY <1>2, <2>1, <3>1, <3>2
  <2>2. CASE /\ b.kind = "cancel" /\ agent' = NoDrain(agent)
             /\ attempt' = RemapPending(b.pending, b.generation) /\ UNCHANGED orders
    <3>1. attempt' \in AttemptTable
      BY <1>1, <2>2, RemapTypes
    <3>2. agent' \in AgentRecord /\ DrainOnRecord'
      BY <1>2, <2>2, NoDrainTypes DEF DrainOnRecord
    <3> QED BY <1>2, <2>2, <3>1, <3>2
  <2>3. CASE /\ b.kind = "drain" /\ wanted =< MaxGeneration
             /\ agent' = [agent EXCEPT !.pending = wanted, !.pendingManifest = b.manifest,
                                       !.deadline = "set"]
             /\ attempt' = IF b.pending # 0 THEN RemapPending(b.pending, wanted) ELSE attempt
             /\ UNCHANGED orders
    <3>1. attempt' \in AttemptTable
      BY <1>1, <2>3, RemapTypes DEF TablesOK
    <3> HIDE DEF wanted
    <3>2. agent' \in AgentRecord /\ agent'.pendingManifest \in Manifests
      BY <1>1, <1>2, <2>3 DEF AgentRecord
    <3> QED BY <1>2, <2>3, <3>1, <3>2 DEF DrainOnRecord
  <2>4. CASE /\ b.kind = "now" /\ next =< MaxGeneration
             /\ agent' = [agent EXCEPT !.generation = next, !.manifest = b.manifest]
             /\ attempt' = RemapPending(b.generation, next) /\ SendOrder(next, "running")
    <3>1. attempt' \in AttemptTable
      BY <1>1, <2>4, RemapTypes
    <3> HIDE DEF next
    <3>2. agent' \in AgentRecord /\ DrainOnRecord'
      BY <1>1, <1>2, <2>4 DEF AgentRecord, DrainOnRecord
    <3>3. orders' \subseteq Order
      BY <1>1, <1>2, <2>4 DEF SendOrder, Order
    <3> QED BY <3>1, <3>2, <3>3
  <2> QED BY <2>1, <2>2, <2>3, <2>4 DEF BumpWrites
<1> QED BY <1>3, WiresStay DEF BumpWrites, TablesOK

\* What bump_generation decides is typed, and names a real manifest.
LEMMA BumpDecisionTypes ==
  ASSUME HostOK
  PROVE  BumpDecision \in BumpRecord /\ BumpDecision.manifest \in Manifests
  BY DEF HostOK, BumpDecision, BumpKind, BumpRecord, AgentRecord

\* A step that touches neither tables nor wires keeps them.
LEMMA QuietTables ==
  ASSUME TablesOK, WiresOK, UNCHANGED <<turnVars, wireVars>>
  PROVE  TablesOK' /\ WiresOK'
  BY TablesStay, WiresStay

\* Every step of the agent's life keeps the types.
LEMMA GenerationTypes == TypeInv /\ GenerationStep => TypeInv'
<1> SUFFICES ASSUME TypeInv, GenerationStep PROVE TablesOK' /\ WiresOK' /\ HostOK'
  BY TypePartsNext
<1>0. TablesOK /\ WiresOK /\ HostOK
  BY TypeParts
<1>1. Disconnected \in SessionRecord
  BY GenerationFacts DEF Disconnected, SessionRecord
<1>2. Fault => faults' \in 0..MaxFaults
  <2> SUFFICES ASSUME Fault PROVE faults' \in 0..MaxFaults
    OBVIOUS
  <2>1. faults \in 0..MaxFaults /\ faults < MaxFaults /\ faults' = faults + 1
    BY <1>0 DEF HostOK, Fault
  <2> QED BY <2>1, TurnStoreAssumption
<1>3. agent \in AgentRecord /\ DrainOnRecord /\ orders \subseteq Order
  BY <1>0 DEF HostOK
<1> USE DEF DrainOnRecord, BumpOnRecord
<1>4. ASSUME NEW m \in Manifests, EditConfig(m) PROVE TablesOK' /\ WiresOK' /\ HostOK'
  BY <1>0, <1>4, QuietTables DEF EditConfig, HostOK
<1>6. CASE BumpReads
  BY <1>0, <1>6, BumpDecisionTypes, QuietTables DEF BumpReads, HostOK
<1>7. CASE BumpLands
  <2>1. BumpWrites(bump) /\ bump' = NoBump
    BY <1>7 DEF BumpLands
  <2>2. bump \in BumpRecord /\ (bump.kind # "none" => bump.manifest \in Manifests)
    BY <1>0 DEF HostOK
  <2>3. /\ TablesOK' /\ WiresOK' /\ agent' \in AgentRecord
        /\ DrainOnRecord' /\ orders' \subseteq Order
    BY <1>0, <2>1, <2>2, BumpWritesTypes
  <2>4. bump' \in BumpRecord /\ BumpOnRecord'
    BY <2>1, GenerationFacts DEF NoBump, BumpRecord
  <2> QED BY <1>0, <2>1, <2>3, <2>4 DEF BumpWrites, HostOK
<1>8. CASE ReleaseGenerationDrain
  <2>1. agent.pending \in Generations /\ agent.pendingManifest \in Manifests
    BY <1>3, <1>8 DEF ReleaseGenerationDrain, AgentRecord
  <2>2. attempt' \in AttemptTable
    BY <1>0, <1>8, <2>1, RemapTypes DEF ReleaseGenerationDrain
  <2>3. [agent EXCEPT !.generation = agent.pending, !.manifest = agent.pendingManifest]
           \in AgentRecord
    BY <1>3, <2>1 DEF AgentRecord
  <2>4. agent' \in AgentRecord /\ DrainOnRecord'
    BY <1>8, <2>3, NoDrainTypes DEF ReleaseGenerationDrain
  <2>5. orders' \subseteq Order
    BY <1>3, <1>8, <2>1 DEF ReleaseGenerationDrain, SendOrder, Order
  <2> QED BY <1>0, <1>8, <2>2, <2>4, <2>5, WiresStay
          DEF ReleaseGenerationDrain, TablesOK, HostOK
<1>9. CASE DeadlinePasses
  <2>1. agent' \in AgentRecord /\ DrainOnRecord'
    BY <1>3, <1>9 DEF DeadlinePasses, AgentRecord
  <2> QED BY <1>0, <1>9, <2>1, QuietTables DEF DeadlinePasses, HostOK
<1>10. CASE RequestStart
  <2>1. agent' \in AgentRecord /\ DrainOnRecord'
    <3>1. CASE agent.acked
      <4> DEFINE a == [agent EXCEPT !.desired = "running", !.actual = "pending",
                                    !.generation = @ + 1, !.acked = FALSE,
                                    !.manifest = config]
      <4>1. agent.generation + 1 \in Generations
        BY <1>3, <1>10, <3>1, GenerationFacts DEF RequestStart, AgentRecord
      <4>2. config \in Manifests
        BY <1>0 DEF HostOK
      <4>3. a \in AgentRecord
        BY <1>3, <4>1, <4>2 DEF AgentRecord
      <4>4. agent' = NoDrain(a)
        BY <1>10, <3>1 DEF RequestStart
      <4> HIDE DEF a
      <4> QED BY <4>3, <4>4, NoDrainTypes
    <3>2. CASE ~agent.acked
      BY <1>0, <1>3, <1>10, <3>2 DEF RequestStart, AgentRecord, HostOK
    <3> QED BY <3>1, <3>2
  <2>2. orders' = orders \cup {[gen |-> agent'.generation, desired |-> "running"]}
    BY <1>10 DEF RequestStart, SendOrder
  <2>3. orders' \subseteq Order
    BY <1>3, <2>1, <2>2 DEF Order, AgentRecord
  <2> QED BY <1>0, <1>10, <2>1, <2>3, QuietTables DEF RequestStart, HostOK
<1>11. CASE RequestStop
  <2> DEFINE a == [agent EXCEPT
          !.desired = "stopped", !.generation = @ + 1, !.acked = TRUE,
          !.actual = IF @ \in {"running", "pending"} THEN "stopping" ELSE @]
  <2>1. agent.generation + 1 \in Generations
    BY <1>3, <1>11, GenerationFacts DEF RequestStop, AgentRecord
  <2>2. a \in AgentRecord
    BY <1>3, <2>1 DEF AgentRecord
  <2>3. agent' = NoDrain(a) /\ orders' = orders \cup {[gen |-> agent'.generation, desired |-> "stopped"]}
    BY <1>11 DEF RequestStop, SendOrder
  <2> HIDE DEF a
  <2>4. agent' \in AgentRecord /\ DrainOnRecord'
    BY <2>2, <2>3, NoDrainTypes
  <2>5. orders' \subseteq Order
    BY <1>3, <2>3, <2>4 DEF Order, AgentRecord
  <2> QED BY <1>0, <1>11, <2>4, <2>5, QuietTables DEF RequestStop, HostOK
<1>12. CASE ReportActualState
  <2>1. agent' \in AgentRecord /\ DrainOnRecord'
    BY <1>3, <1>12 DEF ReportActualState, AgentRecord
  <2> QED BY <1>0, <1>12, <2>1, QuietTables DEF ReportActualState, HostOK
<1>13. ASSUME NEW o \in orders, DaemonApplies(o) PROVE TablesOK' /\ WiresOK' /\ HostOK'
  <2>1. daemon' \in DaemonRecord
    BY <1>3, <1>13 DEF DaemonApplies, DaemonRecord, Order
  <2> QED BY <1>0, <1>1, <1>13, <2>1, QuietTables DEF DaemonApplies, HostOK
<1>14. CASE ProcessCrashes
  <2>1. daemon' \in DaemonRecord
    BY <1>0, <1>14 DEF ProcessCrashes, DaemonRecord, HostOK
  <2> QED BY <1>0, <1>1, <1>2, <1>14, <2>1, QuietTables DEF ProcessCrashes, HostOK
<1>15. CASE ProcessRestarts
  <2>1. daemon' \in DaemonRecord
    BY <1>0, <1>15 DEF ProcessRestarts, DaemonRecord, HostOK
  <2> QED BY <1>0, <1>15, <2>1, QuietTables DEF ProcessRestarts, HostOK
<1>16. ASSUME NEW legacy \in BOOLEAN, Subscribe(legacy) PROVE TablesOK' /\ WiresOK' /\ HostOK'
  <2>1. session' \in SessionRecord
    BY <1>0, <1>16 DEF Subscribe, SessionRecord, DaemonRecord, HostOK
  <2> QED BY <1>0, <1>16, <2>1, QuietTables DEF Subscribe, HostOK
<1>17. CASE Unsubscribe
  BY <1>0, <1>1, <1>2, <1>17, QuietTables DEF Unsubscribe, HostOK
<1>18. ASSUME NEW which \in Revocable, RevokeGate(which) PROVE TablesOK' /\ WiresOK' /\ HostOK'
  <2>1. which \in {"member", "open", "budget"}
    BY TurnStoreAssumption
  <2>2. gate' \in GateRecord
    BY <1>0, <1>18, <2>1 DEF RevokeGate, GateRecord, HostOK
  <2> QED BY <1>0, <1>18, <2>2, QuietTables DEF RevokeGate, HostOK, hostVars
<1>19. LegacyClients \in BOOLEAN
  BY TurnStoreAssumption
<1> QED
  BY <1>4, <1>6, <1>7, <1>8, <1>9, <1>10, <1>11, <1>12, <1>13, <1>14, <1>15,
     <1>16, <1>17, <1>18, <1>19 DEF GenerationStep

-----------------------------------------------------------------------------
\* The first state is typed.
LEMMA InitTypes == Init => TypeInv
<1> SUFFICES ASSUME Init PROVE TablesOK /\ WiresOK /\ HostOK
  BY TypeParts
<1>1. turn \in TurnTable
  BY DEF Init, TurnTable, TurnRecord, NoTurn
<1>2. attempt \in AttemptTable
  BY GenerationFacts DEF Init, AttemptTable, AttemptRecord, NoAttempt, AttemptStates
<1>3. outbox \in OutboxTable
  BY DEF Init, OutboxTable, RowStates
<1>4. posted \in [Turns -> PostedRecord]
  BY DEF Init, PostedRecord
<1>5. agent \in AgentRecord /\ DrainOnRecord
  BY GenerationFacts DEF Init, AgentRecord, DrainOnRecord
<1>6. bump \in BumpRecord /\ BumpOnRecord
  BY GenerationFacts DEF Init, BumpRecord, NoBump, BumpOnRecord
<1>7. orders \subseteq Order /\ daemon \in DaemonRecord /\ session \in SessionRecord
  BY GenerationFacts DEF Init, Order, DaemonRecord, SessionRecord, Disconnected
<1>8. gate \in GateRecord /\ faults \in 0..MaxFaults
  BY TurnStoreAssumption DEF Init, GateRecord
<1> QED BY <1>1, <1>2, <1>3, <1>4, <1>5, <1>6, <1>7, <1>8 DEF Init, TablesOK, WiresOK, HostOK

\* No step of any actor leaves the types.
LEMMA TypeStep == TypeInv /\ [Next]_vars => TypeInv'
<1>1. TypeInv /\ UNCHANGED vars => TypeInv'
  BY DEF vars, TypeInv, TypeOK, DrainOnRecord, BumpOnRecord
<1> QED BY <1>1, DispatchTypes, OutcomeTypes, RecoveryTypes, GenerationTypes DEF Next

\* Type correctness: whatever dispatcher, agents, recovery worker, operators and
\* machines do, every row and frame keeps the values its columns allow, and a
\* drain on record always names the manifest it will promote.
THEOREM TypeCorrect == Spec => [](TypeOK /\ TypeInv)
<1>1. Init => TypeInv
  BY InitTypes
<1>2. TypeInv /\ [Next]_vars => TypeInv'
  BY TypeStep
<1>3. TypeInv => TypeOK
  BY DEF TypeInv
<1> QED BY <1>1, <1>2, <1>3, PTL DEF Spec
=============================================================================
