------------------------ MODULE DurableTurnsProofs -------------------------
(***************************************************************************)
(* Safety of the durable-turn engine, for every value of the constants.    *)
(* The argument has two halves.  StepShape says what a single step of any  *)
(* actor may do to the turns: leave them, ask one, take one up, put one    *)
(* back, settle one, or settle all that are open.  That a step is of such  *)
(* a shape is proved action by action from the inductive invariant IInv;   *)
(* that the shapes keep IInv, and what the shapes imply for the room, is   *)
(* then proved without looking at any action again.                        *)
(***************************************************************************)
EXTENDS TurnTypeProofs, FiniteSetTheorems

\* An attempt that may still run: it was not delivered yet, or holds a lease.
Live(t, n) == attempt[t][n].state \in {"pending", "leased", "started"}

\* A turn that is not settled has posted nothing and accepted nothing.
Unanswered ==
    \A t \in Turns : turn[t].state \notin TerminalTurnStates =>
        posted[t].reply = 0 /\ posted[t].notice = 0 /\ ~turn[t].accepted

\* A turn that was not asked has no attempts.
Pristine ==
    \A t \in Turns, n \in AttemptNumbers :
        turn[t].state = "none" => attempt[t][n].state = "none"

\* Only the active attempt of an open turn may run.
LiveIsActive ==
    \A t \in Turns, n \in AttemptNumbers : Open(t) /\ Live(t, n) => n = turn[t].active

\* A turn waits exactly for the delivery of its active attempt.
WaitingIsPending ==
    \A t \in Turns : turn[t].state \in {"pending", "retrying"} => Current(t).state = "pending"

\* Attempts are counted by retry_count, and each is paid for by one budget.
AttemptsArePaid ==
    \A t \in Turns : turn[t].state # "none" =>
        /\ turn[t].active \in AttemptNumbers
        /\ turn[t].active - 1 =< turn[t].retries

\* Turns are asked in the order of their numbers.
AskedInOrder ==
    \A t \in Turns : turn[t].state # "none" => \A u \in 1..(t - 1) : turn[u].state # "none"

IInv == /\ TypeInv /\ AtMostOneAnswer /\ Unanswered /\ Pristine /\ LiveIsActive
        /\ WaitingIsPending /\ AttemptsArePaid /\ RetryBudgets /\ AskedInOrder /\ RoomOrder

-----------------------------------------------------------------------------
(* What a step may do to turn t.                                             *)
Rests(t) ==
    /\ turn'[t].state = turn[t].state /\ turn'[t].active = turn[t].active
    /\ turn'[t].retries = turn[t].retries /\ turn'[t].accepted = turn[t].accepted
    /\ posted'[t] = posted[t]
    /\ \A n \in AttemptNumbers :
          /\ attempt'[t][n].spent = attempt[t][n].spent
          /\ \/ attempt'[t][n].state = attempt[t][n].state
             \/ attempt[t][n].state = "leased" /\ attempt'[t][n].state = "started"
             \/ turn[t].state \in TerminalTurnStates /\ ~Live(t, n)'

Asks(t) ==
    /\ turn[t].state = "none" /\ \A u \in 1..(t - 1) : turn[u].state # "none"
    /\ turn'[t].state \in {"pending", "cancelled"} /\ turn'[t].active = 1
    /\ turn'[t].retries \in Nat /\ ~turn'[t].accepted
    /\ posted'[t] = posted[t]
    /\ attempt'[t][1].state = turn'[t].state
    /\ \A n \in AttemptNumbers \ {1} : attempt'[t][n] = attempt[t][n]

TakesUp(t) ==
    /\ Open(t) /\ ~PriorOpen(t)
    /\ turn'[t].state = "leased" /\ turn'[t].active = turn[t].active
    /\ turn'[t].retries = turn[t].retries /\ turn'[t].accepted = turn[t].accepted
    /\ posted'[t] = posted[t]
    /\ \A n \in AttemptNumbers :
          /\ attempt'[t][n].spent = attempt[t][n].spent
          /\ n # turn[t].active => attempt'[t][n].state = attempt[t][n].state

PutsBack(t) ==
    LET n == turn[t].active
        used == TransientUsed(t, n) IN
    /\ Open(t) /\ Active(t, n)
    /\ turn'[t].state = "retrying" /\ turn'[t].active = n + 1
    /\ turn'[t].retries = turn[t].retries + 1 /\ turn'[t].accepted = turn[t].accepted
    /\ posted'[t] = posted[t]
    /\ attempt'[t][n].state = "interrupted"
    /\ \/ attempt'[t][n].spent /\ used < MaxTransient
       \/ ~attempt'[t][n].spent /\ turn[t].retries - used < MaxRetries
    /\ n + 1 \in AttemptNumbers => attempt'[t][n + 1].state = "pending"
    /\ \A m \in AttemptNumbers \ {n, n + 1} : attempt'[t][m] = attempt[t][m]

Settles(t) ==
    /\ Open(t)
    /\ turn'[t].state \in TerminalTurnStates /\ turn'[t].active = turn[t].active
    /\ turn'[t].retries = turn[t].retries
    /\ posted'[t] \in {posted[t], [posted[t] EXCEPT !.reply = @ + 1],
                                  [posted[t] EXCEPT !.notice = @ + 1]}
    /\ \A n \in AttemptNumbers : attempt'[t][n].spent = attempt[t][n].spent

StepShape ==
    \/ \A t \in Turns : Rests(t)
    \/ \E t \in Turns : /\ Asks(t) \/ TakesUp(t) \/ PutsBack(t) \/ Settles(t)
                        /\ \A u \in Turns \ {t} : Rests(u)
    \/ /\ \A t \in Turns : IF Open(t) THEN Settles(t) ELSE Rests(t)
       /\ UNCHANGED posted

-----------------------------------------------------------------------------
(* Every step has the shape.                                                 *)

\* The tables are typed, row by row.
LEMMA Rows ==
  ASSUME TypeInv, NEW t \in Turns
  PROVE  /\ turn[t] \in TurnRecord /\ posted[t] \in PostedRecord
         /\ \A n \in AttemptNumbers : attempt[t][n] \in AttemptRecord
  BY DEF TypeInv, TypeOK

\* Where nothing is written, a turn rests.
LEMMA UntouchedRests ==
  ASSUME NEW t, turn'[t] = turn[t], attempt'[t] = attempt[t], posted'[t] = posted[t]
  PROVE  Rests(t)
  BY DEF Rests

\* When no table but the outbox is written, all turns rest.
LEMMA QuietShape == UNCHANGED <<turn, attempt, posted>> => StepShape
  BY UntouchedRests DEF StepShape

\* When one turn is written, the others rest.
LEMMA OneTurnShape ==
  ASSUME TypeInv, NEW t \in Turns,
         \A u \in Turns \ {t} : /\ turn'[u] = turn[u] /\ attempt'[u] = attempt[u]
                                /\ posted'[u] = posted[u],
         Rests(t) \/ Asks(t) \/ TakesUp(t) \/ PutsBack(t) \/ Settles(t)
  PROVE  StepShape
<1>1. \A u \in Turns \ {t} : Rests(u)
  BY UntouchedRests
<1> QED BY <1>1 DEF StepShape

\* The active attempt of a turn ends; the others stay, and nobody's spent mark changes.
LEMMA EndedAttempt ==
  ASSUME TypeInv, NEW t \in Turns, NEW n, NEW s \in AttemptStates,
         attempt' = [attempt EXCEPT ![t][n] = Ended(@, s)]
  PROVE  /\ \A u \in Turns \ {t} : attempt'[u] = attempt[u]
         /\ \A m \in AttemptNumbers : /\ attempt'[t][m].spent = attempt[t][m].spent
                                      /\ m # n => attempt'[t][m] = attempt[t][m]
                                      /\ m = n => attempt'[t][m].state = s
<1>1. attempt \in AttemptTable
  BY DEF TypeInv, TypeOK, AttemptTable
<1>2. \A u \in Turns \ {t} : attempt'[u] = attempt[u]
  BY <1>1 DEF AttemptTable
<1>3. ASSUME NEW m \in AttemptNumbers, m # n PROVE attempt'[t][m] = attempt[t][m]
  BY <1>1, <1>3 DEF AttemptTable
<1>4. ASSUME NEW m \in AttemptNumbers, m = n PROVE attempt'[t][m] = Ended(attempt[t][m], s)
  BY <1>1, <1>4 DEF AttemptTable
<1>5. \A m \in AttemptNumbers : attempt[t][m] \in AttemptRecord
  BY <1>1 DEF AttemptTable
<1> QED BY <1>2, <1>3, <1>4, <1>5, EndedRecord

\* A step of the dispatcher asks one turn, takes one up, refuses one, or leaves all.
LEMMA DispatchShape == IInv /\ DispatchStep => StepShape
<1> SUFFICES ASSUME IInv, DispatchStep PROVE StepShape
  OBVIOUS
<1>0. TypeInv /\ turn \in TurnTable /\ attempt \in AttemptTable
  BY DEF IInv, TypeInv, TypeOK, TurnTable, AttemptTable
<1>1. ASSUME NEW t \in Turns, NEW r \in Redispatches, CreateTurn(t, r) PROVE StepShape
  <2> DEFINE state == IF Authorized THEN "pending" ELSE "cancelled"
             new == [NoTurn EXCEPT !.state = state, !.active = 1, !.retries = r]
             first == [NewAttempt(agent.generation) EXCEPT !.state = state]
  <2>1. /\ turn' = [turn EXCEPT ![t] = new]
        /\ attempt' = [attempt EXCEPT ![t][1] = first]
        /\ turn[t].state = "none" /\ posted' = posted
        /\ \A u \in 1..(t - 1) : turn[u].state # "none"
    BY <1>1 DEF CreateTurn
  <2>2. /\ new.state = state /\ new.active = 1 /\ new.retries = r /\ ~new.accepted
        /\ state \in {"pending", "cancelled"} /\ r \in Nat
    BY TurnStoreAssumption DEF NoTurn
  <2>3. first.state = state
    BY DEF NewAttempt, NoAttempt
  <2> HIDE DEF state, new, first
  <2>4. turn'[t] = new /\ \A u \in Turns \ {t} : turn'[u] = turn[u]
    BY <1>0, <2>1 DEF TurnTable
  <2>5. /\ attempt'[t][1] = first /\ \A n \in AttemptNumbers \ {1} : attempt'[t][n] = attempt[t][n]
        /\ \A u \in Turns \ {t} : attempt'[u] = attempt[u]
    BY <1>0, <2>1, AttemptNumbersFacts DEF AttemptTable
  <2>6. Asks(t)
    BY <2>1, <2>2, <2>3, <2>4, <2>5 DEF Asks
  <2> QED BY <1>0, <2>1, <2>4, <2>5, <2>6, OneTurnShape
<1>2. ASSUME NEW t \in Turns, NEW n \in AttemptNumbers, DropClosedRow(t, n) PROVE StepShape
  BY <1>2, QuietShape DEF DropClosedRow
<1>3. ASSUME NEW t \in Turns, NEW n \in AttemptNumbers, RefuseRow(t, n) PROVE StepShape
  <2>1. /\ turn' = [turn EXCEPT ![t].state = "cancelled"] /\ Open(t) /\ posted' = posted
        /\ attempt' = [attempt EXCEPT ![t][n] = Ended(@, "cancelled")]
    BY <1>3 DEF RefuseRow
  <2>2. /\ turn'[t] = [turn[t] EXCEPT !.state = "cancelled"]
        /\ \A u \in Turns \ {t} : turn'[u] = turn[u]
    BY <1>0, <2>1 DEF TurnTable
  <2>3. /\ \A u \in Turns \ {t} : attempt'[u] = attempt[u]
        /\ \A m \in AttemptNumbers : attempt'[t][m].spent = attempt[t][m].spent
    BY <1>0, <2>1, EndedAttempt DEF AttemptStates, TerminalTurnStates
  <2>4. Settles(t)
    BY <1>0, <2>1, <2>2, <2>3, Rows DEF Settles, TerminalTurnStates, TurnRecord
  <2> QED BY <1>0, <2>1, <2>2, <2>3, <2>4, OneTurnShape
<1>4. ASSUME NEW t \in Turns, NEW n \in AttemptNumbers, RetireFencedRow(t, n) PROVE StepShape
  <2>1. /\ turn' = [turn EXCEPT ![t].protocol = Rollout(t)]
        /\ posted' = posted /\ attempt' = attempt
    BY <1>4 DEF RetireFencedRow
  <2>2. /\ turn'[t] = [turn[t] EXCEPT !.protocol = Rollout(t)]
        /\ \A u \in Turns \ {t} : turn'[u] = turn[u]
    BY <1>0, <2>1 DEF TurnTable
  <2>3. Rests(t)
    BY <1>0, <2>1, <2>2, Rows DEF Rests, TurnRecord
  <2> QED BY <1>0, <2>1, <2>2, <2>3, OneTurnShape
<1>5. ASSUME NEW t \in Turns, NEW n \in AttemptNumbers, ClaimRow(t, n) PROVE StepShape
  <2>1. Open(t) /\ ~PriorOpen(t) /\ posted' = posted
    BY <1>5 DEF ClaimRow, Deliverable
  <2>2. CASE attempt[t][n].state = "pending"
    <3>1. /\ attempt' = [attempt EXCEPT ![t][n] =
                            [attempt[t][n] EXCEPT !.state = "leased", !.lease = "held"]]
          /\ turn' = [turn EXCEPT ![t] =
                         [turn[t] EXCEPT !.state = "leased", !.protocol = Rollout(t)]]
      BY <1>5, <2>2 DEF ClaimRow
    <3>2. n = turn[t].active
      BY <2>1, <2>2 DEF IInv, LiveIsActive, Live
    <3>3. /\ turn'[t] = [turn[t] EXCEPT !.state = "leased", !.protocol = Rollout(t)]
          /\ \A u \in Turns \ {t} : turn'[u] = turn[u]
      BY <1>0, <3>1 DEF TurnTable
    <3>4. /\ attempt'[t][n] = [attempt[t][n] EXCEPT !.state = "leased", !.lease = "held"]
          /\ \A m \in AttemptNumbers \ {n} : attempt'[t][m] = attempt[t][m]
          /\ \A u \in Turns \ {t} : attempt'[u] = attempt[u]
      BY <1>0, <3>1 DEF AttemptTable
    <3>5. attempt'[t][n].spent = attempt[t][n].spent
      BY <1>0, <3>4, Rows DEF AttemptRecord
    <3>6. /\ turn'[t].state = "leased" /\ turn'[t].active = turn[t].active
          /\ turn'[t].retries = turn[t].retries /\ turn'[t].accepted = turn[t].accepted
      BY <1>0, <3>3, Rows DEF TurnRecord
    <3>7. TakesUp(t)
      BY <2>1, <3>2, <3>4, <3>5, <3>6 DEF TakesUp
    <3> QED BY <1>0, <2>1, <3>3, <3>4, <3>7, OneTurnShape
  <2>3. CASE attempt[t][n].state # "pending"
    <3>1. attempt' = attempt /\ turn' = [turn EXCEPT ![t].protocol = Rollout(t)]
      BY <1>5, <2>3 DEF ClaimRow
    <3>2. /\ turn'[t] = [turn[t] EXCEPT !.protocol = Rollout(t)]
          /\ \A u \in Turns \ {t} : turn'[u] = turn[u]
      BY <1>0, <3>1 DEF TurnTable
    <3>3. Rests(t)
      BY <1>0, <2>1, <3>1, <3>2, Rows DEF Rests, TurnRecord
    <3> QED BY <1>0, <2>1, <3>1, <3>2, <3>3, OneTurnShape
  <2> QED BY <2>2, <2>3
<1>6. ASSUME NEW t \in Turns, NEW n \in AttemptNumbers, RowComesDue(t, n) PROVE StepShape
  BY <1>6, QuietShape DEF RowComesDue
<1>7. ASSUME NEW f \in flight, SendFrame(f) \/ SendBreaks(f) \/ ConfirmDelivery(f)
      PROVE  StepShape
  BY <1>7, QuietShape DEF SendFrame, SendBreaks, ConfirmDelivery, turnVars
<1>8. CASE ServerCrash \/ \E t \in Turns : StrayCopy(t)
  BY <1>8, QuietShape DEF ServerCrash, StrayCopy, turnVars
<1> QED
  BY <1>1, <1>2, <1>3, <1>4, <1>5, <1>6, <1>7, <1>8 DEF DispatchStep

\* A frame of the agent is about a turn of the room.
LEMMA SeenRow ==
  ASSUME TypeInv, NEW p \in received
  PROVE  /\ p.t \in Turns /\ Seen(p) \in TurnRecord
         /\ Seen(p).state = turn[p.t].state /\ Seen(p).active = turn[p.t].active
         /\ Seen(p).retries = turn[p.t].retries /\ Seen(p).accepted = turn[p.t].accepted
<1>1. p \in Proof /\ p.t \in Turns
  BY DEF TypeInv, TypeOK, Proof
<1>2. TablesOK /\ turn[p.t] \in TurnRecord
  BY <1>1, Rows, TypeParts
<1>3. /\ Seen(p).state = turn[p.t].state /\ Seen(p).active = turn[p.t].active
      /\ Seen(p).retries = turn[p.t].retries /\ Seen(p).accepted = turn[p.t].accepted
  BY <1>2 DEF Seen, TurnRecord
<1> QED BY <1>1, <1>2, <1>3, SeenTypes

\* One turn's row is rewritten, the others stay.
LEMMA TurnPut ==
  ASSUME TypeInv, NEW t \in Turns, NEW row, turn' = [turn EXCEPT ![t] = row]
  PROVE  turn'[t] = row /\ \A u \in Turns \ {t} : turn'[u] = turn[u]
<1>1. turn \in TurnTable
  BY DEF TypeInv, TypeOK, TurnTable
<1> QED BY <1>1 DEF TurnTable

\* Closing by a frame settles an open turn, and leaves a completed one completed.
LEMMA CloseShape ==
  ASSUME TypeInv, NEW p \in received, NEW s \in TerminalTurnStates, CloseByAgent(p, s),
         Open(p.t) \/ turn[p.t].state = s, posted' = posted
  PROVE  StepShape
<1> DEFINE t == p.t
<1>1. t \in Turns
  BY SeenRow
<1>2. /\ turn' = [turn EXCEPT ![t] = [Seen(p) EXCEPT !.state = s]]
      /\ attempt' = [attempt EXCEPT ![t][turn[t].active] = Ended(@, s)]
  BY DEF CloseByAgent
<1>3. /\ turn'[t] = [Seen(p) EXCEPT !.state = s]
      /\ \A u \in Turns \ {t} : turn'[u] = turn[u]
  BY <1>1, <1>2, TurnPut
<1>4. /\ turn'[t].state = s /\ turn'[t].active = turn[t].active
      /\ turn'[t].retries = turn[t].retries /\ turn'[t].accepted = turn[t].accepted
  BY <1>3, SeenRow DEF TurnRecord
<1> HIDE DEF t
<1>5. /\ \A u \in Turns \ {t} : attempt'[u] = attempt[u]
      /\ \A m \in AttemptNumbers :
            /\ attempt'[t][m].spent = attempt[t][m].spent
            /\ m # turn[t].active => attempt'[t][m] = attempt[t][m]
            /\ m = turn[t].active => attempt'[t][m].state = s
  <2>1. s \in AttemptStates /\ attempt \in AttemptTable
    BY DEF AttemptStates, TypeInv, TypeOK, AttemptTable
  <2>2. \A m \in AttemptNumbers : attempt[t][m] \in AttemptRecord
    BY <1>1, <2>1 DEF AttemptTable
  <2>3. \A m \in AttemptNumbers : m = turn[t].active => attempt'[t][m] = Ended(attempt[t][m], s)
    BY <1>1, <1>2, <2>1 DEF AttemptTable
  <2>4. /\ \A u \in Turns \ {t} : attempt'[u] = attempt[u]
        /\ \A m \in AttemptNumbers : m # turn[t].active => attempt'[t][m] = attempt[t][m]
    BY <1>1, <1>2, <2>1 DEF AttemptTable
  <2> QED BY <2>1, <2>2, <2>3, <2>4, EndedRecord
<1>6. CASE Open(t)
  <2>1. Settles(t)
    BY <1>4, <1>5, <1>6 DEF Settles
  <2> QED BY <1>1, <1>3, <1>5, <2>1, OneTurnShape
<1>7. CASE turn[t].state = s
  <2>1. \A n \in AttemptNumbers : attempt'[t][n].state = s => ~Live(t, n)'
    BY DEF Live, TerminalTurnStates
  <2>2. Rests(t)
    BY <1>4, <1>5, <1>7, <2>1 DEF Rests
  <2> QED BY <1>1, <1>3, <1>5, <2>2, OneTurnShape
<1> QED BY <1>6, <1>7 DEF t

\* A column of one attempt that says nothing about its state or its budget.
LEMMA QuietColumn ==
  ASSUME TypeInv, NEW t \in Turns, NEW n,
         \/ \E l : attempt' = [attempt EXCEPT ![t][n].lease = l]
         \/ \E b : attempt' = [attempt EXCEPT ![t][n].native = b]
         \/ \E l, r : attempt' = [attempt EXCEPT ![t][n] =
                                     [attempt[t][n] EXCEPT !.lease = l, !.reason = r]]
  PROVE  /\ \A u \in Turns \ {t} : attempt'[u] = attempt[u]
         /\ \A m \in AttemptNumbers : /\ attempt'[t][m].spent = attempt[t][m].spent
                                      /\ attempt'[t][m].state = attempt[t][m].state
                                      /\ attempt'[t][m].gen = attempt[t][m].gen
<1>1. attempt \in AttemptTable
  BY DEF TypeInv, TypeOK, AttemptTable
<1>2. \A m \in AttemptNumbers : attempt[t][m] \in AttemptRecord
  BY <1>1 DEF AttemptTable
<1>3. ASSUME NEW l, attempt' = [attempt EXCEPT ![t][n].lease = l]
      PROVE  /\ \A u \in Turns \ {t} : attempt'[u] = attempt[u]
             /\ \A m \in AttemptNumbers : /\ attempt'[t][m].spent = attempt[t][m].spent
                                          /\ attempt'[t][m].state = attempt[t][m].state
                                          /\ attempt'[t][m].gen = attempt[t][m].gen
  BY <1>1, <1>2, <1>3 DEF AttemptTable, AttemptRecord
<1>4. ASSUME NEW b, attempt' = [attempt EXCEPT ![t][n].native = b]
      PROVE  /\ \A u \in Turns \ {t} : attempt'[u] = attempt[u]
             /\ \A m \in AttemptNumbers : /\ attempt'[t][m].spent = attempt[t][m].spent
                                          /\ attempt'[t][m].state = attempt[t][m].state
                                          /\ attempt'[t][m].gen = attempt[t][m].gen
  BY <1>1, <1>2, <1>4 DEF AttemptTable, AttemptRecord
<1>5. ASSUME NEW l, NEW r,
             attempt' = [attempt EXCEPT ![t][n] =
                            [attempt[t][n] EXCEPT !.lease = l, !.reason = r]]
      PROVE  /\ \A u \in Turns \ {t} : attempt'[u] = attempt[u]
             /\ \A m \in AttemptNumbers : /\ attempt'[t][m].spent = attempt[t][m].spent
                                          /\ attempt'[t][m].state = attempt[t][m].state
                                          /\ attempt'[t][m].gen = attempt[t][m].gen
  <2>1. \A u \in Turns \ {t} : attempt'[u] = attempt[u]
    BY <1>1, <1>5 DEF AttemptTable
  <2>2. ASSUME NEW m \in AttemptNumbers, m # n PROVE attempt'[t][m] = attempt[t][m]
    BY <1>1, <1>5, <2>2 DEF AttemptTable
  <2>3. ASSUME NEW m \in AttemptNumbers, m = n
        PROVE  attempt'[t][m] = [attempt[t][m] EXCEPT !.lease = l, !.reason = r]
    BY <1>1, <1>5, <2>3 DEF AttemptTable
  <2>4. \A a \in AttemptRecord : /\ [a EXCEPT !.lease = l, !.reason = r].spent = a.spent
                                 /\ [a EXCEPT !.lease = l, !.reason = r].state = a.state
                                 /\ [a EXCEPT !.lease = l, !.reason = r].gen = a.gen
    BY DEF AttemptRecord
  <2> QED BY <1>2, <2>1, <2>2, <2>3, <2>4
<1> QED BY <1>3, <1>4, <1>5

\* A frame or a cancellation settles its turn or leaves it.
LEMMA OutcomeShape == IInv /\ OutcomeStep => StepShape
<1> SUFFICES ASSUME IInv, OutcomeStep PROVE StepShape
  OBVIOUS
<1>0. /\ TypeInv /\ turn \in TurnTable /\ attempt \in AttemptTable
      /\ posted \in [Turns -> PostedRecord]
  BY DEF IInv, TypeInv, TypeOK, TurnTable, AttemptTable
<1>1. ASSUME NEW p \in received, NEW deferred \in BOOLEAN, CompleteTurn(p, deferred)
      PROVE  StepShape
  <2> DEFINE t == p.t
             row == [Seen(p) EXCEPT !.state = "completed", !.accepted = ~deferred]
  <2>1. t \in Turns /\ turn[t] \in TurnRecord
    BY <1>0, SeenRow, Rows
  <2>2. /\ turn' = [turn EXCEPT ![t] = row]
        /\ attempt' = [attempt EXCEPT ![t][turn[t].active] = Ended(@, "completed")]
        /\ posted' = IF deferred THEN posted ELSE [posted EXCEPT ![t].reply = @ + 1]
        /\ Open(t)
    BY <1>1 DEF CompleteTurn, CompletionOpen
  <2>3. row.state = "completed" /\ row.active = turn[t].active /\ row.retries = turn[t].retries
    BY <1>0, SeenRow DEF TurnRecord
  <2> HIDE DEF t, row
  <2>4. turn'[t] = row /\ \A u \in Turns \ {t} : turn'[u] = turn[u]
    BY <1>0, <2>1, <2>2, TurnPut
  <2>5. /\ \A u \in Turns \ {t} : attempt'[u] = attempt[u]
        /\ \A m \in AttemptNumbers : attempt'[t][m].spent = attempt[t][m].spent
    BY <1>0, <2>1, <2>2, EndedAttempt DEF AttemptStates, TerminalTurnStates
  <2>6. /\ posted'[t] \in {posted[t], [posted[t] EXCEPT !.reply = @ + 1]}
        /\ \A u \in Turns \ {t} : posted'[u] = posted[u]
    BY <1>0, <2>1, <2>2
  <2>7. Settles(t)
    BY <2>2, <2>3, <2>4, <2>5, <2>6 DEF Settles, TerminalTurnStates
  <2> QED BY <1>0, <2>1, <2>4, <2>5, <2>6, <2>7, OneTurnShape
<1>2. ASSUME NEW p \in received, HandlerStarted(p) PROVE StepShape
  <2> DEFINE t == p.t  n == turn[t].active
  <2>1. t \in Turns /\ turn[t] \in TurnRecord
    BY <1>0, SeenRow, Rows
  <2>2. Current(t).state # "pending" /\ turn[t].state \notin {"none", "cancelled", "failed"}
    BY <1>2 DEF HandlerStarted, LifecycleHolds
  <2>3. turn[t].state \notin {"pending", "retrying"}
    BY <2>1, <2>2 DEF IInv, WaitingIsPending
  <2>4. turn' = [turn EXCEPT ![t] = Seen(p)] /\ posted' = posted
    BY <1>2, <2>3 DEF HandlerStarted
  <2>5. attempt' = attempt \/ (attempt[t][n].state = "leased" /\ attempt' = [attempt EXCEPT ![t][n].state = "started"])
    BY <1>2, <2>2 DEF HandlerStarted, Current
  <2>6. n \in AttemptNumbers /\ attempt[t][n] \in AttemptRecord
    BY <1>0, <2>1, <2>2, Rows DEF IInv, AttemptsArePaid
  <2>7. /\ turn'[t].state = turn[t].state /\ turn'[t].active = turn[t].active
        /\ turn'[t].retries = turn[t].retries /\ turn'[t].accepted = turn[t].accepted
        /\ \A u \in Turns \ {t} : turn'[u] = turn[u]
    BY <1>0, <2>1, <2>4, SeenRow, TurnPut
  <2> HIDE DEF t, n
  <2>8. \/ attempt' = attempt
        \/ /\ attempt[t][n].state = "leased"
           /\ attempt'[t][n] = [attempt[t][n] EXCEPT !.state = "started"]
           /\ \A m \in AttemptNumbers \ {n} : attempt'[t][m] = attempt[t][m]
           /\ \A u \in Turns \ {t} : attempt'[u] = attempt[u]
    BY <1>0, <2>1, <2>5, <2>6 DEF AttemptTable
  <2>9. /\ \A u \in Turns \ {t} : attempt'[u] = attempt[u]
        /\ \A m \in AttemptNumbers :
              /\ attempt'[t][m].spent = attempt[t][m].spent
              /\ \/ attempt'[t][m].state = attempt[t][m].state
                 \/ attempt[t][m].state = "leased" /\ attempt'[t][m].state = "started"
    BY <2>6, <2>8 DEF AttemptRecord
  <2>10. Rests(t)
    BY <2>4, <2>7, <2>9 DEF Rests
  <2> QED BY <1>0, <2>1, <2>4, <2>7, <2>9, <2>10, OneTurnShape
<1>3. ASSUME NEW p \in received, NEW outcome \in Outcomes, HandlerFinished(p, outcome)
      PROVE  StepShape
  <2>1. posted' = posted
    BY <1>3 DEF HandlerFinished
  <2>2. \/ \E s \in TerminalTurnStates :
              CloseByAgent(p, s) /\ (Open(p.t) \/ turn[p.t].state = s)
        \/ \E r : ExpireLease(p, r)
    BY <1>3 DEF HandlerFinished, FinishActive, TerminalTurnStates
  <2>3. ASSUME NEW r, ExpireLease(p, r) PROVE StepShape
    <3> DEFINE t == p.t
    <3>1. t \in Turns
      BY <1>0, SeenRow
    <3>2. /\ turn' = [turn EXCEPT ![t] = Seen(p)]
          /\ attempt' = [attempt EXCEPT ![t][turn[t].active] =
                            [attempt[t][turn[t].active] EXCEPT !.lease = "expired", !.reason = r]]
      BY <2>3 DEF ExpireLease, Current
    <3>3. /\ turn'[t].state = turn[t].state /\ turn'[t].active = turn[t].active
          /\ turn'[t].retries = turn[t].retries /\ turn'[t].accepted = turn[t].accepted
          /\ \A u \in Turns \ {t} : turn'[u] = turn[u]
      BY <1>0, <3>1, <3>2, SeenRow, TurnPut
    <3> HIDE DEF t
    <3>4. /\ \A u \in Turns \ {t} : attempt'[u] = attempt[u]
          /\ \A m \in AttemptNumbers : /\ attempt'[t][m].spent = attempt[t][m].spent
                                       /\ attempt'[t][m].state = attempt[t][m].state
      BY <1>0, <3>1, <3>2, QuietColumn
    <3>5. Rests(t)
      BY <2>1, <3>3, <3>4 DEF Rests
    <3> QED BY <1>0, <2>1, <3>1, <3>3, <3>4, <3>5, OneTurnShape
  <2> QED BY <1>0, <2>1, <2>2, <2>3, CloseShape
<1>4. ASSUME NEW p \in received, AuthorizeNativeStart(p) PROVE StepShape
  <2>1. p.t \in Turns
    BY <1>0, SeenRow
  <2>2. /\ attempt' = [attempt EXCEPT ![p.t][p.n].native = TRUE]
        /\ turn' = turn /\ posted' = posted
    BY <1>4 DEF AuthorizeNativeStart
  <2>3. /\ \A u \in Turns \ {p.t} : attempt'[u] = attempt[u]
        /\ \A m \in AttemptNumbers : /\ attempt'[p.t][m].spent = attempt[p.t][m].spent
                                     /\ attempt'[p.t][m].state = attempt[p.t][m].state
    BY <1>0, <2>1, <2>2, QuietColumn
  <2>4. Rests(p.t)
    BY <2>2, <2>3 DEF Rests
  <2> QED BY <1>0, <2>1, <2>2, <2>3, <2>4, OneTurnShape
<1>5. ASSUME NEW t \in Turns, CancelGeneralTurn(t) PROVE StepShape
  <2>1. /\ turn' = [turn EXCEPT ![t].state = "cancelled"] /\ Open(t) /\ posted' = posted
        /\ \/ attempt' = [attempt EXCEPT ![t][turn[t].active] = Ended(@, "cancelled")]
           \/ attempt' = attempt
    BY <1>5 DEF CancelGeneralTurn
  <2>2. /\ turn'[t] = [turn[t] EXCEPT !.state = "cancelled"]
        /\ \A u \in Turns \ {t} : turn'[u] = turn[u]
    BY <1>0, <2>1 DEF TurnTable
  <2>3. /\ \A u \in Turns \ {t} : attempt'[u] = attempt[u]
        /\ \A m \in AttemptNumbers : attempt'[t][m].spent = attempt[t][m].spent
    <3>1. "cancelled" \in AttemptStates
      BY DEF AttemptStates, TerminalTurnStates
    <3>2. CASE attempt' = [attempt EXCEPT ![t][turn[t].active] = Ended(@, "cancelled")]
      BY <1>0, <3>1, <3>2, EndedAttempt
    <3>3. CASE attempt' = attempt
      BY <3>3
    <3> QED BY <2>1, <3>2, <3>3
  <2>4. Settles(t)
    BY <1>0, <2>1, <2>2, <2>3, Rows DEF Settles, TerminalTurnStates, TurnRecord
  <2> QED BY <1>0, <2>1, <2>2, <2>3, <2>4, OneTurnShape
<1> QED
  BY <1>1, <1>2, <1>3, <1>4, <1>5 DEF OutcomeStep

\* The fence without a retry: the old attempt ends, whatever reason it keeps.
LEMMA InterruptedAttempt ==
  ASSUME TypeInv, NEW t \in Turns, NEW n \in AttemptNumbers, NEW r
  PROVE  /\ Interrupt(t, n) \in AttemptRecord /\ Interrupt(t, n).state = "interrupted"
         /\ Interrupt(t, n).spent = attempt[t][n].spent
         /\ [Interrupt(t, n) EXCEPT !.reason = r].spent = attempt[t][n].spent
<1>1. attempt[t][n] \in AttemptRecord /\ "interrupted" \in AttemptStates
  BY Rows DEF AttemptStates
<1>2. /\ Interrupt(t, n) \in AttemptRecord /\ Interrupt(t, n).state = "interrupted"
      /\ Interrupt(t, n).spent = attempt[t][n].spent
  BY <1>1, EndedRecord DEF Interrupt
<1> QED BY <1>2 DEF AttemptRecord

\* Visiting a stalled attempt renews it, settles its turn or puts it back.
LEMMA RecoverShape ==
  ASSUME IInv, NEW v \in picked, RecoverStalled(v)
  PROVE  StepShape
<1> DEFINE t == v.t  n == v.n
<1>0. /\ TypeInv /\ turn \in TurnTable /\ attempt \in AttemptTable
      /\ posted \in [Turns -> PostedRecord] /\ HostOK
  BY TypeParts DEF IInv, TablesOK
<1>1. t \in Turns /\ n \in AttemptNumbers
  BY <1>0 DEF TypeInv, TypeOK
<1>2. turn[t] \in TurnRecord /\ posted[t] \in PostedRecord
  BY <1>0, <1>1, Rows
<1>3. CASE ~Active(t, n) \/ ~Open(t)
  BY <1>3, QuietShape DEF RecoverStalled, turnVars
<1>4. CASE Active(t, n) /\ Open(t)
  <2>1. \/ RenewLease(t, n) \/ CancelStalled(t, n) \/ FailStalled(t, n)
        \/ RetryAllowed(t, n) /\ Redispatch(t, n)
    BY <1>4 DEF RecoverStalled
  <2>2. n = turn[t].active
    BY <1>1, <1>4 DEF IInv, LiveIsActive, Live, Active, ActiveAttemptStates
  <2> HIDE DEF t, n
  <2>3. CASE RenewLease(t, n)
    <3>1. /\ attempt' = [attempt EXCEPT ![t][n].lease = "held"]
          /\ turn' = turn /\ posted' = posted
      BY <2>3 DEF RenewLease
    <3>2. /\ \A u \in Turns \ {t} : attempt'[u] = attempt[u]
          /\ \A m \in AttemptNumbers : /\ attempt'[t][m].spent = attempt[t][m].spent
                                       /\ attempt'[t][m].state = attempt[t][m].state
      BY <1>0, <1>1, <3>1, QuietColumn
    <3>3. Rests(t)
      BY <3>1, <3>2 DEF Rests
    <3> QED BY <1>0, <1>1, <3>1, <3>2, <3>3, OneTurnShape
  <2>4. CASE CancelStalled(t, n) \/ FailStalled(t, n)
    <3>1. /\ \/ attempt' = [attempt EXCEPT ![t][n] = Interrupt(t, n)]
             \/ \E r : attempt' = [attempt EXCEPT ![t][n] = [Interrupt(t, n) EXCEPT !.reason = r]]
          /\ \/ turn' = [turn EXCEPT ![t].state = "cancelled"] /\ posted' = posted
             \/ /\ turn' = [turn EXCEPT ![t].state = "failed"]
                /\ posted' = [posted EXCEPT ![t].notice = @ + 1]
      BY <2>4 DEF CancelStalled, FailStalled
    <3>2. ASSUME NEW a, attempt' = [attempt EXCEPT ![t][n] = a],
                 a.spent = attempt[t][n].spent
          PROVE  /\ \A u \in Turns \ {t} : attempt'[u] = attempt[u]
                 /\ \A m \in AttemptNumbers : attempt'[t][m].spent = attempt[t][m].spent
      BY <1>0, <1>1, <3>2 DEF AttemptTable
    <3>3. /\ \A u \in Turns \ {t} : attempt'[u] = attempt[u]
          /\ \A m \in AttemptNumbers : attempt'[t][m].spent = attempt[t][m].spent
      <4>1. CASE attempt' = [attempt EXCEPT ![t][n] = Interrupt(t, n)]
        <5>1. Interrupt(t, n).spent = attempt[t][n].spent
          BY <1>0, <1>1, InterruptedAttempt
        <5> QED BY <3>2, <4>1, <5>1
      <4>2. ASSUME NEW r,
                   attempt' = [attempt EXCEPT ![t][n] = [Interrupt(t, n) EXCEPT !.reason = r]]
            PROVE  /\ \A u \in Turns \ {t} : attempt'[u] = attempt[u]
                   /\ \A m \in AttemptNumbers : attempt'[t][m].spent = attempt[t][m].spent
        <5> DEFINE a == [Interrupt(t, n) EXCEPT !.reason = r]
        <5>1. a.spent = attempt[t][n].spent
          BY <1>0, <1>1, InterruptedAttempt
        <5> HIDE DEF a
        <5>2. attempt' = [attempt EXCEPT ![t][n] = a]
          BY <4>2 DEF a
        <5> QED BY <3>2, <5>1, <5>2
      <4> QED BY <3>1, <4>1, <4>2
    <3>4. /\ \A u \in Turns \ {t} : turn'[u] = turn[u] /\ posted'[u] = posted[u]
          /\ turn'[t] \in {[turn[t] EXCEPT !.state = "cancelled"], [turn[t] EXCEPT !.state = "failed"]}
          /\ posted'[t] \in {posted[t], [posted[t] EXCEPT !.notice = @ + 1]}
      BY <1>0, <1>1, <3>1 DEF TurnTable
    <3>5. /\ turn'[t].state \in TerminalTurnStates /\ turn'[t].active = turn[t].active
          /\ turn'[t].retries = turn[t].retries
      BY <1>2, <3>4 DEF TurnRecord, TerminalTurnStates
    <3>6. Settles(t)
      BY <1>4, <3>3, <3>4, <3>5 DEF Settles, t
    <3> QED BY <1>0, <1>1, <3>3, <3>4, <3>6, OneTurnShape
  <2>5. CASE RetryAllowed(t, n) /\ Redispatch(t, n)
    <3> DEFINE mark == TransientRetry(t, n)
               old == [Interrupt(t, n) EXCEPT !.spent = mark]
               a == NewAttempt(RetryGeneration(t, n))
               row == [turn[t] EXCEPT !.state = "retrying", !.active = n + 1, !.retries = @ + 1]
    <3>1. /\ attempt' = [attempt EXCEPT ![t] = [m \in AttemptNumbers |->
                            IF m = n + 1 THEN a ELSE IF m = n THEN old ELSE attempt[t][m]]]
          /\ turn' = [turn EXCEPT ![t] = row]
          /\ posted' = posted
      BY <2>2, <2>5 DEF Redispatch
    <3>2. mark \in BOOLEAN
      BY DEF TransientRetry
    <3>3. a \in AttemptRecord /\ a.state = "pending"
      BY <1>0, NewAttemptRecord, RetryGenerationTypes
    <3>4. \/ mark /\ TransientUsed(t, n) < MaxTransient
          \/ ~mark /\ turn[t].retries - TransientUsed(t, n) < MaxRetries
      BY <2>5 DEF RetryAllowed
    <3>5. old.state = "interrupted" /\ old.spent = mark
      BY <1>0, <1>1, InterruptedAttempt DEF AttemptRecord
    <3>6. /\ row.state = "retrying" /\ row.active = n + 1
          /\ row.retries = turn[t].retries + 1 /\ row.accepted = turn[t].accepted
      BY <1>2 DEF TurnRecord
    <3> HIDE DEF mark, old, a, row
    <3>7. turn'[t] = row /\ \A u \in Turns \ {t} : turn'[u] = turn[u]
      BY <1>0, <1>1, <3>1, TurnPut
    <3>8. n + 1 # n
      BY <1>1, AttemptNumbersFacts
    <3>9. /\ \A u \in Turns \ {t} : attempt'[u] = attempt[u]
          /\ attempt'[t][n].state = "interrupted" /\ attempt'[t][n].spent = mark
          /\ n + 1 \in AttemptNumbers => attempt'[t][n + 1] = a
          /\ \A m \in AttemptNumbers \ {n, n + 1} : attempt'[t][m] = attempt[t][m]
      BY <1>0, <1>1, <3>1, <3>5, <3>8 DEF AttemptTable
    <3>10. Open(t) /\ Active(t, n)
      BY <1>4 DEF t, n
    <3>11. PutsBack(t)
      BY <2>2, <3>1, <3>2, <3>3, <3>4, <3>6, <3>7, <3>9, <3>10 DEF PutsBack
    <3> QED BY <1>0, <1>1, <3>1, <3>7, <3>9, <3>11, OneTurnShape
  <2> QED BY <2>1, <2>3, <2>4, <2>5
<1> QED BY <1>3, <1>4

\* The recovery worker touches one turn at a time, or cancels all open ones.
LEMMA RecoveryShape == IInv /\ RecoveryStep => StepShape
<1> SUFFICES ASSUME IInv, RecoveryStep PROVE StepShape
  OBVIOUS
<1>0. /\ TypeInv /\ turn \in TurnTable /\ attempt \in AttemptTable
  BY DEF IInv, TypeInv, TypeOK, TurnTable, AttemptTable
<1>1. CASE CancelInvalidTurns
  <2>1. UNCHANGED posted
    BY <1>1 DEF CancelInvalidTurns
  <2>2. ASSUME NEW t \in Turns, Open(t) PROVE Settles(t)
    <3>1. turn'[t] = [turn[t] EXCEPT !.state = "cancelled"]
      BY <1>1, <2>2 DEF CancelInvalidTurns
    <3>2. \/ attempt'[t] = attempt[t]
          \/ attempt'[t] = [attempt[t] EXCEPT ![turn[t].active] = Ended(@, "cancelled")]
      BY <1>1, <2>2 DEF CancelInvalidTurns
    <3>3. \A n \in AttemptNumbers : attempt[t][n] \in AttemptRecord
      BY <1>0, Rows
    <3>4. "cancelled" \in AttemptStates
      BY DEF AttemptStates, TerminalTurnStates
    <3>5. ASSUME NEW n \in AttemptNumbers
          PROVE  attempt'[t][n] \in {attempt[t][n], Ended(attempt[t][n], "cancelled")}
      BY <1>0, <3>2 DEF AttemptTable
    <3>6. \A n \in AttemptNumbers : attempt'[t][n].spent = attempt[t][n].spent
      BY <3>3, <3>4, <3>5, EndedRecord
    <3>7. /\ turn'[t].state = "cancelled" /\ turn'[t].active = turn[t].active
          /\ turn'[t].retries = turn[t].retries
      BY <1>0, <3>1, Rows DEF TurnRecord
    <3> QED BY <2>1, <2>2, <3>6, <3>7 DEF Settles, TerminalTurnStates
  <2>3. ASSUME NEW t \in Turns, ~Open(t) PROVE Rests(t)
    <3>1. turn'[t] = turn[t] /\ attempt'[t] = attempt[t] /\ posted'[t] = posted[t]
      BY <1>1, <2>3 DEF CancelInvalidTurns
    <3> QED BY <3>1, UntouchedRests
  <2> QED BY <2>1, <2>2, <2>3 DEF StepShape
<1>2. ASSUME NEW live, SelectStalled(live) PROVE StepShape
  BY <1>2, QuietShape DEF SelectStalled, turnVars
<1>3. ASSUME NEW t \in Turns, NEW n \in AttemptNumbers, LeaseExpires(t, n) PROVE StepShape
  <2>1. /\ attempt' = [attempt EXCEPT ![t][n].lease = "expired"]
        /\ turn' = turn /\ posted' = posted
    BY <1>3 DEF LeaseExpires
  <2>2. /\ \A u \in Turns \ {t} : attempt'[u] = attempt[u]
        /\ \A m \in AttemptNumbers : /\ attempt'[t][m].spent = attempt[t][m].spent
                                     /\ attempt'[t][m].state = attempt[t][m].state
    BY <1>0, <2>1, QuietColumn
  <2>3. Rests(t)
    BY <2>1, <2>2 DEF Rests
  <2> QED BY <1>0, <2>1, <2>2, <2>3, OneTurnShape
<1>4. ASSUME NEW v \in picked, RecoverStalled(v) PROVE StepShape
  BY <1>4, RecoverShape
<1>5. CASE NodeShutdown
  <2>1. turn' = turn /\ posted' = posted
    BY <1>5 DEF NodeShutdown
  <2>2. ASSUME NEW t \in Turns, NEW n \in AttemptNumbers
        PROVE  /\ attempt'[t][n].spent = attempt[t][n].spent
               /\ attempt'[t][n].state = attempt[t][n].state
    <3>1. attempt'[t][n] \in {attempt[t][n], [attempt[t][n] EXCEPT !.lease = "expired",
                                !.reason = IF @ = "none" THEN "explicit" ELSE @]}
      BY <1>5 DEF NodeShutdown
    <3>2. attempt[t][n] \in AttemptRecord
      BY <1>0, Rows
    <3> QED BY <3>1, <3>2 DEF AttemptRecord
  <2>3. \A t \in Turns : Rests(t)
    BY <2>1, <2>2 DEF Rests
  <2> QED BY <2>3 DEF StepShape
<1> QED
  BY <1>1, <1>2, <1>3, <1>4, <1>5 DEF RecoveryStep

\* Nothing the agent's generation goes through settles, asks or retries a turn.
LEMMA GenerationShape == IInv /\ GenerationStep => StepShape
<1> SUFFICES ASSUME IInv, GenerationStep PROVE StepShape
  OBVIOUS
<1>0. TypeInv
  BY DEF IInv
<1>1. ASSUME NEW old, NEW new, attempt' \in {attempt, RemapPending(old, new)},
             turn' = turn, posted' = posted
      PROVE  StepShape
  <2>1. ASSUME NEW t \in Turns, NEW n \in AttemptNumbers
        PROVE  /\ attempt'[t][n].spent = attempt[t][n].spent
               /\ attempt'[t][n].state = attempt[t][n].state
    <3>1. attempt'[t][n] \in {attempt[t][n], [attempt[t][n] EXCEPT !.gen = new]}
      BY <1>1 DEF RemapPending
    <3>2. attempt[t][n] \in AttemptRecord
      BY <1>0, Rows
    <3> QED BY <3>1, <3>2 DEF AttemptRecord
  <2>2. \A t \in Turns : Rests(t)
    BY <1>1, <2>1 DEF Rests
  <2> QED BY <2>2 DEF StepShape
<1>2. ASSUME NEW b, BumpWrites(b) PROVE StepShape
  <2>1. /\ turn' = turn /\ posted' = posted
        /\ \E old, new : attempt' \in {attempt, RemapPending(old, new)}
    BY <1>2 DEF BumpWrites
  <2> QED BY <1>1, <2>1
<1>3. CASE BumpLands
  BY <1>2, <1>3 DEF BumpLands
<1>4. CASE ReleaseGenerationDrain
  BY <1>1, <1>4 DEF ReleaseGenerationDrain
<1>5. CASE UNCHANGED turnVars
  BY <1>5, QuietShape DEF turnVars
<1>6. GenerationStep => BumpLands \/ ReleaseGenerationDrain \/ UNCHANGED turnVars
  BY DEF GenerationStep, EditConfig, BumpReads, DeadlinePasses, RequestStart, RequestStop,
         ReportActualState, DaemonApplies, ProcessCrashes, ProcessRestarts, Subscribe,
         Unsubscribe, RevokeGate
<1> QED BY <1>3, <1>4, <1>5, <1>6

\* Every step of the system, whoever takes it, has the shape.
LEMMA EveryStepHasShape == IInv /\ [Next]_vars => StepShape
<1>1. UNCHANGED vars => StepShape
  BY QuietShape DEF vars
<1> QED BY <1>1, DispatchShape, OutcomeShape, RecoveryShape, GenerationShape DEF Next

-----------------------------------------------------------------------------
(* The shapes keep the invariant.                                            *)

\* Seen from one turn, a step is one of five.
LEMMA ShapeOfTurn ==
  ASSUME StepShape, NEW t \in Turns
  PROVE  Rests(t) \/ Asks(t) \/ TakesUp(t) \/ PutsBack(t) \/ Settles(t)
  BY DEF StepShape

\* The transient retries of a turn, as a finite set of attempts.
SpentBefore(t, n) == {m \in AttemptNumbers : m < n /\ attempt[t][m].spent}

\* Counting them is counting a finite set.
LEMMA SpentIsFinite ==
  ASSUME NEW t, NEW n
  PROVE  /\ IsFiniteSet(SpentBefore(t, n)) /\ TransientUsed(t, n) = Cardinality(SpentBefore(t, n))
         /\ TransientUsed(t, n) \in Nat
<1>1. IsFiniteSet(AttemptNumbers)
  BY FS_Interval, TurnStoreAssumption DEF AttemptNumbers
<1>2. IsFiniteSet(SpentBefore(t, n))
  BY <1>1, FS_Subset DEF SpentBefore
<1>3. TransientUsed(t, n) = Cardinality(SpentBefore(t, n))
  BY DEF TransientUsed, SpentBefore
<1> QED BY <1>2, <1>3, FS_CardinalityType

\* A retry after a failure of one kind draws on the budget of that kind alone,
\* and both budgets together bound the number of attempts.
LEMMA RetryIsPaid ==
  ASSUME IInv, NEW t \in Turns, PutsBack(t)
  PROVE  /\ turn'[t].active \in AttemptNumbers /\ turn'[t].active - 1 =< turn'[t].retries
         /\ TransientUsed(t, turn[t].active)' =< MaxTransient
         /\ turn'[t].active - 1 - TransientUsed(t, turn[t].active)' =< MaxRetries
<1> DEFINE n == turn[t].active
           S == SpentBefore(t, n)
           T == {m \in AttemptNumbers : m < n + 1 /\ attempt'[t][m].spent}
           used == Cardinality(S)
<1>1. /\ n \in AttemptNumbers /\ n \in Nat /\ n \in Int /\ turn[t].retries \in Nat
      /\ n - 1 =< turn[t].retries
  <2>1. turn[t].state # "none" /\ turn[t] \in TurnRecord
    BY Rows DEF PutsBack, Open, OpenTurnStates, IInv
  <2> QED BY <2>1, AttemptNumbersFacts DEF IInv, AttemptsArePaid, TurnRecord
<1>2. /\ used =< MaxTransient /\ n - 1 - used =< MaxRetries
      /\ TransientUsed(t, n) = used /\ used \in Nat /\ IsFiniteSet(S)
  <2>1. turn[t].state # "none"
    BY DEF PutsBack, Open, OpenTurnStates
  <2> QED BY <2>1, SpentIsFinite DEF IInv, RetryBudgets
<1>3. \/ attempt'[t][n].spent /\ used < MaxTransient
      \/ ~attempt'[t][n].spent /\ turn[t].retries - used < MaxRetries
  BY <1>2 DEF PutsBack
<1>4. turn'[t].active = n + 1 /\ turn'[t].retries = turn[t].retries + 1
  BY DEF PutsBack
<1>5. \A m \in AttemptNumbers : m < n => attempt'[t][m].spent = attempt[t][m].spent
  <2>1. \A m \in AttemptNumbers \ {n, n + 1} : attempt'[t][m] = attempt[t][m]
    BY DEF PutsBack
  <2>2. \A m \in AttemptNumbers : m < n => m \notin {n, n + 1}
    <3> HIDE DEF n
    <3> QED BY <1>1, AttemptNumbersFacts
  <2> HIDE DEF n
  <2> QED BY <2>1, <2>2
<1>6. TransientUsed(t, turn[t].active)' = Cardinality(T)
  BY <1>4 DEF TransientUsed
<1>7. n \notin S
  BY <1>1 DEF SpentBefore
<1>8. T = IF attempt'[t][n].spent THEN S \cup {n} ELSE S
  <2> HIDE DEF n
  <2>1. \A m \in AttemptNumbers : m < n + 1 <=> m < n \/ m = n
    BY <1>1, AttemptNumbersFacts
  <2>2. ASSUME NEW m \in AttemptNumbers
        PROVE  m \in T <=> m \in S \/ (m = n /\ attempt'[t][n].spent)
    BY <1>5, <1>7, <2>1 DEF SpentBefore
  <2>3. T \subseteq AttemptNumbers /\ S \subseteq AttemptNumbers
    BY DEF SpentBefore
  <2> HIDE DEF S, T
  <2> QED BY <1>1, <2>2, <2>3
<1> HIDE DEF S, T, n
<1>9. Cardinality(T) = IF attempt'[t][n].spent THEN used + 1 ELSE used
  <2>1. Cardinality(S \cup {n}) = used + 1
    BY <1>2, <1>7, FS_AddElement
  <2> QED BY <1>8, <2>1
<1> HIDE DEF used
<1>10. Cardinality(T) =< MaxTransient /\ n - Cardinality(T) =< MaxRetries /\ Cardinality(T) \in Nat
  BY <1>1, <1>2, <1>3, <1>9, TurnStoreAssumption
<1>11. n + 1 \in AttemptNumbers
  BY <1>1, <1>10, TurnStoreAssumption DEF AttemptNumbers
<1> QED BY <1>1, <1>4, <1>6, <1>10, <1>11

\* While the attempts of a turn keep their marks, it has spent the same.
LEMMA SameMarksSameUse ==
  ASSUME NEW t, turn'[t].active = turn[t].active,
         \A m \in AttemptNumbers : attempt'[t][m].spent = attempt[t][m].spent
  PROVE  TransientUsed(t, turn[t].active)' = TransientUsed(t, turn[t].active)
<1>1. {m \in AttemptNumbers : m < turn[t].active /\ attempt'[t][m].spent}
         = {m \in AttemptNumbers : m < turn[t].active /\ attempt[t][m].spent}
  OBVIOUS
<1> QED BY <1>1 DEF TransientUsed

\* The answers: what is not settled has posted nothing, so settling posts at most one.
LEMMA AnswersStep == IInv /\ StepShape => AtMostOneAnswer' /\ Unanswered'
<1> SUFFICES ASSUME IInv, StepShape, NEW t \in Turns
             PROVE  /\ posted'[t].reply + posted'[t].notice =< 1
                    /\ turn'[t].state \notin TerminalTurnStates =>
                          posted'[t].reply = 0 /\ posted'[t].notice = 0 /\ ~turn'[t].accepted
  BY DEF AtMostOneAnswer, Unanswered
<1>1. /\ posted[t].reply + posted[t].notice =< 1
      /\ turn[t].state \notin TerminalTurnStates =>
            posted[t].reply = 0 /\ posted[t].notice = 0 /\ ~turn[t].accepted
  BY DEF IInv, AtMostOneAnswer, Unanswered
<1>2. posted[t] \in PostedRecord
  BY Rows DEF IInv
<1>3. CASE Rests(t)
  BY <1>1, <1>3 DEF Rests
<1>4. CASE Asks(t)
  BY <1>1, <1>4 DEF Asks, TerminalTurnStates
<1>5. CASE TakesUp(t)
  BY <1>1, <1>5 DEF TakesUp, Open, OpenTurnStates, TerminalTurnStates
<1>6. CASE PutsBack(t)
  BY <1>1, <1>6 DEF PutsBack, Open, OpenTurnStates, TerminalTurnStates
<1>7. CASE Settles(t)
  <2>1. posted[t].reply = 0 /\ posted[t].notice = 0
    BY <1>1, <1>7 DEF Settles, Open, OpenTurnStates, TerminalTurnStates
  <2>2. posted'[t].reply + posted'[t].notice =< 1
    BY <1>2, <1>7, <2>1 DEF Settles, PostedRecord
  <2> QED BY <1>7, <2>2 DEF Settles
<1> QED BY <1>3, <1>4, <1>5, <1>6, <1>7, ShapeOfTurn

\* The attempts: only the active one of an open turn may run, and none before asking.
LEMMA AttemptsStep == IInv /\ StepShape => Pristine' /\ LiveIsActive' /\ WaitingIsPending'
<1> SUFFICES ASSUME IInv, StepShape, NEW t \in Turns
             PROVE  /\ \A n \in AttemptNumbers :
                          /\ turn'[t].state = "none" => attempt'[t][n].state = "none"
                          /\ Open(t)' /\ Live(t, n)' => n = turn'[t].active
                    /\ turn'[t].state \in {"pending", "retrying"} =>
                          attempt'[t][turn'[t].active].state = "pending"
  BY DEF Pristine, LiveIsActive, WaitingIsPending, Current
<1>1. /\ \A n \in AttemptNumbers :
            /\ turn[t].state = "none" => attempt[t][n].state = "none"
            /\ Open(t) /\ Live(t, n) => n = turn[t].active
      /\ turn[t].state \in {"pending", "retrying"} =>
            attempt[t][turn[t].active].state = "pending"
      /\ turn[t].state # "none" => turn[t].active \in AttemptNumbers
  BY DEF IInv, Pristine, LiveIsActive, WaitingIsPending, AttemptsArePaid, Current
<1>2. CASE Rests(t)
  BY <1>1, <1>2 DEF Rests, Live, Open, OpenTurnStates, TerminalTurnStates
<1>3. CASE Asks(t)
  BY <1>1, <1>3, AttemptNumbersFacts DEF Asks, Live, Open, OpenTurnStates
<1>4. CASE TakesUp(t)
  BY <1>1, <1>4 DEF TakesUp, Live, Open, OpenTurnStates
<1>5. CASE PutsBack(t)
  <2> DEFINE n == turn[t].active
  <2>1. /\ Open(t) /\ turn'[t].active = n + 1 /\ turn'[t].state = "retrying"
        /\ attempt'[t][n].state = "interrupted"
        /\ \A m \in AttemptNumbers \ {n, n + 1} : attempt'[t][m] = attempt[t][m]
        /\ n + 1 \in AttemptNumbers => attempt'[t][n + 1].state = "pending"
    BY <1>5 DEF PutsBack
  <2>2. n + 1 \in AttemptNumbers
    BY <1>5, <2>1, RetryIsPaid
  <2>3. \A m \in AttemptNumbers : Live(t, m)' => m = n + 1
    BY <1>1, <2>1 DEF Live
  <2> QED BY <2>1, <2>2, <2>3
<1>6. CASE Settles(t)
  BY <1>6 DEF Settles, Open, OpenTurnStates, TerminalTurnStates
<1> QED BY <1>2, <1>3, <1>4, <1>5, <1>6, ShapeOfTurn

\* The budgets: an attempt is added only by a retry that one of them pays for.
LEMMA BudgetsStep == IInv /\ StepShape => AttemptsArePaid' /\ RetryBudgets'
<1> SUFFICES ASSUME IInv, StepShape, NEW t \in Turns, turn'[t].state # "none"
             PROVE  /\ turn'[t].active \in AttemptNumbers
                    /\ turn'[t].active - 1 =< turn'[t].retries
                    /\ TransientUsed(t, turn[t].active)' =< MaxTransient
                    /\ turn'[t].active - 1 - TransientUsed(t, turn[t].active)' =< MaxRetries
  BY DEF AttemptsArePaid, RetryBudgets
<1>1. turn[t].state # "none" =>
        /\ turn[t].active \in AttemptNumbers
        /\ turn[t].active - 1 =< turn[t].retries
        /\ TransientUsed(t, turn[t].active) =< MaxTransient
        /\ turn[t].active - 1 - TransientUsed(t, turn[t].active) =< MaxRetries
  BY DEF IInv, AttemptsArePaid, RetryBudgets
<1>2. ASSUME turn'[t].active = turn[t].active, turn'[t].retries = turn[t].retries,
             turn[t].state # "none",
             \A m \in AttemptNumbers : attempt'[t][m].spent = attempt[t][m].spent
      PROVE  /\ turn'[t].active \in AttemptNumbers
             /\ turn'[t].active - 1 =< turn'[t].retries
             /\ TransientUsed(t, turn[t].active)' =< MaxTransient
             /\ turn'[t].active - 1 - TransientUsed(t, turn[t].active)' =< MaxRetries
  BY <1>1, <1>2, SameMarksSameUse
<1>3. CASE Rests(t)
  BY <1>2, <1>3 DEF Rests
<1>4. CASE TakesUp(t)
  BY <1>2, <1>4 DEF TakesUp, Open, OpenTurnStates
<1>5. CASE Settles(t)
  BY <1>2, <1>5 DEF Settles, Open, OpenTurnStates
<1>6. CASE Asks(t)
  <2>1. turn'[t].active = 1 /\ turn'[t].retries \in Nat
    BY <1>6 DEF Asks
  <2>2. {m \in AttemptNumbers : m < 1 /\ attempt'[t][m].spent} = {}
    BY DEF AttemptNumbers
  <2>3. TransientUsed(t, turn[t].active)' = 0
    BY <2>1, <2>2, FS_EmptySet DEF TransientUsed
  <2> QED BY <2>1, <2>3, AttemptNumbersFacts, TurnStoreAssumption
<1>7. CASE PutsBack(t)
  BY <1>7, RetryIsPaid
<1> QED BY <1>3, <1>4, <1>5, <1>6, <1>7, ShapeOfTurn

\* The order: a turn is asked after all before it, and taken up after all before
\* it are settled.
LEMMA OrderStep == IInv /\ StepShape => AskedInOrder' /\ RoomOrder'
<1> SUFFICES ASSUME IInv, StepShape PROVE AskedInOrder' /\ RoomOrder'
  OBVIOUS
<1>1. ASSUME NEW t \in Turns, NEW u \in 1..(t - 1) PROVE u \in Turns
  BY TurnStoreAssumption DEF Turns
<1>2. ASSUME NEW t \in Turns, turn[t].state # "none" PROVE turn'[t].state # "none"
  BY <1>2, ShapeOfTurn DEF Rests, Asks, TakesUp, PutsBack, Settles, TerminalTurnStates
<1>3. ASSUME NEW t \in Turns, turn'[t].state # "none"
      PROVE  \A u \in 1..(t - 1) : turn[u].state # "none"
  <2>1. CASE Asks(t)
    BY <2>1 DEF Asks
  <2>2. CASE ~Asks(t)
    <3>1. turn[t].state # "none"
      BY <1>3, <2>2, ShapeOfTurn DEF Rests, TakesUp, PutsBack, Settles, Open, OpenTurnStates
    <3> QED BY <3>1 DEF IInv, AskedInOrder
  <2> QED BY <2>1, <2>2
<1>4. AskedInOrder'
  BY <1>1, <1>2, <1>3 DEF AskedInOrder
<1>5. ASSUME NEW t \in Turns, NEW n \in AttemptNumbers, Active(t, n)', Open(t)'
      PROVE  ~PriorOpen(t)
  <2>1. CASE Rests(t)
    <3>1. Active(t, n) /\ Open(t)
      BY <1>5, <2>1 DEF Rests, Active, ActiveAttemptStates, Open, OpenTurnStates,
                        TerminalTurnStates
    <3> QED BY <3>1 DEF IInv, RoomOrder
  <2>2. CASE Asks(t)
    <3>1. attempt[t][n].state = "none"
      BY <2>2 DEF Asks, IInv, Pristine
    <3> QED BY <1>5, <2>2, <3>1 DEF Asks, Active, ActiveAttemptStates
  <2>3. CASE TakesUp(t)
    BY <2>3 DEF TakesUp
  <2>4. CASE PutsBack(t)
    <3>1. Open(t) /\ Active(t, turn[t].active) /\ turn[t].active \in AttemptNumbers
      BY <2>4 DEF PutsBack, IInv, AttemptsArePaid, Open, OpenTurnStates
    <3> QED BY <3>1 DEF IInv, RoomOrder
  <2>5. CASE Settles(t)
    BY <1>5, <2>5 DEF Settles, Open, OpenTurnStates, TerminalTurnStates
  <2> QED BY <2>1, <2>2, <2>3, <2>4, <2>5, ShapeOfTurn
<1>6. ASSUME NEW u \in Turns, Open(u)', turn[u].state # "none" PROVE Open(u)
  BY <1>6, ShapeOfTurn DEF Rests, Asks, TakesUp, PutsBack, Settles, Open
<1>7. ASSUME NEW t \in Turns, NEW n \in AttemptNumbers, Active(t, n)', Open(t)'
      PROVE  ~PriorOpen(t)'
  <2>1. turn'[t].state # "none"
    BY <1>7 DEF Open, OpenTurnStates
  <2> QED BY <1>1, <1>3, <1>5, <1>6, <1>7, <2>1 DEF PriorOpen
<1>8. RoomOrder'
  BY <1>7 DEF RoomOrder
<1> QED BY <1>4, <1>8

-----------------------------------------------------------------------------
(* The theorems.                                                             *)

\* Before anything is asked the invariant holds.
LEMMA InitInvariant == Init => IInv
<1> SUFFICES ASSUME Init PROVE IInv
  OBVIOUS
<1>1. /\ \A t \in Turns : /\ turn[t].state = "none" /\ ~turn[t].accepted
                          /\ posted[t].reply = 0 /\ posted[t].notice = 0
      /\ \A t \in Turns, n \in AttemptNumbers : attempt[t][n].state = "none"
  BY DEF Init, NoTurn, NoAttempt
<1>2. AtMostOneAnswer /\ Unanswered /\ Pristine
  BY <1>1 DEF AtMostOneAnswer, Unanswered, Pristine
<1>3. LiveIsActive /\ WaitingIsPending /\ AttemptsArePaid
  BY <1>1 DEF LiveIsActive, Live, WaitingIsPending, AttemptsArePaid
<1>4. RetryBudgets /\ AskedInOrder /\ RoomOrder
  BY <1>1 DEF RetryBudgets, AskedInOrder, RoomOrder, Active, ActiveAttemptStates
<1> QED BY <1>2, <1>3, <1>4, InitTypes DEF IInv

\* The inductive invariant: all of the above at once, in every reachable state.
THEOREM InvariantHolds == Spec => []IInv
<1>1. Init => IInv
  BY InitInvariant
<1>2. IInv /\ [Next]_vars => IInv'
  <2> SUFFICES ASSUME IInv, [Next]_vars PROVE IInv'
    OBVIOUS
  <2>1. StepShape
    BY EveryStepHasShape
  <2>2. TypeInv'
    BY TypeStep DEF IInv
  <2>3. /\ AtMostOneAnswer' /\ Unanswered' /\ Pristine' /\ LiveIsActive'
        /\ WaitingIsPending' /\ AttemptsArePaid' /\ RetryBudgets' /\ AskedInOrder' /\ RoomOrder'
    BY <2>1, AnswersStep, AttemptsStep, BudgetsStep, OrderStep
  <2> QED BY <2>2, <2>3 DEF IInv
<1> QED BY <1>1, <1>2, PTL DEF Spec

\* However often a request is delivered, retried and replied to, the room sees at
\* most one reply or failure notice for it.
THEOREM AnsweredAtMostOnce == Spec => []AtMostOneAnswer
<1>1. IInv => AtMostOneAnswer
  BY DEF IInv
<1> QED BY <1>1, InvariantHolds, PTL

\* At most one attempt of an open turn holds a lease, and it is the active one.
THEOREM LeaseIsUnique == Spec => []OneLeasePerTurn
<1>1. IInv => OneLeasePerTurn
  BY DEF IInv, LiveIsActive, Live, OneLeasePerTurn, Active, ActiveAttemptStates
<1> QED BY <1>1, InvariantHolds, PTL

\* The lease budget and the transient budget are each kept, in whatever order the
\* failures come, and whatever the budgets are.
THEOREM BudgetsAreKept == Spec => []RetryBudgets
<1>1. IInv => RetryBudgets
  BY DEF IInv
<1> QED BY <1>1, InvariantHolds, PTL

\* The agent works on the requests of a room in the order they were made.
THEOREM RoomOrderIsKept == Spec => []RoomOrder
<1>1. IInv => RoomOrder
  BY DEF IInv
<1> QED BY <1>1, InvariantHolds, PTL

\* A settled request keeps its outcome and its accepted reply, whatever comes late.
THEOREM OutcomeIsFinal == Spec => TerminalIsFinal
<1>1. IInv /\ [Next]_vars =>
        [\A t \in Turns : turn[t].state \in TerminalTurnStates =>
            turn'[t].state = turn[t].state /\ turn'[t].accepted = turn[t].accepted]_vars
  <2> SUFFICES ASSUME IInv, [Next]_vars, NEW t \in Turns, turn[t].state \in TerminalTurnStates
               PROVE  turn'[t].state = turn[t].state /\ turn'[t].accepted = turn[t].accepted
    OBVIOUS
  <2>1. ~Open(t) /\ turn[t].state # "none"
    BY DEF Open, OpenTurnStates, TerminalTurnStates
  <2>2. Rests(t)
    BY <2>1, EveryStepHasShape, ShapeOfTurn DEF Asks, TakesUp, PutsBack, Settles
  <2> QED BY <2>2 DEF Rests
<1> QED BY <1>1, InvariantHolds, PTL DEF Spec, TerminalIsFinal

-----------------------------------------------------------------------------
(* The refinement of TurnPromise.                                            *)
status == [t \in Turns |-> Status(t)]
visible == [t \in Turns |-> posted[t].reply + posted[t].notice]

\* The abstract status says whether a turn was asked, is open or is settled.
LEMMA StatusFacts ==
  ASSUME TypeInv, NEW t \in Turns
  PROVE  /\ turn[t].state = "none" <=> status[t] = "none"
         /\ turn[t].state \in {"pending", "retrying"} <=> status[t] = "waiting"
         /\ turn[t].state = "leased" <=> status[t] = "working"
         /\ turn[t].state \in TerminalTurnStates <=> status[t] = "settled"
         /\ Open(t) <=> status[t] \in {"waiting", "working"}
         /\ turn[t].state \notin {"none"} \cup TerminalTurnStates => Open(t)
<1>1. turn[t].state \in {"none"} \cup OpenTurnStates \cup TerminalTurnStates
  BY Rows DEF TurnRecord
<1> QED BY <1>1 DEF status, Status, Open, OpenTurnStates, TerminalTurnStates

\* The same of the next state.
LEMMA StatusFactsNext ==
  ASSUME TypeInv', NEW t \in Turns
  PROVE  /\ turn'[t].state = "none" <=> status'[t] = "none"
         /\ turn'[t].state \in {"pending", "retrying"} <=> status'[t] = "waiting"
         /\ turn'[t].state = "leased" <=> status'[t] = "working"
         /\ turn'[t].state \in TerminalTurnStates <=> status'[t] = "settled"
<1>1. turn'[t].state \in {"none"} \cup OpenTurnStates \cup TerminalTurnStates
  BY DEF TypeInv, TypeOK, TurnRecord
<1> QED BY <1>1 DEF status, Status, OpenTurnStates, TerminalTurnStates

\* A turn that rests keeps its abstract status and what the room sees of it.
LEMMA RestIsStutter ==
  ASSUME NEW t \in Turns, Rests(t)
  PROVE  status'[t] = status[t] /\ visible'[t] = visible[t]
  BY DEF Rests, status, visible, Status

\* Every step of the engine is a step of the promise, or invisible to it.
LEMMA PromiseStep ==
  ASSUME IInv, TypeInv', StepShape
  PROVE  \/ UNCHANGED <<status, visible>>
         \/ \E r \in Turns :
              \/ /\ status[r] = "none" /\ \A q \in Turns : q < r => status[q] # "none"
                 /\ \E s \in {"waiting", "settled"} : status' = [status EXCEPT ![r] = s]
                 /\ UNCHANGED visible
              \/ /\ status[r] = "waiting" /\ \A q \in Turns : q < r => status[q] = "settled"
                 /\ status' = [status EXCEPT ![r] = "working"] /\ UNCHANGED visible
              \/ /\ status[r] = "working"
                 /\ status' = [status EXCEPT ![r] = "waiting"] /\ UNCHANGED visible
              \/ /\ status[r] \in {"waiting", "working"}
                 /\ status' = [status EXCEPT ![r] = "settled"]
                 /\ \E v \in {0, 1} : visible' = [visible EXCEPT ![r] = v]
         \/ /\ status' = [r \in Turns |-> IF status[r] \in {"waiting", "working"}
                                          THEN "settled" ELSE status[r]]
            /\ UNCHANGED visible
<1>0. TypeInv
  BY DEF IInv
<1>1. /\ DOMAIN status = Turns /\ DOMAIN visible = Turns
      /\ status = [t \in Turns |-> status[t]] /\ status' = [t \in Turns |-> status'[t]]
      /\ visible = [t \in Turns |-> visible[t]] /\ visible' = [t \in Turns |-> visible'[t]]
  BY DEF status, visible
<1>2. \A t \in Turns : posted'[t] = posted[t] => visible'[t] = visible[t]
  BY DEF visible
<1>3. CASE \A t \in Turns : Rests(t)
  BY <1>1, <1>3, RestIsStutter
<1>4. CASE (\A t \in Turns : IF Open(t) THEN Settles(t) ELSE Rests(t)) /\ UNCHANGED posted
  <2>1. UNCHANGED visible
    BY <1>4 DEF visible
  <2>2. ASSUME NEW t \in Turns
        PROVE  status'[t] = IF status[t] \in {"waiting", "working"} THEN "settled" ELSE status[t]
    <3>1. CASE Open(t)
      BY <1>0, <1>4, <3>1, StatusFacts, StatusFactsNext DEF Settles
    <3>2. CASE ~Open(t)
      BY <1>0, <1>4, <3>2, StatusFacts, RestIsStutter
    <3> QED BY <3>1, <3>2
  <2>3. status' = [r \in Turns |-> IF status[r] \in {"waiting", "working"}
                                   THEN "settled" ELSE status[r]]
    BY <1>1, <2>2
  <2> QED BY <2>1, <2>3
<1>5. ASSUME NEW r \in Turns, \A u \in Turns \ {r} : Rests(u)
      PROVE  /\ status' = [status EXCEPT ![r] = status'[r]]
             /\ visible' = [visible EXCEPT ![r] = visible'[r]]
             /\ visible'[r] = visible[r] => visible' = visible
             /\ status'[r] = status[r] => status' = status
  <2>1. \A u \in Turns \ {r} : status'[u] = status[u] /\ visible'[u] = visible[u]
    BY <1>5, RestIsStutter
  <2> HIDE DEF status, visible
  <2> QED BY <1>1, <2>1
<1>6. ASSUME NEW q \in Turns, NEW r \in Turns, q < r PROVE q \in 1..(r - 1)
  BY <1>6, TurnStoreAssumption DEF Turns
<1>7. ASSUME NEW r \in Turns, \A u \in Turns \ {r} : Rests(u), Asks(r)
      PROVE  /\ status[r] = "none" /\ \A q \in Turns : q < r => status[q] # "none"
             /\ \E s \in {"waiting", "settled"} : status' = [status EXCEPT ![r] = s]
             /\ UNCHANGED visible
  <2>1. status'[r] \in {"waiting", "settled"}
    BY <1>7, StatusFactsNext DEF Asks, TerminalTurnStates
  <2>2. status[r] = "none" /\ \A q \in Turns : q < r => status[q] # "none"
    BY <1>0, <1>6, <1>7, StatusFacts DEF Asks
  <2>3. visible'[r] = visible[r]
    BY <1>2, <1>7 DEF Asks
  <2> QED BY <1>5, <1>7, <2>1, <2>2, <2>3
<1>8. ASSUME NEW r \in Turns, \A u \in Turns \ {r} : Rests(u), TakesUp(r)
      PROVE  \/ UNCHANGED <<status, visible>>
             \/ /\ status[r] = "waiting" /\ \A q \in Turns : q < r => status[q] = "settled"
                /\ status' = [status EXCEPT ![r] = "working"] /\ UNCHANGED visible
  <2>1. status'[r] = "working" /\ status[r] \in {"waiting", "working"} /\ turn[r].state # "none"
    BY <1>0, <1>8, StatusFacts, StatusFactsNext DEF TakesUp
  <2>2. visible'[r] = visible[r]
    BY <1>2, <1>8 DEF TakesUp
  <2>3. ASSUME NEW q \in Turns, q < r PROVE status[q] = "settled"
    <3>1. q \in 1..(r - 1)
      BY <1>6, <2>3
    <3>2. turn[q].state # "none"
      BY <2>1, <3>1 DEF IInv, AskedInOrder
    <3>3. ~Open(q)
      BY <1>8, <3>1 DEF TakesUp, PriorOpen
    <3> QED BY <1>0, <3>2, <3>3, StatusFacts
  <2> QED BY <1>5, <1>8, <2>1, <2>2, <2>3
<1>9. ASSUME NEW r \in Turns, \A u \in Turns \ {r} : Rests(u), PutsBack(r)
      PROVE  /\ status[r] = "working"
             /\ status' = [status EXCEPT ![r] = "waiting"] /\ UNCHANGED visible
  <2>1. status'[r] = "waiting"
    BY <1>9, StatusFactsNext DEF PutsBack
  <2>2. visible'[r] = visible[r]
    BY <1>2, <1>9 DEF PutsBack
  <2>3. status[r] = "working"
    <3>1. Open(r) /\ Current(r).state # "pending"
      BY <1>9 DEF PutsBack, Active, ActiveAttemptStates, Current
    <3>2. turn[r].state \notin {"pending", "retrying"}
      BY <3>1 DEF IInv, WaitingIsPending
    <3> QED BY <1>0, <3>1, <3>2, StatusFacts DEF Open, OpenTurnStates
  <2> QED BY <1>5, <1>9, <2>1, <2>2, <2>3
<1>10. ASSUME NEW r \in Turns, \A u \in Turns \ {r} : Rests(u), Settles(r)
       PROVE  /\ status[r] \in {"waiting", "working"}
              /\ status' = [status EXCEPT ![r] = "settled"]
              /\ \E v \in {0, 1} : visible' = [visible EXCEPT ![r] = v]
  <2>1. status'[r] = "settled" /\ status[r] \in {"waiting", "working"}
    BY <1>0, <1>10, StatusFacts, StatusFactsNext DEF Settles
  <2>2. posted[r].reply = 0 /\ posted[r].notice = 0 /\ posted[r] \in PostedRecord
    BY <1>0, <1>10, Rows DEF Settles, Open, OpenTurnStates, TerminalTurnStates, IInv, Unanswered
  <2>3. posted'[r].reply + posted'[r].notice \in {0, 1}
    BY <1>10, <2>2 DEF Settles, PostedRecord
  <2>4. visible'[r] \in {0, 1}
    BY <2>3 DEF visible
  <2> QED BY <1>5, <1>10, <2>1, <2>4
<1> QED
  BY <1>3, <1>4, <1>7, <1>8, <1>9, <1>10 DEF StepShape

\* The durable-turn engine keeps the promise made to the room: requests are taken
\* up in order and settled once, with at most one visible message, through every
\* redelivery, retry, crash, late frame and change of generation.
THEOREM PromiseIsKept == Spec => PromiseKept
<1>1. Init => Promise!PromiseInit
  <2> SUFFICES ASSUME Init PROVE Promise!PromiseInit
    OBVIOUS
  <2>1. \A t \in Turns : Status(t) = "none" /\ posted[t].reply + posted[t].notice = 0
    BY DEF Init, Status, NoTurn
  <2> QED BY <2>1 DEF Promise!PromiseInit
<1>2. IInv /\ IInv' /\ [Next]_vars => [Promise!PromiseNext]_(Promise!promiseVars)
  <2> SUFFICES ASSUME IInv, IInv', [Next]_vars
               PROVE  Promise!PromiseNext \/ UNCHANGED Promise!promiseVars
    OBVIOUS
  <2>1. StepShape /\ TypeInv'
    BY EveryStepHasShape DEF IInv
  <2> QED BY <2>1, PromiseStep
       DEF status, visible, Promise!PromiseNext, Promise!promiseVars, Promise!Ask,
           Promise!TakeUp, Promise!PutBack, Promise!Settle, Promise!SettleAll
<1> QED BY <1>1, <1>2, InvariantHolds, PTL DEF Spec, PromiseKept, Promise!PromiseSpec
-----------------------------------------------------------------------------
(* What the room is told of a failure.                                       *)

\* The budget for the failure that ended turn t is spent.
Exhausted(t) ==
    LET used == TransientUsed(t, turn[t].active) IN
    IF Current(t).reason = "transient" THEN used = MaxTransient
                                       ELSE turn[t].retries - used >= MaxRetries

\* A notice belongs to a failed turn: without this the rows a notice is judged by
\* could still change after it was posted.
NoticesAreTrue ==
    \A t \in Turns : posted[t].notice > 0 =>
        turn[t].state = "failed" /\ (turn[t].protocol = 1 => Exhausted(t))

\* A turn nobody writes to keeps its row and the reasons of its attempts.
Kept(t) ==
    /\ turn'[t] = turn[t]
    /\ \A n \in AttemptNumbers : attempt'[t][n].reason = attempt[t][n].reason

\* What is written about another turn leaves the row of turn t.
LEMMA OtherRow ==
  ASSUME TypeInv, NEW t \in Turns, NEW u, u # t,
         turn' = turn \/ \E row : turn' = [turn EXCEPT ![u] = row]
  PROVE  turn'[t] = turn[t]
<1>1. turn \in TurnTable
  BY DEF TypeInv, TypeOK, TurnTable
<1> QED BY <1>1 DEF TurnTable

\* And so its attempts.
LEMMA OtherAttempts ==
  ASSUME TypeInv, NEW t \in Turns, NEW u, u # t,
         \/ attempt' = attempt
         \/ \E n, a : attempt' = [attempt EXCEPT ![u][n] = a]
         \/ \E a : attempt' = [attempt EXCEPT ![u] = a]
  PROVE  attempt'[t] = attempt[t]
<1>1. attempt \in AttemptTable
  BY DEF TypeInv, TypeOK, AttemptTable
<1> QED BY <1>1 DEF AttemptTable

\* The dispatcher leaves a failed turn alone.
LEMMA DispatchKeepsFailed ==
  ASSUME IInv, DispatchStep, NEW t \in Turns, turn[t].state = "failed"
  PROVE  Kept(t)
<1>0. TypeInv
  BY DEF IInv
<1>1. ~Open(t)
  BY DEF Open, OpenTurnStates
<1>2. ASSUME NEW u \in Turns, NEW r \in Redispatches, CreateTurn(u, r) PROVE Kept(t)
  <2>1. turn[u].state = "none" /\ u # t
    BY <1>2 DEF CreateTurn
  <2>2. /\ \E row : turn' = [turn EXCEPT ![u] = row]
        /\ \E a : attempt' = [attempt EXCEPT ![u][1] = a]
    BY <1>2 DEF CreateTurn
  <2>3. turn'[t] = turn[t] /\ attempt'[t] = attempt[t]
    <3>1. turn'[t] = turn[t]
      BY <1>0, <2>1, <2>2, OtherRow
    <3> QED BY <3>1, <1>0, <2>1, <2>2, OtherAttempts
  <2> QED BY <2>3 DEF Kept
<1>3. ASSUME NEW u \in Turns, NEW n \in AttemptNumbers,
             RefuseRow(u, n) \/ RetireFencedRow(u, n) \/ ClaimRow(u, n)
      PROVE  Kept(t)
  <2>1. Open(u) /\ u # t
    BY <1>1, <1>3 DEF RefuseRow, RetireFencedRow, ClaimRow, Deliverable
  <2>2. \E row : turn' = [turn EXCEPT ![u] = row]
    BY <1>3 DEF RefuseRow, RetireFencedRow, ClaimRow
  <2>3. attempt' = attempt \/ \E a : attempt' = [attempt EXCEPT ![u][n] = a]
    BY <1>3 DEF RefuseRow, RetireFencedRow, ClaimRow
  <2>4. turn'[t] = turn[t] /\ attempt'[t] = attempt[t]
    <3>1. turn'[t] = turn[t]
      BY <1>0, <2>1, <2>2, OtherRow
    <3>2. CASE attempt' = attempt
      BY <3>1, <3>2
    <3>3. CASE \E a : attempt' = [attempt EXCEPT ![u][n] = a]
      BY <1>0, <2>1, <3>1, <3>3, OtherAttempts
    <3> QED BY <2>3, <3>2, <3>3
  <2> QED BY <2>4 DEF Kept
<1>4. CASE UNCHANGED <<turn, attempt>>
  BY <1>4 DEF Kept
<1> QED
  BY <1>2, <1>3, <1>4 DEF DispatchStep, DropClosedRow, RowComesDue, SendFrame, SendBreaks,
     ConfirmDelivery, StrayCopy, ServerCrash, turnVars

\* No frame, permit or cancellation is applied to a failed turn.
LEMMA OutcomeKeepsFailed ==
  ASSUME IInv, OutcomeStep, NEW t \in Turns, turn[t].state = "failed"
  PROVE  Kept(t)
<1>0. TypeInv
  BY DEF IInv
<1>1. ~Open(t)
  BY DEF Open, OpenTurnStates
<1>2. ASSUME NEW p \in received, NEW deferred \in BOOLEAN, CompleteTurn(p, deferred)
      PROVE  Kept(t)
  <2>1. p.t # t
    BY <1>1, <1>2 DEF CompleteTurn, CompletionOpen
  <2>2. /\ \E row : turn' = [turn EXCEPT ![p.t] = row]
        /\ \E a : attempt' = [attempt EXCEPT ![p.t][turn[p.t].active] = a]
    BY <1>2 DEF CompleteTurn
  <2>3. turn'[t] = turn[t] /\ attempt'[t] = attempt[t]
    <3>1. turn'[t] = turn[t]
      BY <1>0, <2>1, <2>2, OtherRow
    <3> QED BY <3>1, <1>0, <2>1, <2>2, OtherAttempts
  <2> QED BY <2>3 DEF Kept
<1>3. ASSUME NEW p \in received, HandlerStarted(p) PROVE Kept(t)
  <2>1. p.t # t
    BY <1>3 DEF HandlerStarted, LifecycleHolds
  <2>2. \E row : turn' = [turn EXCEPT ![p.t] = row]
    BY <1>3 DEF HandlerStarted
  <2>3. attempt' = attempt \/ \E a : attempt' = [attempt EXCEPT ![p.t][turn[p.t].active] = a]
    BY <1>3 DEF HandlerStarted
  <2>4. turn'[t] = turn[t] /\ attempt'[t] = attempt[t]
    <3>1. turn'[t] = turn[t]
      BY <1>0, <2>1, <2>2, OtherRow
    <3>2. CASE attempt' = attempt
      BY <3>1, <3>2
    <3>3. CASE \E a : attempt' = [attempt EXCEPT ![p.t][turn[p.t].active] = a]
      BY <1>0, <2>1, <3>1, <3>3, OtherAttempts
    <3> QED BY <2>3, <3>2, <3>3
  <2> QED BY <2>4 DEF Kept
<1>4. ASSUME NEW p \in received, NEW outcome \in Outcomes, HandlerFinished(p, outcome)
      PROVE  Kept(t)
  <2>1. p.t # t
    BY <1>4 DEF HandlerFinished, LifecycleHolds
  <2>2. (\E s : CloseByAgent(p, s)) \/ (\E r : ExpireLease(p, r))
    BY <1>4 DEF HandlerFinished, FinishActive
  <2>3. /\ \E row : turn' = [turn EXCEPT ![p.t] = row]
        /\ \E a : attempt' = [attempt EXCEPT ![p.t][turn[p.t].active] = a]
    BY <2>2 DEF CloseByAgent, ExpireLease
  <2>4. turn'[t] = turn[t] /\ attempt'[t] = attempt[t]
    <3>1. turn'[t] = turn[t]
      BY <1>0, <2>1, <2>3, OtherRow
    <3> QED BY <3>1, <1>0, <2>1, <2>3, OtherAttempts
  <2> QED BY <2>4 DEF Kept
<1>5. ASSUME NEW p \in received, AuthorizeNativeStart(p) PROVE Kept(t)
  <2>1. p.t # t /\ turn' = turn /\ \E a : attempt' = [attempt EXCEPT ![p.t][p.n] = a]
    BY <1>1, <1>5 DEF AuthorizeNativeStart
  <2>2. turn'[t] = turn[t] /\ attempt'[t] = attempt[t]
    <3>1. turn'[t] = turn[t]
      BY <1>0, <2>1, OtherRow
    <3> QED BY <3>1, <1>0, <2>1, OtherAttempts
  <2> QED BY <2>2 DEF Kept
<1>6. ASSUME NEW u \in Turns, CancelGeneralTurn(u) PROVE Kept(t)
  <2>1. /\ u # t /\ \E row : turn' = [turn EXCEPT ![u] = row]
        /\ attempt' = attempt \/ \E a : attempt' = [attempt EXCEPT ![u][turn[u].active] = a]
    BY <1>1, <1>6 DEF CancelGeneralTurn
  <2>2. turn'[t] = turn[t] /\ attempt'[t] = attempt[t]
    <3>1. turn'[t] = turn[t]
      BY <1>0, <2>1, OtherRow
    <3> QED BY <3>1, <1>0, <2>1, OtherAttempts
  <2> QED BY <2>2 DEF Kept
<1> QED BY <1>2, <1>3, <1>4, <1>5, <1>6 DEF OutcomeStep

\* A recovery pass that comes late to a failed turn leaves it; a lease that its
\* record still holds may run out, and says nothing of why the turn failed.
LEMMA RecoveryKeepsFailed ==
  ASSUME IInv, RecoveryStep, NEW t \in Turns, turn[t].state = "failed"
  PROVE  Kept(t)
<1>0. TypeInv
  BY DEF IInv
<1>1. ~Open(t)
  BY DEF Open, OpenTurnStates
<1>2. CASE CancelInvalidTurns
  <2>1. turn'[t] = turn[t] /\ attempt'[t] = attempt[t]
    BY <1>1, <1>2 DEF CancelInvalidTurns
  <2> QED BY <2>1 DEF Kept
<1>3. ASSUME NEW u \in Turns, NEW n \in AttemptNumbers, LeaseExpires(u, n) PROVE Kept(t)
  <2>1. attempt' = [attempt EXCEPT ![u][n].lease = "expired"] /\ turn' = turn
    BY <1>3 DEF LeaseExpires
  <2>2. attempt \in AttemptTable
    BY <1>0 DEF TypeInv, TypeOK, AttemptTable
  <2>3. \A m \in AttemptNumbers :
           attempt'[t][m] \in {attempt[t][m], [attempt[t][m] EXCEPT !.lease = "expired"]}
    BY <2>1, <2>2 DEF AttemptTable
  <2>4. \A m \in AttemptNumbers : attempt[t][m] \in AttemptRecord
    BY <2>2 DEF AttemptTable
  <2> QED BY <2>1, <2>3, <2>4 DEF Kept, AttemptRecord
<1>4. ASSUME NEW v \in picked, RecoverStalled(v) PROVE Kept(t)
  <2>1. CASE ~Active(v.t, v.n) \/ ~Open(v.t)
    BY <1>4, <2>1 DEF RecoverStalled, turnVars, Kept
  <2>2. CASE Active(v.t, v.n) /\ Open(v.t)
    <3>1. \/ RenewLease(v.t, v.n) \/ CancelStalled(v.t, v.n) \/ FailStalled(v.t, v.n)
          \/ Redispatch(v.t, v.n)
      BY <1>4, <2>2 DEF RecoverStalled
    <3>2. v.t # t
      BY <1>1, <2>2
    <3>3. turn' = turn \/ \E row : turn' = [turn EXCEPT ![v.t] = row]
      BY <3>1 DEF RenewLease, CancelStalled, FailStalled, Redispatch
    <3>4. \/ \E n, a : attempt' = [attempt EXCEPT ![v.t][n] = a]
          \/ \E a : attempt' = [attempt EXCEPT ![v.t] = a]
      BY <3>1 DEF RenewLease, CancelStalled, FailStalled, Redispatch
    <3>5. turn'[t] = turn[t] /\ attempt'[t] = attempt[t]
      <4>1. turn'[t] = turn[t]
        BY <1>0, <3>2, <3>3, <3>4, OtherRow
      <4> QED BY <4>1, <1>0, <3>2, <3>3, <3>4, OtherAttempts
    <3> QED BY <3>5 DEF Kept
  <2> QED BY <2>1, <2>2
<1>5. CASE NodeShutdown
  <2>1. turn' = turn /\ \A n \in AttemptNumbers : attempt'[t][n] = attempt[t][n]
    BY <1>1, <1>5 DEF NodeShutdown
  <2> QED BY <2>1 DEF Kept
<1>6. ASSUME NEW live, SelectStalled(live) PROVE Kept(t)
  BY <1>6 DEF SelectStalled, turnVars, Kept
<1> QED BY <1>2, <1>3, <1>4, <1>5, <1>6 DEF RecoveryStep

\* Moving attempts to another generation says nothing of why they failed.
LEMMA GenerationKeepsFailed ==
  ASSUME IInv, GenerationStep, NEW t \in Turns
  PROVE  Kept(t)
<1>0. TypeInv
  BY DEF IInv
<1>1. ASSUME NEW old, NEW new, attempt' \in {attempt, RemapPending(old, new)}, turn' = turn
      PROVE  Kept(t)
  <2>1. \A n \in AttemptNumbers :
           attempt'[t][n] \in {attempt[t][n], [attempt[t][n] EXCEPT !.gen = new]}
    BY <1>1 DEF RemapPending
  <2>2. \A n \in AttemptNumbers : attempt[t][n] \in AttemptRecord
    BY <1>0, Rows
  <2> QED BY <1>1, <2>1, <2>2 DEF Kept, AttemptRecord
<1>2. ASSUME NEW b, BumpWrites(b) PROVE Kept(t)
  <2>1. turn' = turn /\ \E old, new : attempt' \in {attempt, RemapPending(old, new)}
    BY <1>2 DEF BumpWrites
  <2> QED BY <1>1, <2>1
<1>3. CASE BumpLands
  BY <1>2, <1>3 DEF BumpLands
<1>4. CASE ReleaseGenerationDrain
  BY <1>1, <1>4 DEF ReleaseGenerationDrain
<1>5. CASE UNCHANGED turnVars
  BY <1>5 DEF turnVars, Kept
<1>6. GenerationStep => BumpLands \/ ReleaseGenerationDrain \/ UNCHANGED turnVars
  BY DEF GenerationStep, EditConfig, BumpReads, DeadlinePasses, RequestStart, RequestStop,
         ReportActualState, DaemonApplies, ProcessCrashes, ProcessRestarts, Subscribe,
         Unsubscribe, RevokeGate
<1> QED BY <1>3, <1>4, <1>5, <1>6

\* Only the visit of a stalled attempt that may not be retried posts a notice.
LEMMA WhoPostsANotice ==
  ASSUME IInv, [Next]_vars, NEW t \in Turns, posted'[t].notice # posted[t].notice
  PROVE  \E n \in AttemptNumbers :
            /\ Active(t, n) /\ Open(t) /\ FailStalled(t, n)
            /\ turn[t].protocol = 0 \/ ~RetryAllowed(t, n)
<1>0. TypeInv /\ posted \in [Turns -> PostedRecord]
  BY DEF IInv, TypeInv, TypeOK
<1>1. posted' # posted
  OBVIOUS
<1>2. ~DispatchStep /\ ~GenerationStep /\ ~UNCHANGED vars
  BY <1>1 DEF DispatchStep, CreateTurn, DropClosedRow, RefuseRow, RetireFencedRow, ClaimRow,
     RowComesDue, SendFrame, SendBreaks, ConfirmDelivery, StrayCopy, ServerCrash, turnVars,
     GenerationStep, EditConfig, BumpLands, BumpWrites, BumpReads,
     ReleaseGenerationDrain, DeadlinePasses, RequestStart, RequestStop, ReportActualState,
     DaemonApplies, ProcessCrashes, ProcessRestarts, Subscribe, Unsubscribe, RevokeGate, vars
<1>3. ~OutcomeStep
  <2>1. SUFFICES ASSUME NEW p \in received, NEW deferred \in BOOLEAN, CompleteTurn(p, deferred)
                 PROVE  FALSE
    BY <1>1 DEF OutcomeStep, HandlerStarted, HandlerFinished, AuthorizeNativeStart,
       CancelGeneralTurn
  <2>2. posted' = [posted EXCEPT ![p.t].reply = @ + 1]
    BY <1>1, <2>1 DEF CompleteTurn
  <2>3. posted'[t].notice = posted[t].notice
    BY <1>0, <2>2 DEF PostedRecord
  <2> QED BY <2>3
<1>4. RecoveryStep
  BY <1>2, <1>3 DEF Next
<1>5. PICK v \in picked : RecoverStalled(v)
  BY <1>1, <1>4 DEF RecoveryStep, CancelInvalidTurns, SelectStalled, LeaseExpires, NodeShutdown,
     turnVars
<1>6. v.t \in Turns /\ v.n \in AttemptNumbers
  BY <1>0 DEF TypeInv, TypeOK
<1>7. Active(v.t, v.n) /\ Open(v.t)
  BY <1>1, <1>5 DEF RecoverStalled, turnVars
<1>8. FailStalled(v.t, v.n) /\ (turn[v.t].protocol = 0 \/ ~RetryAllowed(v.t, v.n))
  BY <1>1, <1>5, <1>7 DEF RecoverStalled, RenewLease, CancelStalled, Redispatch
<1>9. v.t = t
  <2>1. posted' = [posted EXCEPT ![v.t].notice = @ + 1]
    BY <1>8 DEF FailStalled
  <2> QED BY <1>0, <1>6, <2>1
<1> QED BY <1>6, <1>7, <1>8, <1>9

\* Before anything is asked nothing was posted; a notice is posted when the budget
\* for that failure is spent, and the rows it is judged by stay as they are.
LEMMA NoticeStep ==
  ASSUME IInv, NoticesAreTrue, [Next]_vars
  PROVE  NoticesAreTrue'
<1> SUFFICES ASSUME NEW t \in Turns, posted'[t].notice > 0
             PROVE  turn'[t].state = "failed" /\ (turn'[t].protocol = 1 => Exhausted(t)')
  BY DEF NoticesAreTrue
<1>0. TypeInv /\ turn \in TurnTable /\ attempt \in AttemptTable
  BY DEF IInv, TypeInv, TypeOK, TurnTable, AttemptTable
<1>1. CASE posted'[t].notice = posted[t].notice
  <2>1. turn[t].state = "failed" /\ (turn[t].protocol = 1 => Exhausted(t))
    BY <1>1 DEF NoticesAreTrue
  <2>2. Kept(t)
    BY <2>1, DispatchKeepsFailed, OutcomeKeepsFailed, RecoveryKeepsFailed, GenerationKeepsFailed
    DEF Next, vars, Kept
  <2>3. Rests(t)
    BY <2>1, EveryStepHasShape, ShapeOfTurn
    DEF Asks, TakesUp, PutsBack, Settles, Open, OpenTurnStates
  <2>4. TransientUsed(t, turn[t].active)' = TransientUsed(t, turn[t].active)
    BY <2>3, SameMarksSameUse DEF Rests
  <2>5. turn[t].active \in AttemptNumbers
    BY <2>1 DEF IInv, AttemptsArePaid
  <2> QED BY <2>1, <2>2, <2>4, <2>5 DEF Kept, Exhausted, Current
<1>2. CASE posted'[t].notice # posted[t].notice
  <2>1. PICK n \in AttemptNumbers : /\ Active(t, n) /\ Open(t) /\ FailStalled(t, n)
                                    /\ turn[t].protocol = 0 \/ ~RetryAllowed(t, n)
    BY <1>2, WhoPostsANotice
  <2>2. n = turn[t].active
    BY <2>1 DEF IInv, LiveIsActive, Live, Active, ActiveAttemptStates
  <2>3. turn'[t] = [turn[t] EXCEPT !.state = "failed"]
    BY <1>0, <2>1 DEF FailStalled, TurnTable
  <2>4. turn[t] \in TurnRecord
    BY <1>0, Rows
  <2>5. /\ turn'[t].state = "failed" /\ turn'[t].active = n
        /\ turn'[t].retries = turn[t].retries /\ turn'[t].protocol = turn[t].protocol
    BY <2>2, <2>3, <2>4 DEF TurnRecord
  <2> DEFINE r == IF TransientRetry(t, n) THEN "transient" ELSE "none"
             a == [Interrupt(t, n) EXCEPT !.reason = r]
  <2>6. a.reason = r /\ a.spent = attempt[t][n].spent
    BY <1>0, InterruptedAttempt DEF AttemptRecord
  <2>7. attempt' = [attempt EXCEPT ![t][n] = a]
    BY <2>1 DEF FailStalled
  <2> HIDE DEF a
  <2>8. attempt'[t][n] = a /\ \A m \in AttemptNumbers \ {n} : attempt'[t][m] = attempt[t][m]
    BY <1>0, <2>7 DEF AttemptTable
  <2>9. TransientUsed(t, turn[t].active)' = TransientUsed(t, n)
    <3>1. \A m \in AttemptNumbers : attempt'[t][m].spent = attempt[t][m].spent
      BY <2>6, <2>8
    <3> QED BY <2>2, <2>5, <3>1, SameMarksSameUse
  <2>10. TransientUsed(t, n) =< MaxTransient /\ TransientUsed(t, n) \in Nat
    <3>1. turn[t].state # "none"
      BY <2>1 DEF Open, OpenTurnStates
    <3> QED BY <2>2, <3>1, SpentIsFinite DEF IInv, RetryBudgets
  <2>11. Current(t)'.reason = r
    BY <2>5, <2>6, <2>8 DEF Current
  <2>12. turn[t].protocol = 1 =>
           IF TransientRetry(t, n) THEN TransientUsed(t, n) = MaxTransient
                                   ELSE turn[t].retries - TransientUsed(t, n) >= MaxRetries
    BY <2>1, <2>4, <2>10, TurnStoreAssumption DEF RetryAllowed, TurnRecord
  <2> QED BY <2>5, <2>9, <2>11, <2>12 DEF Exhausted
<1> QED BY <1>1, <1>2

\* The room is told of a failure only when the budget for that failure is spent:
\* a transient failure when the transient budget is, any other when the lease
\* budget is, in whatever order they came.
THEOREM NoticesAreHonest == Spec => []NoticeMeansExhausted
<1>1. Init => NoticesAreTrue
  BY DEF Init, NoticesAreTrue
<1>2. IInv /\ NoticesAreTrue /\ [Next]_vars => NoticesAreTrue'
  BY NoticeStep
<1>3. NoticesAreTrue => NoticeMeansExhausted
  BY DEF NoticesAreTrue, NoticeMeansExhausted, Exhausted
<1> QED BY <1>1, <1>2, <1>3, InvariantHolds, PTL DEF Spec
-----------------------------------------------------------------------------
(***************************************************************************)
(* Dispatch, outcome and recovery leave the host alone: the agent's row,   *)
(* the orders and the gate.  A server crash forgets a bump under way, a    *)
(* node that shuts down takes the process with it.                         *)
(***************************************************************************)
HostAlone == agent' = agent /\ orders' = orders /\ gate' = gate

\* No step of the dispatcher touches the host, but for the bump a crash forgets.
LEMMA DispatchLeavesHost ==
  ASSUME DispatchStep
  PROVE  HostAlone /\ daemon' = daemon /\ bump' \in {bump, NoBump}
<1> DEFINE Same == HostAlone /\ daemon' = daemon /\ bump' \in {bump, NoBump}
<1>1. ASSUME NEW t \in Turns, NEW r \in Redispatches, CreateTurn(t, r) PROVE Same
  BY <1>1 DEF CreateTurn, hostVars, HostAlone
<1>2. ASSUME NEW t \in Turns, NEW n \in AttemptNumbers, DropClosedRow(t, n) PROVE Same
  BY <1>2 DEF DropClosedRow, hostVars, HostAlone
<1>3. ASSUME NEW t \in Turns, NEW n \in AttemptNumbers, RefuseRow(t, n) PROVE Same
  BY <1>3 DEF RefuseRow, hostVars, HostAlone
<1>4. ASSUME NEW t \in Turns, NEW n \in AttemptNumbers, RetireFencedRow(t, n) PROVE Same
  BY <1>4 DEF RetireFencedRow, hostVars, HostAlone
<1>5. ASSUME NEW t \in Turns, NEW n \in AttemptNumbers, ClaimRow(t, n) PROVE Same
  BY <1>5 DEF ClaimRow, hostVars, HostAlone
<1>6. ASSUME NEW t \in Turns, NEW n \in AttemptNumbers, RowComesDue(t, n) PROVE Same
  BY <1>6 DEF RowComesDue, hostVars, HostAlone
<1>7. ASSUME NEW f \in flight, SendFrame(f) \/ ConfirmDelivery(f) PROVE Same
  BY <1>7 DEF SendFrame, ConfirmDelivery, hostVars, HostAlone
<1>8. ASSUME NEW f \in flight, SendBreaks(f) PROVE Same
  BY <1>8 DEF SendBreaks, HostAlone
<1>9. ASSUME NEW t \in Turns, StrayCopy(t) PROVE Same
  BY <1>9 DEF StrayCopy, hostVars, HostAlone
<1>10. ASSUME ServerCrash PROVE Same
  BY <1>10 DEF ServerCrash, HostAlone
<1> HIDE DEF Same
<1>11. Same
  BY <1>1, <1>2, <1>3, <1>4, <1>5, <1>6, <1>7, <1>8, <1>9, <1>10 DEF DispatchStep
<1> QED BY <1>11 DEF Same

\* No frame, permit or cancellation touches the host.
LEMMA OutcomeLeavesHost ==
  ASSUME OutcomeStep
  PROVE  HostAlone /\ daemon' = daemon /\ bump' = bump
<1> DEFINE Same == HostAlone /\ daemon' = daemon /\ bump' = bump
<1>1. ASSUME NEW p \in received, NEW deferred \in BOOLEAN, CompleteTurn(p, deferred)
      PROVE  Same
  BY <1>1 DEF CompleteTurn, hostVars, HostAlone
<1>2. ASSUME NEW p \in received, HandlerStarted(p) PROVE Same
  BY <1>2 DEF HandlerStarted, hostVars, HostAlone
<1>3. ASSUME NEW p \in received, NEW outcome \in Outcomes, HandlerFinished(p, outcome)
      PROVE  Same
  BY <1>3 DEF HandlerFinished, hostVars, HostAlone
<1>4. ASSUME NEW p \in received, AuthorizeNativeStart(p) PROVE Same
  BY <1>4 DEF AuthorizeNativeStart, hostVars, HostAlone
<1>5. ASSUME NEW t \in Turns, CancelGeneralTurn(t) PROVE Same
  BY <1>5 DEF CancelGeneralTurn, hostVars, HostAlone
<1> HIDE DEF Same
<1>6. Same
  BY <1>1, <1>2, <1>3, <1>4, <1>5 DEF OutcomeStep
<1> QED BY <1>6 DEF Same

\* No recovery pass touches the host, but for the process of a node shut down.
LEMMA RecoveryLeavesHost ==
  ASSUME RecoveryStep
  PROVE  /\ HostAlone /\ bump' = bump
         /\ daemon' = daemon \/ daemon' = [daemon EXCEPT !.up = FALSE]
<1> DEFINE Same == /\ HostAlone /\ bump' = bump
                   /\ daemon' = daemon \/ daemon' = [daemon EXCEPT !.up = FALSE]
<1>1. ASSUME CancelInvalidTurns PROVE Same
  BY <1>1 DEF CancelInvalidTurns, hostVars, HostAlone
<1>2. ASSUME NEW live, SelectStalled(live) PROVE Same
  BY <1>2 DEF SelectStalled, hostVars, HostAlone
<1>3. ASSUME NEW t \in Turns, NEW n \in AttemptNumbers, LeaseExpires(t, n) PROVE Same
  BY <1>3 DEF LeaseExpires, hostVars, HostAlone
<1>4. ASSUME NEW v \in picked, RecoverStalled(v) PROVE Same
  BY <1>4 DEF RecoverStalled, hostVars, HostAlone
<1>5. ASSUME NodeShutdown PROVE Same
  BY <1>5 DEF NodeShutdown, HostAlone
<1> HIDE DEF Same
<1>6. Same
  BY <1>1, <1>2, <1>3, <1>4, <1>5 DEF RecoveryStep
<1> QED BY <1>6 DEF Same

-----------------------------------------------------------------------------
(* Stops: what goes on top stays on top, and what the daemon holds it keeps. *)

\* The daemon keeps a process up only for a start.
UpIsWanted == daemon.up => daemon.desired = "running"

\* Only a start waits to be acknowledged, so only a start is sent a second time.
UnackedIsStart == ~agent.acked => agent.desired = "running"

HostInv == TypeInv /\ UpIsWanted /\ UnackedIsStart

\* Generations are compared as numbers.
LEMMA HostNumbers ==
  ASSUME TypeInv
  PROVE  /\ agent.generation \in Nat /\ agent \in AgentRecord /\ bump.generation \in Nat
         /\ bump \in BumpRecord /\ daemon.mark \in Nat /\ daemon \in DaemonRecord
         /\ \A o \in orders : o.gen \in Nat /\ o.desired \in {"running", "stopped"}
<1>1. /\ agent \in AgentRecord /\ bump \in BumpRecord /\ daemon \in DaemonRecord
      /\ orders \subseteq Order
  BY DEF TypeInv, TypeOK
<1> QED BY <1>1, GenerationFacts DEF AgentRecord, BumpRecord, DaemonRecord, Order

\* Nobody but the changes of configuration and the operator writes the generation or
\* sends an order; only bump_generation's reads decide on a change.
HostRests ==
    /\ agent'.generation = agent.generation /\ agent'.desired = agent.desired
    /\ orders' = orders /\ (bump' = bump \/ bump' = NoBump)

\* A change of configuration that is written sends no order but a start of the
\* generation after the one it read, and leaves the operator's wish alone.
LEMMA BumpSends ==
  ASSUME TypeInv, NEW b, BumpWrites(b), b.generation \in Nat
  PROVE  /\ agent'.desired = agent.desired
         /\ agent'.generation \in {agent.generation, b.generation + 1}
         /\ \/ orders' = orders
            \/ /\ b.kind = "now" /\ agent'.generation = b.generation + 1
               /\ orders' = orders \cup {[gen |-> b.generation + 1, desired |-> "running"]}
<1>0. agent \in AgentRecord
  BY HostNumbers
<1>1. CASE /\ b.kind = "now" /\ SendOrder(b.generation + 1, "running")
           /\ agent' = [agent EXCEPT !.generation = b.generation + 1, !.manifest = b.manifest]
  <2>1. agent'.generation = b.generation + 1 /\ agent'.desired = agent.desired
    BY <1>0, <1>1 DEF AgentRecord
  <2> QED BY <1>1, <2>1 DEF SendOrder
<1>2. CASE /\ orders' = orders
           /\ \/ agent' = [agent EXCEPT !.generation = b.generation + 1]
              \/ agent' = NoDrain(agent)
              \/ \E p : agent' = [agent EXCEPT !.pending = p, !.pendingManifest = b.manifest,
                                              !.deadline = "set"]
  BY <1>0, <1>2 DEF NoDrain, AgentRecord
<1> QED BY <1>1, <1>2 DEF BumpWrites

\* Everything that is not a change of configuration or an operator's order rests.
LEMMA OthersRest ==
  ASSUME TypeInv, [Next]_vars
  PROVE  HostRests \/ BumpReads \/ BumpLands \/ ReleaseGenerationDrain \/ RequestStart \/ RequestStop
<1>0. agent \in AgentRecord
  BY HostNumbers
<1>1. CASE DispatchStep \/ OutcomeStep \/ RecoveryStep
  BY <1>1, DispatchLeavesHost, OutcomeLeavesHost, RecoveryLeavesHost DEF HostAlone, HostRests
<1>2. CASE UNCHANGED vars
  BY <1>2 DEF vars, HostRests
<1>3. CASE DeadlinePasses \/ ReportActualState
  <2>1. bump' = bump /\ orders' = orders
    BY <1>3 DEF DeadlinePasses, ReportActualState
  <2>2. agent'.generation = agent.generation /\ agent'.desired = agent.desired
    BY <1>0, <1>3 DEF DeadlinePasses, ReportActualState, AgentRecord
  <2> QED BY <2>1, <2>2 DEF HostRests
<1>4. CASE agent' = agent /\ orders' = orders /\ bump' = bump
  BY <1>4 DEF HostRests
<1>5. GenerationStep =>
         \/ BumpReads \/ BumpLands \/ ReleaseGenerationDrain \/ RequestStart \/ RequestStop
         \/ DeadlinePasses \/ ReportActualState
         \/ agent' = agent /\ orders' = orders /\ bump' = bump
  BY DEF GenerationStep, EditConfig, DaemonApplies, ProcessCrashes, ProcessRestarts,
     Subscribe, Unsubscribe, RevokeGate, hostVars
<1> QED BY <1>1, <1>2, <1>3, <1>4, <1>5 DEF Next

\* A start is of the generation the server is at or of the next one.
LEMMA StartSends ==
  ASSUME HostInv, RequestStart
  PROVE  /\ agent'.generation \in {agent.generation, agent.generation + 1}
         /\ agent'.desired = "running" /\ bump' = bump
         /\ orders' = orders \cup {[gen |-> agent'.generation, desired |-> "running"]}
<1>0. agent \in AgentRecord
  BY HostNumbers DEF HostInv
<1>1. /\ agent'.generation \in {agent.generation, agent.generation + 1}
      /\ agent'.desired = "running"
  <2>1. CASE agent.acked
    BY <1>0, <2>1 DEF RequestStart, NoDrain, AgentRecord
  <2>2. CASE ~agent.acked
    <3>1. agent.desired = "running"
      BY <2>2 DEF HostInv, UnackedIsStart
    <3> QED BY <1>0, <2>2, <3>1 DEF RequestStart, AgentRecord
  <2> QED BY <2>1, <2>2
<1> QED BY <1>1 DEF RequestStart, SendOrder

\* A stop is of the next generation.
LEMMA StopSends ==
  ASSUME TypeInv, RequestStop
  PROVE  /\ agent'.generation = agent.generation + 1 /\ bump' = bump
         /\ orders' = orders \cup {[gen |-> agent.generation + 1, desired |-> "stopped"]}
<1>0. agent \in AgentRecord
  BY HostNumbers
<1>1. agent'.generation = agent.generation + 1
  BY <1>0 DEF RequestStop, NoDrain, AgentRecord
<1> QED BY <1>1 DEF RequestStop, SendOrder

\* Only a start is left unacknowledged; a report acknowledges.
LEMMA UnackedStays ==
  ASSUME TypeInv, UnackedIsStart, [Next]_vars
  PROVE  UnackedIsStart'
<1>0. agent \in AgentRecord
  BY HostNumbers
<1>1. ASSUME agent'.acked = agent.acked, agent'.desired = agent.desired PROVE UnackedIsStart'
  BY <1>1 DEF UnackedIsStart
<1>2. ASSUME NEW b, BumpWrites(b) PROVE UnackedIsStart'
  <2>1. \/ \E g : agent' = [agent EXCEPT !.generation = g]
        \/ agent' = NoDrain(agent)
        \/ \E g, m : agent' = [agent EXCEPT !.generation = g, !.manifest = m]
        \/ \E p, m : agent' = [agent EXCEPT !.pending = p, !.pendingManifest = m,
                                           !.deadline = "set"]
    BY <1>2 DEF BumpWrites
  <2> QED BY <1>0, <1>1, <2>1 DEF NoDrain, AgentRecord
<1>3. CASE BumpLands
  BY <1>2, <1>3 DEF BumpLands
<1>4. CASE ReleaseGenerationDrain \/ DeadlinePasses
  BY <1>0, <1>1, <1>4 DEF ReleaseGenerationDrain, DeadlinePasses, NoDrain, AgentRecord
<1>5. CASE RequestStart
  BY <1>0, <1>5 DEF RequestStart, NoDrain, AgentRecord, UnackedIsStart
<1>6. CASE RequestStop
  BY <1>0, <1>6 DEF RequestStop, NoDrain, AgentRecord, UnackedIsStart
<1>7. CASE ReportActualState
  BY <1>0, <1>7 DEF ReportActualState, AgentRecord, UnackedIsStart
<1>8. CASE agent' = agent
  BY <1>1, <1>8
<1>9. \/ BumpLands \/ ReleaseGenerationDrain \/ DeadlinePasses
      \/ RequestStart \/ RequestStop \/ ReportActualState \/ agent' = agent
  <2>1. DispatchStep => agent' = agent
    BY DispatchLeavesHost DEF HostAlone
  <2>2. OutcomeStep => agent' = agent
    BY OutcomeLeavesHost DEF HostAlone
  <2>3. RecoveryStep => agent' = agent
    BY RecoveryLeavesHost DEF HostAlone
  <2>4. GenerationStep =>
          \/ BumpLands \/ ReleaseGenerationDrain \/ DeadlinePasses
          \/ RequestStart \/ RequestStop \/ ReportActualState \/ agent' = agent
    BY DEF GenerationStep, EditConfig, BumpReads, DaemonApplies, ProcessCrashes,
       ProcessRestarts, Subscribe, Unsubscribe, RevokeGate, hostVars
  <2> QED BY <2>1, <2>2, <2>3, <2>4 DEF Next, vars
<1> QED BY <1>3, <1>4, <1>5, <1>6, <1>7, <1>8, <1>9

\* A process comes up for a start only, and a crash takes it down.
LEMMA HostStep ==
  ASSUME HostInv, [Next]_vars
  PROVE  HostInv'
<1>0. TypeInv /\ UpIsWanted /\ UnackedIsStart /\ daemon \in DaemonRecord
  BY HostNumbers DEF HostInv
<1>1. TypeInv' /\ UnackedIsStart'
  BY <1>0, TypeStep, UnackedStays
<1>2. ASSUME daemon' = daemon \/ daemon' = [daemon EXCEPT !.up = FALSE] PROVE UpIsWanted'
  BY <1>0, <1>2 DEF UpIsWanted, DaemonRecord
<1>3. ASSUME DispatchStep \/ OutcomeStep \/ RecoveryStep PROVE UpIsWanted'
  BY <1>2, <1>3, DispatchLeavesHost, OutcomeLeavesHost, RecoveryLeavesHost DEF HostAlone
<1>4. ASSUME NEW o \in orders, DaemonApplies(o) PROVE UpIsWanted'
  <2>1. daemon' = [mark |-> o.gen, desired |-> o.desired, up |-> o.desired = "running"]
    BY <1>4 DEF DaemonApplies
  <2> QED BY <2>1 DEF UpIsWanted
<1>5. ASSUME ProcessRestarts PROVE UpIsWanted'
  BY <1>0, <1>5 DEF ProcessRestarts, UpIsWanted, DaemonRecord
<1>6. ASSUME GenerationStep, ~(\E o \in orders : DaemonApplies(o)), ~ProcessRestarts
      PROVE  UpIsWanted'
  <2>1. daemon' = daemon \/ daemon' = [daemon EXCEPT !.up = FALSE]
    BY <1>6 DEF GenerationStep, EditConfig, BumpLands, BumpWrites, BumpReads,
       ReleaseGenerationDrain, DeadlinePasses, RequestStart, RequestStop, ReportActualState,
       ProcessCrashes, Subscribe, Unsubscribe, RevokeGate, hostVars
  <2> QED BY <1>2, <2>1
<1>7. ASSUME UNCHANGED vars PROVE UpIsWanted'
  BY <1>2, <1>7 DEF vars
<1>8. UpIsWanted'
  BY <1>3, <1>4, <1>5, <1>6, <1>7 DEF Next
<1> QED BY <1>1, <1>8 DEF HostInv

\* Only a change that lands overtaken, and a drain promoted too late, put something
\* ahead of the agent's generation.
LEMMA AheadStep ==
  ASSUME HostInv, NothingIsAhead, [Next]_vars
  PROVE  NothingIsAhead' \/ Overtaken \/ PromotesThePast
<1>0. /\ TypeInv /\ agent.generation \in Nat /\ agent \in AgentRecord /\ bump.generation \in Nat
      /\ \A o \in orders : o.gen \in Nat
      /\ \A o \in orders : o.gen =< agent.generation
      /\ bump.generation =< agent.generation
  BY HostNumbers DEF HostInv, NothingIsAhead
\* What is sent at the new generation is not ahead of it.
<1>1. ASSUME NEW g \in Nat, agent'.generation = g, agent.generation =< g,
             bump'.generation \in Nat, bump'.generation =< agent.generation,
             \A o \in orders' : o \in orders \/ o.gen = g
      PROVE  NothingIsAhead'
  <2>1. \A o \in orders' : o.gen =< g
    BY <1>0, <1>1
  <2>2. bump'.generation =< g
    BY <1>0, <1>1
  <2> QED BY <1>1, <2>1, <2>2 DEF NothingIsAhead
<1>2. CASE HostRests
  BY <1>0, <1>1, <1>2 DEF HostRests, NoBump
<1>3. CASE BumpReads
  BY <1>0, <1>1, <1>3 DEF BumpReads, BumpDecision
<1>4. CASE BumpLands
  <2>1. BumpWrites(bump) /\ bump' = NoBump
    BY <1>4 DEF BumpLands
  <2>2. /\ agent'.generation \in {agent.generation, bump.generation + 1}
        /\ \/ orders' = orders
           \/ /\ agent'.generation = bump.generation + 1
              /\ orders' = orders \cup {[gen |-> bump.generation + 1, desired |-> "running"]}
    BY <1>0, <2>1, BumpSends
  <2>3. CASE bump # BumpDecision
    BY <1>4, <2>3 DEF Overtaken
  <2>4. CASE bump = BumpDecision
    <3>1. bump.generation = agent.generation
      BY <2>4 DEF BumpDecision
    <3>2. \A o \in orders' : o \in orders \/ o.gen = agent'.generation
      BY <2>2
    <3>3. bump'.generation = 0
      BY <2>1 DEF NoBump
    <3>4. agent'.generation \in Nat /\ agent.generation =< agent'.generation
      BY <1>0, <2>2, <3>1
    <3> QED BY <1>0, <1>1, <3>2, <3>3, <3>4
  <2> QED BY <2>3, <2>4
<1>5. CASE ReleaseGenerationDrain
  <2>1. /\ agent'.generation = agent.pending /\ bump' = bump
        /\ \/ orders' = orders
           \/ orders' = orders \cup {[gen |-> agent.pending, desired |-> "running"]}
    BY <1>0, <1>5 DEF ReleaseGenerationDrain, NoDrain, AgentRecord, SendOrder
  <2>2. agent.pending \in Nat
    BY <1>0, GenerationFacts DEF AgentRecord
  <2>3. CASE agent.pending < agent.generation
    BY <1>5, <2>3 DEF PromotesThePast
  <2>4. CASE ~(agent.pending < agent.generation)
    <3>1. agent.generation =< agent.pending
      BY <1>0, <2>2, <2>4
    <3>2. \A o \in orders' : o \in orders \/ o.gen = agent.pending
      BY <2>1
    <3> QED BY <1>0, <1>1, <2>1, <2>2, <3>1, <3>2
  <2> QED BY <2>3, <2>4
<1>6. CASE RequestStart
  <2>1. /\ agent'.generation \in {agent.generation, agent.generation + 1} /\ bump' = bump
        /\ orders' = orders \cup {[gen |-> agent'.generation, desired |-> "running"]}
    BY <1>6, StartSends
  <2>2. \A o \in orders' : o \in orders \/ o.gen = agent'.generation
    BY <2>1
  <2>3. agent'.generation \in Nat /\ agent.generation =< agent'.generation
    BY <1>0, <2>1
  <2> QED BY <1>0, <1>1, <2>1, <2>2, <2>3
<1>7. CASE RequestStop
  <2>1. /\ agent'.generation = agent.generation + 1 /\ bump' = bump
        /\ orders' = orders \cup {[gen |-> agent.generation + 1, desired |-> "stopped"]}
    BY <1>0, <1>7, StopSends
  <2>2. \A o \in orders' : o \in orders \/ o.gen = agent'.generation
    BY <2>1
  <2>3. agent'.generation \in Nat /\ agent.generation =< agent'.generation
    BY <1>0, <2>1
  <2> QED BY <1>0, <1>1, <2>1, <2>2, <2>3
<1> QED BY <1>0, <1>2, <1>3, <1>4, <1>5, <1>6, <1>7, OthersRest

\* A stop asked for while nothing is ahead goes on top.
LEMMA StopGoesOnTop ==
  ASSUME HostInv, NothingIsAhead, agent.desired = "running", agent'.desired = "stopped",
         [Next]_vars
  PROVE  StopIsOnTop'
<1>0. /\ TypeInv /\ agent.generation \in Nat /\ bump.generation \in Nat
      /\ \A o \in orders : o.gen \in Nat
      /\ \A o \in orders : o.gen =< agent.generation
      /\ bump.generation =< agent.generation
  BY HostNumbers DEF HostInv, NothingIsAhead
<1>1. RequestStop
  <2>1. HostRests => agent'.desired = agent.desired
    BY DEF HostRests
  <2>2. BumpReads => agent'.desired = agent.desired
    BY DEF BumpReads
  <2>3. BumpLands => agent'.desired = agent.desired
    BY <1>0, BumpSends DEF BumpLands
  <2>4. ReleaseGenerationDrain => agent'.desired = agent.desired
    BY <1>0, HostNumbers DEF ReleaseGenerationDrain, NoDrain, AgentRecord
  <2>5. RequestStart => agent'.desired = "running"
    BY StartSends
  <2> QED BY <1>0, <2>1, <2>2, <2>3, <2>4, <2>5, OthersRest
<1> DEFINE s == [gen |-> agent.generation + 1, desired |-> "stopped"]
<1>2. orders' = orders \cup {s} /\ bump' = bump
  BY <1>0, <1>1, StopSends
<1>3. s.gen = agent.generation + 1 /\ s.desired = "stopped"
  OBVIOUS
<1> HIDE DEF s
<1>4. \A o \in orders' : o.desired = "running" => o.gen =< s.gen
  BY <1>0, <1>2, <1>3
<1>5. bump'.generation < s.gen
  BY <1>0, <1>2, <1>3
<1> QED BY <1>2, <1>3, <1>4, <1>5 DEF StopIsOnTop

\* A stop on top stays on top until the next start: whatever lands sends at most a
\* start that is not above it.
LEMMA StopStaysOnTop ==
  ASSUME HostInv, StopIsOnTop, agent.desired = "stopped", agent'.desired = "stopped",
         [Next]_vars
  PROVE  StopIsOnTop'
<1>0. /\ TypeInv /\ agent.generation \in Nat /\ bump.generation \in Nat
      /\ \A o \in orders : o.gen \in Nat
  BY HostNumbers DEF HostInv
<1>1. PICK s \in orders : /\ s.desired = "stopped"
                          /\ \A o \in orders : o.desired = "running" => o.gen =< s.gen
                          /\ bump.kind = "now" => bump.generation < s.gen
  BY DEF StopIsOnTop
<1>2. s.gen \in Nat
  BY <1>0, <1>1
<1>3. ASSUME orders \subseteq orders',
             \A o \in orders' : o.desired = "running" => o \in orders \/ o.gen =< s.gen,
             bump'.kind = "now" => bump' = bump
      PROVE  StopIsOnTop'
  <2>1. \A o \in orders' : o.desired = "running" => o.gen =< s.gen
    BY <1>1, <1>3
  <2>2. bump'.kind = "now" => bump'.generation < s.gen
    BY <1>1, <1>3
  <2>3. s \in orders'
    BY <1>1, <1>3
  <2> QED BY <1>1, <2>1, <2>2, <2>3 DEF StopIsOnTop
<1>4. CASE HostRests
  BY <1>3, <1>4 DEF HostRests, NoBump
<1>5. CASE BumpReads
  <2>1. bump'.kind # "now" /\ orders' = orders
    BY <1>5 DEF BumpReads, BumpDecision, BumpKind
  <2> QED BY <1>3, <2>1
<1>6. CASE BumpLands
  <2> DEFINE new == [gen |-> bump.generation + 1, desired |-> "running"]
  <2>1. BumpWrites(bump) /\ bump' = NoBump
    BY <1>6 DEF BumpLands
  <2>2. orders' = orders \/ (bump.kind = "now" /\ orders' = orders \cup {new})
    BY <1>0, <2>1, BumpSends
  <2>3. new.gen = bump.generation + 1
    OBVIOUS
  <2> HIDE DEF new
  <2>4. bump'.kind # "now"
    BY <2>1 DEF NoBump
  <2>5. CASE orders' = orders
    BY <1>3, <2>4, <2>5
  <2>6. CASE bump.kind = "now" /\ orders' = orders \cup {new}
    <3>1. new.gen =< s.gen
      BY <1>0, <1>1, <1>2, <2>3, <2>6
    <3> QED BY <1>3, <2>4, <2>6, <3>1
  <2> QED BY <2>2, <2>5, <2>6
<1>7. CASE ReleaseGenerationDrain
  <2>1. orders' = orders /\ bump' = bump
    BY <1>7 DEF ReleaseGenerationDrain
  <2> QED BY <1>3, <2>1
<1>8. ~RequestStart
  BY StartSends
<1>9. CASE RequestStop
  <2> DEFINE new == [gen |-> agent.generation + 1, desired |-> "stopped"]
  <2>1. orders' = orders \cup {new} /\ bump' = bump
    BY <1>0, <1>9, StopSends
  <2>2. new.desired = "stopped"
    OBVIOUS
  <2> HIDE DEF new
  <2> QED BY <1>3, <2>1, <2>2
<1> QED BY <1>0, <1>4, <1>5, <1>6, <1>7, <1>8, <1>9, OthersRest

\* A daemon that holds the last stop takes no start that is still under way.
LEMMA HeldStopHolds ==
  ASSUME HostInv, StopIsOnTop, HoldsLastStop, [Next]_vars
  PROVE  ~daemon'.up
<1>0. /\ TypeInv /\ StopIsOnTop /\ UpIsWanted /\ daemon.mark \in Nat
      /\ \A o \in orders : o.gen \in Nat /\ o.desired \in {"running", "stopped"}
      /\ daemon \in DaemonRecord
  BY HostNumbers DEF HostInv
<1>1. daemon.desired = "stopped" /\ ~daemon.up
  BY <1>0 DEF HoldsLastStop, UpIsWanted
<1>2. ASSUME NEW o \in orders, DaemonApplies(o) PROVE ~daemon'.up
  <2>1. PICK s \in orders : /\ s.desired = "stopped"
                            /\ \A r \in orders : r.desired = "running" => r.gen =< s.gen
    BY <1>0 DEF HoldsLastStop, StopIsOnTop
  <2>2. s.gen =< daemon.mark
    BY <2>1 DEF HoldsLastStop
  <2>3. o.desired = "running" => o.gen =< daemon.mark
    BY <1>0, <2>1, <2>2
  <2>4. o.gen > daemon.mark
    BY <1>1, <1>2 DEF DaemonApplies, DaemonAccepts
  <2>5. o.desired # "running"
    BY <1>0, <2>3, <2>4
  <2> QED BY <1>2, <2>5 DEF DaemonApplies
<1>3. daemon' = daemon \/ daemon' = [daemon EXCEPT !.up = FALSE]
        \/ \E o \in orders : DaemonApplies(o)
  <2>1. DispatchStep => daemon' = daemon
    BY DispatchLeavesHost DEF HostAlone
  <2>2. OutcomeStep => daemon' = daemon
    BY OutcomeLeavesHost DEF HostAlone
  <2>3. RecoveryStep => daemon' = daemon \/ daemon' = [daemon EXCEPT !.up = FALSE]
    BY RecoveryLeavesHost DEF HostAlone
  <2>4. ~ProcessRestarts
    BY <1>1 DEF ProcessRestarts
  <2>5. GenerationStep => \/ daemon' = daemon \/ daemon' = [daemon EXCEPT !.up = FALSE]
                          \/ \E o \in orders : DaemonApplies(o)
    BY <2>4 DEF GenerationStep, EditConfig, BumpLands, BumpWrites, BumpReads,
       ReleaseGenerationDrain, DeadlinePasses, RequestStart, RequestStop, ReportActualState,
       ProcessCrashes, Subscribe, Unsubscribe, RevokeGate, hostVars
  <2>6. UNCHANGED vars => daemon' = daemon
    BY DEF vars
  <2> QED BY <2>1, <2>2, <2>3, <2>5, <2>6 DEF Next
<1> QED BY <1>0, <1>1, <1>2, <1>3 DEF DaemonRecord

\* A stop is final until the next start, however late the orders before it arrive and
\* whatever change of configuration it overtakes: only a change that lands overtaken,
\* or the promotion of a drain that was, makes room for a later stop that is not.
THEOREM StopsAreFinal == Spec => StopIsFinal
<1>1. Init => HostInv
  <2> SUFFICES ASSUME Init PROVE HostInv
    OBVIOUS
  <2>1. TypeInv
    BY InitTypes
  <2>2. UpIsWanted /\ UnackedIsStart
    BY DEF Init, UpIsWanted, UnackedIsStart
  <2> QED BY <2>1, <2>2 DEF HostInv
<1>2. HostInv /\ [Next]_vars => HostInv'
  BY HostStep
<1>3. ASSUME HostInv, [Next]_vars
      PROVE  /\ NothingIsAhead => NothingIsAhead' \/ Overtaken \/ PromotesThePast
             /\ NothingIsAhead /\ agent.desired = "running" /\ agent'.desired = "stopped"
                   => StopIsOnTop'
             /\ StopIsOnTop /\ agent.desired = "stopped" /\ agent'.desired = "stopped"
                   => StopIsOnTop' /\ (HoldsLastStop => ~daemon'.up)
  BY <1>3, AheadStep, StopGoesOnTop, StopStaysOnTop, HeldStopHolds
<1> QED BY <1>1, <1>2, <1>3, PTL DEF Spec, StopIsFinal
-----------------------------------------------------------------------------
(* The fence of the generations, without operator restarts and overlaps.     *)

\* A turn keeps fitting while its active attempt stays, or takes or loses its lease
\* at the generation it has.
LEMMA SameAttemptFits ==
  ASSUME NEW t, Fits(t), agent' = agent,
         turn'[t].active = turn[t].active,
         Current(t)'.gen = Current(t).gen,
         \/ Current(t)'.state = Current(t).state
         \/ Active(t, turn[t].active) /\ Current(t)'.state = "started"
  PROVE  Fits(t)'
  BY DEF Fits, Active, Current, ActiveAttemptStates

\* So does a turn nobody writes to.
LEMMA UntouchedFits ==
  ASSUME NEW t, Fits(t), agent' = agent, turn'[t] = turn[t], attempt'[t] = attempt[t]
  PROVE  Fits(t)'
  BY DEF Fits, Current

\* The dispatcher makes attempts at the current generation and leases no other.
LEMMA DispatchFits ==
  ASSUME IInv, DispatchStep, NEW t \in Turns, Open(t) => Fits(t), Open(t)'
  PROVE  Fits(t)'
<1>0. TypeInv /\ turn \in TurnTable /\ attempt \in AttemptTable /\ HostOK
  BY TypeParts DEF IInv, TablesOK
<1>1. agent' = agent
  BY DispatchLeavesHost DEF HostAlone
<1>2. ASSUME turn'[t] = turn[t], attempt'[t] = attempt[t] PROVE Fits(t)'
  <2>1. Open(t)
    BY <1>2 DEF Open
  <2> QED BY <1>1, <1>2, <2>1, UntouchedFits
<1>3. ASSUME NEW u \in Turns, NEW r \in Redispatches, CreateTurn(u, r) PROVE Fits(t)'
  <2> DEFINE state == IF Authorized THEN "pending" ELSE "cancelled"
             row == [NoTurn EXCEPT !.state = state, !.active = 1, !.retries = r]
             first == [NewAttempt(agent.generation) EXCEPT !.state = state]
  <2>1. turn' = [turn EXCEPT ![u] = row] /\ attempt' = [attempt EXCEPT ![u][1] = first]
    BY <1>3 DEF CreateTurn
  <2>2. row.active = 1
    BY DEF NoTurn
  <2>3. first.gen = agent.generation
    BY DEF NewAttempt, NoAttempt
  <2> HIDE DEF state, row, first
  <2>4. CASE u # t
    BY <1>0, <1>2, <2>1, <2>4, OtherRow, OtherAttempts
  <2>5. CASE u = t
    <3>1. turn'[t] = row /\ attempt'[t][1] = first
      BY <1>0, <2>1, <2>5, AttemptNumbersFacts DEF TurnTable, AttemptTable
    <3> QED BY <1>1, <2>2, <2>3, <3>1 DEF Fits, Current
  <2> QED BY <2>4, <2>5
<1>4. ASSUME NEW u \in Turns, NEW n \in AttemptNumbers, RefuseRow(u, n) PROVE Fits(t)'
  <2>1. /\ turn' = [turn EXCEPT ![u].state = "cancelled"]
        /\ attempt' = [attempt EXCEPT ![u][n] = Ended(@, "cancelled")]
    BY <1>4 DEF RefuseRow
  <2>2. turn' = [turn EXCEPT ![u] = [turn[u] EXCEPT !.state = "cancelled"]]
    BY <2>1
  <2>3. u # t
    <3>1. turn'[u].state = "cancelled"
      BY <1>0, <2>2, Rows DEF TurnTable, TurnRecord
    <3> QED BY <3>1 DEF Open, OpenTurnStates
  <2>4. turn'[t] = turn[t]
    BY <1>0, <2>2, <2>3, OtherRow
  <2>5. attempt'[t] = attempt[t]
    BY <1>0, <2>1, <2>3, OtherAttempts
  <2> QED BY <1>2, <2>4, <2>5
<1>5. ASSUME NEW u \in Turns, NEW n \in AttemptNumbers, RetireFencedRow(u, n) PROVE Fits(t)'
  <2>1. /\ turn' = [turn EXCEPT ![u].protocol = Rollout(u)] /\ attempt' = attempt
    BY <1>5 DEF RetireFencedRow
  <2>2. /\ turn'[t].active = turn[t].active /\ turn'[t].state = turn[t].state
    BY <1>0, <2>1, Rows DEF TurnTable, TurnRecord
  <2>3. Open(t)
    BY <2>2 DEF Open
  <2> QED BY <1>1, <2>1, <2>2, <2>3 DEF Fits, Current
<1>6. ASSUME NEW u \in Turns, NEW n \in AttemptNumbers, ClaimRow(u, n) PROVE Fits(t)'
  <2>1. Open(u) /\ attempt[u][n].gen = agent.generation
    BY <1>6 DEF ClaimRow, Deliverable, CurrentGeneration
  <2>2. CASE attempt[u][n].state = "pending"
    <3>1. /\ attempt' = [attempt EXCEPT ![u][n] =
                            [attempt[u][n] EXCEPT !.state = "leased", !.lease = "held"]]
          /\ turn' = [turn EXCEPT ![u] =
                         [turn[u] EXCEPT !.state = "leased", !.protocol = Rollout(u)]]
      BY <1>6, <2>2 DEF ClaimRow
    <3>2. CASE u # t
      BY <1>0, <1>2, <3>1, <3>2, OtherRow, OtherAttempts
    <3>3. CASE u = t
      <4>1. n = turn[u].active
        BY <2>1, <2>2 DEF IInv, LiveIsActive, Live
      <4>2. turn'[u].active = n
        BY <1>0, <3>1, <4>1, Rows DEF TurnTable, TurnRecord
      <4>3. attempt'[u][n].gen = attempt[u][n].gen /\ attempt'[u][n].state = "leased"
        BY <1>0, <3>1, Rows DEF AttemptTable, AttemptRecord
      <4> QED BY <1>1, <2>1, <3>3, <4>2, <4>3 DEF Fits, Current
    <3> QED BY <3>2, <3>3
  <2>3. CASE attempt[u][n].state # "pending"
    <3>1. attempt' = attempt /\ turn' = [turn EXCEPT ![u].protocol = Rollout(u)]
      BY <1>6, <2>3 DEF ClaimRow
    <3>2. turn'[t].active = turn[t].active /\ turn'[t].state = turn[t].state
      BY <1>0, <3>1, Rows DEF TurnTable, TurnRecord
    <3>3. Open(t)
      BY <3>2 DEF Open
    <3> QED BY <1>1, <3>1, <3>2, <3>3 DEF Fits, Current
  <2> QED BY <2>2, <2>3
<1>7. CASE UNCHANGED <<turn, attempt>>
  BY <1>2, <1>7
<1> QED
  BY <1>3, <1>4, <1>5, <1>6, <1>7 DEF DispatchStep, DropClosedRow, RowComesDue, SendFrame,
     SendBreaks, ConfirmDelivery, StrayCopy, ServerCrash, turnVars

\* A frame takes up or ends the attempt it names; none moves it.
LEMMA OutcomeFits ==
  ASSUME IInv, OutcomeStep, NEW t \in Turns, Open(t) => Fits(t), Open(t)'
  PROVE  Fits(t)'
<1>0. TypeInv /\ turn \in TurnTable /\ attempt \in AttemptTable
  BY DEF IInv, TypeInv, TypeOK, TurnTable, AttemptTable
<1>1. agent' = agent
  BY OutcomeLeavesHost DEF HostAlone
<1>2. ASSUME turn'[t] = turn[t], attempt'[t] = attempt[t] PROVE Fits(t)'
  <2>1. Open(t)
    BY <1>2 DEF Open
  <2> QED BY <1>1, <1>2, <2>1, UntouchedFits
<1>3. ASSUME NEW u \in Turns, NEW row, turn' = [turn EXCEPT ![u] = row],
             row.state \in TerminalTurnStates,
             attempt' = attempt \/ \E n, a : attempt' = [attempt EXCEPT ![u][n] = a]
      PROVE  Fits(t)'
  <2>1. u # t
    <3>1. turn'[u] = row
      BY <1>0, <1>3 DEF TurnTable
    <3> QED BY <1>3, <3>1 DEF Open, OpenTurnStates, TerminalTurnStates
  <2>2. turn'[t] = turn[t]
    BY <1>0, <1>3, <2>1, OtherRow
  <2>3. attempt'[t] = attempt[t]
    BY <1>0, <1>3, <2>1, OtherAttempts
  <2> QED BY <1>2, <2>2, <2>3
<1>4. ASSUME NEW p \in received, NEW deferred \in BOOLEAN, CompleteTurn(p, deferred)
      PROVE  Fits(t)'
  <2> DEFINE row == [Seen(p) EXCEPT !.state = "completed", !.accepted = ~deferred]
  <2>1. /\ turn' = [turn EXCEPT ![p.t] = row]
        /\ \E n, a : attempt' = [attempt EXCEPT ![p.t][n] = a]
    BY <1>4 DEF CompleteTurn
  <2>2. row.state = "completed" /\ p.t \in Turns
    BY <1>0, SeenRow DEF TurnRecord
  <2> HIDE DEF row
  <2> QED BY <1>3, <2>1, <2>2 DEF TerminalTurnStates
<1>5. ASSUME NEW p \in received, NEW s \in TerminalTurnStates, CloseByAgent(p, s)
      PROVE  Fits(t)'
  <2> DEFINE row == [Seen(p) EXCEPT !.state = s]
  <2>1. /\ turn' = [turn EXCEPT ![p.t] = row]
        /\ \E n, a : attempt' = [attempt EXCEPT ![p.t][n] = a]
    BY <1>5 DEF CloseByAgent
  <2>2. row.state = s /\ p.t \in Turns
    BY <1>0, SeenRow DEF TurnRecord
  <2> HIDE DEF row
  <2> QED BY <1>3, <2>1, <2>2
<1>6. ASSUME NEW p \in received, NEW r, ExpireLease(p, r) PROVE Fits(t)'
  <2> DEFINE u == p.t
  <2>1. u \in Turns
    BY <1>0, SeenRow
  <2>2. /\ turn' = [turn EXCEPT ![u] = Seen(p)]
        /\ attempt' = [attempt EXCEPT ![u][turn[u].active] =
                          [attempt[u][turn[u].active] EXCEPT !.lease = "expired", !.reason = r]]
    BY <1>6 DEF ExpireLease, Current
  <2>3. Seen(p).state = turn[u].state /\ Seen(p).active = turn[u].active
    BY <1>0, SeenRow
  <2> HIDE DEF u
  <2>4. CASE u # t
    BY <1>0, <1>2, <2>2, <2>4, OtherRow, OtherAttempts
  <2>5. CASE u = t
    <3>1. turn'[t] = Seen(p)
      BY <1>0, <2>2, <2>5 DEF TurnTable
    <3>2. Open(t) /\ turn'[t].active = turn[t].active
      BY <2>3, <2>5, <3>1 DEF Open
    <3>3. turn[t].active \in AttemptNumbers
      BY <3>2 DEF IInv, AttemptsArePaid, Open, OpenTurnStates
    <3>4. /\ attempt'[t][turn[t].active].gen = attempt[t][turn[t].active].gen
          /\ attempt'[t][turn[t].active].state = attempt[t][turn[t].active].state
      BY <1>0, <2>2, <2>5, <3>3, QuietColumn
    <3> QED BY <1>1, <3>2, <3>4, SameAttemptFits DEF Current
  <2> QED BY <2>4, <2>5
<1>7. ASSUME NEW p \in received, NEW outcome \in Outcomes, HandlerFinished(p, outcome)
      PROVE  Fits(t)'
  <2>1. (\E s \in TerminalTurnStates : CloseByAgent(p, s)) \/ (\E r : ExpireLease(p, r))
    BY <1>7 DEF HandlerFinished, FinishActive, TerminalTurnStates
  <2> QED BY <1>5, <1>6, <2>1
<1>8. ASSUME NEW p \in received, HandlerStarted(p) PROVE Fits(t)'
  <2> DEFINE u == p.t  n == turn[u].active
  <2>1. u \in Turns /\ turn[u] \in TurnRecord
    BY <1>0, SeenRow, Rows
  <2>2. Current(u).state # "pending" /\ turn[u].state \notin {"none", "cancelled", "failed"}
    BY <1>8 DEF HandlerStarted, LifecycleHolds
  <2>3. turn[u].state \notin {"pending", "retrying"}
    BY <2>1, <2>2 DEF IInv, WaitingIsPending
  <2>4. turn' = [turn EXCEPT ![u] = Seen(p)]
    BY <1>8, <2>3 DEF HandlerStarted
  <2>5. \/ attempt' = attempt
        \/ /\ attempt[u][n].state = "leased"
           /\ attempt' = [attempt EXCEPT ![u][n] = [attempt[u][n] EXCEPT !.state = "started"]]
    BY <1>8, <2>2 DEF HandlerStarted, Current
  <2>6. n \in AttemptNumbers /\ attempt[u][n] \in AttemptRecord
    BY <1>0, <2>1, <2>2, Rows DEF IInv, AttemptsArePaid
  <2>7. turn'[u].state = turn[u].state /\ turn'[u].active = turn[u].active
    BY <1>0, <2>1, <2>4, SeenRow, TurnPut
  <2> HIDE DEF u, n
  <2>8. CASE u # t
    <3>1. turn'[t] = turn[t]
      BY <1>0, <2>4, <2>8, OtherRow
    <3>2. attempt'[t] = attempt[t]
      BY <1>0, <2>5, <2>8, OtherAttempts
    <3> QED BY <1>2, <3>1, <3>2
  <2>9. CASE u = t
    <3>1. /\ attempt'[t][n].gen = attempt[t][n].gen
          /\ \/ attempt'[t][n].state = attempt[t][n].state
             \/ attempt[t][n].state = "leased" /\ attempt'[t][n].state = "started"
      BY <1>0, <2>1, <2>5, <2>6, <2>9 DEF AttemptTable, AttemptRecord
    <3>2. Open(t) /\ turn'[t].active = n /\ turn[t].active = n
      BY <2>7, <2>9 DEF Open, n
    <3> QED BY <1>1, <3>1, <3>2, SameAttemptFits DEF Current, Active, ActiveAttemptStates
  <2> QED BY <2>8, <2>9
<1>9. ASSUME NEW p \in received, AuthorizeNativeStart(p) PROVE Fits(t)'
  <2>1. attempt' = [attempt EXCEPT ![p.t][p.n].native = TRUE] /\ turn' = turn /\ p.t \in Turns
    BY <1>0, <1>9, SeenRow DEF AuthorizeNativeStart
  <2>2. /\ \A u \in Turns \ {p.t} : attempt'[u] = attempt[u]
        /\ \A m \in AttemptNumbers : /\ attempt'[p.t][m].gen = attempt[p.t][m].gen
                                     /\ attempt'[p.t][m].state = attempt[p.t][m].state
    BY <1>0, <2>1, QuietColumn
  <2>3. Open(t) /\ turn[t].active \in AttemptNumbers
    BY <2>1 DEF IInv, AttemptsArePaid, Open, OpenTurnStates
  <2> QED BY <1>1, <2>1, <2>2, <2>3, SameAttemptFits DEF Current
<1>10. ASSUME NEW u \in Turns, CancelGeneralTurn(u) PROVE Fits(t)'
  <2> DEFINE row == [turn[u] EXCEPT !.state = "cancelled"]
  <2>1. /\ turn' = [turn EXCEPT ![u] = row]
        /\ attempt' = attempt \/ \E n, a : attempt' = [attempt EXCEPT ![u][n] = a]
    BY <1>10 DEF CancelGeneralTurn
  <2>2. row.state = "cancelled"
    BY <1>0, Rows DEF TurnRecord
  <2> HIDE DEF row
  <2> QED BY <1>3, <2>1, <2>2 DEF TerminalTurnStates
<1> QED BY <1>4, <1>7, <1>8, <1>9, <1>10 DEF OutcomeStep
\* Recovery renews a lease at its generation, or makes an attempt at the current or,
\* after a missed drain deadline, the pending one.
LEMMA RecoverFits ==
  ASSUME IInv, NEW v \in picked, RecoverStalled(v), NEW t \in Turns,
         Open(t) => Fits(t), Open(t)'
  PROVE  Fits(t)'
<1> DEFINE u == v.t  n == v.n
<1>0. /\ TypeInv /\ turn \in TurnTable /\ attempt \in AttemptTable /\ agent' = agent
      /\ u \in Turns /\ n \in AttemptNumbers
  BY DEF IInv, TypeInv, TypeOK, TurnTable, AttemptTable, RecoverStalled, hostVars
<1>1. ASSUME turn'[t] = turn[t], attempt'[t] = attempt[t] PROVE Fits(t)'
  <2>1. Open(t)
    BY <1>1 DEF Open
  <2> QED BY <1>0, <1>1, <2>1, UntouchedFits
<1>2. CASE ~Active(u, n) \/ ~Open(u)
  BY <1>1, <1>2 DEF RecoverStalled, turnVars
<1>3. CASE Active(u, n) /\ Open(u)
  <2>1. \/ RenewLease(u, n) \/ CancelStalled(u, n) \/ FailStalled(u, n) \/ Redispatch(u, n)
    BY <1>3 DEF RecoverStalled
  <2>2. n = turn[u].active
    BY <1>0, <1>3 DEF IInv, LiveIsActive, Live, Active, ActiveAttemptStates
  <2> HIDE DEF u, n
  <2>3. CASE u # t
    <3>1. turn' = turn \/ \E row : turn' = [turn EXCEPT ![u] = row]
      BY <2>1 DEF RenewLease, CancelStalled, FailStalled, Redispatch
    <3>2. \/ \E m, a : attempt' = [attempt EXCEPT ![u][m] = a]
          \/ \E a : attempt' = [attempt EXCEPT ![u] = a]
      BY <2>1 DEF RenewLease, CancelStalled, FailStalled, Redispatch
    <3>3. turn'[t] = turn[t]
      BY <1>0, <2>3, <3>1, OtherRow
    <3>4. attempt'[t] = attempt[t]
      BY <1>0, <2>3, <3>2, OtherAttempts
    <3> QED BY <1>1, <3>3, <3>4
  <2>4. CASE u = t /\ RenewLease(u, n)
    <3>1. attempt' = [attempt EXCEPT ![t][n].lease = "held"] /\ turn' = turn
      BY <2>4 DEF RenewLease
    <3>2. /\ attempt'[t][n].gen = attempt[t][n].gen
          /\ attempt'[t][n].state = attempt[t][n].state
      BY <1>0, <2>4, <3>1, QuietColumn
    <3>3. Open(t)
      BY <3>1 DEF Open
    <3> QED BY <1>0, <2>2, <2>4, <3>1, <3>2, <3>3, SameAttemptFits DEF Current
  <2>5. CASE u = t /\ (CancelStalled(u, n) \/ FailStalled(u, n))
    <3>1. turn' \in {[turn EXCEPT ![t].state = "cancelled"], [turn EXCEPT ![t].state = "failed"]}
      BY <2>5 DEF CancelStalled, FailStalled
    <3>2. turn'[t].state \in {"cancelled", "failed"}
      BY <1>0, <3>1, Rows DEF TurnTable, TurnRecord
    <3> QED BY <3>2 DEF Open, OpenTurnStates
  <2>6. CASE u = t /\ Redispatch(u, n)
    <3> DEFINE g == RetryGeneration(t, n)
               old == [Interrupt(t, n) EXCEPT !.spent = TransientRetry(t, n)]
               a == NewAttempt(g)
               row == [turn[t] EXCEPT !.state = "retrying", !.active = n + 1, !.retries = @ + 1]
    <3>1. /\ attempt' = [attempt EXCEPT ![t] = [m \in AttemptNumbers |->
                            IF m = n + 1 THEN a ELSE IF m = n THEN old ELSE attempt[t][m]]]
          /\ turn' = [turn EXCEPT ![t] = row]
      BY <2>2, <2>6 DEF Redispatch
    <3>2. row.active = n + 1
      BY <1>0, Rows DEF TurnRecord
    <3>3. a.gen = g /\ a.state = "pending"
      BY DEF NewAttempt, NoAttempt
    <3>4. g = agent.generation \/ (agent.pending # 0 /\ g = agent.pending)
      BY DEF RetryGeneration
    <3> HIDE DEF a, row, old, g
    <3>5. n + 1 \in AttemptNumbers
      <4>1. StepShape
        BY RecoverShape
      <4>2. turn'[t] = row
        BY <1>0, <3>1, TurnPut
      <4>3. AttemptsArePaid'
        BY <4>1, BudgetsStep
      <4>4. turn'[t].state # "none"
        BY DEF Open, OpenTurnStates
      <4> QED BY <3>2, <4>2, <4>3, <4>4 DEF AttemptsArePaid
    <3>6. turn'[t].active = n + 1 /\ attempt'[t][n + 1] = a
      BY <1>0, <3>1, <3>2, <3>5 DEF TurnTable, AttemptTable
    <3> QED BY <1>0, <3>3, <3>4, <3>6 DEF Fits, Current, ActiveAttemptStates
  <2> QED BY <2>1, <2>3, <2>4, <2>5, <2>6
<1> QED BY <1>2, <1>3

\* The recovery worker, the leases' clocks and a node's shutdown move no attempt.
LEMMA RecoveryFits ==
  ASSUME IInv, RecoveryStep, NEW t \in Turns, Open(t) => Fits(t), Open(t)'
  PROVE  Fits(t)'
<1>0. TypeInv /\ attempt \in AttemptTable /\ agent' = agent
  BY RecoveryLeavesHost DEF IInv, TypeInv, TypeOK, AttemptTable, HostAlone
<1>1. ASSUME turn' = turn,
             \A n \in AttemptNumbers : /\ attempt'[t][n].gen = attempt[t][n].gen
                                       /\ attempt'[t][n].state = attempt[t][n].state
      PROVE  Fits(t)'
  <2>1. Open(t) /\ turn[t].active \in AttemptNumbers
    BY <1>1 DEF IInv, AttemptsArePaid, Open, OpenTurnStates
  <2> QED BY <1>0, <1>1, <2>1, SameAttemptFits DEF Current
<1>2. CASE CancelInvalidTurns
  <2>1. turn'[t] = IF Open(t) THEN [turn[t] EXCEPT !.state = "cancelled"] ELSE turn[t]
    BY <1>2 DEF CancelInvalidTurns
  <2>2. ~Open(t)'
    BY <1>0, <2>1, Rows DEF Open, OpenTurnStates, TurnRecord
  <2> QED BY <2>2
<1>3. ASSUME NEW live, SelectStalled(live) PROVE Fits(t)'
  BY <1>1, <1>3 DEF SelectStalled, turnVars
<1>4. ASSUME NEW u \in Turns, NEW n \in AttemptNumbers, LeaseExpires(u, n) PROVE Fits(t)'
  <2>1. attempt' = [attempt EXCEPT ![u][n].lease = "expired"] /\ turn' = turn
    BY <1>4 DEF LeaseExpires
  <2>2. /\ \A w \in Turns \ {u} : attempt'[w] = attempt[w]
        /\ \A m \in AttemptNumbers : /\ attempt'[u][m].gen = attempt[u][m].gen
                                     /\ attempt'[u][m].state = attempt[u][m].state
    BY <1>0, <2>1, QuietColumn
  <2> QED BY <1>1, <2>1, <2>2
<1>5. CASE NodeShutdown
  <2>1. turn' = turn
    BY <1>5 DEF NodeShutdown
  <2>2. ASSUME NEW n \in AttemptNumbers
        PROVE  /\ attempt'[t][n].gen = attempt[t][n].gen
               /\ attempt'[t][n].state = attempt[t][n].state
    <3>1. attempt'[t][n] \in {attempt[t][n], [attempt[t][n] EXCEPT !.lease = "expired",
                                !.reason = IF @ = "none" THEN "explicit" ELSE @]}
      BY <1>5 DEF NodeShutdown
    <3>2. attempt[t][n] \in AttemptRecord
      BY <1>0, Rows
    <3> QED BY <3>1, <3>2 DEF AttemptRecord
  <2> QED BY <1>1, <2>1, <2>2
<1> QED BY <1>2, <1>3, <1>4, <1>5, RecoverFits DEF RecoveryStep

\* Moving the undelivered attempts from one generation to another, while the agent is
\* allowed to work, moves every one of an open turn that has the old one, and no lease.
LEMMA RemapMoves ==
  ASSUME IInv, gate.member, gate.open, NEW old, NEW new, attempt' = RemapPending(old, new),
         turn' = turn, NEW t \in Turns, Open(t)
  PROVE  /\ Current(t)'.state = Current(t).state
         /\ Current(t)'.gen = IF Current(t).state = "pending" /\ Current(t).gen = old
                              THEN new ELSE Current(t).gen
<1> DEFINE n == turn[t].active
<1>1. n \in AttemptNumbers
  BY DEF IInv, AttemptsArePaid, Open, OpenTurnStates
<1>2. ~turn[t].accepted
  BY DEF IInv, Unanswered, Open, OpenTurnStates, TerminalTurnStates
<1>3. attempt[t][n] \in AttemptRecord
  BY <1>1, Rows DEF IInv
<1>4. attempt'[t][n] = IF attempt[t][n].gen = old /\ attempt[t][n].state = "pending"
                       THEN [attempt[t][n] EXCEPT !.gen = new] ELSE attempt[t][n]
  BY <1>1, <1>2 DEF RemapPending, MovesWithGeneration
<1> QED BY <1>3, <1>4 DEF Current, AttemptRecord

\* With no lease left at the current generation, no open turn that fits holds one.
LEMMA DrainedMeansNoLease ==
  ASSUME IInv, ActiveLeases(agent.generation) = {}, NEW t \in Turns, Open(t), Fits(t)
  PROVE  Current(t).state \notin ActiveAttemptStates
<1>1. turn[t].active \in AttemptNumbers
  BY DEF IInv, AttemptsArePaid, Open, OpenTurnStates
<1>2. SUFFICES ASSUME Current(t).state \in ActiveAttemptStates PROVE FALSE
  OBVIOUS
<1>3. <<t, turn[t].active>> \in ActiveLeases(agent.generation)
  BY <1>1, <1>2 DEF ActiveLeases, Fits, Current, Active
<1> QED BY <1>3

\* A change of configuration waits for the leases or finds none, and takes the
\* undelivered attempts along.
LEMMA BumpFits ==
  ASSUME IInv, BumpWrites(BumpDecision), agent.desired = "running",
         gate.member, gate.open, NEW t \in Turns, Open(t), Fits(t)
  PROVE  Fits(t)' /\ agent'.desired = "running"
<1> DEFINE g == agent.generation  p == agent.pending
           wanted == IF p = 0 THEN g + 1 ELSE p + 1
<1>0. agent \in AgentRecord /\ g \in Nat /\ p \in Nat /\ turn' = turn
  <2>1. agent \in AgentRecord
    BY HostNumbers DEF IInv
  <2> QED BY <2>1, GenerationFacts DEF AgentRecord, BumpWrites
<1>1. /\ BumpDecision.kind = BumpKind /\ BumpDecision.generation = g
      /\ BumpDecision.pending = p /\ BumpKind # "stopped"
  BY DEF BumpDecision, BumpKind
<1>2. \/ /\ BumpKind = "cancel" /\ agent' = NoDrain(agent) /\ attempt' = RemapPending(p, g)
      \/ /\ BumpKind = "drain"
         /\ \E m : agent' = [agent EXCEPT !.pending = wanted, !.pendingManifest = m,
                                          !.deadline = "set"]
         /\ attempt' = IF p # 0 THEN RemapPending(p, wanted) ELSE attempt
      \/ /\ BumpKind = "now" /\ attempt' = RemapPending(g, g + 1)
         /\ \E m : agent' = [agent EXCEPT !.generation = g + 1, !.manifest = m]
  BY <1>1 DEF BumpWrites
<1> HIDE DEF g, p
<1>3. CASE BumpKind = "cancel" /\ agent' = NoDrain(agent) /\ attempt' = RemapPending(p, g)
  <2>1. agent'.generation = g /\ agent'.desired = "running"
    BY <1>0, <1>3 DEF NoDrain, AgentRecord, g
  <2>2. /\ Current(t)'.state = Current(t).state
        /\ Current(t)'.gen = IF Current(t).state = "pending" /\ Current(t).gen = p
                             THEN g ELSE Current(t).gen
    BY <1>0, <1>3, RemapMoves
  <2> QED BY <2>1, <2>2 DEF Fits, g, p, ActiveAttemptStates
<1>4. ASSUME BumpKind = "drain",
             NEW m, agent' = [agent EXCEPT !.pending = wanted, !.pendingManifest = m,
                                           !.deadline = "set"],
             attempt' = IF p # 0 THEN RemapPending(p, wanted) ELSE attempt
      PROVE  Fits(t)' /\ agent'.desired = "running"
  <2>1. /\ agent'.generation = g /\ agent'.desired = "running" /\ agent'.pending = wanted
        /\ wanted # 0
    BY <1>0, <1>4 DEF AgentRecord, g
  <2>2. CASE p = 0
    BY <1>0, <1>4, <2>1, <2>2 DEF Fits, g, p, Current
  <2>3. CASE p # 0
    <3>1. /\ Current(t)'.state = Current(t).state
          /\ Current(t)'.gen = IF Current(t).state = "pending" /\ Current(t).gen = p
                               THEN wanted ELSE Current(t).gen
      BY <1>0, <1>4, <2>3, RemapMoves
    <3> HIDE DEF wanted
    <3> QED BY <2>1, <3>1 DEF Fits, g, p, ActiveAttemptStates
  <2> QED BY <2>2, <2>3
<1>5. ASSUME BumpKind = "now", attempt' = RemapPending(g, g + 1),
             NEW m, agent' = [agent EXCEPT !.generation = g + 1, !.manifest = m]
      PROVE  Fits(t)' /\ agent'.desired = "running"
  <2>1. agent'.generation = g + 1 /\ agent'.desired = "running" /\ agent'.pending = p
    BY <1>0, <1>5 DEF AgentRecord, p
  <2>2. /\ Current(t)'.state = Current(t).state
        /\ Current(t)'.gen = IF Current(t).state = "pending" /\ Current(t).gen = g
                             THEN g + 1 ELSE Current(t).gen
    BY <1>0, <1>5, RemapMoves
  <2>3. Current(t).state \notin ActiveAttemptStates
    <3>1. ActiveLeases(agent.generation) = {}
      BY <1>5 DEF BumpKind
    <3> QED BY <3>1, DrainedMeansNoLease
  <2> QED BY <2>1, <2>2, <2>3 DEF Fits, g, p
<1> QED BY <1>2, <1>3, <1>4, <1>5

\* So does the end of a drain.
LEMMA ReleaseFits ==
  ASSUME IInv, ReleaseGenerationDrain, gate.member, gate.open, NEW t \in Turns, Open(t), Fits(t)
  PROVE  Fits(t)'
<1>1. agent \in AgentRecord /\ turn' = turn
  BY HostNumbers DEF IInv, ReleaseGenerationDrain
<1>2. /\ agent'.generation = agent.pending
      /\ attempt' = RemapPending(agent.generation, agent.pending)
      /\ ActiveLeases(agent.generation) = {}
  BY <1>1 DEF ReleaseGenerationDrain, NoDrain, AgentRecord, Drained
<1>3. /\ Current(t)'.state = Current(t).state
      /\ Current(t)'.gen = IF Current(t).state = "pending" /\ Current(t).gen = agent.generation
                           THEN agent.pending ELSE Current(t).gen
  BY <1>1, <1>2, RemapMoves
<1>4. Current(t).state \notin ActiveAttemptStates
  BY <1>2, DrainedMeansNoLease
<1> QED BY <1>2, <1>3, <1>4 DEF Fits

\* Whoever writes neither the generation nor an attempt moves no turn.
LEMMA OthersFit ==
  ASSUME IInv, GenerationStep, ~BumpLands, ~ReleaseGenerationDrain, ~RequestStop,
         agent.acked => agent'.acked, NEW t \in Turns, Fits(t)
  PROVE  Fits(t)'
<1>0. agent \in AgentRecord
  BY HostNumbers DEF IInv
<1>1. turn' = turn /\ attempt' = attempt
  BY DEF GenerationStep, EditConfig, BumpReads, DeadlinePasses, RequestStart,
     ReportActualState, DaemonApplies, ProcessCrashes, ProcessRestarts, Subscribe,
     Unsubscribe, RevokeGate, turnVars, hostVars
<1>2. DeadlinePasses \/ ReportActualState \/ RequestStart \/ agent' = agent
  BY DEF GenerationStep, EditConfig, BumpReads, DaemonApplies, ProcessCrashes,
     ProcessRestarts, Subscribe, Unsubscribe, RevokeGate, hostVars
<1>3. ASSUME RequestStart PROVE agent' = [agent EXCEPT !.manifest = config]
  <2>1. CASE agent.acked
    <3>1. ~agent'.acked
      BY <1>0, <1>3, <2>1 DEF RequestStart, NoDrain, AgentRecord
    <3> QED BY <2>1, <3>1
  <2>2. CASE ~agent.acked
    BY <1>3, <2>2 DEF RequestStart
  <2> QED BY <2>1, <2>2
<1>4. agent'.generation = agent.generation /\ agent'.pending = agent.pending
  BY <1>0, <1>2, <1>3 DEF DeadlinePasses, ReportActualState, AgentRecord
<1> QED BY <1>1, <1>4 DEF Fits, Current

\* A turn leaves the fence only with a change that was overtaken or a restart.
LEMMA FenceStep ==
  ASSUME IInv, [Next]_vars, Authorized, Authorized', NEW t \in Turns,
         Open(t) => Fits(t), Open(t)'
  PROVE  Fits(t)' \/ Overtaken \/ Restarted
<1>1. CASE DispatchStep
  BY <1>1, DispatchFits
<1>2. CASE OutcomeStep
  BY <1>2, OutcomeFits
<1>3. CASE RecoveryStep
  BY <1>3, RecoveryFits
<1>4. CASE UNCHANGED vars
  BY <1>4, UntouchedFits DEF Open, vars
<1>5. CASE GenerationStep
  <2>1. turn' = turn
    BY <1>5 DEF GenerationStep, EditConfig, BumpLands, BumpWrites, BumpReads,
       ReleaseGenerationDrain, DeadlinePasses, RequestStart, RequestStop, ReportActualState,
       DaemonApplies, ProcessCrashes, ProcessRestarts, Subscribe, Unsubscribe, RevokeGate,
       turnVars, hostVars
  <2>2. Open(t) /\ Fits(t)
    BY <2>1 DEF Open
  <2>3. gate.member /\ gate.open /\ agent.desired = "running" /\ agent'.desired = "running"
    BY DEF Authorized
  <2>4. CASE BumpLands /\ bump = BumpDecision
    <3>1. BumpWrites(BumpDecision)
      BY <2>4 DEF BumpLands
    <3> QED BY <2>2, <2>3, <3>1, BumpFits
  <2>5. CASE BumpLands /\ bump # BumpDecision
    BY <2>5 DEF Overtaken
  <2>6. CASE ReleaseGenerationDrain
    BY <2>2, <2>3, <2>6, ReleaseFits
  <2>7. ~RequestStop
    <3>1. agent \in AgentRecord
      BY HostNumbers DEF IInv
    <3>2. RequestStop => agent'.desired = "stopped"
      BY <3>1 DEF RequestStop, NoDrain, AgentRecord
    <3> QED BY <2>3, <3>2
  <2>8. CASE agent.acked /\ ~agent'.acked
    BY <2>8 DEF Restarted
  <2>9. CASE ~BumpLands /\ ~ReleaseGenerationDrain /\ ~(agent.acked /\ ~agent'.acked)
    BY <1>5, <2>2, <2>7, <2>9, OthersFit
  <2> QED BY <2>4, <2>5, <2>6, <2>8, <2>9
<1> QED BY <1>1, <1>2, <1>3, <1>4, <1>5 DEF Next

\* A change of configuration never runs beside the old process: no step of the server,
\* the daemon or the agent takes an open turn outside the fence while the agent is
\* allowed to work, but a change that lands overtaken and an operator's start.  Since
\* no turn is outside at the beginning, one that is outside was put there by those.
THEOREM FenceHolds == Spec => GenerationFence
<1>1. ASSUME IInv, [Next]_vars, Authorized, Authorized'
      PROVE  \A t \in Turns : (Open(t) => Fits(t)) /\ Open(t)' => Fits(t)' \/ Overtaken \/ Restarted
  BY <1>1, FenceStep
<1>2. IInv /\ [Next]_vars =>
        [Authorized /\ Authorized' => \A t \in Turns :
           (Open(t) => Fits(t)) /\ Open(t)' => Fits(t)' \/ Overtaken \/ Restarted]_vars
  BY <1>1
<1> QED BY <1>2, InvariantHolds, PTL DEF Spec, GenerationFence
=============================================================================
