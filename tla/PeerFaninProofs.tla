-------------------------- MODULE PeerFaninProofs --------------------------
(***************************************************************************)
(* What a caller is woken with, and how often, for every number of agents, *)
(* turns, questions and workers.                                           *)
(*                                                                         *)
(* The transactions of PeerFanin read, decide and write back what they     *)
(* decided, whatever was committed in between.  So the invariant says of   *)
(* every transaction under way what of its reading is still so: a closing  *)
(* still closes an open turn, a sweep still finds over what it found over, *)
(* and a group that is about to be marked ready has everything or will     *)
(* have it with this very commit.                                          *)
(***************************************************************************)
EXTENDS PeerFanin, FiniteSetTheorems, TLAPS

\* Who may be in a transaction, and what it carries.
Closing(x) == x \in tx /\ x.kind = "close"
Sweeping(x) == x \in tx /\ x.kind = "sweep"
Asking(x) == x \in tx /\ x.kind = "ask"

\* The questions of a group that the closing of its caller's turn saw.
Known(g) == {t \in Turns : target[t].group = g /\ ~target[t].missed}

TxOK ==
    /\ \A x : Asking(x) => x.t \in Turns /\ x.peers \subseteq Agents
    /\ \A x : Closing(x) => /\ x.t \in Turns /\ x.outcome \in TerminalTurnStates
                            /\ x.settles \in BOOLEAN /\ x.closes \in BOOLEAN
                            /\ x.marks \subseteq Turns
    /\ \A x : Sweeping(x) => /\ x.ended \subseteq Turns /\ x.gone \subseteq Turns
                             /\ x.marks \subseteq Turns

\* Turns are numbered without a gap, and a number not yet given has no history.
Numbered == {t \in Turns : turn[t].state # "none"} = 1..Used
Fresh == \A t \in Turns : turn[t].state = "none" =>
            turn[t] = NoTurn /\ group[t] = NoGroup /\ target[t] = NoTarget

\* A target belongs to a group that was opened.
Owned == \A t \in Turns :
    /\ target[t].state = "none" <=> target[t].group = 0
    /\ target[t].group # 0 => group[target[t].group].state # "none"
    /\ group[t].state = "none" => group[t] = NoGroup

\* A group is done only after its caller's turn is over.
CallerDone == \A g \in Turns :
    /\ group[g].closed => turn[g].state \in TerminalTurnStates
    /\ group[g].state \in {"ready", "woken", "abandoned"} => group[g].closed

\* A question belongs to a turn there is, which may be over by now.
AsksHold == \A x : Asking(x) => turn[x.t].state # "none"

\* What a closing found is still so, except that a sweep may have given its
\* question up meanwhile.
ClosingsHold == \A x : Closing(x) =>
    /\ Open(x.t) /\ \A y : Closing(y) /\ y.t = x.t => y = x
    /\ x.closes => ~group[x.t].closed /\ group[x.t].state # "none"
    /\ x.settles => target[x.t].group # 0
    /\ ~x.settles => target[x.t].state # "pending"

SweepsHold == \A x : Sweeping(x) =>
    /\ \A t \in x.ended : turn[t].state \in TerminalTurnStates /\ target[t].group # 0
    /\ \A t \in x.gone : target[t].group # 0 /\ t \notin x.ended

\* A transaction that is to mark a group ready: the caller is done and so is every
\* question it could know of, before it or by it.
MarksHold == \A x : (Closing(x) \/ Sweeping(x)) => \A g \in x.marks :
    /\ group[g].closed \/ (Closing(x) /\ x.closes /\ x.t = g)
    /\ \A t \in Known(g) :
          \/ target[t].state \in TerminalTargetStates
          \/ (Closing(x) /\ x.settles /\ x.t = t)
          \/ (Sweeping(x) /\ t \in x.ended \cup x.gone)
    /\ Closing(x) => \/ (x.settles /\ target[x.t].group = g)
                     \/ (x.closes /\ x.t = g)

\* A ready group has everything it was to wait for.
ReadyHasAll == \A g \in Turns : group[g].state = "ready" =>
    \A t \in Known(g) : target[t].state \in TerminalTargetStates

\* Only a worker settles a question whose turn goes on, and then it has given it up.
GivenUp == \A t \in Turns : target[t].state \in TerminalTargetStates =>
    /\ Open(t) => group[target[t].group].expired
    /\ turn[t].state = "completed" => target[t].reply \/ group[target[t].group].expired

FaninInv ==
    /\ TypeOK /\ TxOK /\ Numbered /\ Fresh /\ Owned /\ CallerDone /\ AsksHold
    /\ ClosingsHold /\ SweepsHold /\ MarksHold /\ ReadyHasAll /\ GivenUp

\* x is about to give up a question of g.
GivesUp(x, g) == Sweeping(x) /\ \E t \in x.gone : target[t].group = g
Marks(x, g) == (Closing(x) \/ Sweeping(x)) /\ g \in x.marks /\ ~GivesUp(x, g)

StillPending == \A x : Closing(x) /\ x.settles =>
    target[x.t].state = "pending" \/ group[target[x.t].group].expired
MarkedOnce == \A g \in Turns : ~group[g].expired /\ ~group[g].raced =>
    \A x : Marks(x, g) => group[g].state = "collecting"
WokenOnce == \A g \in Turns : ~group[g].expired /\ ~group[g].raced =>
    /\ group[g].state \in {"none", "collecting", "ready"} => WakesOf(g) = {}
    /\ \A t, u \in WakesOf(g) : t = u

OneWakeInv == StillPending /\ MarkedOnce /\ WokenOnce

-----------------------------------------------------------------------------
(* Rows and numbers.                                                         *)

TurnRow == [agent: Agents \cup {0}, of: Turns \cup {0},
            kind: {"none", "request", "question", "wake"},
            state: {"none", "waiting", "running"} \cup TerminalTurnStates]
GroupRow == [state: {"none", "collecting", "ready", "woken", "abandoned"},
             closed: BOOLEAN, draft: BOOLEAN, late: BOOLEAN, expired: BOOLEAN,
             raced: BOOLEAN]
TargetRow == [group: Turns \cup {0}, reply: BOOLEAN, missed: BOOLEAN,
              state: {"none", "pending"} \cup TerminalTargetStates]
TxKinds == \A x \in tx : x.kind \in {"ask", "close", "sweep"}

LEMMA Rows ==
  /\ TypeOK <=> /\ turn \in [Turns -> TurnRow] /\ group \in [Turns -> GroupRow]
                /\ target \in [Turns -> TargetRow] /\ running \in [Agents -> BOOLEAN]
                /\ TxKinds
  /\ TypeOK' <=> /\ turn' \in [Turns -> TurnRow] /\ group' \in [Turns -> GroupRow]
                 /\ target' \in [Turns -> TargetRow] /\ running' \in [Agents -> BOOLEAN]
                 /\ TxKinds'
<1>1. TypeOK <=> /\ turn \in [Turns -> TurnRow] /\ group \in [Turns -> GroupRow]
                 /\ target \in [Turns -> TargetRow] /\ running \in [Agents -> BOOLEAN]
                 /\ TxKinds
  BY DEF TypeOK, TurnRow, GroupRow, TargetRow, TxKinds
<1>2. TypeOK' <=> /\ turn' \in [Turns -> TurnRow] /\ group' \in [Turns -> GroupRow]
                  /\ target' \in [Turns -> TargetRow] /\ running' \in [Agents -> BOOLEAN]
                  /\ TxKinds'
  BY DEF TypeOK, TurnRow, GroupRow, TargetRow, TxKinds
<1> QED BY <1>1, <1>2

LEMMA Counting == ASSUME TypeOK PROVE Used \in Nat /\ IsFiniteSet(Turns)
<1>1. IsFiniteSet(Turns)
  BY FaninAssumption, FS_Interval DEF Turns
<1>2. {t \in Turns : turn[t].state # "none"} \in SUBSET Turns
  OBVIOUS
<1> QED BY <1>1, <1>2, FS_Subset, FS_CardinalityType DEF Used

\* A new turn takes the next number, and there is nothing there yet.
LEMMA OneMore ==
  ASSUME TypeOK, Numbered, NEW row, row.state # "none",
         turn' = [turn EXCEPT ![Used + 1] = row]
  PROVE  /\ Numbered'
         /\ \A t \in Turns : \/ turn'[t] = turn[t]
                             \/ turn[t].state = "none" /\ turn'[t] = row
<1>1. Used \in Nat /\ DOMAIN turn = Turns /\ MaxTurns \in Nat
  BY Counting, FaninAssumption DEF TypeOK
<1>2. CASE Used + 1 \notin Turns
  <2>1. turn' = turn
    BY <1>1, <1>2 DEF TypeOK
  <2> QED BY <2>1 DEF Numbered, Used
<1>3. CASE Used + 1 \in Turns
  <2>1. turn'[Used + 1] = row /\ \A t \in Turns : t # Used + 1 => turn'[t] = turn[t]
    BY <1>1, <1>3
  <2>2. turn[Used + 1].state = "none"
    BY <1>1, <1>3 DEF Numbered
  <2>3. {t \in Turns : turn'[t].state # "none"} = 1..(Used + 1)
    BY <1>1, <1>3, <2>1 DEF Numbered, Turns
  <2>4. Used' = Used + 1
    <3>1. Used' = Cardinality(1..(Used + 1))
      BY <2>3 DEF Used
    <3> QED BY <1>1, <3>1, FS_Interval
  <2>5. Numbered'
    BY <2>3, <2>4 DEF Numbered
  <2> QED BY <2>1, <2>2, <2>5
<1> QED BY <1>2, <1>3

\* The peers of one call get the next numbers.
LEMMA Ranks ==
  ASSUME NEW n \in Nat, NEW S, S \subseteq Agents,
         NEW id, id = [p \in S |-> n + 1 + Cardinality({q \in S : q < p})]
  PROVE  /\ {id[p] : p \in S} = (n + 1)..(n + Cardinality(S))
         /\ Cardinality(S) \in Nat
<1> DEFINE Below(p) == {r \in S : r < p}
           rank == [p \in S |-> 1 + Cardinality(Below(p))]
           k == Cardinality(S)
<1>1. IsFiniteSet(S) /\ k \in Nat /\ S \subseteq Int
  <2>1. IsFiniteSet(1..NumAgents)
    BY FaninAssumption, FS_Interval
  <2>2. IsFiniteSet(S)
    BY <2>1, FS_Subset DEF Agents
  <2> QED BY <2>2, FaninAssumption, FS_CardinalityType DEF Agents
<1>2. ASSUME NEW p \in S
      PROVE  /\ IsFiniteSet(Below(p)) /\ Cardinality(Below(p)) \in Nat
             /\ Cardinality(Below(p)) < k
  <2>1. IsFiniteSet(Below(p)) /\ Cardinality(Below(p)) \in Nat /\ Cardinality(Below(p)) =< k
    BY <1>1, FS_Subset, FS_CardinalityType
  <2>2. p \notin Below(p)
    BY <1>1
  <2>3. Cardinality(Below(p)) # k
    BY <1>1, <2>2, FS_Subset
  <2> QED BY <1>1, <2>1, <2>3
<1>3. ASSUME NEW p \in S, NEW q \in S, p < q
      PROVE  Cardinality(Below(p)) < Cardinality(Below(q))
  <2>1. Below(p) \subseteq Below(q) /\ p \in Below(q) /\ p \notin Below(p)
    <3>1. p \in Int /\ q \in Int /\ \A r \in S : r \in Int
      BY <1>1
    <3>2. \A r \in S : r < p => r < q
      BY <1>3, <3>1
    <3>3. Below(p) \subseteq Below(q)
      BY <3>2
    <3>4. p \in Below(q) /\ p \notin Below(p)
      BY <1>3, <3>1
    <3> QED BY <3>3, <3>4
  <2>2. IsFiniteSet(Below(q)) /\ Cardinality(Below(p)) \in Nat /\ Cardinality(Below(q)) \in Nat
    BY <1>2
  <2> HIDE DEF Below
  <2>3. Below(p) \in SUBSET Below(q) /\ Below(p) # Below(q)
    BY <2>1
  <2>4. Cardinality(Below(p)) =< Cardinality(Below(q))
        /\ Cardinality(Below(p)) # Cardinality(Below(q))
    BY <2>2, <2>3, FS_Subset
  <2> QED BY <2>2, <2>4
<1> HIDE DEF Below, k
<1>4. \A p, q \in S : rank[p] = rank[q] => p = q
  <2> SUFFICES ASSUME NEW p \in S, NEW q \in S, rank[p] = rank[q], p # q PROVE FALSE
    OBVIOUS
  <2>1. p < q \/ q < p
    BY <1>1
  <2> QED BY <1>2, <1>3, <2>1
<1>5. rank \in Injection(S, 1..k)
  <2>1. rank \in [S -> 1..k]
    BY <1>1, <1>2
  <2> HIDE DEF rank
  <2> QED BY <1>4, <2>1 DEF Injection, IsInjective
<1>6. rank \in Surjection(S, 1..k)
  <2>1. IsFiniteSet(1..k) /\ Cardinality(1..k) = k
    BY <1>1, FS_Interval
  <2> HIDE DEF rank
  <2> QED BY <1>1, <1>5, <2>1, FS_Injection DEF k
<1>7. \A p \in S : id[p] = n + rank[p] /\ rank[p] \in 1..k
  BY <1>1, <1>2 DEF Below
<1>8. \A i \in 1..k : \E p \in S : rank[p] = i
  <2> HIDE DEF rank
  <2> QED BY <1>6 DEF Surjection
<1> HIDE DEF rank
<1>9. {id[p] : p \in S} = (n + 1)..(n + k)
  <2>1. ASSUME NEW i \in (n + 1)..(n + k) PROVE \E p \in S : id[p] = i
    <3>1. i - n \in 1..k
      BY <1>1
    <3>2. PICK p \in S : rank[p] = i - n
      BY <1>8, <3>1
    <3>3. id[p] = i
      BY <1>7, <3>1, <3>2
    <3> QED BY <3>3
  <2>2. \A p \in S : id[p] \in (n + 1)..(n + k)
    BY <1>1, <1>7
  <2> QED BY <2>1, <2>2
<1> QED BY <1>1, <1>9 DEF k

-----------------------------------------------------------------------------
(* Persons, agents, operators, the clock and the wake.                       *)

\* A step that takes no part in a transaction: turns are added, begin or stop to
\* run, and a ready group is woken.
LEMMA MovesKeep ==
  ASSUME FaninInv, TypeOK', Numbered', tx' = tx, target' = target,
         \A t \in Turns :
            \/ turn'[t] = turn[t]
            \/ Open(t) /\ Open(t)'
            \/ turn[t].state = "none" /\ turn'[t].state \in {"waiting", "cancelled"},
         \A g \in Turns :
            /\ group'[g].closed = group[g].closed /\ group'[g].expired = group[g].expired
            /\ group[g].state = "none" => group'[g] = group[g]
            /\ \/ group'[g].state = group[g].state
               \/ group[g].state = "ready" /\ group'[g].state \in {"woken", "abandoned"}
  PROVE  FaninInv'
<1>1. \A x : /\ Asking(x)' <=> Asking(x)
             /\ Closing(x)' <=> Closing(x)
             /\ Sweeping(x)' <=> Sweeping(x)
  BY DEF Asking, Closing, Sweeping
<1>2. \A t \in Turns : Open(t) => Open(t)'
  BY DEF Open
<1>3. \A t \in Turns : turn[t].state \in TerminalTurnStates => turn'[t] = turn[t]
  BY DEF Open, TerminalTurnStates
<1>4. TxOK'
  BY <1>1 DEF FaninInv, TxOK
<1>5. Fresh'
  BY DEF FaninInv, Fresh, Open, NoGroup
<1>6. Owned'
  <2>1. \A g \in Turns : group'[g].state = "none" <=> group[g].state = "none"
    OBVIOUS
  <2>2. \A t \in Turns : target[t].group # 0 => target[t].group \in Turns
    BY DEF FaninInv, TypeOK
  <2> QED BY <2>1, <2>2 DEF FaninInv, Owned
<1>7. CallerDone'
  BY <1>3 DEF FaninInv, CallerDone
<1>8. AsksHold'
  BY <1>1 DEF FaninInv, AsksHold, TxOK, Open
<1>9. ClosingsHold'
  <2>1. \A g \in Turns : group'[g].state = "none" <=> group[g].state = "none"
    OBVIOUS
  <2> QED BY <1>1, <1>2, <2>1 DEF FaninInv, ClosingsHold, TxOK
<1>10. SweepsHold'
  BY <1>1, <1>3 DEF FaninInv, SweepsHold, TxOK
<1>11. MarksHold'
  BY <1>1 DEF FaninInv, MarksHold, TxOK, Known
<1>12. ReadyHasAll'
  BY DEF FaninInv, ReadyHasAll, Known
<1>13. GivenUp'
  <2>1. \A t \in Turns : target[t].state \in TerminalTargetStates =>
          turn[t].state # "none" /\ target[t].group \in Turns
    BY DEF FaninInv, TypeOK, Fresh, Owned, NoTarget, TerminalTargetStates, TerminalTurnStates
  <2>2. \A t \in Turns : turn'[t].state = "completed" => turn[t].state \in {"completed", "none"}
    BY DEF Open
  <2>3. \A t \in Turns : Open(t)' => Open(t) \/ turn[t].state = "none"
    BY DEF Open
  <2> QED BY <2>1, <2>2, <2>3 DEF FaninInv, GivenUp
<1> QED
  BY <1>4, <1>5, <1>6, <1>7, <1>8, <1>9, <1>10, <1>11, <1>12, <1>13 DEF FaninInv

\* What a turn is created with.
LEMMA NewTurnIs ==
  ASSUME TypeOK, NEW a \in Agents, NEW kind \in {"request", "question", "wake"},
         NEW of \in Turns \cup {0}
  PROVE  /\ NewTurn(a, kind, of).state = IF running[a] THEN "waiting" ELSE "cancelled"
         /\ NewTurn(a, kind, of).kind = kind /\ NewTurn(a, kind, of).of = of
         /\ NewTurn(a, kind, of) \in TurnRow
  BY DEF TypeOK, NewTurn, TurnRow, TerminalTurnStates

LEMMA OthersKeep ==
  ASSUME FaninInv,
         \/ \E a \in Agents : Request(a) \/ SetRunning(a)
         \/ \E t \in Turns : Lease(t) \/ Retry(t) \/ DeadlinePasses(t)
         \/ \E w \in Workers, g \in Turns : Wake(w, g)
  PROVE  FaninInv'
<1>0. TypeOK /\ Numbered
  BY DEF FaninInv
<1>1. ASSUME NEW a \in Agents, Request(a) PROVE FaninInv'
  <2> DEFINE row == NewTurn(a, "request", 0)
  <2>1. row.state \in {"waiting", "cancelled"}
    BY <1>0, NewTurnIs
  <2>2. /\ turn' = [turn EXCEPT ![Used + 1] = row]
        /\ UNCHANGED <<group, target, running, tx>>
    BY <1>1 DEF Request
  <2>3. TypeOK'
    <3>1. row \in TurnRow
      BY <1>0, NewTurnIs
    <3> HIDE DEF row
    <3>2. turn \in [Turns -> TurnRow]
      BY <1>0, Rows
    <3>3. turn' \in [Turns -> TurnRow]
      BY <2>2, <3>1, <3>2
    <3>4. TxKinds' = TxKinds
      BY <2>2 DEF TxKinds
    <3> QED BY <1>0, <2>2, <3>3, <3>4, Rows
  <2> HIDE DEF row
  <2>4. Numbered' /\ \A t \in Turns : \/ turn'[t] = turn[t]
                                      \/ turn[t].state = "none" /\ turn'[t] = row
    BY <1>0, <2>1, <2>2, OneMore
  <2> QED BY <2>1, <2>2, <2>3, <2>4, MovesKeep
<1>2. ASSUME NEW a \in Agents, SetRunning(a) PROVE FaninInv'
  <2>1. UNCHANGED <<turn, group, target, tx>> /\ TypeOK' /\ Numbered'
    BY <1>0, <1>2 DEF SetRunning, TypeOK, Numbered, Used
  <2> QED BY <2>1, MovesKeep
<1>3. ASSUME NEW t \in Turns, Lease(t) \/ Retry(t) PROVE FaninInv'
  <2>1. /\ UNCHANGED <<group, target, running, tx>> /\ Open(t)
        /\ \E s \in {"waiting", "running"} : turn' = [turn EXCEPT ![t].state = s]
    BY <1>3 DEF Lease, Retry, Open
  <2>2. TypeOK' /\ Open(t)' /\ \A u \in Turns : u # t => turn'[u] = turn[u]
    <3>1. PICK s \in {"waiting", "running"} : turn' = [turn EXCEPT ![t].state = s]
      BY <2>1
    <3>2. turn \in [Turns -> TurnRow] /\ [turn[t] EXCEPT !.state = s] \in TurnRow
      BY <1>0, Rows DEF TurnRow
    <3>3. /\ turn' \in [Turns -> TurnRow] /\ turn'[t].state = s
          /\ \A u \in Turns : u # t => turn'[u] = turn[u]
      BY <3>1, <3>2
    <3>4. TxKinds' = TxKinds
      BY <2>1 DEF TxKinds
    <3>5. TypeOK'
      BY <1>0, <2>1, <3>3, <3>4, Rows
    <3> QED BY <3>3, <3>5 DEF Open
  <2>3. {u \in Turns : turn'[u].state # "none"} = {u \in Turns : turn[u].state # "none"}
    BY <2>1, <2>2 DEF Open
  <2>4. Numbered'
    BY <1>0, <2>3 DEF Numbered, Used
  <2> QED BY <2>1, <2>2, <2>4, MovesKeep
<1>4. ASSUME NEW t \in Turns, DeadlinePasses(t) PROVE FaninInv'
  <2>1. /\ UNCHANGED <<turn, target, running, tx>> /\ group[t].state = "collecting"
        /\ group' = [group EXCEPT ![t].late = TRUE]
    BY <1>4 DEF DeadlinePasses
  <2>2. TypeOK' /\ Numbered'
    <3>1. group \in [Turns -> GroupRow] /\ [group[t] EXCEPT !.late = TRUE] \in GroupRow
      BY <1>0, Rows DEF GroupRow
    <3>2. group' \in [Turns -> GroupRow]
      BY <2>1, <3>1
    <3>3. TxKinds' = TxKinds
      BY <2>1 DEF TxKinds
    <3>4. TypeOK'
      BY <1>0, <2>1, <3>2, <3>3, Rows
    <3>5. Numbered'
      BY <1>0, <2>1 DEF Numbered, Used
    <3> QED BY <3>4, <3>5
  <2>3. \A g \in Turns : /\ group'[g].closed = group[g].closed
                         /\ group'[g].expired = group[g].expired
                         /\ group'[g].state = group[g].state
                         /\ group[g].state = "none" => group'[g] = group[g]
    BY <1>0, <2>1, Rows DEF GroupRow
  <2> QED BY <2>1, <2>2, <2>3, MovesKeep
<1>5. ASSUME NEW w \in Workers, NEW g \in Turns, Wake(w, g) PROVE FaninInv'
  <2> DEFINE row == NewTurn(turn[g].agent, "wake", g)
             end == IF running[turn[g].agent] THEN "woken" ELSE "abandoned"
  <2>1. /\ UNCHANGED <<target, running, tx>> /\ group[g].state = "ready"
        /\ turn' = [turn EXCEPT ![Used + 1] = row]
        /\ group' = [group EXCEPT ![g].state = end]
    BY <1>5 DEF Wake
  <2>2. row.state \in {"waiting", "cancelled"} /\ row.agent = turn[g].agent
        /\ row.kind = "wake" /\ row.of = g
    BY DEF NewTurn
  <2>3. TypeOK'
    <3>1. row \in TurnRow
      BY <1>0, Rows DEF NewTurn, TurnRow, TerminalTurnStates
    <3>2. end \in {"woken", "abandoned"}
      OBVIOUS
    <3> HIDE DEF row, end
    <3>3. turn \in [Turns -> TurnRow] /\ group \in [Turns -> GroupRow]
      BY <1>0, Rows
    <3>4. turn' \in [Turns -> TurnRow]
      BY <2>1, <3>1, <3>3
    <3>5. group' \in [Turns -> GroupRow]
      <4>1. [group[g] EXCEPT !.state = end] \in GroupRow
        BY <3>2, <3>3 DEF GroupRow
      <4> QED BY <2>1, <3>3, <4>1
    <3>6. TxKinds' = TxKinds
      BY <2>1 DEF TxKinds
    <3> QED BY <1>0, <2>1, <3>4, <3>5, <3>6, Rows
  <2>4. end \in {"woken", "abandoned"}
    OBVIOUS
  <2> HIDE DEF row, end
  <2>5. Numbered' /\ \A t \in Turns : \/ turn'[t] = turn[t]
                                      \/ turn[t].state = "none" /\ turn'[t] = row
    BY <1>0, <2>1, <2>2, OneMore
  <2>6. \A h \in Turns : /\ group'[h].closed = group[h].closed
                         /\ group'[h].expired = group[h].expired
                         /\ h # g => group'[h] = group[h]
    BY <1>0, <2>1 DEF TypeOK
  <2>7. group'[g].state = end
    BY <1>0, <2>1 DEF TypeOK
  <2> QED BY <2>1, <2>2, <2>3, <2>4, <2>5, <2>6, <2>7, MovesKeep
<1> QED BY <1>1, <1>2, <1>3, <1>4, <1>5

-----------------------------------------------------------------------------
(* A transaction begins: what it reads and decides.                          *)

\* The rows stay as they are.
LEMMA BeginKeepsRows ==
  ASSUME FaninInv, UNCHANGED <<turn, group, target, running>>, TxKinds'
  PROVE  /\ TypeOK' /\ Numbered' /\ Fresh' /\ Owned' /\ CallerDone' /\ ReadyHasAll' /\ GivenUp'
         /\ \A t : Open(t)' <=> Open(t)
         /\ \A g : Known(g)' = Known(g)
<1>1. TypeOK'
  BY Rows DEF FaninInv
<1>2. Numbered'
  BY DEF FaninInv, Numbered, Used
<1>3. Fresh' /\ Owned' /\ CallerDone'
  BY DEF FaninInv, Fresh, Owned, CallerDone
<1>4. (\A t : Open(t)' <=> Open(t)) /\ (\A g : Known(g)' = Known(g))
  BY DEF Open, Known
<1>5. ReadyHasAll'
  BY <1>4 DEF FaninInv, ReadyHasAll
<1>6. GivenUp'
  BY <1>4 DEF FaninInv, GivenUp
<1> QED BY <1>1, <1>2, <1>3, <1>4, <1>5, <1>6

\* An agent with an open turn has a newest one.
LEMMA Newest ==
  ASSUME NEW S, S \subseteq Turns, S # {}
  PROVE  \E t \in S : \A u \in S : u =< t
<1> DEFINE left == {MaxTurns - t : t \in S}
           less == OpToRel(<, Nat)
<1>1. left \subseteq Nat /\ left # {} /\ \A t \in S : t \in Nat
  <2>1. \A t \in S : t \in Nat /\ MaxTurns - t \in Nat
    BY FaninAssumption DEF Turns
  <2>2. \E t \in S : TRUE
    OBVIOUS
  <2> QED BY <2>1, <2>2
<1>2. \E x \in left : \A y \in left : ~(<<y, x>> \in less)
  <2>1. IsWellFoundedOn(less, Nat)
    BY NatLessThanWellFounded
  <2> HIDE DEF left, less
  <2> QED BY <1>1, <2>1, WFMin
<1>3. PICK x \in left : \A y \in left : ~(y < x)
  BY <1>1, <1>2 DEF OpToRel
<1>4. PICK t \in S : x = MaxTurns - t
  BY <1>3
<1>5. ASSUME NEW u \in S PROVE u =< t
  <2>1. ~(MaxTurns - u < MaxTurns - t)
    BY <1>3, <1>4
  <2> QED BY <1>1, <2>1, FaninAssumption
<1> QED BY <1>5

LEMMA OpenTurnIsOpen ==
  ASSUME NEW a, OpenTurn(a) # 0
  PROVE  OpenTurn(a) \in Turns /\ Open(OpenTurn(a))
<1> DEFINE mine == {t \in Turns : turn[t].agent = a /\ Open(t)}
           ran == {t \in mine : turn[t].state = "running"}
           pool == IF ran # {} THEN ran ELSE mine
<1>1. pool \subseteq mine
  OBVIOUS
<1>2. OpenTurn(a) = IF pool = {} THEN 0 ELSE CHOOSE t \in pool : \A u \in pool : u =< t
  BY DEF OpenTurn
<1> HIDE DEF pool
<1>3. pool # {} /\ pool \subseteq Turns
  BY <1>1, <1>2
<1>4. \E t \in pool : \A u \in pool : u =< t
  BY <1>3, Newest
<1>5. OpenTurn(a) \in pool
  BY <1>2, <1>3, <1>4
<1> QED BY <1>1, <1>5

\* ask_peer: the caller's turn is open when the call resolves it.
LEMMA AskBeginKeeps ==
  ASSUME FaninInv, NEW a \in Agents, NEW peers \in SUBSET (Agents \ {a}), AskBegin(a, peers)
  PROVE  FaninInv'
<1> DEFINE t == OpenTurn(a)
           x == [kind |-> "ask", t |-> t, peers |-> peers]
<1>1. /\ t # 0 /\ UNCHANGED <<turn, group, target, running>> /\ tx' = tx \cup {x}
  BY DEF AskBegin
<1>2. t \in Turns /\ Open(t)
  BY <1>1, OpenTurnIsOpen
<1>3. x.kind = "ask" /\ x.t = t /\ x.peers \subseteq Agents
  OBVIOUS
<1> HIDE DEF t, x
<1>4. TxKinds'
  BY <1>1, <1>3, Rows DEF TxKinds, FaninInv
<1>5. /\ \A y : Asking(y)' => Asking(y) \/ y = x
      /\ \A y : Closing(y)' <=> Closing(y)
      /\ \A y : Sweeping(y)' <=> Sweeping(y)
  BY <1>1, <1>3 DEF Asking, Closing, Sweeping
<1>6. /\ TypeOK' /\ Numbered' /\ Fresh' /\ Owned' /\ CallerDone' /\ ReadyHasAll' /\ GivenUp'
      /\ \A u : Open(u)' <=> Open(u)
      /\ \A g : Known(g)' = Known(g)
  BY <1>1, <1>4, BeginKeepsRows
<1>7. TxOK'
  BY <1>2, <1>3, <1>5 DEF FaninInv, TxOK
<1>8. AsksHold'
  BY <1>1, <1>2, <1>3, <1>5 DEF FaninInv, AsksHold, Open
<1>9. ClosingsHold' /\ SweepsHold'
  BY <1>1, <1>5, <1>6 DEF FaninInv, ClosingsHold, SweepsHold
<1>10. MarksHold'
  BY <1>1, <1>5, <1>6 DEF FaninInv, MarksHold
<1> QED BY <1>6, <1>7, <1>8, <1>9, <1>10 DEF FaninInv

\* What a closing decides.
LEMMA ClosingIs ==
  ASSUME FaninInv, NEW t \in Turns, NEW outcome \in Outcomes, CloseBegin(t, outcome)
  PROVE  \E x :
    /\ tx' = tx \cup {x} /\ UNCHANGED <<turn, group, target, running>>
    /\ x.kind = "close" /\ x.t = t /\ x.outcome = outcome /\ Open(t)
    /\ x.settles \in BOOLEAN /\ x.closes \in BOOLEAN /\ x.marks \subseteq Turns
    /\ x.settles <=> target[t].group # 0 /\ target[t].state = "pending"
    /\ x.closes <=> group[t].state # "none" /\ ~group[t].closed
    /\ \A y : Closing(y) => y.t # t
    /\ \A g \in x.marks :
          /\ group[g].state = "collecting"
          /\ group[g].closed \/ (x.closes /\ g = t)
          /\ (x.settles /\ target[t].group = g) \/ (x.closes /\ t = g)
          /\ \A u \in Known(g) :
                target[u].state \in TerminalTargetStates \/ (x.settles /\ u = t)
<1> DEFINE settles == target[t].group # 0 /\ target[t].state = "pending"
           tgt == IF settles THEN [target EXCEPT ![t].state = outcome] ELSE target
           closes == group[t].state # "none" /\ ~group[t].closed
           grp == IF closes THEN [group EXCEPT ![t].closed = TRUE] ELSE group
           asked == (IF settles THEN {target[t].group} ELSE {}) \cup (IF closes THEN {t} ELSE {})
           marks == {g \in asked : Done(g, grp, tgt)}
           x == [kind |-> "close", t |-> t, outcome |-> outcome, settles |-> settles,
                 closes |-> closes, marks |-> marks]
<1>1. /\ tx' = tx \cup {x} /\ UNCHANGED <<turn, group, target, running>> /\ Open(t)
      /\ \A y \in tx : y.kind = "close" => y.t # t
  BY DEF CloseBegin
<1>2. /\ x.kind = "close" /\ x.t = t /\ x.outcome = outcome
      /\ x.settles = settles /\ x.closes = closes /\ x.marks = marks
  OBVIOUS
<1>3. group \in [Turns -> GroupRow] /\ target \in [Turns -> TargetRow]
  BY Rows DEF FaninInv
<1>4. asked \subseteq Turns /\ settles \in BOOLEAN /\ closes \in BOOLEAN
  BY <1>3 DEF TargetRow
<1>5. ASSUME NEW g \in marks
      PROVE  /\ group[g].state = "collecting"
             /\ group[g].closed \/ (closes /\ g = t)
             /\ (settles /\ target[t].group = g) \/ (closes /\ t = g)
             /\ \A u \in Known(g) :
                   target[u].state \in TerminalTargetStates \/ (settles /\ u = t)
  <2>1. g \in asked /\ g \in Turns /\ Done(g, grp, tgt)
    BY <1>4
  <2>2. grp[g].state = group[g].state /\ (grp[g].closed => group[g].closed \/ (closes /\ g = t))
    BY <1>3, <2>1 DEF GroupRow
  <2>3. \A u \in Turns : /\ tgt[u].group = target[u].group
                         /\ tgt[u].state = target[u].state \/ (settles /\ u = t)
    BY <1>3 DEF TargetRow
  <2>4. (settles /\ target[t].group = g) \/ (closes /\ t = g)
    BY <2>1
  <2> HIDE DEF grp, tgt, settles, closes, asked
  <2>5. \A u \in Known(g) : tgt[u].state \in TerminalTargetStates
    BY <2>1, <2>3 DEF Done, Known
  <2> QED BY <2>1, <2>2, <2>3, <2>4, <2>5 DEF Done, Known
<1>6. marks \subseteq Turns
  BY <1>4
<1> HIDE DEF marks, asked, grp, tgt
<1>7. x.settles <=> target[t].group # 0 /\ target[t].state = "pending"
  BY <1>2
<1>8. x.closes <=> group[t].state # "none" /\ ~group[t].closed
  BY <1>2
<1> HIDE DEF x, settles, closes
<1>9. \A g \in x.marks :
          /\ group[g].state = "collecting"
          /\ group[g].closed \/ (x.closes /\ g = t)
          /\ (x.settles /\ target[t].group = g) \/ (x.closes /\ t = g)
          /\ \A u \in Known(g) :
                target[u].state \in TerminalTargetStates \/ (x.settles /\ u = t)
  BY <1>2, <1>5
<1> WITNESS x
<1> QED BY <1>1, <1>2, <1>4, <1>6, <1>7, <1>8, <1>9 DEF Closing, Asking

LEMMA CloseBeginKeeps ==
  ASSUME FaninInv, NEW t \in Turns, NEW outcome \in Outcomes, CloseBegin(t, outcome)
  PROVE  FaninInv'
<1>1. PICK x :
    /\ tx' = tx \cup {x} /\ UNCHANGED <<turn, group, target, running>>
    /\ x.kind = "close" /\ x.t = t /\ x.outcome = outcome /\ Open(t)
    /\ x.settles \in BOOLEAN /\ x.closes \in BOOLEAN /\ x.marks \subseteq Turns
    /\ x.settles <=> target[t].group # 0 /\ target[t].state = "pending"
    /\ x.closes <=> group[t].state # "none" /\ ~group[t].closed
    /\ \A y : Closing(y) => y.t # t
    /\ \A g \in x.marks :
          /\ group[g].state = "collecting"
          /\ group[g].closed \/ (x.closes /\ g = t)
          /\ (x.settles /\ target[t].group = g) \/ (x.closes /\ t = g)
          /\ \A u \in Known(g) :
                target[u].state \in TerminalTargetStates \/ (x.settles /\ u = t)
  BY ClosingIs
<1>2. TxKinds'
  BY <1>1, Rows DEF TxKinds, FaninInv
<1>3. /\ \A y : Asking(y)' <=> Asking(y)
      /\ \A y : Closing(y)' <=> Closing(y) \/ y = x
      /\ \A y : Sweeping(y)' <=> Sweeping(y)
  BY <1>1 DEF Asking, Closing, Sweeping
<1>4. /\ TypeOK' /\ Numbered' /\ Fresh' /\ Owned' /\ CallerDone' /\ ReadyHasAll' /\ GivenUp'
      /\ \A u : Open(u)' <=> Open(u)
      /\ \A g : Known(g)' = Known(g)
  BY <1>1, <1>2, BeginKeepsRows
<1>5. TxOK'
  <2>1. x.t \in Turns /\ x.outcome \in TerminalTurnStates
    BY <1>1, FaninAssumption DEF TerminalTurnStates
  <2> QED BY <1>1, <1>3, <2>1 DEF FaninInv, TxOK
<1>6. AsksHold'
  BY <1>1, <1>3, <1>4 DEF FaninInv, AsksHold
<1>7. ClosingsHold'
  <2>1. x.settles => target[x.t].group # 0
    BY <1>1
  <2>2. ~x.settles => target[x.t].state # "pending"
    BY <1>1 DEF FaninInv, Owned
  <2>3. x.closes => ~group[x.t].closed /\ group[x.t].state # "none"
    BY <1>1
  <2> QED BY <1>1, <1>3, <1>4, <2>1, <2>2, <2>3 DEF FaninInv, ClosingsHold
<1>8. SweepsHold'
  BY <1>1, <1>3 DEF FaninInv, SweepsHold
<1>9. MarksHold'
  <2>1. ASSUME NEW y, Closing(y) \/ Sweeping(y), NEW g \in y.marks
        PROVE  /\ group[g].closed \/ (Closing(y) /\ y.closes /\ y.t = g)
               /\ \A u \in Known(g) :
                     \/ target[u].state \in TerminalTargetStates
                     \/ (Closing(y) /\ y.settles /\ y.t = u)
                     \/ (Sweeping(y) /\ u \in y.ended \cup y.gone)
               /\ Closing(y) => \/ (y.settles /\ target[y.t].group = g)
                                \/ (y.closes /\ y.t = g)
    BY <2>1 DEF FaninInv, MarksHold
  <2>2. Closing(x)'
    BY <1>3
  <2> QED BY <1>1, <1>3, <1>4, <2>1, <2>2 DEF MarksHold
<1> QED BY <1>4, <1>5, <1>6, <1>7, <1>8, <1>9 DEF FaninInv

\* What a pass of the worker decides.
LEMMA SweepIs ==
  ASSUME FaninInv, NEW w \in Workers, NEW unstarted \in SUBSET Unstarted,
         SweepBegin(w, unstarted)
  PROVE  \E x :
    /\ tx' = tx \cup {x} /\ UNCHANGED <<turn, group, target, running>>
    /\ x.kind = "sweep" /\ x.w = w /\ (\A y : Sweeping(y) => y.w # w) /\ Quiet
    /\ x.ended \subseteq Turns /\ x.gone \subseteq Turns /\ x.marks \subseteq Turns
    /\ \A t \in x.ended \cup x.gone : target[t].group # 0 /\ target[t].state = "pending"
    /\ \A t \in x.ended : turn[t].state \in TerminalTurnStates /\ t \notin x.gone
    /\ \A g \in x.marks :
          /\ group[g].state = "collecting" /\ group[g].closed
          /\ \A u \in Known(g) :
                target[u].state \in TerminalTargetStates \/ u \in x.ended \cup x.gone
<1> DEFINE ended == {t \in Collecting : turn[t].state \in TerminalTurnStates}
           gone == {t \in Collecting \ ended : group[target[t].group].late} \cup unstarted
           tgt == [t \in Turns |-> CASE t \in ended -> [target[t] EXCEPT !.state = turn[t].state]
                                     [] t \in gone -> [target[t] EXCEPT !.state = "timeout"]
                                     [] OTHER -> target[t]]
           marks == {g \in Turns : Done(g, group, tgt)}
           x == [kind |-> "sweep", w |-> w, ended |-> ended, gone |-> gone, marks |-> marks]
<1>1. /\ tx' = tx \cup {x} /\ UNCHANGED <<turn, group, target, running>> /\ Quiet
      /\ \A y \in tx : y.kind = "sweep" => y.w # w
  BY DEF SweepBegin
<1>2. /\ x.kind = "sweep" /\ x.w = w
      /\ x.ended = ended /\ x.gone = gone /\ x.marks = marks
  OBVIOUS
<1>3. /\ ended \subseteq Turns /\ gone \subseteq Turns /\ marks \subseteq Turns
      /\ \A t \in ended \cup gone : target[t].state = "pending"
      /\ \A t \in ended : turn[t].state \in TerminalTurnStates /\ t \notin gone
  BY DEF Collecting, Unstarted, TerminalTurnStates
<1>4. \A t \in ended \cup gone : target[t].group # 0
  BY <1>3 DEF FaninInv, Owned
<1>5. target \in [Turns -> TargetRow]
  BY Rows DEF FaninInv
<1>6. \A u \in Turns : /\ tgt[u].group = target[u].group
                       /\ tgt[u].state = target[u].state \/ u \in ended \cup gone
  BY <1>5 DEF TargetRow
<1> HIDE DEF ended, gone, tgt
<1>7. ASSUME NEW g \in marks
      PROVE  /\ group[g].state = "collecting" /\ group[g].closed
             /\ \A u \in Known(g) :
                   target[u].state \in TerminalTargetStates \/ u \in ended \cup gone
  <2>1. g \in Turns /\ Done(g, group, tgt)
    OBVIOUS
  <2> QED BY <1>6, <2>1 DEF Done, Known
<1> HIDE DEF marks, x
<1> WITNESS x
<1> QED BY <1>1, <1>2, <1>3, <1>4, <1>7 DEF Sweeping

LEMMA SweepBeginKeeps ==
  ASSUME FaninInv, NEW w \in Workers, NEW unstarted \in SUBSET Unstarted,
         SweepBegin(w, unstarted)
  PROVE  FaninInv'
<1>1. PICK x :
    /\ tx' = tx \cup {x} /\ UNCHANGED <<turn, group, target, running>>
    /\ x.kind = "sweep" /\ x.w = w /\ (\A y : Sweeping(y) => y.w # w) /\ Quiet
    /\ x.ended \subseteq Turns /\ x.gone \subseteq Turns /\ x.marks \subseteq Turns
    /\ \A t \in x.ended \cup x.gone : target[t].group # 0 /\ target[t].state = "pending"
    /\ \A t \in x.ended : turn[t].state \in TerminalTurnStates /\ t \notin x.gone
    /\ \A g \in x.marks :
          /\ group[g].state = "collecting" /\ group[g].closed
          /\ \A u \in Known(g) :
                target[u].state \in TerminalTargetStates \/ u \in x.ended \cup x.gone
  BY SweepIs
<1>2. TxKinds'
  BY <1>1, Rows DEF TxKinds, FaninInv
<1>3. /\ \A y : Asking(y)' <=> Asking(y)
      /\ \A y : Closing(y)' <=> Closing(y)
      /\ \A y : Sweeping(y)' <=> Sweeping(y) \/ y = x
  BY <1>1 DEF Asking, Closing, Sweeping
<1>4. /\ TypeOK' /\ Numbered' /\ Fresh' /\ Owned' /\ CallerDone' /\ ReadyHasAll' /\ GivenUp'
      /\ \A u : Open(u)' <=> Open(u)
      /\ \A g : Known(g)' = Known(g)
  BY <1>1, <1>2, BeginKeepsRows
<1>5. TxOK'
  BY <1>1, <1>3 DEF FaninInv, TxOK
<1>6. AsksHold' /\ ClosingsHold'
  BY <1>1, <1>3, <1>4 DEF FaninInv, AsksHold, ClosingsHold
<1>7. SweepsHold'
  BY <1>1, <1>3 DEF FaninInv, SweepsHold
<1>8. MarksHold'
  <2>1. Sweeping(x)' /\ ~Closing(x)
    BY <1>1, <1>3 DEF Closing
  <2>2. ASSUME NEW y, Closing(y) \/ Sweeping(y), NEW g \in y.marks
        PROVE  /\ group[g].closed \/ (Closing(y) /\ y.closes /\ y.t = g)
               /\ \A u \in Known(g) :
                     \/ target[u].state \in TerminalTargetStates
                     \/ (Closing(y) /\ y.settles /\ y.t = u)
                     \/ (Sweeping(y) /\ u \in y.ended \cup y.gone)
               /\ Closing(y) => \/ (y.settles /\ target[y.t].group = g)
                                \/ (y.closes /\ y.t = g)
    BY <2>2 DEF FaninInv, MarksHold
  <2> QED BY <1>1, <1>3, <1>4, <2>1, <2>2 DEF MarksHold
<1> QED BY <1>4, <1>5, <1>6, <1>7, <1>8 DEF FaninInv

-----------------------------------------------------------------------------
(* A transaction commits what it decided.                                    *)

\* The questions of a call: new turns, each with a target of the caller's group.
LEMMA AskCommitIs ==
  ASSUME FaninInv, NEW x, AskCommit(x)
  PROVE  /\ Asking(x) /\ tx' = tx \ {x} /\ TypeOK' /\ Numbered'
         /\ \A t \in Turns :
              \/ turn'[t] = turn[t] /\ target'[t] = target[t]
              \/ /\ turn[t].state = "none" /\ turn'[t].kind = "question"
                 /\ turn'[t].state \in {"waiting", "cancelled"}
                 /\ target'[t].group = x.t /\ target'[t].missed = Ending(x.t)
                 /\ \/ target'[t].state = "pending"
                    \/ target'[t].state = "cancelled" /\ turn'[t].state = "cancelled"
         /\ \A g \in Turns : g # x.t => group'[g] = group[g]
         /\ \/ group'[x.t] = IF group[x.t].state = "none"
                             THEN [NoGroup EXCEPT !.state = "collecting"] ELSE group[x.t]
            \/ /\ group'[x.t].state = "ready" /\ group'[x.t].closed = group[x.t].closed
               /\ group'[x.t].expired = group[x.t].expired
               /\ group'[x.t].raced <=> group[x.t].raced \/ Races(x, x.t)
               /\ group[x.t].state = "collecting" /\ group[x.t].closed
               /\ \A t \in Turns : target[t].group = x.t =>
                                     target[t].state \in TerminalTargetStates
<1> DEFINE id(p) == Used + 1 + Cardinality({q \in x.peers : q < p})
           new == {id(p) : p \in x.peers}
           of(t) == CHOOSE p \in x.peers : id(p) = t
           joined == IF group[x.t].state = "none"
                     THEN [group EXCEPT ![x.t] = [NoGroup EXCEPT !.state = "collecting"]]
                     ELSE group
<1>1. /\ x \in tx /\ x.kind = "ask" /\ Used + Cardinality(x.peers) =< MaxTurns
      /\ tx' = tx \ {x} /\ running' = running
      /\ turn' = [t \in Turns |->
                  IF t \in new THEN NewTurn(of(t), "question", x.t) ELSE turn[t]]
      /\ target' = [t \in Turns |->
                    IF t \notin new THEN target[t]
                    ELSE [NoTarget EXCEPT !.group = x.t, !.missed = Ending(x.t),
                            !.state = IF running[of(t)] THEN "pending" ELSE "cancelled"]]
      /\ \/ group' = joined
         \/ /\ Done(x.t, joined, target)
            /\ group' = MarkReady({x.t}, [joined EXCEPT ![x.t].raced = @ \/ Races(x, x.t)])
  BY DEF AskCommit
<1>2. Asking(x) /\ x.t \in Turns /\ x.peers \subseteq Agents /\ turn[x.t].state # "none"
  BY <1>1 DEF Asking, FaninInv, TxOK, AsksHold
<1>3. /\ turn \in [Turns -> TurnRow] /\ group \in [Turns -> GroupRow]
      /\ target \in [Turns -> TargetRow] /\ running \in [Agents -> BOOLEAN]
      /\ TxKinds /\ Numbered /\ Used \in Nat
  BY Rows, Counting DEF FaninInv
<1>4. new = (Used + 1)..(Used + Cardinality(x.peers)) /\ Cardinality(x.peers) \in Nat
  <2> DEFINE ids == [p \in x.peers |-> Used + 1 + Cardinality({q \in x.peers : q < p})]
  <2>1. /\ {ids[p] : p \in x.peers} = (Used + 1)..(Used + Cardinality(x.peers))
        /\ Cardinality(x.peers) \in Nat
    BY <1>2, <1>3, Ranks
  <2>2. {ids[p] : p \in x.peers} = new
    OBVIOUS
  <2> QED BY <2>1, <2>2
<1>5. \A t \in new : t \in Turns /\ turn[t].state = "none"
  <2>1. \A t \in new : t \in Turns /\ t \notin 1..Used
    <3>1. \A n, c, m \in Nat : n + c =< m =>
            \A t \in (n + 1)..(n + c) : t \in 1..m /\ t \notin 1..n
      OBVIOUS
    <3> HIDE DEF new
    <3> QED BY <1>1, <1>3, <1>4, <3>1, FaninAssumption DEF Turns
  <2> QED BY <1>3, <2>1 DEF Numbered
<1>6. \A t \in new : of(t) \in Agents
  <2>1. \A t \in new : \E p \in x.peers : id(p) = t
    OBVIOUS
  <2> HIDE DEF new, id
  <2>2. \A t \in new : of(t) \in x.peers
    BY <2>1
  <2> QED BY <1>2, <2>2
<1> HIDE DEF id, of, new
<1>7. /\ \A g \in Turns : g # x.t => group'[g] = group[g]
      /\ group' \in [Turns -> GroupRow]
      /\ \/ group'[x.t] = IF group[x.t].state = "none"
                          THEN [NoGroup EXCEPT !.state = "collecting"] ELSE group[x.t]
         \/ /\ group'[x.t].state = "ready" /\ group'[x.t].closed = group[x.t].closed
            /\ group'[x.t].expired = group[x.t].expired
            /\ group'[x.t].raced <=> group[x.t].raced \/ Races(x, x.t)
            /\ group[x.t].state = "collecting" /\ group[x.t].closed
            /\ \A t \in Turns : target[t].group = x.t =>
                                  target[t].state \in TerminalTargetStates
  <2>1. [NoGroup EXCEPT !.state = "collecting"] \in GroupRow
    BY DEF NoGroup, GroupRow
  <2>2. CASE group' = joined
    BY <1>2, <1>3, <2>1, <2>2
  <2>3. CASE /\ Done(x.t, joined, target)
             /\ group' = MarkReady({x.t}, [joined EXCEPT ![x.t].raced = @ \/ Races(x, x.t)])
    <3> DEFINE row == [group[x.t] EXCEPT !.raced = @ \/ Races(x, x.t)]
               late == [joined EXCEPT ![x.t].raced = @ \/ Races(x, x.t)]
    <3>1. joined = group
      <4>1. group[x.t].state = "none" => joined[x.t].closed = FALSE
        BY <1>2, <1>3 DEF NoGroup
      <4> HIDE DEF joined
      <4>2. group[x.t].state # "none"
        BY <2>3, <4>1 DEF Done
      <4> QED BY <4>2 DEF joined
    <3>2. late = [group EXCEPT ![x.t] = row]
      BY <1>2, <1>3, <3>1
    <3>3. group[x.t] \in GroupRow /\ Races(x, x.t) \in BOOLEAN
      BY <1>2, <1>3 DEF Races
    <3>4. row \in GroupRow
      BY <3>3 DEF GroupRow
    <3>5. /\ [row EXCEPT !.state = "ready"] \in GroupRow
          /\ [row EXCEPT !.state = "ready"].state = "ready"
          /\ [row EXCEPT !.state = "ready"].closed = group[x.t].closed
          /\ [row EXCEPT !.state = "ready"].expired = group[x.t].expired
          /\ [row EXCEPT !.state = "ready"].raced <=> group[x.t].raced \/ Races(x, x.t)
      BY <3>3, <3>4 DEF GroupRow
    <3>6. /\ group[x.t].state = "collecting" /\ group[x.t].closed
          /\ \A t \in Turns : target[t].group = x.t =>
                                target[t].state \in TerminalTargetStates
      BY <2>3, <3>1 DEF Done
    <3>7. group' = [g \in Turns |-> IF g = x.t THEN [late[g] EXCEPT !.state = "ready"]
                                    ELSE late[g]]
      BY <2>3 DEF MarkReady
    <3> HIDE DEF row, late, joined
    <3>8. late[x.t] = row /\ \A g \in Turns : g # x.t => late[g] = group[g]
      BY <1>2, <1>3, <3>2
    <3>9. group'[x.t] = [row EXCEPT !.state = "ready"]
      BY <1>2, <3>7, <3>8
    <3>10. \A g \in Turns : g # x.t => group'[g] = group[g]
      BY <3>7, <3>8
    <3>11. \A g \in Turns : group'[g] \in GroupRow
      BY <1>3, <3>5, <3>9, <3>10
    <3>12. group' = [g \in Turns |-> group'[g]]
      BY <3>7
    <3>13. group' \in [Turns -> GroupRow]
      BY <3>11, <3>12
    <3> QED BY <3>5, <3>6, <3>9, <3>10, <3>13
  <2> QED BY <1>1, <2>2, <2>3
<1> HIDE DEF joined
<1>8. ASSUME NEW t \in new
      PROVE  /\ turn'[t].kind = "question" /\ turn'[t] \in TurnRow
             /\ turn'[t].state = IF running[of(t)] THEN "waiting" ELSE "cancelled"
             /\ target'[t].group = x.t /\ target'[t].missed = Ending(x.t)
             /\ target'[t] \in TargetRow
             /\ target'[t].state = IF running[of(t)] THEN "pending" ELSE "cancelled"
  <2>1. /\ turn'[t] = NewTurn(of(t), "question", x.t)
        /\ target'[t] = [NoTarget EXCEPT !.group = x.t, !.missed = Ending(x.t),
                            !.state = IF running[of(t)] THEN "pending" ELSE "cancelled"]
    BY <1>1, <1>5
  <2>2. of(t) \in Agents
    BY <1>6
  <2>3. /\ turn'[t].kind = "question" /\ turn'[t] \in TurnRow
        /\ turn'[t].state = IF running[of(t)] THEN "waiting" ELSE "cancelled"
    BY <1>2, <2>1, <2>2 DEF NewTurn, TurnRow, TerminalTurnStates
  <2>4. target'[t] = [group |-> x.t, reply |-> FALSE, missed |-> Ending(x.t),
                      state |-> IF running[of(t)] THEN "pending" ELSE "cancelled"]
    BY <2>1 DEF NoTarget
  <2>5. target'[t] \in TargetRow
    <3>1. Ending(x.t) \in BOOLEAN
      BY DEF Ending
    <3> QED BY <1>2, <2>4, <3>1 DEF TargetRow, TerminalTargetStates, TerminalTurnStates
  <2> QED BY <2>3, <2>4, <2>5
<1>9. \A t \in Turns : t \notin new => turn'[t] = turn[t] /\ target'[t] = target[t]
  BY <1>1
<1>10. Numbered'
  <2>1. \A t \in new : turn'[t].state # "none"
    BY <1>8
  <2>2. {t \in Turns : turn'[t].state # "none"} = 1..(Used + Cardinality(x.peers))
    <3>1. \A t \in Turns : turn'[t].state # "none" <=> t \in 1..Used \/ t \in new
      BY <1>3, <1>9, <2>1 DEF Numbered
    <3>2. \A t : (t \in Turns /\ (t \in 1..Used \/ t \in new))
                    <=> t \in 1..(Used + Cardinality(x.peers))
      <4>1. \A n, c, m \in Nat : n + c =< m => \A t :
              (t \in 1..m /\ (t \in 1..n \/ t \in (n + 1)..(n + c))) <=> t \in 1..(n + c)
        OBVIOUS
      <4> QED BY <1>1, <1>3, <1>4, <4>1, FaninAssumption DEF Turns
    <3> QED BY <3>1, <3>2
  <2>3. Used' = Used + Cardinality(x.peers)
    <3>1. Used' = Cardinality(1..(Used + Cardinality(x.peers)))
      BY <2>2 DEF Used
    <3>2. \A n \in Nat : Cardinality(1..n) = n
      BY FS_Interval
    <3>3. Used + Cardinality(x.peers) \in Nat
      BY <1>3, <1>4
    <3> QED BY <3>1, <3>2, <3>3
  <2> QED BY <2>2, <2>3 DEF Numbered
<1>12. TypeOK'
  <2>1. TxKinds'
    BY <1>1, <1>3 DEF TxKinds
  <2>2. turn' \in [Turns -> TurnRow] /\ target' \in [Turns -> TargetRow]
    <3>1. \A t \in Turns : turn'[t] \in TurnRow /\ target'[t] \in TargetRow
      BY <1>3, <1>8, <1>9
    <3>2. /\ turn' = [t \in Turns |-> turn'[t]] /\ target' = [t \in Turns |-> target'[t]]
      BY <1>1
    <3> QED BY <3>1, <3>2
  <2> QED BY <1>1, <1>3, <1>7, <2>1, <2>2, Rows
<1>14. \A t \in Turns :
              \/ turn'[t] = turn[t] /\ target'[t] = target[t]
              \/ /\ turn[t].state = "none" /\ turn'[t].kind = "question"
                 /\ turn'[t].state \in {"waiting", "cancelled"}
                 /\ target'[t].group = x.t /\ target'[t].missed = Ending(x.t)
                 /\ \/ target'[t].state = "pending"
                    \/ target'[t].state = "cancelled" /\ turn'[t].state = "cancelled"
  BY <1>5, <1>8, <1>9
<1> QED BY <1>1, <1>2, <1>7, <1>10, <1>12, <1>14

LEMMA AskCommitKeeps ==
  ASSUME FaninInv, NEW x, AskCommit(x)
  PROVE  FaninInv'
<1>1. /\ Asking(x) /\ tx' = tx \ {x} /\ TypeOK' /\ Numbered'
      /\ \A t \in Turns :
              \/ turn'[t] = turn[t] /\ target'[t] = target[t]
              \/ /\ turn[t].state = "none" /\ turn'[t].kind = "question"
                 /\ turn'[t].state \in {"waiting", "cancelled"}
                 /\ target'[t].group = x.t /\ target'[t].missed = Ending(x.t)
                 /\ \/ target'[t].state = "pending"
                    \/ target'[t].state = "cancelled" /\ turn'[t].state = "cancelled"
      /\ \A g \in Turns : g # x.t => group'[g] = group[g]
      /\ \/ group'[x.t] = IF group[x.t].state = "none"
                          THEN [NoGroup EXCEPT !.state = "collecting"] ELSE group[x.t]
         \/ /\ group'[x.t].state = "ready" /\ group'[x.t].closed = group[x.t].closed
            /\ group'[x.t].expired = group[x.t].expired
            /\ group'[x.t].raced <=> group[x.t].raced \/ Races(x, x.t)
            /\ group[x.t].state = "collecting" /\ group[x.t].closed
            /\ \A t \in Turns : target[t].group = x.t =>
                                  target[t].state \in TerminalTargetStates
  BY AskCommitIs
<1>2. x.t \in Turns /\ turn[x.t].state # "none"
  BY <1>1 DEF FaninInv, TxOK, AsksHold
<1>3. /\ \A y : Asking(y)' => Asking(y)
      /\ \A y : Closing(y)' <=> Closing(y)
      /\ \A y : Sweeping(y)' <=> Sweeping(y)
  BY <1>1 DEF Asking, Closing, Sweeping
<1>4. \A t \in Turns : turn[t].state # "none" => turn'[t] = turn[t] /\ target'[t] = target[t]
  BY <1>1
<1>5. \A t \in Turns : Open(t) => Open(t)'
  BY <1>4 DEF Open
<1>6. /\ group[x.t].closed => Ending(x.t)
      /\ \A y : Closing(y) /\ y.t = x.t => Ending(x.t)
  BY <1>2 DEF FaninInv, CallerDone, Ending, Open, TerminalTurnStates, Closing
<1>21. group[x.t] \in GroupRow /\ (group[x.t].state = "none" => group[x.t] = NoGroup)
  BY <1>2, Rows DEF FaninInv, Owned
<1>19. \A g \in Turns : /\ group'[g].closed = group[g].closed
                        /\ group'[g].expired = group[g].expired
  <2>1. CASE group'[x.t] = IF group[x.t].state = "none"
                           THEN [NoGroup EXCEPT !.state = "collecting"] ELSE group[x.t]
    BY <1>1, <1>21, <2>1 DEF NoGroup
  <2>2. CASE /\ group'[x.t].closed = group[x.t].closed
             /\ group'[x.t].expired = group[x.t].expired
    BY <1>1, <2>2
  <2> QED BY <1>1, <2>1, <2>2
<1>7. /\ group'[x.t].state # "none"
      /\ \A g \in Turns : group[g].state # "none" => group'[g].state # "none"
      /\ \A g \in Turns : group'[g].state = "none" => group'[g] = group[g]
  <2>1. CASE group'[x.t] = IF group[x.t].state = "none"
                           THEN [NoGroup EXCEPT !.state = "collecting"] ELSE group[x.t]
    BY <1>1, <1>21, <2>1 DEF NoGroup
  <2>2. CASE group'[x.t].state = "ready"
    BY <1>1, <2>2
  <2> QED BY <1>1, <2>1, <2>2
<1>22. group'[x.t].state \in {"ready", "woken", "abandoned"} =>
         group[x.t].state = group'[x.t].state \/ group[x.t].closed
  <2>1. CASE group'[x.t] = IF group[x.t].state = "none"
                           THEN [NoGroup EXCEPT !.state = "collecting"] ELSE group[x.t]
    BY <1>21, <2>1 DEF NoGroup
  <2>2. CASE group[x.t].closed
    BY <2>2
  <2> QED BY <1>1, <2>1, <2>2
<1>20. \A t \in Turns :
          \/ turn'[t] = turn[t] /\ target'[t] = target[t]
          \/ /\ turn[t].state = "none" /\ turn'[t].state \in {"waiting", "cancelled"}
             /\ target'[t].group = x.t
             /\ \/ target'[t].state = "pending"
                \/ target'[t].state = "cancelled" /\ turn'[t].state = "cancelled"
  BY <1>1
<1>8. \A t \in Turns : target[t].group # 0 => target[t].group \in Turns /\ target'[t] = target[t]
                                              /\ turn'[t] = turn[t]
  <2>1. \A t \in Turns : target[t].group \in Turns \cup {0}
    BY DEF FaninInv, TypeOK
  <2> QED BY <1>4, <2>1 DEF FaninInv, Fresh, NoTarget
<1>9. TxOK'
  BY <1>3 DEF FaninInv, TxOK
<1>10. Fresh'
  <2>1. ASSUME NEW t \in Turns, turn'[t].state = "none"
        PROVE  turn'[t] = NoTurn /\ group'[t] = NoGroup /\ target'[t] = NoTarget
    <3>1. turn'[t] = turn[t] /\ target'[t] = target[t]
      BY <1>1, <2>1
    <3>2. t # x.t
      BY <1>2, <2>1, <3>1 DEF Open
    <3> QED BY <1>1, <2>1, <3>1, <3>2 DEF FaninInv, Fresh
  <2> QED BY <2>1 DEF Fresh
<1>11. Owned'
  <2>1. ASSUME NEW t \in Turns
        PROVE  /\ target'[t].state = "none" <=> target'[t].group = 0
               /\ target'[t].group # 0 => group'[target'[t].group].state # "none"
    <3>1. CASE target'[t] = target[t]
      <4>1. target[t].group # 0 => group[target[t].group].state # "none"
        BY DEF FaninInv, Owned
      <4>2. target[t].group # 0 => group'[target[t].group].state # "none"
        BY <1>7, <1>8, <4>1
      <4>3. target[t].state = "none" <=> target[t].group = 0
        BY DEF FaninInv, Owned
      <4> QED BY <3>1, <4>2, <4>3
    <3>2. CASE target'[t].group = x.t /\ target'[t].state \in {"pending", "cancelled"}
      <4>1. x.t # 0 /\ group'[x.t].state # "none"
        BY <1>2, <1>7, FaninAssumption DEF Turns
      <4> QED BY <3>2, <4>1
    <3> QED BY <1>20, <3>1, <3>2
  <2>2. \A g \in Turns : group'[g].state = "none" => group'[g] = NoGroup
    <3>1. \A g \in Turns : group[g].state = "none" => group[g] = NoGroup
      BY DEF FaninInv, Owned
    <3> QED BY <1>7, <3>1
  <2> QED BY <2>1, <2>2 DEF Owned
<1>12. CallerDone'
  <2>1. ASSUME NEW g \in Turns
        PROVE  /\ group'[g].closed => turn'[g].state \in TerminalTurnStates
               /\ group'[g].state \in {"ready", "woken", "abandoned"} => group'[g].closed
    <3>1. group'[g].closed => turn'[g].state \in TerminalTurnStates
      <4>1. group[g].closed => turn[g].state \in TerminalTurnStates
        BY DEF FaninInv, CallerDone
      <4>2. turn[g].state \in TerminalTurnStates => turn'[g] = turn[g]
        BY <1>4 DEF TerminalTurnStates
      <4> QED BY <1>19, <4>1, <4>2
    <3>2. group'[g].state \in {"ready", "woken", "abandoned"} => group[g].closed
      <4>1. group[g].state \in {"ready", "woken", "abandoned"} => group[g].closed
        BY DEF FaninInv, CallerDone
      <4>2. CASE g = x.t
        BY <1>22, <4>1, <4>2
      <4>3. CASE g # x.t
        BY <1>1, <4>1, <4>3
      <4> QED BY <4>2, <4>3
    <3> QED BY <1>19, <3>1, <3>2
  <2> QED BY <2>1 DEF CallerDone
<1>13. AsksHold'
  BY <1>3, <1>4 DEF FaninInv, AsksHold, TxOK
<1>14. ClosingsHold'
  <2>1. ASSUME NEW y, Closing(y)
        PROVE  /\ Open(y.t)' /\ target'[y.t] = target[y.t] /\ y.t \in Turns /\ Open(y.t)
               /\ group'[y.t].closed = group[y.t].closed
               /\ group[y.t].state # "none" => group'[y.t].state # "none"
    <3>1. y.t \in Turns /\ Open(y.t)
      BY <2>1 DEF FaninInv, ClosingsHold, TxOK
    <3>2. turn[y.t].state # "none"
      BY <3>1 DEF Open
    <3>3. group'[y.t].closed = group[y.t].closed
      BY <1>19, <3>1
    <3>4. group[y.t].state # "none" => group'[y.t].state # "none"
      BY <1>7, <3>1
    <3> QED BY <1>4, <1>5, <3>1, <3>2, <3>3, <3>4
  <2> QED BY <1>3, <2>1 DEF FaninInv, ClosingsHold
<1>15. SweepsHold'
  BY <1>3, <1>8 DEF FaninInv, SweepsHold, TxOK
<1>16. MarksHold'
  <2>1. ASSUME NEW y, Closing(y) \/ Sweeping(y), NEW g \in y.marks
        PROVE  /\ group'[g].closed \/ (Closing(y) /\ y.closes /\ y.t = g)
               /\ \A t \in Known(g)' :
                    \/ target'[t].state \in TerminalTargetStates
                    \/ (Closing(y) /\ y.settles /\ y.t = t)
                    \/ (Sweeping(y) /\ t \in y.ended \cup y.gone)
               /\ Closing(y) => \/ (y.settles /\ target'[y.t].group = g)
                                \/ (y.closes /\ y.t = g)
    <3>1. g \in Turns
      BY <2>1 DEF FaninInv, TxOK
    <3>2. /\ group[g].closed \/ (Closing(y) /\ y.closes /\ y.t = g)
          /\ \A t \in Known(g) :
               \/ target[t].state \in TerminalTargetStates
               \/ (Closing(y) /\ y.settles /\ y.t = t)
               \/ (Sweeping(y) /\ t \in y.ended \cup y.gone)
          /\ Closing(y) => \/ (y.settles /\ target[y.t].group = g)
                           \/ (y.closes /\ y.t = g)
      BY <2>1 DEF FaninInv, MarksHold
    <3>3. g = x.t => Ending(x.t)
      BY <1>6, <3>2
    <3>4. \A t \in Known(g)' : t \in Known(g) /\ target'[t] = target[t]
      BY <1>1, <3>3 DEF Known
    <3>5. Closing(y) => target'[y.t] = target[y.t]
      <4>1. Closing(y) => y.t \in Turns /\ turn[y.t].state # "none"
        BY DEF FaninInv, ClosingsHold, TxOK, Open
      <4> QED BY <1>4, <4>1
    <3>6. group'[g].closed = group[g].closed
      BY <1>19, <3>1
    <3> QED BY <3>2, <3>4, <3>5, <3>6
  <2> QED BY <1>3, <2>1 DEF MarksHold
<1>17. ReadyHasAll'
  <2>1. ASSUME NEW g \in Turns, group'[g].state = "ready", NEW t \in Known(g)'
        PROVE  target'[t].state \in TerminalTargetStates
    <3>1. g = x.t => Ending(x.t)
      BY <1>6, <1>22, <2>1 DEF FaninInv, CallerDone
    <3>2. t \in Known(g) /\ target'[t] = target[t]
      BY <1>1, <3>1 DEF Known
    <3>3. CASE group[g].state = "ready"
      BY <2>1, <3>2, <3>3 DEF FaninInv, ReadyHasAll
    <3>4. CASE group[g].state # "ready"
      <4>1. g = x.t
        BY <1>1, <2>1, <3>4
      <4>2. group'[x.t] # IF group[x.t].state = "none"
                          THEN [NoGroup EXCEPT !.state = "collecting"] ELSE group[x.t]
        BY <2>1, <3>4, <4>1 DEF NoGroup
      <4>3. \A u \in Turns : target[u].group = x.t => target[u].state \in TerminalTargetStates
        BY <1>1, <4>2
      <4> QED BY <3>2, <4>1, <4>3 DEF Known
    <3> QED BY <3>3, <3>4
  <2> QED BY <2>1 DEF ReadyHasAll
<1>18. GivenUp'
  <2>1. ASSUME NEW t \in Turns, target'[t].state \in TerminalTargetStates
        PROVE  /\ Open(t)' => group'[target'[t].group].expired
               /\ turn'[t].state = "completed" =>
                     target'[t].reply \/ group'[target'[t].group].expired
    <3>1. CASE turn'[t] = turn[t] /\ target'[t] = target[t]
      <4>1. target[t].group # 0
        BY <2>1, <3>1 DEF FaninInv, Owned, TerminalTargetStates, TerminalTurnStates
      <4>2. group'[target[t].group].expired = group[target[t].group].expired
        BY <1>8, <1>19, <4>1
      <4> QED BY <2>1, <3>1, <4>2 DEF FaninInv, GivenUp, Open
    <3>2. CASE turn'[t].state = "cancelled"
      BY <3>2 DEF Open
    <3>3. CASE target'[t].state = "pending"
      BY <2>1, <3>3 DEF TerminalTargetStates, TerminalTurnStates
    <3> QED BY <1>20, <3>1, <3>2, <3>3
  <2> QED BY <2>1 DEF GivenUp
<1> QED
  BY <1>1, <1>9, <1>10, <1>11, <1>12, <1>13, <1>14, <1>15, <1>16, <1>17, <1>18 DEF FaninInv
\* A closing writes its turn, its target and what its group learns.
LEMMA CloseCommitIs ==
  ASSUME FaninInv, NEW x, CloseCommit(x)
  PROVE  /\ Closing(x) /\ tx' = tx \ {x} /\ TypeOK' /\ Numbered'
         /\ turn'[x.t].state = x.outcome /\ turn'[x.t].kind = turn[x.t].kind
         /\ turn'[x.t].of = turn[x.t].of
         /\ \A t \in Turns : t # x.t => turn'[t] = turn[t] /\ target'[t] = target[t]
         /\ ~x.settles => target'[x.t] = target[x.t]
         /\ x.settles => /\ target'[x.t].group = target[x.t].group
                         /\ target'[x.t].missed = target[x.t].missed
                         /\ target'[x.t].state = x.outcome
                         /\ target'[x.t].reply <=> x.outcome = "completed"
         /\ \A g \in Turns :
              /\ group'[g].expired = group[g].expired
              /\ group'[g].closed <=> group[g].closed \/ (x.closes /\ g = x.t)
              /\ group'[g].state = IF g \in x.marks THEN "ready" ELSE group[g].state
              /\ group'[g].state = "none" => group'[g] = group[g]
              /\ group'[g].raced <=> group[g].raced \/ (Again(x, g) /\ Races(x, g))
<1> DEFINE closed == [group EXCEPT ![x.t] =
                        [group[x.t] EXCEPT !.closed = TRUE, !.draft = x.outcome = "completed"]]
           told == IF x.closes THEN closed ELSE group
           grp == [g \in Turns |-> [told[g] EXCEPT !.raced =
                     @ \/ (Again(x, g) /\ Races(x, g))]]
           row == [target[x.t] EXCEPT !.state = x.outcome, !.reply = x.outcome = "completed"]
<1>1. /\ x \in tx /\ x.kind = "close" /\ tx' = tx \ {x} /\ running' = running
      /\ turn' = [turn EXCEPT ![x.t].state = x.outcome]
      /\ target' = IF ~x.settles THEN target ELSE [target EXCEPT ![x.t] = row]
      /\ group' = MarkReady(x.marks, grp)
  BY DEF CloseCommit
<1>2. /\ Closing(x) /\ x.t \in Turns /\ x.outcome \in TerminalTurnStates
      /\ x.settles \in BOOLEAN /\ x.closes \in BOOLEAN /\ Open(x.t)
      /\ x.closes => group[x.t].state # "none"
  BY <1>1 DEF Closing, FaninInv, TxOK, ClosingsHold
<1>3. /\ turn \in [Turns -> TurnRow] /\ group \in [Turns -> GroupRow]
      /\ target \in [Turns -> TargetRow] /\ TxKinds /\ running \in [Agents -> BOOLEAN]
  BY Rows DEF FaninInv
<1>4. /\ turn' \in [Turns -> TurnRow] /\ \A t \in Turns : t # x.t => turn'[t] = turn[t]
      /\ turn'[x.t].state = x.outcome /\ turn'[x.t].kind = turn[x.t].kind
      /\ turn'[x.t].of = turn[x.t].of
  <2>1. [turn[x.t] EXCEPT !.state = x.outcome] \in TurnRow
    BY <1>2, <1>3 DEF TurnRow
  <2> QED BY <1>1, <1>2, <1>3, <2>1 DEF TurnRow
<1>5. Numbered'
  <2>1. turn[x.t].state # "none" /\ turn'[x.t].state # "none"
    BY <1>2, <1>4 DEF Open, TerminalTurnStates
  <2>2. {t \in Turns : turn'[t].state # "none"} = {t \in Turns : turn[t].state # "none"}
    BY <1>4, <2>1
  <2> QED BY <2>2 DEF FaninInv, Numbered, Used
<1>6. row \in TargetRow /\ row.group = target[x.t].group /\ row.state = x.outcome
      /\ row.missed = target[x.t].missed
      /\ (row.reply <=> x.outcome = "completed")
  BY <1>2, <1>3 DEF TargetRow, TerminalTargetStates
<1> HIDE DEF row
<1>7. /\ target' \in [Turns -> TargetRow] /\ \A t \in Turns : t # x.t => target'[t] = target[t]
      /\ ~x.settles => target'[x.t] = target[x.t]
      /\ x.settles => target'[x.t] = row
  BY <1>1, <1>2, <1>3, <1>6
<1>8. /\ told \in [Turns -> GroupRow]
      /\ \A g \in Turns : /\ told[g].expired = group[g].expired
                          /\ told[g].raced = group[g].raced
                          /\ told[g].closed <=> group[g].closed \/ (x.closes /\ g = x.t)
                          /\ told[g].state = group[g].state
                          /\ told[g].state = "none" => told[g] = group[g]
  <2> DEFINE c == [group[x.t] EXCEPT !.closed = TRUE, !.draft = x.outcome = "completed"]
  <2>1. /\ c \in GroupRow /\ c.closed /\ c.expired = group[x.t].expired
        /\ c.state = group[x.t].state /\ c.raced = group[x.t].raced
    BY <1>2, <1>3 DEF GroupRow
  <2> HIDE DEF c
  <2>2. CASE x.closes
    <3>1. told = [group EXCEPT ![x.t] = c]
      BY <2>2 DEF c
    <3> HIDE DEF told, closed
    <3> QED BY <1>2, <1>3, <2>1, <2>2, <3>1
  <2>3. CASE ~x.closes
    BY <1>3, <2>3
  <2> QED BY <2>2, <2>3, <1>2
<1> HIDE DEF told, closed
<1>12. ASSUME NEW g \in Turns
       PROVE  /\ grp[g] \in GroupRow
              /\ grp[g].expired = group[g].expired
              /\ grp[g].closed <=> group[g].closed \/ (x.closes /\ g = x.t)
              /\ grp[g].state = group[g].state
              /\ grp[g].state = "none" => grp[g] = group[g]
              /\ grp[g].raced <=> group[g].raced \/ (Again(x, g) /\ Races(x, g))
  <2> DEFINE e == told[g].raced \/ (Again(x, g) /\ Races(x, g))
  <2>1. told[g] \in GroupRow /\ e \in BOOLEAN /\ grp[g] = [told[g] EXCEPT !.raced = e]
    BY <1>8 DEF GroupRow
  <2>2. told[g].state = "none" => (e <=> told[g].raced)
    <3>1. Again(x, g) => g \in x.marks
      BY DEF Again
    <3>2. g \in x.marks => group[g].state # "none"
      BY <1>2 DEF FaninInv, MarksHold, Owned, NoGroup
    <3> QED BY <1>8, <3>1, <3>2
  <2> HIDE DEF e, grp
  <2>3. /\ grp[g] \in GroupRow /\ grp[g].state = told[g].state
        /\ grp[g].closed = told[g].closed /\ grp[g].expired = told[g].expired
        /\ grp[g].raced = e
    BY <2>1 DEF GroupRow
  <2>4. told[g].state = "none" => grp[g] = told[g]
    BY <2>1, <2>2 DEF GroupRow
  <2> QED BY <1>8, <2>3, <2>4 DEF e
<1> HIDE DEF grp
<1>9. \A g \in Turns : group'[g] = IF g \in x.marks THEN [grp[g] EXCEPT !.state = "ready"]
                                   ELSE grp[g]
  BY <1>1 DEF MarkReady
<1>10. /\ group' \in [Turns -> GroupRow]
       /\ \A g \in Turns :
            /\ group'[g].expired = group[g].expired
            /\ group'[g].closed <=> group[g].closed \/ (x.closes /\ g = x.t)
            /\ group'[g].state = IF g \in x.marks THEN "ready" ELSE group[g].state
            /\ group'[g].state = "none" => group'[g] = group[g]
            /\ group'[g].raced <=> group[g].raced \/ (Again(x, g) /\ Races(x, g))
  <2>1. ASSUME NEW g \in Turns
        PROVE  /\ group'[g] \in GroupRow
               /\ group'[g].expired = group[g].expired
               /\ group'[g].closed <=> group[g].closed \/ (x.closes /\ g = x.t)
               /\ group'[g].state = IF g \in x.marks THEN "ready" ELSE group[g].state
               /\ group'[g].state = "none" => group'[g] = group[g]
               /\ group'[g].raced <=> group[g].raced \/ (Again(x, g) /\ Races(x, g))
    <3>1. grp[g] \in GroupRow
      BY <1>12
    <3>2. /\ [grp[g] EXCEPT !.state = "ready"] \in GroupRow
          /\ [grp[g] EXCEPT !.state = "ready"].state = "ready"
          /\ [grp[g] EXCEPT !.state = "ready"].closed = grp[g].closed
          /\ [grp[g] EXCEPT !.state = "ready"].expired = grp[g].expired
          /\ [grp[g] EXCEPT !.state = "ready"].raced = grp[g].raced
      BY <3>1 DEF GroupRow
    <3>3. CASE g \in x.marks
      BY <1>9, <1>12, <3>2, <3>3
    <3>4. CASE g \notin x.marks
      BY <1>9, <1>12, <3>4
    <3> QED BY <3>3, <3>4
  <2>2. group' = [g \in Turns |-> group'[g]]
    BY <1>1 DEF MarkReady
  <2> QED BY <2>1, <2>2
<1>11. TypeOK'
  <2>1. TxKinds'
    BY <1>1, <1>3 DEF TxKinds
  <2> QED BY <1>1, <1>3, <1>4, <1>7, <1>10, <2>1, Rows
<1> QED BY <1>1, <1>2, <1>4, <1>5, <1>6, <1>7, <1>10, <1>11

LEMMA CloseCommitKeeps ==
  ASSUME FaninInv, NEW x, CloseCommit(x)
  PROVE  FaninInv'
<1>1. /\ Closing(x) /\ tx' = tx \ {x} /\ TypeOK' /\ Numbered'
      /\ turn'[x.t].state = x.outcome
      /\ \A t \in Turns : t # x.t => turn'[t] = turn[t] /\ target'[t] = target[t]
      /\ ~x.settles => target'[x.t] = target[x.t]
      /\ x.settles => /\ target'[x.t].group = target[x.t].group
                      /\ target'[x.t].missed = target[x.t].missed
                      /\ target'[x.t].state = x.outcome
                      /\ target'[x.t].reply <=> x.outcome = "completed"
      /\ \A g \in Turns :
           /\ group'[g].expired = group[g].expired
           /\ group'[g].closed <=> group[g].closed \/ (x.closes /\ g = x.t)
           /\ group'[g].state = IF g \in x.marks THEN "ready" ELSE group[g].state
           /\ group'[g].state = "none" => group'[g] = group[g]
  BY CloseCommitIs
<1>2. /\ x.t \in Turns /\ Open(x.t) /\ x.outcome \in TerminalTurnStates /\ x.settles \in BOOLEAN
      /\ \A y : Closing(y) /\ y.t = x.t => y = x
      /\ x.closes => ~group[x.t].closed /\ group[x.t].state # "none"
      /\ x.settles => target[x.t].group # 0
      /\ ~x.settles => target[x.t].state # "pending"
  BY <1>1 DEF FaninInv, TxOK, ClosingsHold, AsksHold
<1>3. /\ \A y : Asking(y)' <=> Asking(y)
      /\ \A y : Closing(y)' <=> Closing(y) /\ y # x
      /\ \A y : Sweeping(y)' <=> Sweeping(y)
      /\ ~Sweeping(x)
  BY <1>1 DEF Asking, Closing, Sweeping
<1>4. /\ \A t \in Turns : /\ target'[t].group = target[t].group
                         /\ target'[t].missed = target[t].missed
      /\ \A t \in Turns : target[t].state \in TerminalTargetStates
                            => target'[t].state \in TerminalTargetStates
      /\ \A g : Known(g)' = Known(g)
  <2>1. \A t \in Turns : /\ target'[t].group = target[t].group
                         /\ target'[t].missed = target[t].missed
    BY <1>1, <1>2
  <2>2. \A t \in Turns : target[t].state \in TerminalTargetStates
                            => target'[t].state \in TerminalTargetStates
    BY <1>1, <1>2 DEF TerminalTargetStates
  <2> QED BY <2>1, <2>2 DEF Known
<1>5. \A t \in Turns : turn[t].state \in TerminalTurnStates => turn'[t] = turn[t]
  BY <1>1, <1>2 DEF Open, TerminalTurnStates
<1>6. \A g \in x.marks : group[g].closed \/ (x.closes /\ x.t = g)
  BY <1>1 DEF FaninInv, MarksHold
<1>7. \A g \in Turns : group[g].state # "none" => group'[g].state # "none"
  BY <1>1
<1>8. TxOK'
  BY <1>3 DEF FaninInv, TxOK
<1>9. Fresh'
  <2>1. ASSUME NEW t \in Turns, turn'[t].state = "none"
        PROVE  turn'[t] = NoTurn /\ group'[t] = NoGroup /\ target'[t] = NoTarget
    <3>1. t # x.t
      BY <1>1, <1>2, <2>1 DEF TerminalTurnStates
    <3>2. turn'[t] = turn[t] /\ target'[t] = target[t]
      BY <1>1, <3>1
    <3>3. group[t] = NoGroup /\ turn[t] = NoTurn /\ target[t] = NoTarget
      BY <2>1, <3>2 DEF FaninInv, Fresh
    <3>4. t \notin x.marks
      BY <1>6, <3>1, <3>3 DEF NoGroup
    <3> QED BY <1>1, <3>2, <3>3, <3>4 DEF NoGroup
  <2> QED BY <2>1 DEF Fresh
<1>10. Owned'
  <2>1. ASSUME NEW t \in Turns
        PROVE  target'[t].state = "none" <=> target'[t].group = 0
    <3>1. CASE t = x.t /\ x.settles
      BY <1>1, <1>2, <3>1 DEF TerminalTurnStates
    <3>2. CASE ~(t = x.t /\ x.settles)
      BY <1>1, <1>2, <3>2 DEF FaninInv, Owned
    <3> QED BY <3>1, <3>2
  <2>2. ASSUME NEW t \in Turns, target'[t].group # 0
        PROVE  group'[target'[t].group].state # "none"
    <3>1. target[t].group \in Turns
      BY <1>4, <2>2 DEF FaninInv, TypeOK
    <3> QED BY <1>4, <1>7, <2>2, <3>1 DEF FaninInv, Owned
  <2>3. \A t \in Turns : group'[t].state = "none" => group'[t] = NoGroup
    BY <1>1 DEF FaninInv, Owned
  <2> QED BY <2>1, <2>2, <2>3 DEF Owned
<1>11. CallerDone'
  <2>1. ASSUME NEW g \in Turns
        PROVE  /\ group'[g].closed => turn'[g].state \in TerminalTurnStates
               /\ group'[g].state \in {"ready", "woken", "abandoned"} => group'[g].closed
    <3>1. group'[g].closed => turn'[g].state \in TerminalTurnStates
      BY <1>1, <1>2, <1>5 DEF FaninInv, CallerDone
    <3>2. group'[g].state \in {"ready", "woken", "abandoned"} => group'[g].closed
      BY <1>1, <1>6 DEF FaninInv, CallerDone
    <3> QED BY <3>1, <3>2
  <2> QED BY <2>1 DEF CallerDone
<1>12. AsksHold'
  BY <1>1, <1>2, <1>3 DEF FaninInv, AsksHold, TxOK, TerminalTurnStates
<1>13. ClosingsHold'
  <2>1. ASSUME NEW y, Closing(y), y # x
        PROVE  /\ y.t \in Turns /\ y.t # x.t /\ Open(y.t)' /\ Open(y.t)
               /\ target'[y.t] = target[y.t]
               /\ group'[y.t].closed = group[y.t].closed
               /\ group[y.t].state # "none" => group'[y.t].state # "none"
    <3>1. y.t \in Turns /\ y.t # x.t /\ Open(y.t)
      BY <1>2, <2>1 DEF FaninInv, ClosingsHold, TxOK
    <3>2. group'[y.t].closed = group[y.t].closed
      <4>1. group'[y.t].closed \in BOOLEAN /\ group[y.t].closed \in BOOLEAN
        BY <1>1, <3>1 DEF FaninInv, TypeOK
      <4> QED BY <1>1, <3>1, <4>1
    <3> QED BY <1>1, <1>7, <3>1, <3>2 DEF Open
  <2> QED BY <1>3, <2>1 DEF FaninInv, ClosingsHold
<1>14. SweepsHold'
  <2>1. ASSUME NEW y, Sweeping(y)
        PROVE  /\ \A t \in y.ended : turn'[t].state \in TerminalTurnStates /\ target'[t].group # 0
               /\ \A t \in y.gone : target'[t].group # 0 /\ t \notin y.ended
    <3>1. y.ended \subseteq Turns /\ y.gone \subseteq Turns
      BY <2>1 DEF FaninInv, TxOK
    <3> QED BY <1>4, <1>5, <2>1, <3>1 DEF FaninInv, SweepsHold
  <2> QED BY <1>3, <2>1 DEF SweepsHold
<1>15. MarksHold'
  <2>1. ASSUME NEW y, Closing(y) \/ Sweeping(y), y # x, NEW g \in y.marks
        PROVE  /\ group'[g].closed \/ (Closing(y) /\ y.closes /\ y.t = g)
               /\ \A t \in Known(g)' :
                    \/ target'[t].state \in TerminalTargetStates
                    \/ (Closing(y) /\ y.settles /\ y.t = t)
                    \/ (Sweeping(y) /\ t \in y.ended \cup y.gone)
               /\ Closing(y) => \/ (y.settles /\ target'[y.t].group = g)
                                \/ (y.closes /\ y.t = g)
    <3>1. g \in Turns /\ Known(g) \subseteq Turns
      BY <2>1 DEF FaninInv, TxOK, Known
    <3>2. /\ group[g].closed \/ (Closing(y) /\ y.closes /\ y.t = g)
          /\ \A t \in Known(g) :
               \/ target[t].state \in TerminalTargetStates
               \/ (Closing(y) /\ y.settles /\ y.t = t)
               \/ (Sweeping(y) /\ t \in y.ended \cup y.gone)
          /\ Closing(y) => \/ (y.settles /\ target[y.t].group = g)
                           \/ (y.closes /\ y.t = g)
      BY <2>1 DEF FaninInv, MarksHold
    <3>3. Closing(y) => y.t \in Turns
      BY DEF FaninInv, TxOK
    <3> QED BY <1>1, <1>4, <3>1, <3>2, <3>3
  <2> QED BY <1>3, <2>1 DEF MarksHold
<1>16. ReadyHasAll'
  <2>1. ASSUME NEW g \in Turns, group'[g].state = "ready", NEW t \in Known(g)
        PROVE  target'[t].state \in TerminalTargetStates
    <3>1. t \in Turns
      BY <2>1 DEF Known
    <3>2. CASE g \in x.marks
      <4>1. \/ target[t].state \in TerminalTargetStates
            \/ x.settles /\ x.t = t
        BY <1>1, <1>3, <2>1, <3>2 DEF FaninInv, MarksHold
      <4> QED BY <1>1, <1>2, <1>4, <3>1, <4>1 DEF TerminalTargetStates
    <3>3. CASE g \notin x.marks
      BY <1>1, <1>4, <2>1, <3>1, <3>3 DEF FaninInv, ReadyHasAll
    <3> QED BY <3>2, <3>3
  <2> QED BY <1>4, <2>1 DEF ReadyHasAll
<1>17. GivenUp'
  <2>1. ASSUME NEW t \in Turns, target'[t].state \in TerminalTargetStates
        PROVE  /\ Open(t)' => group'[target'[t].group].expired
               /\ turn'[t].state = "completed" =>
                     target'[t].reply \/ group'[target'[t].group].expired
    <3>1. target[t].group \in Turns
      <4>1. target[t].group # 0
        BY <1>2, <1>1, <2>1 DEF FaninInv, Owned, TerminalTargetStates, TerminalTurnStates
      <4> QED BY <4>1 DEF FaninInv, TypeOK
    <3>2. group'[target'[t].group].expired = group[target[t].group].expired
      BY <1>1, <1>4, <3>1
    <3>3. CASE t = x.t /\ x.settles
      BY <1>1, <1>2, <3>3 DEF Open, TerminalTurnStates
    <3>4. CASE t = x.t /\ ~x.settles
      <4>1. target'[t] = target[t] /\ Open(t) /\ ~Open(t)'
        BY <1>1, <1>2, <3>4 DEF Open, TerminalTurnStates
      <4>2. group[target[t].group].expired
        BY <2>1, <4>1 DEF FaninInv, GivenUp
      <4> QED BY <3>2, <4>1, <4>2
    <3>5. CASE t # x.t
      <4>1. turn'[t] = turn[t] /\ target'[t] = target[t]
        BY <1>1, <3>5
      <4> QED BY <2>1, <3>2, <4>1 DEF FaninInv, GivenUp, Open
    <3> QED BY <1>2, <3>3, <3>4, <3>5
  <2> QED BY <2>1 DEF GivenUp
<1> QED
  BY <1>1, <1>8, <1>9, <1>10, <1>11, <1>12, <1>13, <1>14, <1>15, <1>16, <1>17 DEF FaninInv
\* A pass of the worker writes the targets and the groups it went over.
LEMMA SweepCommitIs ==
  ASSUME FaninInv, NEW x, SweepCommit(x)
  PROVE  /\ Sweeping(x) /\ tx' = tx \ {x} /\ turn' = turn /\ TypeOK'
         /\ \A t \in Turns :
              /\ target'[t].group = target[t].group /\ target'[t].missed = target[t].missed
              /\ t \notin x.ended \cup x.gone => target'[t] = target[t]
              /\ t \in x.ended \cup x.gone => target'[t].state \in TerminalTargetStates
              /\ t \in x.ended => (target'[t].reply <=> turn[t].state = "completed")
         /\ \A g \in Turns :
              /\ group'[g].expired <=> \/ group[g].expired
                                       \/ \E t \in x.gone : target[t].group = g
              /\ group'[g].closed = group[g].closed
              /\ group'[g].state = IF g \in x.marks THEN "ready" ELSE group[g].state
              /\ group'[g].state = "none" => group'[g] = group[g]
              /\ group'[g].raced <=> group[g].raced \/ (Again(x, g) /\ Races(x, g))
<1> DEFINE grp == [g \in Turns |-> [group[g] EXCEPT
                     !.expired = group[g].expired \/ \E t \in x.gone : target[t].group = g,
                     !.raced = group[g].raced \/ (Again(x, g) /\ Races(x, g))]]
           over(t) == [target[t] EXCEPT !.state = turn[t].state,
                                        !.reply = turn[t].state = "completed"]
           late(t) == [target[t] EXCEPT !.state = "timeout"]
           row(t) == CASE t \in x.ended -> over(t)
                       [] t \in x.gone -> late(t)
                       [] OTHER -> target[t]
<1>1. /\ x \in tx /\ x.kind = "sweep" /\ tx' = tx \ {x} /\ UNCHANGED <<turn, running>>
      /\ target' = [t \in Turns |-> row(t)]
      /\ group' = MarkReady(x.marks, grp)
  BY DEF SweepCommit
<1>2. /\ Sweeping(x) /\ x.ended \subseteq Turns /\ x.gone \subseteq Turns
      /\ \A t \in x.ended : turn[t].state \in TerminalTurnStates
      /\ \A t \in x.gone : target[t].group # 0 /\ t \notin x.ended
  BY <1>1 DEF Sweeping, FaninInv, TxOK, SweepsHold
<1>3. /\ turn \in [Turns -> TurnRow] /\ group \in [Turns -> GroupRow]
      /\ target \in [Turns -> TargetRow] /\ TxKinds /\ running \in [Agents -> BOOLEAN]
  BY Rows DEF FaninInv
<1>4. ASSUME NEW t \in Turns
      PROVE  /\ target'[t] \in TargetRow /\ target'[t].group = target[t].group
             /\ target'[t].missed = target[t].missed
             /\ t \notin x.ended \cup x.gone => target'[t] = target[t]
             /\ t \in x.ended \cup x.gone => target'[t].state \in TerminalTargetStates
             /\ t \in x.ended => (target'[t].reply <=> turn[t].state = "completed")
  <2>0. target'[t] = row(t)
    <3> HIDE DEF row
    <3> QED BY <1>1
  <2>1. target[t] \in TargetRow
    BY <1>3
  <2>2. CASE t \in x.ended
    <3>1. target'[t] = over(t)
      <4>1. t \notin x.gone
        BY <1>2, <2>2
      <4> HIDE DEF over, late
      <4> QED BY <2>0, <2>2, <4>1
    <3>2. turn[t].state \in TerminalTurnStates
      BY <1>2, <2>2
    <3> QED BY <2>1, <2>2, <3>1, <3>2 DEF TargetRow, TerminalTargetStates
  <2>3. CASE t \in x.gone /\ t \notin x.ended
    <3>1. target'[t] = late(t)
      <4> HIDE DEF over, late
      <4> QED BY <2>0, <2>3
    <3> QED BY <2>1, <2>3, <3>1 DEF TargetRow, TerminalTargetStates
  <2>4. CASE t \notin x.ended \cup x.gone
    <3> HIDE DEF over, late
    <3> QED BY <2>0, <2>1, <2>4
  <2> QED BY <2>2, <2>3, <2>4
<1>5. ASSUME NEW g \in Turns
      PROVE  /\ grp[g] \in GroupRow /\ grp[g].state = group[g].state
             /\ grp[g].closed = group[g].closed
             /\ grp[g].expired <=> group[g].expired \/ \E t \in x.gone : target[t].group = g
             /\ grp[g].state = "none" => grp[g] = group[g]
             /\ grp[g].raced <=> group[g].raced \/ (Again(x, g) /\ Races(x, g))
  <2> DEFINE e == group[g].expired \/ \E t \in x.gone : target[t].group = g
             r == group[g].raced \/ (Again(x, g) /\ Races(x, g))
  <2>1. /\ group[g] \in GroupRow /\ e \in BOOLEAN /\ r \in BOOLEAN
        /\ grp[g] = [group[g] EXCEPT !.expired = e, !.raced = r]
    BY <1>3 DEF GroupRow
  <2>2. group[g].state = "none" => (e <=> group[g].expired) /\ (r <=> group[g].raced)
    <3>1. group[g].state = "none" => (e <=> group[g].expired)
      BY <1>2 DEF FaninInv, Owned
    <3>2. Again(x, g) => g \in x.marks
      BY DEF Again
    <3>3. g \in x.marks => group[g].state # "none"
      <4>1. ~Closing(x)
        BY <1>1 DEF Closing
      <4>2. g \in x.marks => group[g].closed
        BY <1>2, <4>1 DEF FaninInv, MarksHold
      <4>3. group[g].state = "none" => group[g].closed = FALSE
        BY DEF FaninInv, Owned, NoGroup
      <4> QED BY <4>2, <4>3
    <3> QED BY <3>1, <3>2, <3>3
  <2> HIDE DEF e, r, grp
  <2>3. /\ grp[g] \in GroupRow /\ grp[g].state = group[g].state
        /\ grp[g].closed = group[g].closed /\ grp[g].expired = e /\ grp[g].raced = r
    BY <2>1 DEF GroupRow
  <2>4. group[g].state = "none" => grp[g] = group[g]
    BY <2>1, <2>2 DEF GroupRow
  <2> QED BY <2>3, <2>4 DEF e, r
<1> HIDE DEF grp
<1>6. ASSUME NEW g \in Turns
      PROVE  /\ group'[g] \in GroupRow
             /\ group'[g].expired <=> group[g].expired \/ \E t \in x.gone : target[t].group = g
             /\ group'[g].closed = group[g].closed
             /\ group'[g].state = IF g \in x.marks THEN "ready" ELSE group[g].state
             /\ group'[g].state = "none" => group'[g] = group[g]
             /\ group'[g].raced <=> group[g].raced \/ (Again(x, g) /\ Races(x, g))
  <2>1. group'[g] = IF g \in x.marks THEN [grp[g] EXCEPT !.state = "ready"] ELSE grp[g]
    BY <1>1 DEF MarkReady
  <2>2. /\ [grp[g] EXCEPT !.state = "ready"] \in GroupRow
        /\ [grp[g] EXCEPT !.state = "ready"].state = "ready"
        /\ [grp[g] EXCEPT !.state = "ready"].closed = grp[g].closed
        /\ [grp[g] EXCEPT !.state = "ready"].expired = grp[g].expired
        /\ [grp[g] EXCEPT !.state = "ready"].raced = grp[g].raced
    BY <1>5 DEF GroupRow
  <2>3. CASE g \in x.marks
    BY <1>5, <2>1, <2>2, <2>3
  <2>4. CASE g \notin x.marks
    BY <1>5, <2>1, <2>4
  <2> QED BY <2>3, <2>4
<1>7. TypeOK'
  <2>1. TxKinds'
    BY <1>1, <1>3 DEF TxKinds
  <2>2. group' = [g \in Turns |-> group'[g]] /\ target' = [t \in Turns |-> target'[t]]
    <3> HIDE DEF row
    <3> QED BY <1>1 DEF MarkReady
  <2>3. group' \in [Turns -> GroupRow] /\ target' \in [Turns -> TargetRow]
    BY <1>4, <1>6, <2>2
  <2> QED BY <1>1, <1>3, <2>1, <2>3, Rows
<1> QED BY <1>1, <1>2, <1>4, <1>6, <1>7

LEMMA SweepCommitKeeps ==
  ASSUME FaninInv, NEW x, SweepCommit(x)
  PROVE  FaninInv'
<1>1. /\ Sweeping(x) /\ tx' = tx \ {x} /\ turn' = turn /\ TypeOK'
      /\ \A t \in Turns :
           /\ target'[t].group = target[t].group /\ target'[t].missed = target[t].missed
           /\ t \notin x.ended \cup x.gone => target'[t] = target[t]
           /\ t \in x.ended \cup x.gone => target'[t].state \in TerminalTargetStates
           /\ t \in x.ended => (target'[t].reply <=> turn[t].state = "completed")
      /\ \A g \in Turns :
           /\ group'[g].expired <=> \/ group[g].expired
                                    \/ \E t \in x.gone : target[t].group = g
           /\ group'[g].closed = group[g].closed
           /\ group'[g].state = IF g \in x.marks THEN "ready" ELSE group[g].state
           /\ group'[g].state = "none" => group'[g] = group[g]
  BY SweepCommitIs
<1>2. /\ x.ended \subseteq Turns /\ x.gone \subseteq Turns
      /\ \A t \in x.ended : turn[t].state \in TerminalTurnStates /\ target[t].group # 0
      /\ \A t \in x.gone : target[t].group # 0
      /\ \A g \in x.marks : group[g].closed
  BY <1>1 DEF Sweeping, Closing, FaninInv, TxOK, SweepsHold, MarksHold
<1>3. /\ \A y : Asking(y)' <=> Asking(y)
      /\ \A y : Closing(y)' <=> Closing(y)
      /\ \A y : Sweeping(y)' <=> Sweeping(y) /\ y # x
  BY <1>1 DEF Asking, Closing, Sweeping
<1>4. /\ \A t : Open(t)' <=> Open(t)
      /\ \A g : Known(g)' = Known(g)
      /\ \A t \in Turns : target[t].state \in TerminalTargetStates
                            => target'[t].state \in TerminalTargetStates
      /\ \A t \in Turns : target[t].state # "pending" => target'[t].state # "pending"
  <2>1. \A t : Open(t)' <=> Open(t)
    BY <1>1 DEF Open
  <2>2. \A g : Known(g)' = Known(g)
    BY <1>1 DEF Known
  <2>3. \A t \in Turns : target[t].state \in TerminalTargetStates
                            => target'[t].state \in TerminalTargetStates
    BY <1>1
  <2>4. \A t \in Turns : target[t].state # "pending" => target'[t].state # "pending"
    BY <1>1 DEF TerminalTargetStates, TerminalTurnStates
  <2> QED BY <2>1, <2>2, <2>3, <2>4
<1>5. \A g \in Turns : group[g].state # "none" => group'[g].state # "none"
  BY <1>1
<1>6. TxOK'
  BY <1>3 DEF FaninInv, TxOK
<1>7. Numbered'
  BY <1>1 DEF FaninInv, Numbered, Used
<1>8. Fresh'
  <2>1. ASSUME NEW t \in Turns, turn'[t].state = "none"
        PROVE  turn'[t] = NoTurn /\ group'[t] = NoGroup /\ target'[t] = NoTarget
    <3>1. group[t] = NoGroup /\ turn[t] = NoTurn /\ target[t] = NoTarget
      BY <1>1, <2>1 DEF FaninInv, Fresh
    <3>2. t \notin x.ended \cup x.gone /\ t \notin x.marks
      BY <1>2, <3>1 DEF NoTarget, NoGroup
    <3> QED BY <1>1, <3>1, <3>2 DEF NoGroup
  <2> QED BY <2>1 DEF Fresh
<1>9. Owned'
  <2>1. ASSUME NEW t \in Turns
        PROVE  target'[t].state = "none" <=> target'[t].group = 0
    BY <1>1, <1>2 DEF FaninInv, Owned, TerminalTargetStates, TerminalTurnStates
  <2>2. ASSUME NEW t \in Turns, target'[t].group # 0
        PROVE  group'[target'[t].group].state # "none"
    <3>1. target[t].group \in Turns
      BY <1>1, <2>2 DEF FaninInv, TypeOK
    <3> QED BY <1>1, <1>5, <2>2, <3>1 DEF FaninInv, Owned
  <2>3. \A t \in Turns : group'[t].state = "none" => group'[t] = NoGroup
    BY <1>1 DEF FaninInv, Owned
  <2> QED BY <2>1, <2>2, <2>3 DEF Owned
<1>10. CallerDone'
  <2>1. ASSUME NEW g \in Turns
        PROVE  group'[g].state \in {"ready", "woken", "abandoned"} => group'[g].closed
    BY <1>1, <1>2 DEF FaninInv, CallerDone
  <2> QED BY <1>1, <2>1 DEF FaninInv, CallerDone
<1>11. AsksHold'
  BY <1>1, <1>3 DEF FaninInv, AsksHold
<1>12. ClosingsHold'
  <2>1. ASSUME NEW y, Closing(y) PROVE y.t \in Turns
    BY <2>1 DEF FaninInv, TxOK
  <2> QED BY <1>1, <1>3, <1>4, <1>5, <2>1 DEF FaninInv, ClosingsHold
<1>13. SweepsHold'
  <2>1. ASSUME NEW y, Sweeping(y) PROVE y.ended \subseteq Turns /\ y.gone \subseteq Turns
    BY <2>1 DEF FaninInv, TxOK
  <2> QED BY <1>1, <1>3, <2>1 DEF FaninInv, SweepsHold
<1>14. MarksHold'
  <2>1. ASSUME NEW y, Closing(y) \/ Sweeping(y), NEW g \in y.marks
        PROVE  /\ group'[g].closed \/ (Closing(y) /\ y.closes /\ y.t = g)
               /\ \A t \in Known(g)' :
                    \/ target'[t].state \in TerminalTargetStates
                    \/ (Closing(y) /\ y.settles /\ y.t = t)
                    \/ (Sweeping(y) /\ t \in y.ended \cup y.gone)
               /\ Closing(y) => \/ (y.settles /\ target'[y.t].group = g)
                                \/ (y.closes /\ y.t = g)
    <3>1. g \in Turns /\ Known(g) \subseteq Turns
      BY <2>1 DEF FaninInv, TxOK, Known
    <3>2. /\ group[g].closed \/ (Closing(y) /\ y.closes /\ y.t = g)
          /\ \A t \in Known(g) :
               \/ target[t].state \in TerminalTargetStates
               \/ (Closing(y) /\ y.settles /\ y.t = t)
               \/ (Sweeping(y) /\ t \in y.ended \cup y.gone)
          /\ Closing(y) => \/ (y.settles /\ target[y.t].group = g)
                           \/ (y.closes /\ y.t = g)
      BY <2>1 DEF FaninInv, MarksHold
    <3>3. Closing(y) => y.t \in Turns
      BY DEF FaninInv, TxOK
    <3> QED BY <1>1, <1>4, <3>1, <3>2, <3>3
  <2>2. ASSUME NEW y, Closing(y)' \/ Sweeping(y)', NEW g \in y.marks
        PROVE  /\ group'[g].closed \/ (Closing(y)' /\ y.closes /\ y.t = g)
               /\ \A t \in Known(g)' :
                    \/ target'[t].state \in TerminalTargetStates
                    \/ (Closing(y)' /\ y.settles /\ y.t = t)
                    \/ (Sweeping(y)' /\ t \in y.ended \cup y.gone)
               /\ Closing(y)' => \/ (y.settles /\ target'[y.t].group = g)
                                 \/ (y.closes /\ y.t = g)
    <3>1. Closing(y)' <=> Closing(y)
      BY <1>3
    <3>2. Sweeping(y)' <=> Sweeping(y)
      BY <1>3, <2>2, <3>1 DEF Closing, Sweeping
    <3> QED BY <2>1, <2>2, <3>1, <3>2
  <2> QED BY <2>2 DEF MarksHold
<1>15. ReadyHasAll'
  <2>1. ASSUME NEW g \in Turns, group'[g].state = "ready", NEW t \in Known(g)
        PROVE  target'[t].state \in TerminalTargetStates
    <3>1. t \in Turns
      BY <2>1 DEF Known
    <3>2. CASE g \in x.marks
      <4>1. target[t].state \in TerminalTargetStates \/ t \in x.ended \cup x.gone
        BY <1>1, <2>1, <3>2 DEF FaninInv, MarksHold, Sweeping, Closing
      <4> QED BY <1>1, <1>4, <3>1, <4>1
    <3>3. CASE g \notin x.marks
      BY <1>1, <1>4, <2>1, <3>1, <3>3 DEF FaninInv, ReadyHasAll
    <3> QED BY <3>2, <3>3
  <2> QED BY <1>4, <2>1 DEF ReadyHasAll
<1>16. GivenUp'
  <2>1. ASSUME NEW t \in Turns, target'[t].state \in TerminalTargetStates
        PROVE  /\ Open(t)' => group'[target'[t].group].expired
               /\ turn'[t].state = "completed" =>
                     target'[t].reply \/ group'[target'[t].group].expired
    <3>1. target[t].group \in Turns
      <4>1. target[t].group # 0
        BY <1>1, <1>2, <2>1 DEF FaninInv, Owned, TerminalTargetStates, TerminalTurnStates
      <4> QED BY <4>1 DEF FaninInv, TypeOK
    <3>2. group[target[t].group].expired => group'[target'[t].group].expired
      BY <1>1, <3>1
    <3>3. CASE t \in x.gone
      BY <1>1, <3>1, <3>3
    <3>4. CASE t \in x.ended
      BY <1>1, <1>2, <3>4 DEF Open, TerminalTurnStates
    <3>5. CASE t \notin x.ended \cup x.gone
      <4>1. target'[t] = target[t]
        BY <1>1, <3>5
      <4> QED BY <1>1, <1>4, <2>1, <3>2, <4>1 DEF FaninInv, GivenUp
    <3> QED BY <3>3, <3>4, <3>5
  <2> QED BY <2>1 DEF GivenUp
<1> QED
  BY <1>1, <1>6, <1>7, <1>8, <1>9, <1>10, <1>11, <1>12, <1>13, <1>14, <1>15, <1>16 DEF FaninInv

-----------------------------------------------------------------------------
(* What a caller is woken with.                                              *)

LEMMA FaninInit == Init => FaninInv
<1> SUFFICES ASSUME Init PROVE FaninInv
  OBVIOUS
<1>1. /\ tx = {} /\ running = [a \in Agents |-> TRUE]
      /\ turn = [t \in Turns |-> NoTurn] /\ group = [t \in Turns |-> NoGroup]
      /\ target = [t \in Turns |-> NoTarget]
  BY DEF Init
<1>2. TypeOK
  <2>1. NoTurn \in TurnRow /\ NoGroup \in GroupRow /\ NoTarget \in TargetRow
    BY DEF NoTurn, NoGroup, NoTarget, TurnRow, GroupRow, TargetRow
  <2> QED BY <1>1, <2>1, Rows DEF TxKinds
<1>3. Numbered
  <2>1. {t \in Turns : turn[t].state # "none"} = {}
    BY <1>1 DEF NoTurn
  <2>2. Used = 0
    BY <2>1, FS_EmptySet DEF Used
  <2> QED BY <2>1, <2>2 DEF Numbered
<1>4. TxOK /\ AsksHold /\ ClosingsHold /\ SweepsHold /\ MarksHold
  BY <1>1 DEF TxOK, AsksHold, ClosingsHold, SweepsHold, MarksHold, Asking, Closing, Sweeping
<1>5. Fresh /\ Owned /\ CallerDone /\ ReadyHasAll
  BY <1>1 DEF Fresh, Owned, CallerDone, ReadyHasAll, NoTurn, NoGroup, NoTarget
<1>6. GivenUp
  BY <1>1 DEF GivenUp, NoTarget, TerminalTargetStates, TerminalTurnStates
<1> QED BY <1>2, <1>3, <1>4, <1>5, <1>6 DEF FaninInv

LEMMA FaninStep ==
  ASSUME FaninInv, [Next]_vars
  PROVE  FaninInv'
<1>1. CASE UNCHANGED vars
  <2>1. UNCHANGED <<turn, group, target, running, tx>>
    BY <1>1 DEF vars
  <2>2. TypeOK' /\ Numbered'
    BY <2>1 DEF FaninInv, TypeOK, Numbered, Used
  <2> QED BY <2>1, <2>2, MovesKeep
<1>2. ASSUME NEW a \in Agents, NEW peers \in SUBSET (Agents \ {a}), AskBegin(a, peers)
      PROVE  FaninInv'
  BY <1>2, AskBeginKeeps
<1>3. ASSUME NEW t \in Turns, NEW outcome \in Outcomes, CloseBegin(t, outcome) PROVE FaninInv'
  BY <1>3, CloseBeginKeeps
<1>4. ASSUME NEW w \in Workers, NEW unstarted \in SUBSET Unstarted, SweepBegin(w, unstarted)
      PROVE  FaninInv'
  BY <1>4, SweepBeginKeeps
<1>5. ASSUME NEW x \in tx, AskCommit(x) \/ CloseCommit(x) \/ SweepCommit(x) PROVE FaninInv'
  BY <1>5, AskCommitKeeps, CloseCommitKeeps, SweepCommitKeeps
<1>6. ASSUME \/ \E a \in Agents : Request(a) \/ SetRunning(a)
             \/ \E t \in Turns : Lease(t) \/ Retry(t) \/ DeadlinePasses(t)
             \/ \E w \in Workers, g \in Turns : Wake(w, g)
      PROVE  FaninInv'
  BY <1>6, OthersKeep
<1> QED BY <1>1, <1>2, <1>3, <1>4, <1>5, <1>6 DEF Next

\* The invariant of every reachable state, with any number of workers and whichever
\* questions, closings and sweeps overlap.
THEOREM Invariant == Spec => []FaninInv
<1>1. FaninInv /\ [Next]_vars => FaninInv'
  BY FaninStep
<1> QED BY FaninInit, <1>1, PTL DEF Spec

\* The rows keep their types.
THEOREM TypeCorrect == Spec => []TypeOK
<1>1. FaninInv => TypeOK
  BY DEF FaninInv
<1> QED BY <1>1, Invariant, PTL

\* The caller is woken when its own turn and all its questions are over, with every
\* answer that was given before the worker gave its question up (peer_fanin.py:
\* _mark_ready_if_done, read and written back without a condition).
THEOREM WokenWithEverything == Spec => WakeSeesAll
<1> DEFINE Complete(g) ==
      /\ group[g].closed /\ ~Open(g)
      /\ \A t \in TargetsOf(g) : ~target[t].missed => Heard(g, t)
<1>1. ASSUME FaninInv, NEW g \in Turns, group[g].state = "ready" PROVE Complete(g)
  <2>1. group[g].closed
    BY <1>1 DEF FaninInv, CallerDone
  <2>2. ~Open(g)
    BY <1>1, <2>1 DEF FaninInv, CallerDone, Open, TerminalTurnStates
  <2>3. \A t \in Known(g) : target[t].state \in TerminalTargetStates
    BY <1>1 DEF FaninInv, ReadyHasAll
  <2>4. \A t \in Known(g) : turn[t].state = "completed"
                                   => target[t].reply \/ group[g].expired
    <3> SUFFICES ASSUME NEW t \in Known(g), turn[t].state = "completed"
                 PROVE  target[t].reply \/ group[g].expired
      OBVIOUS
    <3>1. t \in Turns /\ target[t].group = g /\ target[t].state \in TerminalTargetStates
      BY <2>3 DEF Known
    <3> QED BY <1>1, <3>1 DEF FaninInv, GivenUp
  <2>5. \A t \in TargetsOf(g) : ~target[t].missed => t \in Known(g)
    BY DEF TargetsOf, Known
  <2> QED BY <2>1, <2>2, <2>3, <2>4, <2>5 DEF Heard
<1>2. FaninInv /\ [Next]_vars =>
        [\A g \in Turns : group[g].state = "ready" /\ group'[g].state # "ready"
                             => Complete(g)]_vars
  <2> HIDE DEF Complete
  <2> QED BY <1>1
<1>3. Spec => [][\A g \in Turns : group[g].state = "ready" /\ group'[g].state # "ready"
                                    => Complete(g)]_vars
  <2> HIDE DEF Complete
  <2> QED BY <1>2, Invariant, PTL DEF Spec
<1> QED BY <1>3 DEF WakeSeesAll
-----------------------------------------------------------------------------
(* How often a caller is woken.                                              *)

\* Two transactions that are both to mark a group: what the one still has to do, the
\* other would have had to find done, unless each looked for what had come late.
LEMMA OneMarker ==
  ASSUME FaninInv, StillPending, NEW g \in Turns, ~group[g].expired,
         NEW x, Marks(x, g), NEW y, Marks(y, g), x # y
  PROVE  Again(x, g) /\ Races(x, g)
<1>1. ASSUME NEW v, NEW z, Marks(v, g), Marks(z, g), v # z PROVE Again(v, g) /\ v \in tx
  <2>1. /\ g \in v.marks /\ g \in z.marks /\ ~GivesUp(z, g)
        /\ Closing(z) \/ Sweeping(z)
    BY <1>1 DEF Marks
  <2>2. CASE Sweeping(v)
    BY <2>1, <2>2 DEF Again, Sweeping
  <2>3. CASE Closing(v)
    <3>1. v.t \in Turns /\ Open(v.t) /\ (Closing(z) => z.t # v.t)
      BY <1>1, <2>3 DEF FaninInv, TxOK, ClosingsHold
    <3>2. ASSUME v.closes, v.t = g PROVE FALSE
      <4>1. ~group[g].closed
        BY <2>3, <3>2 DEF FaninInv, ClosingsHold
      <4>2. group[g].closed \/ (Closing(z) /\ z.t = g)
        BY <2>1 DEF FaninInv, MarksHold
      <4> QED BY <3>1, <3>2, <4>1, <4>2
    <3>3. ASSUME v.settles, target[v.t].group = g PROVE target[v.t].missed
      <4>1. target[v.t].state = "pending"
        BY <2>3, <3>3 DEF StillPending
      <4>2. target[v.t].state \notin TerminalTargetStates
        BY <4>1 DEF TerminalTargetStates, TerminalTurnStates
      <4>3. ~target[v.t].missed => v.t \in Known(g)
        BY <3>1, <3>3 DEF Known
      <4>4. Sweeping(z) => v.t \notin z.ended
        BY <3>1 DEF FaninInv, SweepsHold, Open, TerminalTurnStates
      <4>5. Sweeping(z) => v.t \notin z.gone
        BY <2>1, <3>3 DEF GivesUp
      <4>6. \A t \in Known(g) :
              \/ target[t].state \in TerminalTargetStates
              \/ (Closing(z) /\ z.settles /\ z.t = t)
              \/ (Sweeping(z) /\ t \in z.ended \cup z.gone)
        BY <2>1 DEF FaninInv, MarksHold
      <4>7. v.t \in Known(g) => FALSE
        BY <3>1, <4>2, <4>4, <4>5, <4>6
      <4> QED BY <4>3, <4>7
    <3>4. (v.settles /\ target[v.t].group = g) \/ (v.closes /\ v.t = g)
      BY <2>1, <2>3 DEF FaninInv, MarksHold
    <3> QED BY <2>1, <2>3, <3>2, <3>3, <3>4 DEF Again, Closing
  <2> QED BY <1>1, <2>2, <2>3 DEF Marks
<1>2. Again(x, g) /\ Again(y, g) /\ y \in tx \ {x}
  BY <1>1
<1> QED BY <1>2 DEF Races

LEMMA WakesSame ==
  ASSUME FaninInv,
         \A t \in Turns :
            \/ turn'[t].kind = turn[t].kind /\ turn'[t].of = turn[t].of
            \/ turn[t].state = "none" /\ turn'[t].kind # "wake"
  PROVE  \A g : WakesOf(g)' = WakesOf(g)
<1>1. \A t \in Turns : turn[t].state = "none" => turn[t].kind # "wake"
  BY DEF FaninInv, Fresh, NoTurn
<1> QED BY <1>1 DEF WakesOf

\* Nothing changes but the turns that are no wakes.
LEMMA MovesKeepWakes ==
  ASSUME FaninInv, OneWakeInv, tx' = tx, target' = target,
         \A t \in Turns :
            \/ turn'[t].kind = turn[t].kind /\ turn'[t].of = turn[t].of
            \/ turn[t].state = "none" /\ turn'[t].kind # "wake",
         \A g \in Turns : /\ group'[g].state = group[g].state
                          /\ group'[g].expired = group[g].expired
                          /\ group'[g].raced = group[g].raced
  PROVE  OneWakeInv'
<1>1. /\ \A y : Closing(y)' <=> Closing(y)
      /\ \A y : Sweeping(y)' <=> Sweeping(y)
  BY DEF Closing, Sweeping
<1>2. \A y, g : Marks(y, g)' <=> Marks(y, g)
  BY <1>1 DEF Marks, GivesUp
<1>3. \A g : WakesOf(g)' = WakesOf(g)
  BY WakesSame
<1>5. StillPending'
  <2> SUFFICES ASSUME NEW y, Closing(y), y.settles
               PROVE  target[y.t].state = "pending" \/ group'[target[y.t].group].expired
    BY <1>1 DEF StillPending
  <2>1. target[y.t].group \in Turns
    <3>1. y.t \in Turns /\ target[y.t].group # 0
      BY DEF FaninInv, TxOK, ClosingsHold
    <3> QED BY <3>1 DEF FaninInv, TypeOK
  <2> QED BY <2>1 DEF OneWakeInv, StillPending
<1>6. MarkedOnce'
  BY <1>2 DEF OneWakeInv, MarkedOnce
<1>7. WokenOnce'
  BY <1>3 DEF OneWakeInv, WokenOnce
<1> QED BY <1>5, <1>6, <1>7 DEF OneWakeInv

LEMMA WakeKeepsWakes ==
  ASSUME FaninInv, OneWakeInv, NEW w \in Workers, NEW g \in Turns, Wake(w, g)
  PROVE  OneWakeInv'
<1> DEFINE row == NewTurn(turn[g].agent, "wake", g)
<1>1. /\ group[g].state = "ready" /\ Used < MaxTurns
      /\ turn' = [turn EXCEPT ![Used + 1] = row]
      /\ target' = target /\ tx' = tx
  BY DEF Wake
<1>2. row.kind = "wake" /\ row.of = g
  BY DEF NewTurn
<1> HIDE DEF row
<1>3. Used + 1 \in Turns /\ turn[Used + 1].state = "none"
  <2>1. Used \in Nat /\ MaxTurns \in Nat
    BY Counting, FaninAssumption DEF FaninInv
  <2> QED BY <1>1, <2>1 DEF FaninInv, Numbered, Turns
<1>4. /\ turn'[Used + 1] = row
      /\ \A t \in Turns : t # Used + 1 => turn'[t] = turn[t]
  BY <1>1, <1>3 DEF FaninInv, TypeOK
<1>5. turn[Used + 1].kind # "wake"
  BY <1>3 DEF FaninInv, Fresh, NoTurn
<1>6. /\ WakesOf(g)' = WakesOf(g) \cup {Used + 1}
      /\ \A h \in Turns : h # g => WakesOf(h)' = WakesOf(h)
  BY <1>2, <1>3, <1>4, <1>5 DEF WakesOf
<1>7. /\ \A h \in Turns : h # g => group'[h] = group[h]
      /\ group'[g].state \in {"woken", "abandoned"} /\ group'[g].expired = group[g].expired
      /\ group'[g].raced = group[g].raced
  BY DEF Wake, FaninInv, TypeOK
<1>8. /\ \A y : Closing(y)' <=> Closing(y)
      /\ \A y : Sweeping(y)' <=> Sweeping(y)
  BY <1>1 DEF Closing, Sweeping
<1>9. \A y, h : Marks(y, h)' <=> Marks(y, h)
  BY <1>1, <1>8 DEF Marks, GivesUp
<1>11. StillPending'
  <2> SUFFICES ASSUME NEW y, Closing(y), y.settles
               PROVE  target[y.t].state = "pending" \/ group'[target[y.t].group].expired
    BY <1>1, <1>8 DEF StillPending
  <2>1. target[y.t].group \in Turns
    <3>1. y.t \in Turns /\ target[y.t].group # 0
      BY DEF FaninInv, TxOK, ClosingsHold
    <3> QED BY <3>1 DEF FaninInv, TypeOK
  <2> QED BY <1>7, <2>1 DEF OneWakeInv, StillPending
<1>12. MarkedOnce'
  <2>1. ASSUME ~group[g].expired, ~group[g].raced PROVE \A y : ~Marks(y, g)
    BY <1>1, <2>1 DEF OneWakeInv, MarkedOnce
  <2> QED BY <1>7, <1>9, <2>1 DEF OneWakeInv, MarkedOnce
<1>13. WokenOnce'
  <2>1. ASSUME ~group[g].expired, ~group[g].raced PROVE WakesOf(g)' = {Used + 1}
    BY <1>1, <1>6, <2>1 DEF OneWakeInv, WokenOnce
  <2> HIDE DEF WakesOf
  <2>2. ASSUME NEW h \in Turns, ~group'[h].expired, ~group'[h].raced
        PROVE  /\ group'[h].state \in {"none", "collecting", "ready"} => WakesOf(h)' = {}
               /\ \A t, u \in WakesOf(h)' : t = u
    <3>1. CASE h = g
      BY <1>7, <2>1, <2>2, <3>1
    <3>2. CASE h # g
      BY <1>6, <1>7, <2>2, <3>2 DEF OneWakeInv, WokenOnce
    <3> QED BY <3>1, <3>2
  <2> QED BY <2>2 DEF WokenOnce
<1> QED BY <1>11, <1>12, <1>13 DEF OneWakeInv
\* A step that only begins a transaction: what it has read it finds again.
LEMMA BeginKeepsWakes ==
  ASSUME FaninInv, OneWakeInv, NEW x, tx' = tx \cup {x},
         UNCHANGED <<turn, group, target, running>>,
         x.kind \in {"ask", "close", "sweep"},
         x.kind = "close" /\ x.settles => target[x.t].state = "pending",
         x.kind # "ask" => \A g \in x.marks : group[g].state = "collecting"
  PROVE  OneWakeInv'
<1>1. /\ \A y : Closing(y)' <=> Closing(y) \/ (y = x /\ x.kind = "close")
      /\ \A y : Sweeping(y)' <=> Sweeping(y) \/ (y = x /\ x.kind = "sweep")
  BY DEF Closing, Sweeping
<1>2. \A y, g : Marks(y, g)' => \/ Marks(y, g)
                                \/ y = x /\ x.kind # "ask" /\ g \in x.marks
  BY <1>1 DEF Marks, GivesUp
<1>4. StillPending'
  BY <1>1 DEF OneWakeInv, StillPending
<1>5. MarkedOnce'
  BY <1>2 DEF OneWakeInv, MarkedOnce
<1>6. WokenOnce'
  BY DEF OneWakeInv, WokenOnce, WakesOf
<1> QED BY <1>4, <1>5, <1>6 DEF OneWakeInv

LEMMA BeginsKeepWakes ==
  ASSUME FaninInv, OneWakeInv,
         \/ \E a \in Agents : \E peers \in SUBSET (Agents \ {a}) : AskBegin(a, peers)
         \/ \E t \in Turns, outcome \in Outcomes : CloseBegin(t, outcome)
         \/ \E w \in Workers, unstarted \in SUBSET Unstarted : SweepBegin(w, unstarted)
  PROVE  OneWakeInv'
<1>1. ASSUME NEW a \in Agents, NEW peers \in SUBSET (Agents \ {a}), AskBegin(a, peers)
      PROVE  OneWakeInv'
  <2> DEFINE x == [kind |-> "ask", t |-> OpenTurn(a), peers |-> peers]
  <2>1. tx' = tx \cup {x} /\ UNCHANGED <<turn, group, target, running>>
    BY <1>1 DEF AskBegin
  <2>2. x.kind = "ask"
    OBVIOUS
  <2> HIDE DEF x
  <2> QED BY <2>1, <2>2, BeginKeepsWakes
<1>2. ASSUME NEW t \in Turns, NEW outcome \in Outcomes, CloseBegin(t, outcome)
      PROVE  OneWakeInv'
  <2>1. PICK x :
          /\ tx' = tx \cup {x} /\ UNCHANGED <<turn, group, target, running>>
          /\ x.kind = "close" /\ x.t = t
          /\ x.settles => target[t].state = "pending"
          /\ \A g \in x.marks : group[g].state = "collecting"
    <3> QED BY <1>2, ClosingIs
  <2> QED BY <2>1, BeginKeepsWakes
<1>3. ASSUME NEW w \in Workers, NEW unstarted \in SUBSET Unstarted, SweepBegin(w, unstarted)
      PROVE  OneWakeInv'
  <2>1. PICK x :
          /\ tx' = tx \cup {x} /\ UNCHANGED <<turn, group, target, running>>
          /\ x.kind = "sweep"
          /\ \A g \in x.marks : group[g].state = "collecting"
    <3> QED BY <1>3, SweepIs
  <2> QED BY <2>1, BeginKeepsWakes
<1> QED BY <1>1, <1>2, <1>3

LEMMA AskCommitKeepsWakes ==
  ASSUME FaninInv, OneWakeInv, NEW x, AskCommit(x)
  PROVE  OneWakeInv'
<1>1. /\ Asking(x) /\ tx' = tx \ {x}
      /\ \A t \in Turns :
              \/ turn'[t] = turn[t] /\ target'[t] = target[t]
              \/ turn[t].state = "none" /\ turn'[t].kind = "question"
      /\ \A g \in Turns : g # x.t => group'[g] = group[g]
      /\ \/ group'[x.t] = IF group[x.t].state = "none"
                          THEN [NoGroup EXCEPT !.state = "collecting"] ELSE group[x.t]
         \/ /\ group'[x.t].state = "ready" /\ group'[x.t].closed = group[x.t].closed
            /\ group'[x.t].expired = group[x.t].expired
            /\ group'[x.t].raced <=> group[x.t].raced \/ Races(x, x.t)
            /\ group[x.t].state = "collecting" /\ group[x.t].closed
            /\ \A t \in Turns : target[t].group = x.t =>
                                  target[t].state \in TerminalTargetStates
  BY AskCommitIs
<1>2. /\ \A y : Closing(y)' <=> Closing(y)
      /\ \A y : Sweeping(y)' <=> Sweeping(y)
  BY <1>1 DEF Closing, Sweeping, Asking
<1>3. \A t \in Turns : target[t].group # 0 => target'[t] = target[t]
  BY <1>1 DEF FaninInv, Fresh, NoTarget
<1>0. x.t \in Turns
  BY <1>1 DEF FaninInv, TxOK
\* The group is as it was, is opened, or is found done with nothing left to settle.
<1>4. /\ \A g \in Turns : group'[g].expired = group[g].expired
      /\ \A g \in Turns :
            \/ /\ group'[g].raced = group[g].raced
               /\ \/ group'[g].state = group[g].state
                  \/ group[g].state = "none" /\ group'[g].state = "collecting"
            \/ /\ g = x.t /\ (group'[g].raced <=> group[g].raced \/ Races(x, g))
               /\ group'[g].state = "ready" /\ group[g].state = "collecting" /\ group[g].closed
               /\ \A t \in Turns : target[t].group = g => target[t].state \in TerminalTargetStates
  <2>1. group[x.t] \in GroupRow /\ (group[x.t].state = "none" => group[x.t] = NoGroup)
    BY <1>0, Rows DEF FaninInv, Owned
  <2>2. CASE group'[x.t] = IF group[x.t].state = "none"
                           THEN [NoGroup EXCEPT !.state = "collecting"] ELSE group[x.t]
    BY <1>1, <2>1, <2>2 DEF NoGroup
  <2>3. CASE /\ group'[x.t].state = "ready" /\ group'[x.t].expired = group[x.t].expired
             /\ group'[x.t].raced <=> group[x.t].raced \/ Races(x, x.t)
             /\ group[x.t].state = "collecting" /\ group[x.t].closed
             /\ \A t \in Turns : target[t].group = x.t =>
                                   target[t].state \in TerminalTargetStates
    BY <1>1, <2>3
  <2> QED BY <1>1, <2>2, <2>3
\* Whoever is still to mark a group that this question found done raced with it.
<1>5. ASSUME NEW g \in Turns, NEW y, Marks(y, g), ~group[g].expired, group[g].closed,
             \A t \in Turns : target[t].group = g => target[t].state \in TerminalTargetStates
      PROVE  Races(x, g)
  <2>1. y \in tx \ {x} /\ g \in y.marks
    BY <1>1, <1>5 DEF Marks, Closing, Sweeping, Asking
  <2>2. CASE Sweeping(y)
    BY <2>1, <2>2 DEF Races, Again, Sweeping
  <2>3. CASE Closing(y)
    <3>1. (y.settles /\ target[y.t].group = g) \/ (y.closes /\ y.t = g)
      BY <2>1, <2>3 DEF FaninInv, MarksHold
    <3>2. ~(y.closes /\ y.t = g)
      BY <1>5, <2>3 DEF FaninInv, ClosingsHold
    <3>3. y.t \in Turns /\ target[y.t].state = "pending"
      BY <1>5, <2>3, <3>1, <3>2 DEF OneWakeInv, StillPending, FaninInv, TxOK
    <3> QED BY <1>5, <3>1, <3>2, <3>3 DEF TerminalTargetStates, TerminalTurnStates
  <2> QED BY <1>5, <2>2, <2>3 DEF Marks
<1>6. \A y, g : Marks(y, g)' => Marks(y, g)
  <2>1. ASSUME NEW y, Sweeping(y), NEW g PROVE GivesUp(y, g) => GivesUp(y, g)'
    <3>1. \A t \in y.gone : t \in Turns /\ target[t].group # 0
      BY <2>1 DEF FaninInv, SweepsHold, TxOK
    <3> QED BY <1>2, <1>3, <2>1, <3>1 DEF GivesUp
  <2>2. \A y, g : GivesUp(y, g) => Sweeping(y)
    BY DEF GivesUp
  <2> QED BY <1>2, <2>1, <2>2 DEF Marks
<1>7. \A g : WakesOf(g)' = WakesOf(g)
  BY <1>1, WakesSame
<1>9. StillPending'
  <2> SUFFICES ASSUME NEW y, Closing(y), y.settles
               PROVE  target'[y.t].state = "pending" \/ group'[target'[y.t].group].expired
    BY <1>2 DEF StillPending
  <2>1. y.t \in Turns /\ target[y.t].group # 0
    BY DEF FaninInv, TxOK, ClosingsHold
  <2>2. target[y.t].group \in Turns
    BY <2>1 DEF FaninInv, TypeOK
  <2> QED BY <1>3, <1>4, <2>1, <2>2 DEF OneWakeInv, StillPending
<1>10. MarkedOnce'
  <2> SUFFICES ASSUME NEW g \in Turns, ~group'[g].expired, ~group'[g].raced,
                      NEW y, Marks(y, g)
               PROVE  group'[g].state = "collecting"
    BY <1>6 DEF MarkedOnce
  <2>1. ~group[g].expired /\ ~group[g].raced /\ group[g].state = "collecting"
    BY <1>4 DEF OneWakeInv, MarkedOnce
  <2> QED BY <1>4, <1>5, <2>1
<1>11. WokenOnce'
  <2> SUFFICES ASSUME NEW g \in Turns, ~group'[g].expired, ~group'[g].raced
               PROVE  /\ group'[g].state \in {"none", "collecting", "ready"} => WakesOf(g) = {}
                      /\ \A t, u \in WakesOf(g) : t = u
    BY <1>7 DEF WokenOnce
  <2> HIDE DEF WakesOf
  <2>1. ~group[g].expired /\ ~group[g].raced
    BY <1>4
  <2>2. group'[g].state \in {"none", "collecting", "ready"} =>
          group[g].state \in {"none", "collecting", "ready"}
    BY <1>4
  <2> QED BY <2>1, <2>2 DEF OneWakeInv, WokenOnce
<1> QED BY <1>9, <1>10, <1>11 DEF OneWakeInv
LEMMA CloseCommitKeepsWakes ==
  ASSUME FaninInv, OneWakeInv, NEW x, CloseCommit(x)
  PROVE  OneWakeInv'
<1>1. /\ Closing(x) /\ tx' = tx \ {x}
      /\ turn'[x.t].kind = turn[x.t].kind /\ turn'[x.t].of = turn[x.t].of
      /\ \A t \in Turns : t # x.t => turn'[t] = turn[t] /\ target'[t] = target[t]
      /\ ~x.settles => target'[x.t] = target[x.t]
      /\ x.settles => target'[x.t].group = target[x.t].group
      /\ \A g \in Turns :
           /\ group'[g].expired = group[g].expired
           /\ group'[g].state = IF g \in x.marks THEN "ready" ELSE group[g].state
           /\ group'[g].raced <=> group[g].raced \/ (Again(x, g) /\ Races(x, g))
  BY CloseCommitIs
<1>2. /\ \A y : Closing(y)' <=> Closing(y) /\ y # x
      /\ \A y : Sweeping(y)' <=> Sweeping(y)
  BY <1>1 DEF Closing, Sweeping
<1>3. \A t \in Turns : target'[t].group = target[t].group
  BY <1>1
<1>4. \A y, g : Marks(y, g)' => Marks(y, g) /\ y # x
  <2>1. ASSUME NEW y, Sweeping(y), NEW g PROVE GivesUp(y, g) => GivesUp(y, g)'
    <3>1. \A t \in y.gone : t \in Turns
      BY <2>1 DEF FaninInv, TxOK
    <3> QED BY <1>2, <1>3, <2>1, <3>1 DEF GivesUp
  <2>2. \A y, g : GivesUp(y, g) => Sweeping(y)
    BY DEF GivesUp
  <2>3. ~Sweeping(x)
    BY <1>1 DEF Closing, Sweeping
  <2> QED BY <1>2, <2>1, <2>2, <2>3 DEF Marks
<1>5. \A g : WakesOf(g)' = WakesOf(g)
  <2>1. \A t \in Turns : turn'[t].kind = turn[t].kind /\ turn'[t].of = turn[t].of
    BY <1>1
  <2> QED BY <2>1, WakesSame
<1>6. \A g \in x.marks : Marks(x, g)
  BY <1>1 DEF Marks, GivesUp, Closing, Sweeping
<1>8. StillPending'
  <2> SUFFICES ASSUME NEW y, Closing(y), y # x, y.settles
               PROVE  target'[y.t].state = "pending" \/ group'[target'[y.t].group].expired
    BY <1>2 DEF StillPending
  <2>1. y.t \in Turns /\ target[y.t].group # 0 /\ y.t # x.t
    BY <1>1 DEF FaninInv, TxOK, ClosingsHold
  <2>2. target[y.t].group \in Turns
    BY <2>1 DEF FaninInv, TypeOK
  <2> QED BY <1>1, <2>1, <2>2 DEF OneWakeInv, StillPending
<1>9. MarkedOnce'
  <2> SUFFICES ASSUME NEW g \in Turns, ~group[g].expired, ~group'[g].raced,
                      NEW y, Marks(y, g), y # x
               PROVE  group'[g].state = "collecting"
    BY <1>1, <1>4 DEF MarkedOnce
  <2>1. ~group[g].raced /\ ~(Again(x, g) /\ Races(x, g))
    BY <1>1
  <2>2. g \notin x.marks
    BY <1>6, <2>1, OneMarker DEF OneWakeInv
  <2> QED BY <1>1, <2>1, <2>2 DEF OneWakeInv, MarkedOnce
<1>10. WokenOnce'
  <2> SUFFICES ASSUME NEW g \in Turns, ~group[g].expired, ~group'[g].raced
               PROVE  /\ group'[g].state \in {"none", "collecting", "ready"} => WakesOf(g) = {}
                      /\ \A t, u \in WakesOf(g) : t = u
    BY <1>1, <1>5 DEF WokenOnce
  <2>1. ~group[g].raced
    BY <1>1
  <2>2. g \in x.marks => group[g].state = "collecting"
    BY <1>6, <2>1 DEF OneWakeInv, MarkedOnce
  <2> QED BY <1>1, <2>1, <2>2 DEF OneWakeInv, WokenOnce
<1> QED BY <1>8, <1>9, <1>10 DEF OneWakeInv

LEMMA SweepCommitKeepsWakes ==
  ASSUME FaninInv, OneWakeInv, NEW x, SweepCommit(x)
  PROVE  OneWakeInv'
<1>1. /\ Sweeping(x) /\ tx' = tx \ {x} /\ turn' = turn
      /\ \A t \in Turns :
           /\ target'[t].group = target[t].group
           /\ t \notin x.ended \cup x.gone => target'[t] = target[t]
      /\ \A g \in Turns :
           /\ group'[g].expired <=> \/ group[g].expired
                                    \/ \E t \in x.gone : target[t].group = g
           /\ group'[g].state = IF g \in x.marks THEN "ready" ELSE group[g].state
           /\ group'[g].raced <=> group[g].raced \/ (Again(x, g) /\ Races(x, g))
  BY SweepCommitIs
<1>2. /\ \A y : Closing(y)' <=> Closing(y)
      /\ \A y : Sweeping(y)' <=> Sweeping(y) /\ y # x
  BY <1>1 DEF Closing, Sweeping
<1>3. \A y, g : Marks(y, g)' => Marks(y, g) /\ y # x
  <2>1. ASSUME NEW y, Sweeping(y), y # x, NEW g PROVE GivesUp(y, g) => GivesUp(y, g)'
    <3>1. \A t \in y.gone : t \in Turns
      BY <2>1 DEF FaninInv, TxOK
    <3> QED BY <1>1, <1>2, <2>1, <3>1 DEF GivesUp
  <2>2. \A y, g : GivesUp(y, g) => Sweeping(y)
    BY DEF GivesUp
  <2>3. ~Closing(x)
    BY <1>1 DEF Closing, Sweeping
  <2> QED BY <1>2, <2>1, <2>2, <2>3 DEF Marks
<1>4. \A g : WakesOf(g)' = WakesOf(g)
  BY <1>1 DEF WakesOf
<1>5. \A g \in x.marks : g \in Turns /\ ~group'[g].expired => Marks(x, g)
  BY <1>1 DEF Marks, GivesUp
<1>7. StillPending'
  <2> SUFFICES ASSUME NEW y, Closing(y), y.settles
               PROVE  target'[y.t].state = "pending" \/ group'[target'[y.t].group].expired
    BY <1>2 DEF StillPending
  <2>1. y.t \in Turns /\ target[y.t].group # 0 /\ Open(y.t)
    BY DEF FaninInv, TxOK, ClosingsHold
  <2>2. target[y.t].group \in Turns
    BY <2>1 DEF FaninInv, TypeOK
  <2>3. y.t \notin x.ended
    BY <1>1, <2>1 DEF FaninInv, SweepsHold, Open, TerminalTurnStates
  <2>4. CASE y.t \in x.gone
    BY <1>1, <2>1, <2>2, <2>4
  <2>5. CASE y.t \notin x.gone
    BY <1>1, <2>1, <2>2, <2>3, <2>5 DEF OneWakeInv, StillPending
  <2> QED BY <2>4, <2>5
<1>8. MarkedOnce'
  <2> SUFFICES ASSUME NEW g \in Turns, ~group'[g].expired, ~group'[g].raced,
                      NEW y, Marks(y, g), y # x
               PROVE  group'[g].state = "collecting"
    BY <1>3 DEF MarkedOnce
  <2>1. ~group[g].expired /\ ~group[g].raced
    BY <1>1
  <2>2. g \notin x.marks
    BY <1>1, <1>5, <2>1, OneMarker DEF OneWakeInv
  <2> QED BY <1>1, <2>1, <2>2 DEF OneWakeInv, MarkedOnce
<1>9. WokenOnce'
  <2> SUFFICES ASSUME NEW g \in Turns, ~group'[g].expired, ~group'[g].raced
               PROVE  /\ group'[g].state \in {"none", "collecting", "ready"} => WakesOf(g) = {}
                      /\ \A t, u \in WakesOf(g) : t = u
    BY <1>4 DEF WokenOnce
  <2>1. ~group[g].expired /\ ~group[g].raced
    BY <1>1
  <2>2. g \in x.marks => group[g].state = "collecting"
    BY <1>5, <2>1 DEF OneWakeInv, MarkedOnce
  <2> QED BY <1>1, <2>1, <2>2 DEF OneWakeInv, WokenOnce
<1> QED BY <1>7, <1>8, <1>9 DEF OneWakeInv

LEMMA OthersKeepWakes ==
  ASSUME FaninInv, OneWakeInv,
         \/ \E a \in Agents : Request(a) \/ SetRunning(a)
         \/ \E t \in Turns : Lease(t) \/ Retry(t) \/ DeadlinePasses(t)
         \/ UNCHANGED vars
  PROVE  OneWakeInv'
<1>1. ASSUME NEW a \in Agents, Request(a) PROVE OneWakeInv'
  <2> DEFINE row == NewTurn(a, "request", 0)
  <2>1. /\ turn' = [turn EXCEPT ![Used + 1] = row]
        /\ UNCHANGED <<group, target, running, tx>>
    BY <1>1 DEF Request
  <2>2. row.kind = "request" /\ row.state # "none"
    BY DEF NewTurn
  <2> HIDE DEF row
  <2>3. \A t \in Turns : turn'[t] = turn[t] \/ (turn[t].state = "none" /\ turn'[t] = row)
    BY <2>1, <2>2, OneMore DEF FaninInv
  <2>4. \A t \in Turns :
            \/ turn'[t].kind = turn[t].kind /\ turn'[t].of = turn[t].of
            \/ turn[t].state = "none" /\ turn'[t].kind # "wake"
    BY <2>2, <2>3
  <2> QED BY <2>1, <2>4, MovesKeepWakes
<1>2. ASSUME NEW a \in Agents, SetRunning(a) PROVE OneWakeInv'
  BY <1>2, MovesKeepWakes DEF SetRunning
<1>3. ASSUME NEW t \in Turns, Lease(t) \/ Retry(t) PROVE OneWakeInv'
  <2>1. \A u \in Turns : turn'[u].kind = turn[u].kind /\ turn'[u].of = turn[u].of
    <3>1. PICK s : turn' = [turn EXCEPT ![t].state = s]
      BY <1>3 DEF Lease, Retry
    <3>2. turn \in [Turns -> TurnRow]
      BY Rows DEF FaninInv
    <3> QED BY <3>1, <3>2 DEF TurnRow
  <2>2. UNCHANGED <<group, target, tx>>
    BY <1>3 DEF Lease, Retry
  <2> QED BY <2>1, <2>2, MovesKeepWakes
<1>4. ASSUME NEW t \in Turns, DeadlinePasses(t) PROVE OneWakeInv'
  <2>1. \A g \in Turns : /\ group'[g].state = group[g].state
                         /\ group'[g].expired = group[g].expired
                         /\ group'[g].raced = group[g].raced
    <3>1. group' = [group EXCEPT ![t].late = TRUE]
      BY <1>4 DEF DeadlinePasses
    <3>2. group \in [Turns -> GroupRow]
      BY Rows DEF FaninInv
    <3> QED BY <3>1, <3>2 DEF GroupRow
  <2>2. UNCHANGED <<turn, target, tx>>
    BY <1>4 DEF DeadlinePasses
  <2> QED BY <2>1, <2>2, MovesKeepWakes
<1>5. ASSUME UNCHANGED vars PROVE OneWakeInv'
  BY <1>5, MovesKeepWakes DEF vars
<1> QED BY <1>1, <1>2, <1>3, <1>4, <1>5

LEMMA OneWakeStep ==
  ASSUME FaninInv, OneWakeInv, [Next]_vars
  PROVE  OneWakeInv'
<1>1. ASSUME \E x \in tx : AskCommit(x) \/ CloseCommit(x) \/ SweepCommit(x)
      PROVE  OneWakeInv'
  BY <1>1, AskCommitKeepsWakes, CloseCommitKeepsWakes, SweepCommitKeepsWakes
<1>2. ASSUME \E w \in Workers, g \in Turns : Wake(w, g) PROVE OneWakeInv'
  BY <1>2, WakeKeepsWakes
<1> QED BY <1>1, <1>2, BeginsKeepWakes, OthersKeepWakes DEF Next

\* "Claim the group so two workers never wake a caller twice" (_wake_one), for any
\* number of workers and whatever overlaps: one wake turn and no more, where no worker
\* gave a question up and none found done what another was about to find done.
THEOREM WokenOnlyOnce == Spec => []OneWakeUnlessRaced
<1>1. Init => OneWakeInv
  <2> SUFFICES ASSUME Init PROVE OneWakeInv
    OBVIOUS
  <2>1. \A y : ~Closing(y) /\ ~Sweeping(y)
    BY DEF Init, Closing, Sweeping
  <2>2. \A g : WakesOf(g) = {}
    BY DEF Init, WakesOf, NoTurn
  <2> QED BY <2>1, <2>2 DEF OneWakeInv, StillPending, MarkedOnce, WokenOnce, Marks
<1>2. FaninInv /\ OneWakeInv /\ [Next]_vars => OneWakeInv'
  BY OneWakeStep
<1>3. FaninInv /\ OneWakeInv => OneWakeUnlessRaced
  <2> SUFFICES ASSUME FaninInv, OneWakeInv, NEW g \in Turns, ~group[g].expired, ~group[g].raced
               PROVE  Cardinality(WakesOf(g)) =< 1
    BY DEF OneWakeUnlessRaced
  <2>1. \A t, u \in WakesOf(g) : t = u
    BY DEF OneWakeInv, WokenOnce
  <2>2. WakesOf(g) = {} \/ \E t : WakesOf(g) = {t}
    BY <2>1
  <2> HIDE DEF WakesOf
  <2>3. CASE WakesOf(g) = {}
    BY <2>3, FS_EmptySet
  <2>4. CASE \E t : WakesOf(g) = {t}
    BY <2>4, FS_Singleton
  <2> QED BY <2>2, <2>3, <2>4
<1> QED BY <1>1, <1>2, <1>3, Invariant, PTL DEF Spec
=============================================================================
