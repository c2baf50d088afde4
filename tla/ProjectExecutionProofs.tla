------------------------ MODULE ProjectExecutionProofs ------------------------
(***************************************************************************)
(* Safety of a project execution, for any number of turns, attempts, slots *)
(* and revisions, however frames are lost, repeated or late.  RowIn is     *)
(* what the permit, the stop, the frames and the agent's process of one    *)
(* attempt have to do with each other; AloneIn is what the attempts of one *)
(* turn, and InStep what an attempt and the execution have.  Both are over *)
(* given tables, since a mutation fences and settles in one step.          *)
(***************************************************************************)
EXTENDS ProjectExecution, TLAPS

Execs == [status : Status, revision : 1 .. MaxRevision,
          mutation : {"none", "revise", "cancel", "deadline", "limit"}, blocked : BOOLEAN,
          reserved : 0 .. MaxNative, denied : BOOLEAN, due : BOOLEAN]
Turns == [Requests -> [state : {"none", "open", "closed"}, revision : 0 .. MaxRevision]]
Atts == [Attempts -> [state : {"none", "pending", "leased", "ended"}, local : BOOLEAN,
                      proof : {"none", "safe", "retry", "unknown"}]]
Stops == [Attempts -> {"none", "pending", "delivered", "unknown"} \cup Safe]
Agents == [Attempts ->
           [proc : {"none", "granted", "alive", "finished", "stopped", "refused"},
            tomb : BOOLEAN, sure : BOOLEAN]]

Live(at) == at.state \in {"pending", "leased"}
Gone(proof) == proof \in {"safe", "retry"}

\* An attempt has a process only after its permit, and a stop only when fenced;
\* whatever counts as a proof of the end was given after the end.
RowIn(a, turns, atts, stops) ==
    /\ agent[a].proc # "none" => atts[a].local
    /\ atts[a].state \in {"none", "pending"} => ~atts[a].local
    /\ turns[RequestOf[a]].state = "none" => atts[a].state = "none"
    /\ stops[a] # "none" => atts[a].state = "ended"
    /\ a \in asked => stops[a] # "none"
    /\ Gone(atts[a].proof) => atts[a].local /\ ~MayRun(a)
    /\ stops[a] \in Safe => ~MayRun(a)

\* The frames of a stop: the tombstone was asked for, and so was every answer.
Framed(a) ==
    /\ agent[a].tomb => a \in asked
    /\ \A status \in Safe \cup {"unknown"} : <<a, status>> \in receipts => a \in asked
    /\ \A status \in Safe : <<a, status>> \in receipts => ~MayRun(a)

\* While a turn has an attempt to run, its other attempts have nothing running.
AloneIn(atts) ==
    \A a, b \in Attempts :
        a # b /\ RequestOf[a] = RequestOf[b] /\ Live(atts[a]) => ~Live(atts[b]) /\ ~MayRun(b)

Row(a) == RowIn(a, turn, att, stop)
Alone == AloneIn(att)

\* What may run is of the execution's input; while the execution waits it has
\* a stop, and when it has ended nothing runs.
InStep ==
    \A a \in Attempts : MayRun(a) =>
        /\ exec.status \notin {"cancelled", "failed"}
        /\ exec.status \in Waiting => stop[a] # "none"
        /\ exec.status \in {"active", "completed"} => turn[RequestOf[a]].revision = exec.revision

IInv ==
    /\ TypeOK /\ (\A a \in Attempts : Row(a) /\ Framed(a)) /\ Alone /\ InStep
    /\ OneInvocationPerTurn /\ WaitsForAStop

\* TypeOK, table by table.
Typed ==
    /\ exec \in Execs /\ (exec.mutation # "none" <=> exec.status \in Waiting)
    /\ turn \in Turns /\ att \in Atts /\ stop \in Stops
    /\ asked \subseteq Attempts /\ receipts \subseteq Attempts \X (Safe \cup {"unknown"})
    /\ agent \in Agents /\ crashes \in 0 .. MaxCrashes /\ present \subseteq Requests

\* The typing of the rows, attempt by attempt, before and after a step.
LEMMA TypeParts == (TypeOK <=> Typed) /\ (TypeOK' <=> Typed')
  BY DEF TypeOK, Typed, Execs, Turns, Atts, Stops, Agents

-----------------------------------------------------------------------------
(* Fence and settlement.                                                     *)

\* What a settlement starts from: every invocation that may run has a stop.
Fenced(e, turns, atts, stops) ==
    /\ e \in Execs /\ e.mutation # "none" /\ e.status \in Waiting
    /\ turns \in Turns /\ atts \in Atts /\ stops \in Stops
    /\ \A r \in Requests : turns[r].state = "none" <=> turn[r].state = "none"
    /\ \A a \in Attempts : RowIn(a, turns, atts, stops) /\ (MayRun(a) => stops[a] # "none")
    /\ AloneIn(atts)

\* A settlement whose stops are all safe finds nothing running.
LEMMA NothingRuns ==
  ASSUME NEW e, NEW turns, NEW atts, NEW stops, Fenced(e, turns, atts, stops), AllSafe(stops),
         NEW a \in Attempts
  PROVE  ~MayRun(a)
  BY DEF Fenced, RowIn, AllSafe

\* What stays of the invariant when neither the agents nor the frames move.
LEMMA AgentsStay ==
  ASSUME IInv, UNCHANGED <<asked, receipts, agent, crashes, present>>
  PROVE  /\ asked' \subseteq Attempts /\ receipts' \subseteq Attempts \X (Safe \cup {"unknown"})
         /\ agent' \in Agents /\ crashes' \in 0 .. MaxCrashes /\ present' \subseteq Requests
         /\ \A a \in Attempts : Framed(a)' /\ (MayRun(a)' <=> MayRun(a))
         /\ OneInvocationPerTurn'
         /\ \A a \in Attempts : \A turns, atts, stops :
                RowIn(a, turns, atts, stops)' <=> RowIn(a, turns, atts, stops)
  BY TypeParts DEF IInv, Typed, Framed, MayRun, OneInvocationPerTurn, RowIn
\* The execution goes on, ends, or goes on waiting: nothing that is left behind
\* runs on.
LEMMA SettleKeeps ==
  ASSUME IInv, UNCHANGED <<asked, receipts, agent, crashes, present>>,
         NEW e, NEW turns, NEW atts, NEW stops, Fenced(e, turns, atts, stops),
         stop' = stops, Settle(e, turns, atts, stops)
  PROVE  IInv'
<1>0. e \in Execs /\ turns \in Turns /\ atts \in Atts /\ stops \in Stops
  BY DEF Fenced
<1>1. CASE /\ turn' = turns /\ att' = atts
           /\ exec' \in Execs /\ (exec'.mutation # "none" <=> exec'.status \in Waiting)
           /\ \/ exec' = e /\ ~AllSafe(stops)
              \/ AllSafe(stops) /\ (exec'.status \in Waiting => exec'.blocked)
  <2>1. TypeOK' BY <1>0, <1>1, AgentsStay, TypeParts DEF Typed
  <2>2. \A a \in Attempts : Row(a)' BY <1>1, AgentsStay DEF Fenced, Row, RowIn, MayRun
  <2>3. Alone' BY <1>1, AgentsStay DEF Fenced, Alone, AloneIn
  <2>4. InStep'
    <3>1. CASE exec' = e /\ ~AllSafe(stops)
      BY <1>1, <3>1, AgentsStay DEF Fenced, InStep, Waiting
    <3>2. CASE AllSafe(stops)
      BY <3>2, NothingRuns, AgentsStay DEF InStep
    <3> QED BY <1>1, <3>1, <3>2
  <2>5. WaitsForAStop'
    BY <1>0, <1>1 DEF WaitsForAStop, AllSafe, Accepts, Stops
  <2> QED BY <2>1, <2>2, <2>3, <2>4, <2>5, AgentsStay DEF IInv
<1>2. ASSUME AllSafe(stops), NEW r \in Requests, NEW a \in Attempts, Fresh(r, a),
             exec' = [e EXCEPT !.mutation = "none", !.status = "active"],
             turn' = [turns EXCEPT ![r] = [state |-> "open", revision |-> e.revision]],
             att' = [atts EXCEPT ![a] = [state |-> "pending", local |-> FALSE, proof |-> "none"]]
      PROVE  IInv'
  <2>1. \A b \in Attempts : ~MayRun(b) BY <1>2, NothingRuns
  <2>2. TypeOK'
    <3>1. exec' \in Execs BY <1>0, <1>2 DEF Execs, Status
    <3>2. exec'.mutation = "none" /\ exec'.status = "active" BY <1>0, <1>2 DEF Execs
    <3>3. turn' \in Turns BY <1>0, <1>2 DEF Execs, Turns
    <3>4. att' \in Atts BY <1>0, <1>2 DEF Atts
    <3> QED BY <1>0, <3>1, <3>2, <3>3, <3>4, AgentsStay, TypeParts DEF Waiting, Typed
  <2>3. \A b \in Attempts : RequestOf[b] = r => atts[b].state = "none" /\ agent[b].proc = "none" /\ stops[b] = "none"
    BY <1>2 DEF Fresh, Fenced, RowIn
  <2>4. \A b \in Attempts : Row(b)'
    <3> SUFFICES ASSUME NEW b \in Attempts PROVE Row(b)'
      OBVIOUS
    <3>1. RowIn(b, turns, atts, stops) /\ ~MayRun(b) /\ ~MayRun(b)' BY <2>1, AgentsStay DEF Fenced
    <3>2. UNCHANGED <<agent, asked>> /\ stop' = stops OBVIOUS
    <3>3. CASE b = a
      <4>1. att'[b] = [state |-> "pending", local |-> FALSE, proof |-> "none"] BY <1>0, <1>2, <3>3 DEF Atts
      <4>2. turn'[RequestOf[b]].state = "open" BY <1>0, <1>2, <3>3 DEF Fresh, Turns
      <4>3. agent[b].proc = "none" /\ stops[b] = "none" BY <1>2, <2>3, <3>3 DEF Fresh
      <4> QED BY <3>1, <3>2, <4>1, <4>2, <4>3 DEF Row, RowIn, Gone, Safe
    <3>4. CASE b # a
      <4>1. att'[b] = atts[b] BY <1>0, <1>2, <3>4 DEF Atts
      <4>2. turn'[RequestOf[b]].state = "none" => turns[RequestOf[b]].state = "none"
        BY <1>0, <1>2, ExecutionAssumption DEF Turns
      <4> QED BY <3>1, <3>2, <4>1, <4>2 DEF Row, RowIn
    <3> QED BY <3>3, <3>4
  <2>5. Alone'
    <3> SUFFICES ASSUME NEW x \in Attempts, NEW y \in Attempts, x # y, RequestOf[x] = RequestOf[y], Live(att'[x])
                 PROVE  ~Live(att'[y])
      BY <2>1, AgentsStay DEF Alone, AloneIn
    <3>1. CASE RequestOf[x] = r
      BY <1>0, <1>2, <2>3, <3>1 DEF Atts, Live, Fresh
    <3>2. CASE RequestOf[x] # r
      BY <1>0, <1>2, <3>2 DEF Atts, Live, Fresh, Fenced, AloneIn
    <3> QED BY <3>1, <3>2
  <2>6. InStep' /\ WaitsForAStop'
    BY <1>0, <1>2, <2>1, AgentsStay DEF InStep, WaitsForAStop, Execs, Waiting
  <2> QED BY <2>2, <2>4, <2>5, <2>6, AgentsStay DEF IInv
<1>3. CASE AllSafe(stops) /\ e.mutation # "revise"
           /\ exec' = [e EXCEPT !.mutation = "none",
                                !.status = IF e.mutation = "cancel" THEN "cancelled" ELSE "failed"]
           /\ turn' = turns /\ att' = atts
  <2>1. exec' \in Execs /\ exec'.mutation = "none" /\ exec'.status \in {"cancelled", "failed"}
    BY <1>0, <1>3 DEF Execs, Status
  <2> QED BY <1>1, <1>3, <2>1 DEF Waiting
<1>4. CASE AllSafe(stops) /\ exec' = [e EXCEPT !.blocked = TRUE] /\ turn' = turns /\ att' = atts
  <2>1. exec' \in Execs /\ exec'.mutation = e.mutation /\ exec'.status = e.status /\ exec'.blocked
    BY <1>0, <1>4 DEF Execs
  <2> QED BY <1>1, <1>4, <2>1 DEF Fenced
<1>5. CASE ~AllSafe(stops) /\ exec' = e /\ turn' = turns /\ att' = atts
  <2>1. exec' \in Execs /\ exec'.mutation # "none" /\ exec'.status \in Waiting BY <1>5 DEF Fenced
  <2> QED BY <1>1, <1>5, <2>1
<1> QED BY <1>2, <1>3, <1>4, <1>5 DEF Settle

\* The report of an invocation's end that a mutation may come with.
Amends(atts) ==
    /\ atts \in Atts
    /\ \A a \in Attempts :
           /\ atts[a].state = att[a].state /\ atts[a].local = att[a].local
           /\ Gone(atts[a].proof) => atts[a].local /\ ~MayRun(a)

\* The fence reaches every invocation that may run, and a mutation keeps the
\* invariant whether it settles at once or not.
LEMMA MutateKeeps ==
  ASSUME IInv, UNCHANGED <<asked, receipts, agent, crashes, present>>,
         NEW action \in {"revise", "cancel", "deadline", "limit"}, NEW revision \in 1 .. MaxRevision,
         NEW atts, Amends(atts), Mutate(action, revision, atts)
  PROVE  IInv'
<1> DEFINE e == [exec EXCEPT !.status = IF action = "revise" THEN "revising" ELSE "cancelling",
                             !.mutation = action, !.revision = revision, !.blocked = FALSE]
<1>0. exec \in Execs /\ turn \in Turns /\ stop \in Stops /\ atts \in Atts
  BY TypeParts DEF IInv, Amends, Typed
<1>1. e \in Execs /\ e.mutation # "none" /\ e.status \in Waiting
  BY <1>0 DEF Execs, Status, Waiting
<1>2. FencedTurns \in Turns /\ \A r \in Requests : FencedTurns[r].state = "none" <=> turn[r].state = "none"
  BY <1>0 DEF FencedTurns, Turns
<1>3. FencedAttempts(atts) \in Atts
      /\ \A a \in Attempts :
            /\ FencedAttempts(atts)[a].state = IF Live(atts[a]) THEN "ended" ELSE atts[a].state
            /\ FencedAttempts(atts)[a].local = atts[a].local
            /\ FencedAttempts(atts)[a].proof = atts[a].proof
  BY <1>0 DEF FencedAttempts, Atts, Live
<1>4. FencedStops(atts) \in Stops
  BY <1>0 DEF FencedStops, Stops, Safe
<1>5. ASSUME NEW a \in Attempts
      PROVE  RowIn(a, FencedTurns, FencedAttempts(atts), FencedStops(atts))
             /\ (MayRun(a) => FencedStops(atts)[a] # "none")
  <2>1. RowIn(a, turn, att, stop) BY DEF IInv, Row
  <2>2. /\ atts[a].state = att[a].state /\ atts[a].local = att[a].local
        /\ Gone(atts[a].proof) => atts[a].local /\ ~MayRun(a)
    BY DEF Amends
  <2>3. FencedStops(atts)[a] =
          IF stop[a] # "none" \/ Gone(atts[a].proof) \/ ~(atts[a].local \/ Live(atts[a]))
          THEN stop[a] ELSE IF atts[a].state = "pending" THEN "not_started" ELSE "pending"
    BY DEF FencedStops, Gone, Live
  <2>4. MayRun(a) => att[a].local /\ att[a].state \in {"leased", "ended"}
    BY <1>0, <2>1, TypeParts DEF RowIn, MayRun, IInv, Atts, Typed
  <2>5. atts[a].state \in {"none", "pending", "leased", "ended"} BY <1>0 DEF Atts
  <2>6. RequestOf[a] \in Requests BY ExecutionAssumption
  <2>7. MayRun(a) => FencedStops(atts)[a] # "none" BY <2>2, <2>3, <2>4
  <2>8. FencedStops(atts)[a] \in Safe => ~MayRun(a)
    BY <2>1, <2>2, <2>3, <2>4 DEF RowIn, Safe
  <2>9. FencedStops(atts)[a] # "none" => FencedAttempts(atts)[a].state = "ended"
    BY <1>3, <2>1, <2>2, <2>3, <2>5 DEF RowIn, Live
  <2> QED BY <1>2, <1>3, <2>1, <2>2, <2>3, <2>6, <2>7, <2>8, <2>9 DEF RowIn, Live
<1>6. AloneIn(FencedAttempts(atts))
  BY <1>3 DEF AloneIn, Live
<1>7. Fenced(e, FencedTurns, FencedAttempts(atts), FencedStops(atts))
  BY <1>1, <1>2, <1>3, <1>4, <1>5, <1>6 DEF Fenced
<1>8. stop' = FencedStops(atts) /\ Settle(e, FencedTurns, FencedAttempts(atts), FencedStops(atts))
  BY DEF Mutate
<1> QED BY <1>7, <1>8, SettleKeeps

-----------------------------------------------------------------------------
(* The mutations.                                                            *)

\* The table as it is is a report that adds nothing.
LEMMA NothingReported == IInv => Amends(att)
  BY TypeParts DEF IInv, Typed, Amends, Row, RowIn

\* What a step that starts nothing has to show.
LEMMA CalmKeeps ==
  ASSUME IInv, TypeOK', \A a \in Attempts : Row(a)' /\ Framed(a)', Alone', WaitsForAStop',
         \A a \in Attempts : MayRun(a)' =>
             /\ MayRun(a)
             /\ stop[a] # "none" => stop'[a] # "none"
             /\ turn'[RequestOf[a]].revision = turn[RequestOf[a]].revision,
         exec'.status = exec.status \/ (exec.status = "active" /\ exec'.status = "completed"),
         exec'.revision = exec.revision
  PROVE  IInv'
<1>1. InStep' BY DEF IInv, InStep, Waiting
<1>2. OneInvocationPerTurn' BY DEF IInv, OneInvocationPerTurn
<1> QED BY <1>1, <1>2 DEF IInv

\* A step that only marks the execution.
LEMMA MarkKeeps ==
  ASSUME IInv, UNCHANGED <<turn, att, stop, asked, receipts, agent, crashes, present>>,
         exec' \in Execs, exec'.mutation = exec.mutation, exec'.revision = exec.revision,
         exec'.blocked = exec.blocked,
         exec'.status = exec.status \/ (exec.status = "active" /\ exec'.status = "completed")
  PROVE  IInv'
<1>1. TypeOK' BY TypeParts DEF IInv, Typed, Waiting
<1>2. \A a \in Attempts : Row(a)' /\ Framed(a)' BY DEF IInv, Row, RowIn, Framed, MayRun
<1>3. Alone' BY DEF IInv, Alone, AloneIn, MayRun
<1>4. WaitsForAStop' BY DEF IInv, WaitsForAStop, Waiting, Accepts
<1>5. \A a \in Attempts : MayRun(a)' => MayRun(a) BY DEF MayRun
<1> QED BY <1>1, <1>2, <1>3, <1>4, <1>5, CalmKeeps

\* A limit that is reached marks the execution and stops what runs.
LEMMA LimitKeeps ==
  ASSUME IInv, CloseLimit, UNCHANGED <<asked, receipts, agent, crashes, present>>
  PROVE  IInv'
<1>0. exec \in Execs BY TypeParts DEF IInv, Typed
<1>1. CASE exec' = [exec EXCEPT !.denied = TRUE] /\ UNCHANGED <<turn, att, stop>>
  <2>1. exec' \in Execs BY <1>0, <1>1 DEF Execs
  <2>2. exec'.mutation = exec.mutation /\ exec'.revision = exec.revision /\ exec'.blocked = exec.blocked
        /\ exec'.status = exec.status
    BY <1>0, <1>1 DEF Execs
  <2> QED BY <1>1, <2>1, <2>2, MarkKeeps
<1>2. CASE Mutate("limit", exec.revision, att)
  <2>1. exec.revision \in 1 .. MaxRevision BY <1>0 DEF Execs
  <2> QED BY <1>2, <2>1, NothingReported, MutateKeeps
<1> QED BY <1>1, <1>2 DEF CloseLimit

\* The calls on the execution itself keep the invariant.
LEMMA ExecutionSteps ==
  ASSUME IInv,
         \/ Revise \/ Cancel \/ DeadlinePasses \/ Expire \/ Denied \/ Reconcile \/ Finish
         \/ \E a \in Attempts, overspent \in BOOLEAN : SettleUsage(a, overspent)
  PROVE  IInv'
<1>0. exec \in Execs /\ exec.revision \in 1 .. MaxRevision BY TypeParts DEF IInv, Typed, Execs
<1>1. CASE Revise
  <2>1. exec.revision + 1 \in 1 .. MaxRevision BY <1>0, <1>1, ExecutionAssumption DEF Revise
  <2> QED BY <1>1, <2>1, NothingReported, MutateKeeps DEF Revise
<1>2. CASE Cancel
  BY <1>0, <1>2, NothingReported, MutateKeeps DEF Cancel
<1>3. CASE Expire
  BY <1>0, <1>3, NothingReported, MutateKeeps DEF Expire
<1>4. CASE Denied \/ Reconcile
  BY <1>4, LimitKeeps DEF Denied, Reconcile
<1>5. CASE DeadlinePasses
  <2>1. exec' \in Execs /\ exec'.mutation = exec.mutation /\ exec'.revision = exec.revision
        /\ exec'.blocked = exec.blocked /\ exec'.status = exec.status
    BY <1>0, <1>5 DEF DeadlinePasses, Execs
  <2> QED BY <1>5, <2>1, MarkKeeps DEF DeadlinePasses
<1>6. CASE Finish
  <2>1. exec.status = "active" BY <1>6 DEF Finish, Current
  <2>2. exec' \in Execs /\ exec'.mutation = exec.mutation /\ exec'.revision = exec.revision
        /\ exec'.blocked = exec.blocked /\ exec'.status = "completed"
    BY <1>0, <1>6 DEF Finish, Execs, Status
  <2> QED BY <1>6, <2>1, <2>2, MarkKeeps DEF Finish
<1>7. ASSUME NEW a \in Attempts, NEW overspent \in BOOLEAN, SettleUsage(a, overspent) PROVE IInv'
  <2>1. CASE Mutate("limit", exec.revision, att)
    BY <1>0, <1>7, <2>1, NothingReported, MutateKeeps DEF SettleUsage
  <2>2. CASE exec' = [exec EXCEPT !.denied = @ \/ ~Admitted] /\ UNCHANGED <<turn, att, stop>>
    <3>1. exec' \in Execs /\ exec'.mutation = exec.mutation /\ exec'.revision = exec.revision
          /\ exec'.blocked = exec.blocked /\ exec'.status = exec.status
      BY <1>0, <2>2 DEF Execs
    <3> QED BY <1>7, <2>2, <3>1, MarkKeeps DEF SettleUsage
  <2> QED BY <1>7, <2>1, <2>2 DEF SettleUsage
<1> QED BY <1>1, <1>2, <1>3, <1>4, <1>5, <1>6, <1>7

-----------------------------------------------------------------------------
(* Turns and attempts.                                                       *)

\* A new turn's first attempt.
LEMMA DelegateKeeps ==
  ASSUME IInv, NEW r \in Requests, NEW a \in Attempts, Delegate(r, a)
  PROVE  IInv'
<1>0. Typed BY TypeParts DEF IInv
<1>1. Fresh(r, a) /\ UNCHANGED <<exec, stop, asked, receipts, agent, crashes, present>> BY DEF Delegate
<1>2. turn' = [turn EXCEPT ![r] = [state |-> "open", revision |-> exec.revision]]
      /\ att' = [att EXCEPT ![a].state = "pending"]
  BY DEF Delegate
<1>3. \A b \in Attempts : RequestOf[b] = r =>
        att[b].state = "none" /\ agent[b].proc = "none" /\ stop[b] = "none" /\ ~att[b].local
  BY <1>1 DEF IInv, Row, RowIn, Fresh
<1>4. \A b \in Attempts : MayRun(b)' <=> MayRun(b) BY <1>1 DEF MayRun
<1>5. TypeOK'
  <2>1. turn' \in Turns BY <1>0, <1>2 DEF Typed, Turns, Execs
  <2>2. att' \in Atts BY <1>0, <1>2 DEF Typed, Atts
  <2> QED BY <1>0, <1>1, <2>1, <2>2, TypeParts DEF Typed
<1>6. ASSUME NEW b \in Attempts PROVE Row(b)' /\ Framed(b)'
  <2>1. Framed(b)' BY <1>1 DEF IInv, Framed, MayRun
  <2>2. Row(b) BY DEF IInv
  <2>3. CASE b = a
    <3>1. att'[b].state = "pending" /\ att'[b].local = att[b].local /\ att'[b].proof = att[b].proof
      BY <1>0, <1>2, <2>3 DEF Typed, Atts
    <3>2. turn'[RequestOf[b]].state = "open" BY <1>0, <1>1, <1>2, <2>3 DEF Fresh, Typed, Turns
    <3> QED BY <1>1, <1>3, <1>4, <2>1, <2>2, <2>3, <3>1, <3>2 DEF Row, RowIn, Fresh, Safe
  <2>4. CASE b # a
    <3>1. att'[b] = att[b] BY <1>0, <1>2, <2>4 DEF Typed, Atts
    <3>2. turn'[RequestOf[b]].state = "none" => turn[RequestOf[b]].state = "none"
      BY <1>0, <1>2, ExecutionAssumption DEF Typed, Turns
    <3> QED BY <1>1, <1>4, <2>1, <2>2, <3>1, <3>2 DEF Row, RowIn
  <2> QED BY <2>1, <2>3, <2>4
<1>7. Alone'
  <2> SUFFICES ASSUME NEW x \in Attempts, NEW y \in Attempts, x # y, RequestOf[x] = RequestOf[y], Live(att'[x])
               PROVE  ~Live(att'[y]) /\ ~MayRun(y)
    BY <1>4 DEF Alone, AloneIn
  <2>1. \A b \in Attempts \ {a} : att'[b] = att[b] BY <1>0, <1>2 DEF Typed, Atts
  <2>2. CASE RequestOf[x] = r
    BY <1>1, <1>3, <2>1, <2>2 DEF Live, Fresh, MayRun
  <2>3. CASE RequestOf[x] # r
    BY <1>1, <2>1, <2>3 DEF Fresh, IInv, Alone, AloneIn
  <2> QED BY <2>2, <2>3
<1>8. WaitsForAStop' BY <1>1 DEF IInv, WaitsForAStop, Accepts
<1>9. ASSUME NEW b \in Attempts, MayRun(b) PROVE turn'[RequestOf[b]] = turn[RequestOf[b]]
  BY <1>0, <1>2, <1>3, <1>9, ExecutionAssumption DEF Typed, Turns, MayRun
<1> QED BY <1>1, <1>4, <1>5, <1>6, <1>7, <1>8, <1>9, CalmKeeps

\* A step on one attempt's row of the table that starts nothing: no turn
\* becomes fresh and no attempt but a comes to life.
LEMMA AttemptKeeps ==
  ASSUME IInv, NEW a \in Attempts, UNCHANGED <<stop, asked, receipts, agent, crashes, present>>,
         turn' \in Turns, att' \in Atts,
         exec' \in Execs, exec'.mutation = exec.mutation, exec'.revision = exec.revision,
         exec'.blocked = exec.blocked, exec'.status = exec.status,
         \A r \in Requests : turn'[r].revision = turn[r].revision /\ (turn'[r].state = "none" <=> turn[r].state = "none"),
         \A b \in Attempts \ {a} : att'[b] = att[b],
         att'[a].local = att[a].local, Live(att'[a]) => Live(att[a]),
         att'[a].state \in {"none", "pending"} => att[a].state \in {"none", "pending"},
         att'[a].state = "none" <=> att[a].state = "none",
         att[a].state = "ended" => att'[a].state = "ended",
         Gone(att'[a].proof) => att[a].local /\ ~MayRun(a)
  PROVE  IInv'
<1>1. TypeOK' BY TypeParts DEF IInv, Typed, Waiting
<1>2. \A b \in Attempts : MayRun(b)' <=> MayRun(b) BY DEF MayRun
<1>3. ASSUME NEW b \in Attempts PROVE Row(b)' /\ Framed(b)'
  <2>1. Framed(b)' BY DEF IInv, Framed, MayRun
  <2>2. Row(b) /\ RequestOf[b] \in Requests BY ExecutionAssumption DEF IInv
  <2>3. CASE b = a BY <1>2, <2>1, <2>2, <2>3 DEF Row, RowIn
  <2>4. CASE b # a BY <1>2, <2>1, <2>2, <2>4 DEF Row, RowIn
  <2> QED BY <2>1, <2>3, <2>4
<1>4. \A b \in Attempts : Live(att'[b]) => Live(att[b]) OBVIOUS
<1>5. Alone' BY <1>2, <1>4 DEF IInv, Alone, AloneIn
<1>6. WaitsForAStop' BY DEF IInv, WaitsForAStop, Accepts
<1> QED BY <1>1, <1>2, <1>3, <1>5, <1>6, CalmKeeps, ExecutionAssumption

\* So do the steps that move one attempt forward.
LEMMA AttemptSteps ==
  ASSUME IInv, NEW a \in Attempts,
         Dispatch(a) \/ TurnEnds(a) \/ \E proof \in {"safe", "retry", "unknown"} : Terminal(a, proof, FALSE)
  PROVE  IInv'
<1>0. Typed BY TypeParts DEF IInv
<1>1. CASE Dispatch(a)
  <2>1. att' \in Atts /\ att'[a].local = att[a].local /\ att'[a].proof = att[a].proof
        /\ att'[a].state = "leased" /\ att[a].state = "pending"
        /\ \A b \in Attempts \ {a} : att'[b] = att[b]
    BY <1>0, <1>1 DEF Dispatch, Typed, Atts
  <2> QED BY <1>0, <1>1, <2>1, AttemptKeeps DEF Dispatch, Typed, Live, IInv, Row, RowIn
<1>2. CASE TurnEnds(a)
  <2>1. att' \in Atts /\ att'[a].local = att[a].local /\ att'[a].proof = att[a].proof
        /\ att'[a].state = "ended" /\ Live(att[a])
        /\ \A b \in Attempts \ {a} : att'[b] = att[b]
    BY <1>0, <1>2 DEF TurnEnds, Typed, Atts, Live
  <2>2. turn' \in Turns
        /\ \A r \in Requests : turn'[r].revision = turn[r].revision /\ (turn'[r].state = "none" <=> turn[r].state = "none")
    BY <1>0, <1>2, ExecutionAssumption DEF TurnEnds, Typed, Turns
  <2> QED BY <1>0, <1>2, <2>1, <2>2, AttemptKeeps DEF TurnEnds, Typed, Live, IInv, Row, RowIn
<1>3. ASSUME NEW proof \in {"safe", "retry", "unknown"}, Terminal(a, proof, FALSE) PROVE IInv'
  <2>1. att' \in Atts /\ att'[a].local = att[a].local /\ att'[a].proof = proof
        /\ att'[a].state = att[a].state /\ att[a].local
        /\ \A b \in Attempts \ {a} : att'[b] = att[b]
    <3>1. att' = [att EXCEPT ![a].proof = proof] /\ att[a].local BY <1>3 DEF Terminal
    <3> QED BY <1>0, <3>1 DEF Typed, Atts
  <2>2. exec' \in Execs /\ exec'.mutation = exec.mutation /\ exec'.revision = exec.revision
        /\ exec'.blocked = exec.blocked /\ exec'.status = exec.status
    <3>1. exec' = [exec EXCEPT !.denied = exec.denied \/ ~Admitted] BY <1>3 DEF Terminal
    <3>2. (exec.denied \/ ~Admitted) \in BOOLEAN OBVIOUS
    <3> HIDE DEF Admitted
    <3> QED BY <1>0, <3>1, <3>2 DEF Typed, Execs
  <2>3. Gone(proof) => ~MayRun(a) BY <1>3 DEF Terminal, Proves, Gone, MayRun
  <2>4. UNCHANGED <<turn, stop, asked, receipts, agent, crashes, present>> BY <1>3 DEF Terminal
  <2> QED BY <1>0, <2>1, <2>2, <2>3, <2>4, AttemptKeeps DEF Typed, Live
<1> QED BY <1>1, <1>2, <1>3

\* Spent tokens close the execution with the report that told of them.
LEMMA OverspentKeeps ==
  ASSUME IInv, NEW a \in Attempts, NEW proof \in {"safe", "retry", "unknown"}, Terminal(a, proof, TRUE)
  PROVE  IInv'
<1>0. Typed /\ exec.revision \in 1 .. MaxRevision BY TypeParts DEF IInv, Typed, Execs
<1>1. Mutate("limit", exec.revision, [att EXCEPT ![a].proof = proof])
      /\ UNCHANGED <<asked, receipts, agent, crashes, present>>
  BY DEF Terminal
<1>2. Gone(proof) => att[a].local /\ ~MayRun(a) BY DEF Terminal, Proves, Gone, MayRun
<1>3. Amends([att EXCEPT ![a].proof = proof])
  <2>1. [att EXCEPT ![a].proof = proof] \in Atts BY <1>0 DEF Typed, Atts
  <2>2. ASSUME NEW b \in Attempts
        PROVE  LET at == [att EXCEPT ![a].proof = proof][b]
               IN  /\ at.state = att[b].state /\ at.local = att[b].local
                   /\ at.proof = IF b = a THEN proof ELSE att[b].proof
    BY <1>0 DEF Typed, Atts
  <2> QED BY <1>2, <2>1, <2>2, NothingReported DEF Amends
<1> QED BY <1>0, <1>1, <1>3, MutateKeeps

\* The permit: the one step after which something more may run.
LEMMA PermitKeeps ==
  ASSUME IInv, NEW a \in Attempts, Permit(a)
  PROVE  IInv'
<1>0. Typed BY TypeParts DEF IInv
<1>1. /\ att[a].state = "leased" /\ ~att[a].local /\ Current(a) /\ Admitted
      /\ att' = [att EXCEPT ![a].local = TRUE]
      /\ exec' = [exec EXCEPT !.reserved = exec.reserved + 1]
      /\ agent' = [agent EXCEPT ![a].proc = "granted"]
      /\ UNCHANGED <<turn, stop, asked, receipts, crashes, present>>
  BY DEF Permit
<1>2. /\ exec' \in Execs /\ exec'.status = exec.status /\ exec'.mutation = exec.mutation
      /\ exec'.revision = exec.revision /\ exec'.blocked = exec.blocked
  BY <1>0, <1>1, ExecutionAssumption DEF Typed, Execs, Admitted
<1>3. /\ att' \in Atts /\ att'[a].state = "leased" /\ att'[a].local /\ att'[a].proof = att[a].proof
      /\ \A b \in Attempts \ {a} : att'[b] = att[b]
  BY <1>0, <1>1 DEF Typed, Atts
<1>4. /\ agent' \in Agents /\ agent'[a].proc = "granted" /\ agent'[a].tomb = agent[a].tomb
      /\ \A b \in Attempts \ {a} : agent'[b] = agent[b]
  BY <1>0, <1>1 DEF Typed, Agents
<1>5. TypeOK' BY <1>0, <1>1, <1>2, <1>3, <1>4, TypeParts DEF Typed
<1>6. \A b \in Attempts \ {a} : MayRun(b)' <=> MayRun(b) BY <1>4 DEF MayRun
<1>7. exec.status = "active" /\ turn[RequestOf[a]].revision = exec.revision BY <1>1 DEF Current
<1>8. Row(a) /\ Framed(a) /\ stop[a] = "none" /\ a \notin asked
      /\ (\A status \in Safe : <<a, status>> \notin receipts)
  BY <1>1 DEF IInv, Row, RowIn, Framed
<1>9. ASSUME NEW b \in Attempts PROVE Row(b)' /\ Framed(b)'
  <2>1. CASE b = a
    <3>1. Row(b)' BY <1>1, <1>3, <1>4, <1>8, <2>1 DEF Row, RowIn, Safe
    <3>2. Framed(b)' BY <1>1, <1>4, <1>8, <2>1 DEF Framed
    <3> QED BY <3>1, <3>2
  <2>2. CASE b # a
    <3>1. Row(b) /\ Framed(b) BY DEF IInv
    <3>2. Row(b)' BY <1>1, <1>3, <1>4, <1>6, <2>2, <3>1 DEF Row, RowIn
    <3>3. Framed(b)' BY <1>1, <1>4, <1>6, <2>2, <3>1 DEF Framed
    <3> QED BY <3>2, <3>3
  <2> QED BY <2>1, <2>2
<1>10. \A b \in Attempts \ {a} : RequestOf[b] = RequestOf[a] => ~Live(att[b]) /\ ~MayRun(b)
  BY <1>1 DEF IInv, Alone, AloneIn, Live
<1>11. Alone' BY <1>1, <1>3, <1>6, <1>10 DEF IInv, Alone, AloneIn, Live
<1>12. InStep' BY <1>1, <1>2, <1>6, <1>7 DEF IInv, InStep, Waiting
<1>13. OneInvocationPerTurn' BY <1>6, <1>10 DEF IInv, OneInvocationPerTurn
<1>14. WaitsForAStop' BY <1>2, <1>7 DEF WaitsForAStop, Waiting
<1> QED BY <1>5, <1>9, <1>11, <1>12, <1>13, <1>14 DEF IInv

\* A retry takes the turn over from an attempt that runs nothing.
LEMMA RetryKeeps ==
  ASSUME IInv, NEW a \in Attempts, NEW b \in Attempts, Retry(a, b)
  PROVE  IInv'
<1>0. Typed BY TypeParts DEF IInv
<1>1. /\ Running(a) /\ MayRetry(a) /\ RequestOf[b] = RequestOf[a] /\ att[b].state = "none"
      /\ att' = [[att EXCEPT ![a].state = "ended"] EXCEPT ![b].state = "pending"]
      /\ UNCHANGED <<exec, turn, stop, asked, receipts, agent, crashes, present>>
  BY DEF Retry
<1>2. a # b BY <1>1 DEF Running
<1>3. /\ att' \in Atts
      /\ att'[a].state = "ended" /\ att'[a].local = att[a].local /\ att'[a].proof = att[a].proof
      /\ att'[b].state = "pending" /\ att'[b].local = att[b].local /\ att'[b].proof = att[b].proof
      /\ \A c \in Attempts \ {a, b} : att'[c] = att[c]
  BY <1>0, <1>1, <1>2 DEF Typed, Atts
<1>4. \A c \in Attempts : MayRun(c)' <=> MayRun(c) BY <1>1 DEF MayRun
<1>5. TypeOK' BY <1>0, <1>1, <1>3, TypeParts DEF Typed
<1>6. att[a].state = "leased" /\ turn[RequestOf[a]].state = "open" BY <1>1 DEF Running
<1>7. ~MayRun(a) BY <1>1 DEF MayRetry, IInv, Row, RowIn, Gone, MayRun
<1>8. ~MayRun(b) BY <1>1 DEF IInv, Row, RowIn, MayRun
<1>9. ASSUME NEW c \in Attempts PROVE Row(c)' /\ Framed(c)'
  <2>0. Row(c) BY DEF IInv
  <2>1. Framed(c)' BY <1>1, <1>4 DEF IInv, Framed
  <2>2. CASE c = a BY <1>1, <1>3, <1>4, <1>6, <2>0, <2>1, <2>2 DEF Row, RowIn
  <2>3. CASE c = b BY <1>1, <1>3, <1>4, <1>6, <2>0, <2>1, <2>3 DEF Row, RowIn
  <2>4. CASE c \notin {a, b} BY <1>1, <1>3, <1>4, <2>0, <2>1, <2>4 DEF Row, RowIn
  <2> QED BY <2>2, <2>3, <2>4
<1>10. \A c \in Attempts \ {a} : RequestOf[c] = RequestOf[a] => ~Live(att[c]) /\ ~MayRun(c)
  BY <1>6 DEF IInv, Alone, AloneIn, Live
<1>11. Alone'
  <2> SUFFICES ASSUME NEW x \in Attempts, NEW y \in Attempts, x # y, RequestOf[x] = RequestOf[y], Live(att'[x])
               PROVE  ~Live(att'[y]) /\ ~MayRun(y)
    BY <1>4 DEF Alone, AloneIn
  <2>1. CASE RequestOf[x] = RequestOf[a]
    <3>1. x # a BY <1>3 DEF Live
    <3>2. x = b BY <1>3, <1>10, <2>1, <3>1
    <3>3. CASE y = a BY <1>3, <1>7, <3>3 DEF Live
    <3>4. CASE y # a
      <4>1. att'[y] = att[y] /\ RequestOf[y] = RequestOf[a] BY <1>3, <2>1, <3>2, <3>4
      <4> QED BY <1>10, <3>4, <4>1
    <3> QED BY <3>3, <3>4
  <2>2. CASE RequestOf[x] # RequestOf[a]
    BY <1>1, <1>3, <2>2 DEF IInv, Alone, AloneIn
  <2> QED BY <2>1, <2>2
<1>12. WaitsForAStop' BY <1>1 DEF IInv, WaitsForAStop, Accepts
<1> QED BY <1>1, <1>4, <1>5, <1>9, <1>11, <1>12, CalmKeeps

-----------------------------------------------------------------------------
(* Stops and their frames.                                                   *)

\* An order that reaches its agent, or is lost, says what the table says.
LEMMA DeliveryKeeps ==
  ASSUME IInv, NEW a \in Attempts, DeliverStop(a) \/ MarkDelivered(a) \/ ExpireStop(a)
  PROVE  IInv'
<1>0. Typed BY TypeParts DEF IInv
<1>1. UNCHANGED <<exec, turn, att, receipts, agent, crashes, present>>
  BY DEF DeliverStop, MarkDelivered, ExpireStop, server
<1>2. \A b \in Attempts : MayRun(b)' <=> MayRun(b) BY <1>1 DEF MayRun
<1>3. Alone' BY <1>1, <1>2 DEF IInv, Alone, AloneIn
<1>4. CASE DeliverStop(a)
  <2>1. stop[a] # "none" /\ asked' = asked \cup {a} /\ stop' = stop BY <1>4 DEF DeliverStop, server
  <2>2. TypeOK' BY <1>0, <1>1, <2>1, TypeParts DEF Typed
  <2>3. \A b \in Attempts : Row(b)' BY <1>1, <1>2, <2>1 DEF IInv, Row, RowIn
  <2>4. \A b \in Attempts : Framed(b)' BY <1>1, <1>2, <2>1 DEF IInv, Framed
  <2>5. WaitsForAStop' BY <1>1, <2>1 DEF IInv, WaitsForAStop, Accepts
  <2> QED BY <1>1, <1>2, <1>3, <2>1, <2>2, <2>3, <2>4, <2>5, CalmKeeps
<1>5. CASE MarkDelivered(a) \/ ExpireStop(a)
  <2>1. /\ asked' = asked /\ stop[a] \in {"pending", "delivered"}
        /\ stop' \in Stops /\ stop'[a] \in {"delivered", "unknown"}
        /\ \A b \in Attempts \ {a} : stop'[b] = stop[b]
    <3>1. PICK status \in {"delivered", "unknown"} : stop' = [stop EXCEPT ![a] = status]
      BY <1>5 DEF MarkDelivered, ExpireStop
    <3>2. asked' = asked /\ stop[a] \in {"pending", "delivered"} BY <1>5 DEF MarkDelivered, ExpireStop
    <3> QED BY <1>0, <3>1, <3>2 DEF Typed, Stops
  <2>2. TypeOK' BY <1>0, <1>1, <2>1, TypeParts DEF Typed
  <2>3. ASSUME NEW b \in Attempts PROVE Row(b)'
    <3>0. Row(b) BY DEF IInv
    <3>1. CASE b = a BY <1>1, <1>2, <2>1, <3>0, <3>1 DEF Row, RowIn, Safe
    <3>2. CASE b # a BY <1>1, <1>2, <2>1, <3>0, <3>2 DEF Row, RowIn
    <3> QED BY <3>1, <3>2
  <2>4. \A b \in Attempts : Framed(b)' BY <1>1, <1>2, <2>1 DEF IInv, Framed
  <2>5. WaitsForAStop' BY <1>1, <2>1 DEF IInv, WaitsForAStop, Accepts
  <2>6. \A b \in Attempts : stop[b] # "none" => stop'[b] # "none" BY <2>1
  <2> QED BY <1>1, <1>2, <1>3, <2>2, <2>3, <2>4, <2>5, <2>6, CalmKeeps
<1> QED BY <1>4, <1>5

\* A proof that is taken is the proof of something that has ended.
LEMMA ReceiveKeeps ==
  ASSUME IInv, NEW a \in Attempts, NEW status \in Safe \cup {"unknown"}, Receive(a, status)
  PROVE  IInv'
<1>0. Typed BY TypeParts DEF IInv
<1>1. /\ <<a, status>> \in receipts /\ Accepts(a) /\ stop' = [stop EXCEPT ![a] = status]
      /\ UNCHANGED <<asked, receipts, agent, crashes, present>>
  BY DEF Receive
<1>2. /\ stop' \in Stops /\ stop'[a] = status /\ status # "none" /\ stop[a] # "none"
      /\ \A b \in Attempts \ {a} : stop'[b] = stop[b]
  BY <1>0, <1>1 DEF Typed, Stops, Accepts, Safe
<1>3. \A b \in Attempts : MayRun(b)' <=> MayRun(b) BY <1>1 DEF MayRun
<1>4. ASSUME NEW b \in Attempts PROVE RowIn(b, turn, att, stop')
  <2>0. RowIn(b, turn, att, stop) /\ Framed(b) BY DEF IInv, Row
  <2>1. CASE b = a BY <1>1, <1>2, <2>0, <2>1 DEF RowIn, Framed
  <2>2. CASE b # a BY <1>2, <2>0, <2>2 DEF RowIn
  <2> QED BY <2>1, <2>2
<1>5. CASE exec.status \in Waiting /\ Settle(exec, turn, att, stop')
  <2>1. \A b \in Attempts : MayRun(b) => stop'[b] # "none"
    BY <1>2, <1>5 DEF IInv, InStep
  <2>2. Fenced(exec, turn, att, stop')
    BY <1>0, <1>2, <1>4, <1>5, <2>1 DEF Fenced, Typed, IInv, Alone
  <2> QED BY <1>1, <1>5, <2>2, SettleKeeps
<1>6. CASE exec.status \notin Waiting /\ UNCHANGED <<exec, turn, att>>
  <2>1. TypeOK' BY <1>0, <1>1, <1>2, <1>6, TypeParts DEF Typed
  <2>2. \A b \in Attempts : Row(b)' BY <1>1, <1>3, <1>4, <1>6 DEF Row, RowIn
  <2>3. \A b \in Attempts : Framed(b)' BY <1>1, <1>3 DEF IInv, Framed
  <2>4. Alone' BY <1>3, <1>6 DEF IInv, Alone, AloneIn
  <2>5. WaitsForAStop' BY <1>6 DEF WaitsForAStop
  <2>6. \A b \in Attempts : stop[b] # "none" => stop'[b] # "none" BY <1>2
  <2> QED BY <1>3, <1>6, <2>1, <2>2, <2>3, <2>4, <2>5, <2>6, CalmKeeps
<1> QED BY <1>5, <1>6 DEF Receive

-----------------------------------------------------------------------------
(* The agents.                                                               *)

\* What an agent does on its own starts nothing that was not permitted, and a
\* tombstone is set only where a stop has come.
LEMMA AgentKeeps ==
  ASSUME IInv, NEW a \in Attempts, UNCHANGED <<exec, turn, att, stop, asked, receipts, present>>,
         crashes' \in 0 .. MaxCrashes, agent' \in Agents,
         \A b \in Attempts \ {a} : agent'[b] = agent[b],
         agent'[a].proc # "none" => agent[a].proc # "none",
         MayRun(a)' => MayRun(a),
         agent'[a].tomb => a \in asked
  PROVE  IInv'
<1>0. Typed BY TypeParts DEF IInv
<1>1. TypeOK' BY <1>0, TypeParts DEF Typed
<1>2. \A b \in Attempts : MayRun(b)' => MayRun(b) BY DEF MayRun
<1>3. ASSUME NEW b \in Attempts PROVE Row(b)' /\ Framed(b)'
  <2>0. Row(b) /\ Framed(b) BY DEF IInv
  <2>1. Row(b)' BY <1>2, <2>0 DEF Row, RowIn
  <2>2. Framed(b)' BY <1>2, <2>0 DEF Framed
  <2> QED BY <2>1, <2>2
<1>4. Alone' BY <1>2 DEF IInv, Alone, AloneIn
<1>5. WaitsForAStop' BY DEF IInv, WaitsForAStop, Accepts
<1> QED BY <1>1, <1>2, <1>3, <1>4, <1>5, CalmKeeps

\* So do the agents' steps and the frames they send.
LEMMA AgentSteps ==
  ASSUME IInv, NEW a \in Attempts,
         \/ Launch(a) \/ Refuse(a) \/ Exit(a) \/ StopTurn(a) \/ OrphanEnds(a)
         \/ \E survives \in BOOLEAN : Crash(a, survives)
  PROVE  IInv'
<1>0. Typed /\ Framed(a) BY TypeParts DEF IInv
<1>1. CASE Launch(a)
  <2>1. agent' \in Agents /\ agent'[a].tomb = agent[a].tomb /\ MayRun(a) /\ agent[a].proc # "none"
        /\ \A b \in Attempts \ {a} : agent'[b] = agent[b]
    BY <1>0, <1>1 DEF Launch, Typed, Agents, MayRun
  <2> QED BY <1>0, <1>1, <2>1, AgentKeeps DEF Launch, server, Typed, Framed
<1>2. CASE Refuse(a)
  <2>1. agent' \in Agents /\ agent'[a].tomb = agent[a].tomb /\ ~MayRun(a)' /\ agent[a].proc # "none"
        /\ \A b \in Attempts \ {a} : agent'[b] = agent[b]
    BY <1>0, <1>2 DEF Refuse, Typed, Agents, MayRun
  <2> QED BY <1>0, <1>2, <2>1, AgentKeeps DEF Refuse, server, Typed, Framed
<1>3. CASE Exit(a)
  <2>1. agent' \in Agents /\ agent'[a].tomb = agent[a].tomb /\ ~MayRun(a)' /\ agent[a].proc # "none"
        /\ \A b \in Attempts \ {a} : agent'[b] = agent[b]
    BY <1>0, <1>3 DEF Exit, Typed, Agents, MayRun
  <2> QED BY <1>0, <1>3, <2>1, AgentKeeps DEF Exit, server, Typed, Framed
<1>4. CASE StopTurn(a)
  <2>1. agent' \in Agents /\ agent'[a].proc = agent[a].proc /\ (MayRun(a)' => MayRun(a))
        /\ \A b \in Attempts \ {a} : agent'[b] = agent[b]
    BY <1>0, <1>4 DEF StopTurn, Typed, Agents, MayRun
  <2> QED BY <1>0, <1>4, <2>1, AgentKeeps DEF StopTurn, server, Typed
<1>5. CASE OrphanEnds(a)
  <2>1. agent' \in Agents /\ agent'[a].tomb = agent[a].tomb /\ ~MayRun(a)' /\ agent[a].proc # "none"
        /\ \A b \in Attempts \ {a} : agent'[b] = agent[b]
    BY <1>0, <1>5 DEF OrphanEnds, Typed, Agents, MayRun
  <2> QED BY <1>0, <1>5, <2>1, AgentKeeps DEF OrphanEnds, server, Typed, Framed
<1>6. ASSUME NEW survives \in BOOLEAN, Crash(a, survives) PROVE IInv'
  <2>1. agent' \in Agents /\ agent'[a].tomb = agent[a].tomb /\ (MayRun(a)' => MayRun(a))
        /\ agent[a].proc # "none"
        /\ \A b \in Attempts \ {a} : agent'[b] = agent[b]
    BY <1>0, <1>6 DEF Crash, Typed, Agents, MayRun
  <2>2. crashes' \in 0 .. MaxCrashes BY <1>0, <1>6, ExecutionAssumption DEF Crash, Typed
  <2> QED BY <1>0, <1>6, <2>1, <2>2, AgentKeeps DEF Crash, server, Typed, Framed
<1> QED BY <1>1, <1>2, <1>3, <1>4, <1>5, <1>6

\* An answer is safe only when nothing runs, and nothing can then start.
LEMMA AnswerKeeps ==
  ASSUME IInv, NEW a \in Attempts, AnswerStop(a)
  PROVE  IInv'
<1>0. Typed BY TypeParts DEF IInv
<1>1. /\ a \in asked /\ agent[a].tomb /\ receipts' = receipts \cup {<<a, Verdict(a)>>}
      /\ UNCHANGED <<exec, turn, att, stop, asked, agent, crashes, present>>
  BY DEF AnswerStop, server
<1>2. Verdict(a) \in Safe \cup {"unknown"} /\ (Verdict(a) \in Safe => ~MayRun(a))
  BY <1>0, <1>1 DEF Verdict, MayRun, Safe, Typed, Agents
<1>3. \A b \in Attempts : MayRun(b)' <=> MayRun(b) BY <1>1 DEF MayRun
<1>4. TypeOK' BY <1>0, <1>1, <1>2, TypeParts DEF Typed
<1>5. ASSUME NEW b \in Attempts PROVE Row(b)' /\ Framed(b)'
  <2>0. Row(b) /\ Framed(b) BY DEF IInv
  <2>1. Row(b)' BY <1>1, <1>3, <2>0 DEF Row, RowIn
  <2>2. Framed(b)' BY <1>1, <1>2, <1>3, <2>0 DEF Framed
  <2> QED BY <2>1, <2>2
<1>6. Alone' BY <1>1, <1>3 DEF IInv, Alone, AloneIn
<1>7. WaitsForAStop' BY <1>1 DEF IInv, WaitsForAStop, Accepts
<1> QED BY <1>1, <1>3, <1>4, <1>5, <1>6, <1>7, CalmKeeps

-----------------------------------------------------------------------------
(* Safety.                                                                   *)

\* An execution starts with one turn, no attempt that runs and no frame.
LEMMA InitInv == Init => IInv
<1> SUFFICES ASSUME Init PROVE IInv
  OBVIOUS
<1>1. Typed
  BY ExecutionAssumption DEF Init, Typed, Execs, Turns, Atts, Stops, Agents, Status, Waiting, Safe
<1>2. ASSUME NEW a \in Attempts PROVE Row(a) /\ Framed(a)
  BY ExecutionAssumption DEF Init, Row, RowIn, Framed, Gone, Safe
<1>3. Alone /\ InStep /\ OneInvocationPerTurn /\ WaitsForAStop
  BY ExecutionAssumption
  DEF Init, Alone, AloneIn, InStep, OneInvocationPerTurn, WaitsForAStop, Waiting, Live, MayRun
<1> QED BY <1>1, <1>2, <1>3, TypeParts DEF IInv

\* Who leaves takes nothing along.
LEMMA LeaveKeeps ==
  ASSUME IInv, NEW r \in Requests, Leave(r)
  PROVE  IInv'
<1>1. UNCHANGED <<exec, turn, att, stop, asked, receipts, agent, crashes>> /\ present' = present \ {r}
  BY DEF Leave, server
<1>2. TypeOK' BY <1>1, TypeParts DEF IInv, Typed
<1>3. \A a \in Attempts : Row(a)' /\ Framed(a)' BY <1>1 DEF IInv, Row, RowIn, Framed, MayRun
<1>4. Alone' /\ WaitsForAStop' BY <1>1 DEF IInv, Alone, AloneIn, MayRun, WaitsForAStop, Waiting, Accepts
<1>5. \A a \in Attempts : MayRun(a)' => MayRun(a) BY <1>1 DEF MayRun
<1> QED BY <1>1, <1>2, <1>3, <1>4, <1>5, CalmKeeps

\* Every step keeps the invariant.
LEMMA Inductive == IInv /\ [Next]_vars => IInv'
<1> SUFFICES ASSUME IInv, [Next]_vars PROVE IInv'
  OBVIOUS
<1>1. CASE UNCHANGED vars
  BY <1>1, TypeParts
  DEF vars, IInv, Typed, Row, RowIn, Framed, Alone, AloneIn, InStep, OneInvocationPerTurn, WaitsForAStop, Accepts,
      MayRun
<1>2. CASE Revise \/ Cancel \/ DeadlinePasses \/ Expire \/ Denied \/ Reconcile \/ Finish
  BY <1>2, ExecutionSteps
<1>10. ASSUME NEW a \in Attempts, NEW overspent \in BOOLEAN, SettleUsage(a, overspent) PROVE IInv'
  BY <1>10, ExecutionSteps
<1>11. ASSUME NEW r \in Requests, Leave(r) PROVE IInv'
  BY <1>11, LeaveKeeps
<1>3. ASSUME NEW r \in Requests, NEW a \in Attempts, Delegate(r, a) PROVE IInv'
  BY <1>3, DelegateKeeps
<1>4. ASSUME NEW a \in Attempts, NEW b \in Attempts, Retry(a, b) PROVE IInv'
  BY <1>4, RetryKeeps
<1>5. ASSUME NEW a \in Attempts, Dispatch(a) \/ Permit(a) \/ TurnEnds(a) PROVE IInv'
  BY <1>5, AttemptSteps, PermitKeeps
<1>6. ASSUME NEW a \in Attempts, DeliverStop(a) \/ MarkDelivered(a) \/ ExpireStop(a) PROVE IInv'
  BY <1>6, DeliveryKeeps
<1>7. ASSUME NEW a \in Attempts,
             \/ Launch(a) \/ Refuse(a) \/ Exit(a) \/ StopTurn(a) \/ OrphanEnds(a)
             \/ AnswerStop(a) \/ \E survives \in BOOLEAN : Crash(a, survives)
      PROVE  IInv'
  BY <1>7, AgentSteps, AnswerKeeps
<1>8. ASSUME NEW a \in Attempts, NEW proof \in {"safe", "retry", "unknown"}, NEW overspent \in BOOLEAN,
             Terminal(a, proof, overspent)
      PROVE  IInv'
  <2>1. overspent = TRUE \/ overspent = FALSE OBVIOUS
  <2> QED BY <1>8, <2>1, AttemptSteps, OverspentKeeps
<1>9. ASSUME NEW a \in Attempts, NEW status \in Safe \cup {"unknown"}, Receive(a, status) PROVE IInv'
  BY <1>9, ReceiveKeeps
<1> QED BY <1>1, <1>2, <1>3, <1>4, <1>5, <1>6, <1>7, <1>8, <1>9, <1>10, <1>11 DEF Next

\* The inductive invariant: every attempt fits its turn, every frame fits what its
\* sender has stored, and every answer to a stop fits the agent that gave it.
THEOREM Invariant == Spec => []IInv
  BY InitInv, Inductive, PTL DEF Spec

\* Every row of the execution's tables, and of its agents, keeps its type.
THEOREM TypeCorrect == Spec => []TypeOK
  BY Invariant, PTL DEF IInv

\* An execution that has gone on after a revision, or has ended by cancellation
\* or a limit, has no invocation of an older input left, wherever frames are.
THEOREM NothingStaleRuns == Spec => []NoStaleProcess
<1>1. IInv => NoStaleProcess BY DEF IInv, InStep, NoStaleProcess
<1> QED BY <1>1, Invariant, PTL

\* A retried turn never has two invocations.
THEOREM TurnsRunOnce == Spec => []OneInvocationPerTurn
  BY Invariant, PTL DEF IInv

\* An execution that waits has an answer to wait for.
THEOREM SomethingToWaitFor == Spec => []WaitsForAStop
  BY Invariant, PTL DEF IInv

\* What a step may do to the stops: the fence adds some, and an undecided one
\* is delivered, runs out of time or is answered.
StopMoves ==
    \/ stop' = stop
    \/ \E atts : stop' = FencedStops(atts)
    \/ \E b \in Attempts, status \in {"delivered", "unknown"} \cup Safe :
           Accepts(b) /\ stop' = [stop EXCEPT ![b] = status]

\* How a stop may change in one step.
LEMMA StopsMove == Next => StopMoves
<1> SUFFICES ASSUME Next PROVE StopMoves
  OBVIOUS
<1>1. CASE Revise \/ Cancel \/ DeadlinePasses \/ Expire \/ Denied \/ Reconcile \/ Finish
  BY <1>1
  DEF StopMoves, Revise, Cancel, DeadlinePasses, Expire, Denied, Reconcile, Finish, CloseLimit, Mutate
<1>2. ASSUME NEW b \in Attempts, (\E r \in Requests : Delegate(r, b)) \/ (\E c \in Attempts : Retry(b, c))
      PROVE  StopMoves
  BY <1>2 DEF StopMoves, Delegate, Retry
<1>3. ASSUME NEW b \in Attempts,
             \/ Dispatch(b) \/ Permit(b) \/ TurnEnds(b) \/ DeliverStop(b)
             \/ Launch(b) \/ Refuse(b) \/ Exit(b) \/ StopTurn(b) \/ AnswerStop(b) \/ OrphanEnds(b)
             \/ \E survives \in BOOLEAN : Crash(b, survives)
      PROVE  StopMoves
  BY <1>3
  DEF StopMoves, Dispatch, Permit, TurnEnds, DeliverStop, Launch, Refuse, Exit, StopTurn, AnswerStop, OrphanEnds,
      Crash, server
<1>4. ASSUME NEW b \in Attempts, MarkDelivered(b) \/ ExpireStop(b) PROVE StopMoves
  BY <1>4 DEF StopMoves, MarkDelivered, ExpireStop, Accepts
<1>5. ASSUME NEW b \in Attempts, NEW proof \in {"safe", "retry", "unknown"}, NEW overspent \in BOOLEAN,
             Terminal(b, proof, overspent)
      PROVE  StopMoves
  BY <1>5 DEF StopMoves, Terminal, Mutate
<1>6. ASSUME NEW b \in Attempts, NEW status \in Safe \cup {"unknown"}, Receive(b, status) PROVE StopMoves
  BY <1>6 DEF StopMoves, Receive
<1>7. ASSUME NEW b \in Attempts, NEW overspent \in BOOLEAN, SettleUsage(b, overspent) PROVE StopMoves
  BY <1>7 DEF StopMoves, SettleUsage, Mutate
<1>8. ASSUME NEW r \in Requests, Leave(r) PROVE StopMoves
  BY <1>8 DEF StopMoves, Leave, server
<1> QED BY <1>1, <1>2, <1>3, <1>4, <1>5, <1>6, <1>7, <1>8 DEF Next

\* The proof of a stop is never changed, and what it proves stays true.
THEOREM ProofsAreFinal == Spec => ProofIsFinal
<1>1. ASSUME IInv, IInv', Next, NEW a \in Attempts, stop[a] \in Safe
      PROVE  stop'[a] = stop[a] /\ ~MayRun(a)'
  <2>0. Typed BY <1>1, TypeParts DEF IInv
  <2>1. \A atts : FencedStops(atts)[a] = stop[a] BY <1>1 DEF FencedStops, Safe
  <2>3. stop'[a] = stop[a]
    BY <1>1, <2>0, <2>1, StopsMove DEF StopMoves, Accepts, Safe, Typed, Stops
  <2> QED BY <1>1, <2>3 DEF IInv, Row, RowIn
<1>2. IInv /\ IInv' /\ [Next]_vars =>
        [\A a \in Attempts : stop[a] \in Safe => stop'[a] = stop[a] /\ ~MayRun(a)']_vars
  BY <1>1
<1> QED BY <1>2, Invariant, PTL DEF Spec, ProofIsFinal

===============================================================================
