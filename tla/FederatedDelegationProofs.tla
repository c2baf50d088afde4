---------------------- MODULE FederatedDelegationProofs ----------------------
(***************************************************************************)
(* Safety of a delegation, for any number of cancellations and faults.     *)
(* What a command says of the machine is true when it is put on its way    *)
(* and stays true wherever it is held up; so whatever the authority closes *)
(* with it is true.                                                        *)
(***************************************************************************)
EXTENDS FederatedDelegation, SequenceTheorems, TLAPS

\* Nothing was started, and no order to start is under way.
NoStart == ~Started /\ \A i \in 1..Len(wire) : wire[i].action # "start"

\* Nor will one be given: only a binding that is still to be launched does that.
Never == NoStart /\ binding.local \notin {"none", "prepared", "accepted"}

\* The invocation has ended without a process, is fenced, or is never asked for.
Unstartable ==
    \/ receipt.outcome # "none" /\ receipt.process = "not_started"
    \/ prepared = "revoked_prepared"
    \/ Never

Stopped == receipt.outcome # "none" /\ ~alive

\* The agent's rows and the process on its machine.
Invoked ==
    /\ ~Started => receipt = NoReceipt
    /\ receipt.state = "none" => receipt = NoReceipt
    /\ receipt.outcome # "none" => receipt.state = receipt.outcome
    /\ receipt.outcome = "none" =>
           \/ receipt.state \in {"none", "queued"} /\ receipt.process = "not_started"
           \/ receipt.state = "launching" /\ receipt.process = "unknown"
           \/ receipt.state = "running" /\ receipt.process = "running"
           \/ /\ receipt.state = "cancel_requested"
              /\ receipt.process \in {"not_started", "unknown", "running"}
    /\ starts =< 1
    /\ receipt.process = "not_started" => starts = 0
    /\ receipt.outcome = "none" /\ receipt.process = "unknown" => starts = 0
    /\ receipt.process = "running" => starts = 1
    /\ alive => /\ starts = 1
                /\ receipt.outcome \in {"none", "unknown"}
                /\ receipt.outcome = "none" => receipt.process = "running"

\* A command says what is true, now and later.
Truthful(c) ==
    /\ c.kind = "result" => c.arg \in {"succeeded", "failed"} /\ receipt.outcome = c.arg
    /\ c.kind = "cancelled" => \/ c.arg = "not_started" /\ Unstartable
                               \/ c.arg = "stopped" /\ Stopped
    /\ c.kind = "reject" => Never

\* So does an answer that tells of an end.
Answered ==
    answer.outcome \notin {"none", "unknown"} =>
        \/ answer = receipt
        \/ answer = Rcpt("cancelled", "not_started", "cancelled") /\ prepared = "revoked_prepared"

\* Only the frame the job waits for is answered to it, and it is the last.
Waited ==
    /\ \A i \in 1..Len(wire) : wire[i].live =>
           /\ i = Len(wire) /\ job.pc \in Asking
           /\ job.pc = "cleanup" => wire[i].action = "cancel" /\ wire[i].real
           /\ job.pc = "describe" => wire[i].action = "describe"
    /\ job.pc \in Asking /\ answer # Nothing => wire = <<>>
    /\ job.pc = "prepare" => binding.local = "none"

\* A binding that has not been launched has started nothing; one that is being
\* cleaned up fences what it finds.
Placed ==
    /\ binding.local \in {"none", "prepared", "declined", "accepted", "cancel_pending_prepare"} =>
           NoStart
    /\ binding.local = "settled" =>
           /\ prepared \notin {"prepared", "started"}
           /\ prepared = "none" => \A i \in 1..Len(wire) : wire[i].action # "prepare"
    /\ job.pc = "cleanup" /\ answer.state \notin {"nothing", "denied"} =>
           prepared \notin {"prepared", "started"}
    /\ job.pc = "describe" /\ answer.state = "gone" => prepared = "none"

\* The record's history: every step counts, and the log tells the last one.
Recorded ==
    /\ auth.rev >= 1
    /\ auth.rev = 1 => auth.state = "requested"
    /\ auth.state = "requested" => auth.proc = "not_started"
    /\ \A c \in log : c.rev < auth.rev /\ (c.rev + 1 = auth.rev => Target(c) = auth.state)
    /\ job.pc = "deliver" /\ answer.state = "receipt" => pending \in log

\* What a closed record says.
Closed ==
    /\ auth.state = "completed" => receipt.outcome = "succeeded"
    /\ auth.state = "failed" => receipt.outcome = "failed"
    /\ auth.state = "rejected" => Never
    /\ auth.state = "cancelled" => Unstartable \/ Stopped
    /\ auth.state \in TERMINAL /\ auth.proc = "not_started" => Unstartable

\* The binding is never ahead of the record, and agrees with it at the same revision.
Agrees ==
    /\ binding.rev =< auth.rev
    /\ binding.rev = auth.rev => binding.auth = auth.state

IInv ==
    /\ TypeOK /\ Invoked /\ Answered /\ Waited /\ Placed /\ Recorded /\ Closed
    /\ \A c \in posted \cup {pending} : Truthful(c)
    /\ Agrees
-----------------------------------------------------------------------------
(* What stays true of the machine.                                           *)

\* What has been said, in a command or by the authority, is not taken back.
Lasts ==
    /\ Never => Never'
    /\ Unstartable => Unstartable'
    /\ Stopped => Stopped'
    /\ receipt.outcome \in {"succeeded", "failed"} => receipt'.outcome = receipt.outcome

\* What a command says stays true while the machine takes nothing back.
LEMMA SaidStays ==
  ASSUME Lasts, NEW c, Truthful(c)
  PROVE  Truthful(c)'
BY DEF Lasts, Truthful

\* So does what the authority has closed, which says nothing else.
LEMMA ClosedStays ==
  ASSUME Lasts, Closed, auth'.state = auth.state, auth'.proc = auth.proc
  PROVE  Closed'
BY DEF Lasts, Closed

-----------------------------------------------------------------------------
(* The executor's job.                                                       *)

Early == {"none", "prepared", "declined", "accepted", "cancel_pending_prepare"}
MayLaunch == {"none", "prepared", "accepted"}

\* The job does not wait for a frame.
Attentive == job.pc \in Asking => answer # Nothing

\* A frame as the job sends it.
Asked(f) ==
    /\ f.live /\ job'.pc \in Asking
    /\ job'.pc = "cleanup" => f.action = "cancel" /\ f.real
    /\ job'.pc = "describe" => f.action = "describe"
    /\ job'.pc = "prepare" => binding'.local = "none"
    /\ f.action = "prepare" => binding'.local = "none"
    /\ f.action = "start" => binding.local = "accepted" /\ binding'.local = "launch_intent"

\* A job that waits for no answer has no frame on the wire that will be answered.
LEMMA Unheeded ==
  ASSUME IInv, Attentive
  PROVE  \A i \in 1..Len(wire) : ~wire[i].live
BY DEF IInv, Waited, Attentive

\* A frame that is sent is the last one on the wire.
LEMMA Appended ==
  ASSUME wire \in Seq(Frames), NEW f \in Frames, wire' = Append(wire, f)
  PROVE  /\ wire' \in Seq(Frames) /\ Len(wire') = Len(wire) + 1 /\ Len(wire) \in Nat
         /\ \A i \in 1..Len(wire) : wire'[i] = wire[i]
         /\ wire'[Len(wire')] = f
BY AppendProperties, LenProperties

\* A step of the job, which sends a frame or none.
LEMMA JobKeeps ==
  ASSUME IInv, Attentive, UNCHANGED <<authority, agent, machine>>, faults' \in 0 .. MaxFaults,
         binding' \in Bindings, pending' \in Commands \cup {NoCommand},
         posted' \subseteq Commands, job' \in Jobs, answer' = Nothing,
         \/ wire' = wire /\ job'.pc \notin Asking
         \/ \E f \in Frames : wire' = Append(wire, f) /\ Asked(f),
         binding'.local \in Early => binding.local \in Early,
         binding'.local \in MayLaunch => binding.local \in MayLaunch,
         binding'.local = "settled" =>
             binding.local = "settled" \/ (prepared \notin {"prepared", "started"} /\ wire' = <<>>),
         \A c \in posted' \cup {pending'} : c \in posted \cup {pending} \/ Truthful(c)',
         Agrees'
  PROVE  IInv'
<1> USE DEF authority, agent, machine
<1>0. wire \in Seq(Frames) /\ Len(wire) \in Nat BY LenProperties DEF IInv, TypeOK
<1>1. wire' \in Seq(Frames)
  BY <1>0, Appended
<1>2. Nothing \in Receipts
  BY DEF Nothing, Rcpt, Receipts, Processes
<1>3. TypeOK'
  BY <1>1, <1>2 DEF IInv, TypeOK
<1>4. NoStart => NoStart' \/ (binding.local = "accepted" /\ binding'.local = "launch_intent")
  <2>1. CASE wire' = wire BY <2>1 DEF NoStart, Started
  <2>2. ASSUME NEW f \in Frames, wire' = Append(wire, f), Asked(f), f.action # "start", NoStart
        PROVE  NoStart'
    <3>1. /\ Len(wire') = Len(wire) + 1 /\ (\A i \in 1..Len(wire) : wire'[i] = wire[i])
          /\ wire'[Len(wire')] = f
      BY <2>2, <1>0, Appended
    <3> QED BY <3>1, <2>2, <1>0 DEF NoStart, Started
  <2> QED BY <2>1, <2>2 DEF Asked
<1>5. Never => Never'
  BY <1>4 DEF Never, MayLaunch
<1>6. Lasts
  BY <1>5 DEF Lasts, Unstartable, Stopped
<1>7. Invoked'
  BY DEF IInv, Invoked, Started
<1>8. Answered'
  BY DEF Answered, Nothing, Rcpt
<1>9. Waited'
  <2>1. \A i \in 1..Len(wire) : ~wire[i].live BY Unheeded
  <2>2. CASE wire' = wire /\ job'.pc \notin Asking
    BY <2>1, <2>2 DEF Waited, Asking
  <2>3. ASSUME NEW f \in Frames, wire' = Append(wire, f), Asked(f) PROVE Waited'
    <3>1. /\ Len(wire') = Len(wire) + 1 /\ (\A i \in 1..Len(wire) : wire'[i] = wire[i])
          /\ wire'[Len(wire')] = f
      BY <2>3, <1>0, Appended
    <3> QED BY <3>1, <2>1, <2>3, <1>0 DEF Waited, Asked
  <2> QED BY <2>2, <2>3
<1>10. Placed'
  <2>1. binding'.local \in Early => NoStart'
    BY <1>4 DEF IInv, Placed, Early
  <2>2. ASSUME binding'.local = "settled", binding.local = "settled", prepared = "none",
               NEW i \in 1..Len(wire')
        PROVE  wire'[i].action # "prepare"
    <3>1. \A j \in 1..Len(wire) : wire[j].action # "prepare"
      BY <2>2 DEF IInv, Placed
    <3>2. ASSUME NEW f \in Frames, wire' = Append(wire, f), Asked(f)
          PROVE  wire'[i].action # "prepare"
      <4>1. /\ Len(wire') = Len(wire) + 1 /\ (\A j \in 1..Len(wire) : wire'[j] = wire[j])
            /\ wire'[Len(wire')] = f
        BY <3>2, <1>0, Appended
      <4> QED BY <4>1, <3>1, <3>2, <2>2, <1>0 DEF Asked
    <3> QED BY <3>1, <3>2, <2>2
  <2>3. binding'.local = "settled" =>
           /\ prepared' \notin {"prepared", "started"}
           /\ prepared' = "none" => \A i \in 1..Len(wire') : wire'[i].action # "prepare"
    BY <2>2 DEF IInv, Placed
  <2> QED BY <2>1, <2>3 DEF Placed, Early, Nothing, Rcpt
<1>11. Recorded'
  BY DEF IInv, Recorded, Nothing, Rcpt
<1>12. Closed'
  BY <1>6, ClosedStays DEF IInv
<1>13. \A c \in posted' \cup {pending'} : Truthful(c)'
  BY <1>6, SaidStays DEF IInv
<1> QED BY <1>3, <1>7, <1>8, <1>9, <1>10, <1>11, <1>12, <1>13 DEF IInv

\* What is sent is no order to start, so there is still none under way.
LEMMA StillNoStart ==
  ASSUME IInv, NoStart, prepared' = prepared,
         wire' = wire \/ \E f \in Frames : wire' = Append(wire, f) /\ f.action # "start"
  PROVE  NoStart'
<1>0. wire \in Seq(Frames) BY DEF IInv, TypeOK
<1>1. CASE wire' = wire BY <1>1 DEF NoStart, Started
<1>2. ASSUME NEW f \in Frames, wire' = Append(wire, f), f.action # "start" PROVE NoStart'
  <2>1. /\ Len(wire') = Len(wire) + 1 /\ Len(wire) \in Nat
        /\ \A i \in 1..Len(wire) : wire'[i] = wire[i]
        /\ wire'[Len(wire')] = f
    BY <1>2, <1>0, Appended
  <2> QED BY <2>1, <1>2 DEF NoStart, Started
<1> QED BY <1>1, <1>2

\* What the job does next is one of its steps, and nobody has answered it yet.
LEMMA Going ==
  ASSUME NEW pc \in {"idle", "deliver", "launch", "retire"} \cup Asking,
         NEW next \in {"idle", "launch", "retire"}, Go(pc, next)
  PROVE  job' \in Jobs /\ job'.pc = pc /\ answer' = Nothing
BY DEF Go, Jobs

\* The job stops, or delivers what is pending.
LEMMA EndKeeps ==
  ASSUME IInv, Attentive, UNCHANGED <<authority, agent, machine, binding, pending>>,
         faults' \in 0 .. MaxFaults, End
  PROVE  IInv'
<1>1. job' \in Jobs /\ job'.pc = "idle" /\ answer' = Nothing
  BY Going DEF End
<1>2. wire' = wire /\ posted' = posted /\ job'.pc \notin Asking
  BY <1>1 DEF End, Asking
<1>3. Agrees'
  BY DEF IInv, Agrees, authority
<1>4. binding' \in Bindings /\ pending' \in Commands \cup {NoCommand} /\ posted' \subseteq Commands
  BY <1>2 DEF IInv, TypeOK
<1> QED BY <1>1, <1>2, <1>3, <1>4, JobKeeps DEF IInv, Placed

\* The job asks the agent something other than to start, and notes nothing.
LEMMA AskKeeps ==
  ASSUME IInv, Attentive, UNCHANGED <<authority, agent, machine, binding, pending>>,
         faults' \in 0 .. MaxFaults, NEW pc \in Asking, NEW next \in {"idle", "launch"},
         NEW action \in {"prepare", "describe", "reconcile", "cancel", "revoke"},
         NEW real \in BOOLEAN, Request(action, real), Go(pc, next),
         pc = "cleanup" => action = "cancel" /\ real,
         pc = "describe" => action = "describe",
         pc = "prepare" \/ action = "prepare" => binding.local = "none"
  PROVE  IInv'
<1> DEFINE f == [action |-> action, live |-> TRUE, real |-> real]
<1>1. job' \in Jobs /\ job'.pc = pc /\ answer' = Nothing
  BY Going
<1>2. f \in Frames /\ f.action = action /\ f.live /\ f.real = real
  BY DEF Frames
<1>3. wire' = Append(wire, f) /\ posted' = posted
  BY DEF Request
<1> HIDE DEF f
<1>4. Asked(f)
  BY <1>1, <1>2 DEF Asked
<1>5. Agrees'
  BY DEF IInv, Agrees, authority
<1>6. binding' \in Bindings /\ pending' \in Commands \cup {NoCommand} /\ posted' \subseteq Commands
  BY <1>3 DEF IInv, TypeOK
<1> QED BY <1>1, <1>2, <1>3, <1>4, <1>5, <1>6, JobKeeps DEF IInv, Placed

\* A job that asks nothing, or has its answer, is attentive.
LEMMA Attends ==
  ASSUME \/ job.pc \notin Asking
         \/ answer.state # "nothing"
  PROVE  Attentive
BY DEF Attentive, Nothing, Rcpt

\* The executor asks its agent to prepare.
LEMMA AskPrepareKeeps == ASSUME IInv, AskPrepare PROVE IInv'
<1>1. Attentive BY Attends DEF AskPrepare, Idle, Asking
<1>2. "prepare" \in Asking BY DEF Asking
<1>3. faults' \in 0 .. MaxFaults BY DEF AskPrepare, IInv, TypeOK
<1> QED BY <1>1, <1>2, <1>3, AskKeeps DEF AskPrepare, executor

\* Asking for the receipt, by the binding's name.
LEMMA ReconcileKeeps ==
  ASSUME IInv, Attentive, UNCHANGED <<authority, agent, machine, binding, pending>>,
         faults' \in 0 .. MaxFaults, AskReconcile
  PROVE  IInv'
<1>1. "reconcile" \in Asking /\ binding.real \in BOOLEAN BY DEF Asking, IInv, TypeOK, Bindings
<1> QED BY <1>1, AskKeeps DEF AskReconcile

\* The executor asks how a launched invocation stands.
LEMMA ObserveKeeps == ASSUME IInv, Observe PROVE IInv'
<1>1. Attentive BY Attends DEF Observe, Asking
<1>2. faults' \in 0 .. MaxFaults BY DEF Observe, IInv, TypeOK
<1>3. UNCHANGED <<authority, agent, machine, binding, pending>> BY DEF Observe, executor
<1>4. AskReconcile \/ End BY DEF Observe
<1> QED BY <1>1, <1>2, <1>3, <1>4, ReconcileKeeps, EndKeeps

\* A start that never came is fenced at the agent.
LEMMA FenceLateStartKeeps == ASSUME IInv, FenceLateStart PROVE IInv'
<1>1. Attentive BY Attends DEF FenceLateStart, OnlyPrepared, Rcpt
<1>2. faults' \in 0 .. MaxFaults BY DEF FenceLateStart, IInv, TypeOK
<1>3. "fence" \in Asking /\ binding.real \in BOOLEAN BY DEF Asking, IInv, TypeOK, Bindings
<1> QED BY <1>1, <1>2, <1>3, AskKeeps DEF FenceLateStart, executor

\* The agent has said what it knows of the binding.
LEMMA DescribedKeeps == ASSUME IInv, Described PROVE IInv'
<1>1. Attentive BY Attends DEF Described
<1>2. faults' \in 0 .. MaxFaults BY DEF Described, IInv, TypeOK
<1>3. "cleanup" \in Asking BY DEF Asking
<1> QED BY <1>1, <1>2, <1>3, AskKeeps DEF Described, executor

\* The authority denies the context: the executor revokes what it has placed.
LEMMA ContextFailsKeeps == ASSUME IInv, ContextFails PROVE IInv'
<1>1. Attentive BY Attends DEF ContextFails, Idle, Asking
<1>2. faults' \in 0 .. MaxFaults BY DelegationAssumption DEF ContextFails, Fault, IInv, TypeOK
<1>3. "revoke" \in Asking /\ binding.real \in BOOLEAN BY DEF Asking, IInv, TypeOK, Bindings
<1> QED BY <1>1, <1>2, <1>3, AskKeeps DEF ContextFails, executor

\* A question that is refused ends the job.
LEMMA FailsKeeps == ASSUME IInv, Fails PROVE IInv'
<1>1. Attentive BY Attends DEF Fails, Attentive, Asking
<1>2. faults' \in 0 .. MaxFaults BY DEF Fails, IInv, TypeOK
<1> QED BY <1>1, <1>2, EndKeeps DEF Fails, executor
-----------------------------------------------------------------------------
(* The steps of the job that change the binding or what is pending.          *)

\* A delivery sends no frame; it posts what is pending, if anything is.
LEMMA PostKeeps ==
  ASSUME IInv, Attentive, UNCHANGED <<authority, agent, machine, wire, faults>>,
         binding' \in Bindings, pending' \in Commands \cup {NoCommand},
         NEW next \in {"idle", "launch", "retire"},
         \/ Go(next, "idle") /\ posted' = posted
         \/ Go("deliver", next) /\ posted' = posted \cup {pending'} /\ pending' # NoCommand,
         binding'.local \in Early => binding.local \in Early,
         binding'.local \in MayLaunch => binding.local \in MayLaunch,
         binding'.local = "settled" => binding.local = "settled",
         pending' = pending \/ Truthful(pending)',
         Agrees'
  PROVE  IInv'
<1>1. job' \in Jobs /\ job'.pc \in {next, "deliver"} /\ answer' = Nothing
  BY Going
<1>2. job'.pc \notin Asking BY <1>1 DEF Asking
<1>3. posted' \subseteq Commands BY DEF IInv, TypeOK
<1>4. faults' \in 0 .. MaxFaults BY DEF IInv, TypeOK
<1>5. \A c \in posted' \cup {pending'} : c \in posted \cup {pending} \/ Truthful(c)'
  OBVIOUS
<1> QED BY <1>1, <1>2, <1>3, <1>4, <1>5, JobKeeps

\* What was never prepared is cancelled without asking the agent.
LEMMA CancelUnpreparedKeeps == ASSUME IInv, CancelUnprepared PROVE IInv'
<1> USE DEF CancelUnprepared, Idle
<1>1. Attentive BY Attends DEF Asking
<1>2. pending' = Command("cancelled", auth.rev, "not_started") /\ pending' # NoCommand
  BY DEF Command, NoCommand
<1>3. wire' = wire /\ Go("deliver", "idle") /\ posted' = posted \cup {pending'}
  BY <1>2 DEF Deliver
<1>4. auth.rev \in Nat /\ auth.state = "cancel_requested"
  BY DEF IInv, TypeOK
<1>5. binding' \in Bindings /\ binding'.local = "cancel_requested" /\ binding'.rev = auth.rev
      /\ binding'.auth = "cancel_requested"
  BY <1>4 DEF Bindings, ACTIVE
<1>6. pending' \in Commands
  BY <1>2, <1>4 DEF Command, Commands
<1>7. Agrees'
  BY <1>4, <1>5 DEF Agrees, authority
<1>8. Truthful(pending)'
  <2>1. NoStart' BY StillNoStart, <1>3 DEF IInv, Placed, agent
  <2>2. Never' BY <2>1, <1>5 DEF Never
  <2>3. pending'.kind = "cancelled" /\ pending'.arg = "not_started" BY <1>2 DEF Command
  <2> QED BY <2>2, <2>3 DEF Truthful, Unstartable
<1>9. UNCHANGED <<authority, agent, machine, wire, faults>> BY <1>3
<1>10. binding'.local \notin Early \cup MayLaunch \cup {"settled"}
  BY <1>5 DEF Early, MayLaunch
<1> QED BY <1>1, <1>2, <1>3, <1>5, <1>6, <1>7, <1>8, <1>9, <1>10, PostKeeps

\* The agent has prepared, or not, and the binding notes it with the command that says so.
LEMMA PrepareKeeps == ASSUME IInv, NEW suppressed \in BOOLEAN, Prepare(suppressed) PROVE IInv'
<1> USE DEF Prepare
<1>1. Attentive BY Attends
<1>2. /\ pending' = Command(IF suppressed THEN "reject" ELSE "accept", 1, "none")
      /\ pending' # NoCommand /\ pending' \in Commands
  BY DEF Command, NoCommand, Commands
<1>3. wire' = wire /\ Go("deliver", job.next) /\ posted' = posted \cup {pending'}
  BY <1>2 DEF Deliver
<1>4. job.next \in {"idle", "launch", "retire"} BY DEF IInv, TypeOK, Jobs
<1>5. binding' \in Bindings /\ binding'.local = (IF suppressed THEN "declined" ELSE "prepared")
      /\ binding'.rev = 1 /\ binding'.auth = "requested"
  BY DEF Bindings, ACTIVE
<1>6. binding.local = "none" BY DEF IInv, Waited
<1>7. Agrees'
  <2>1. auth.rev \in Nat BY DEF IInv, TypeOK
  <2>2. auth.rev >= 1 /\ (auth.rev = 1 => auth.state = "requested") BY DEF IInv, Recorded
  <2> QED BY <2>1, <2>2, <1>5 DEF Agrees, authority
<1>8. Truthful(pending)'
  <2>1. NoStart' BY StillNoStart, <1>3, <1>6 DEF IInv, Placed, agent
  <2>2. pending'.kind = (IF suppressed THEN "reject" ELSE "accept") BY <1>2 DEF Command
  <2>3. suppressed => Never' BY <2>1, <1>5 DEF Never
  <2> QED BY <2>2, <2>3 DEF Truthful
<1>9. UNCHANGED <<authority, agent, machine, wire, faults>> BY <1>3
<1>10. binding.local \in Early /\ binding.local \in MayLaunch /\ binding'.local # "settled"
  BY <1>5, <1>6 DEF Early, MayLaunch
<1> QED BY <1>1, <1>2, <1>3, <1>4, <1>5, <1>7, <1>8, <1>9, <1>10, PostKeeps

\* First what is pending is delivered.
LEMMA ProceedKeeps == ASSUME IInv, Proceed PROVE IInv'
<1> USE DEF Proceed, Idle, executor
<1>1. Attentive BY Attends DEF Asking
<1> DEFINE next == IF auth.state \in TERMINAL THEN "retire" ELSE "launch"
<1>2. next \in {"idle", "launch", "retire"} OBVIOUS
<1>3. Deliver(pending, next) OBVIOUS
<1> HIDE DEF next
<1>4. /\ wire' = wire
      /\ \/ Go(next, "idle") /\ posted' = posted
         \/ Go("deliver", next) /\ posted' = posted \cup {pending'} /\ pending' # NoCommand
  BY <1>3 DEF Deliver
<1>5. UNCHANGED <<authority, agent, machine, wire, faults>> BY <1>4
<1>6. binding' \in Bindings /\ pending' \in Commands \cup {NoCommand} BY DEF IInv, TypeOK
<1>7. Agrees' BY DEF IInv, Agrees, authority
<1> QED BY <1>1, <1>2, <1>4, <1>5, <1>6, <1>7, PostKeeps

\* A cancellation that was taken in before is delivered again.
LEMMA CancelAgainKeeps == ASSUME IInv, CancelBegins, CancelTaken PROVE IInv'
<1> USE DEF CancelBegins, Idle, executor
<1>1. Attentive BY Attends DEF Asking
<1>2. pending' = pending /\ binding' = binding /\ Deliver(pending, "idle") /\ pending # NoCommand
  BY DEF CancelTaken
<1>3. wire' = wire /\ Go("deliver", "idle") /\ posted' = posted \cup {pending'}
  BY <1>2 DEF Deliver
<1>4. UNCHANGED <<authority, agent, machine, wire, faults>> BY <1>3
<1>5. binding' \in Bindings /\ pending' \in Commands \cup {NoCommand} BY <1>2 DEF IInv, TypeOK
<1>6. Agrees' BY <1>2 DEF IInv, Agrees, authority
<1> QED BY <1>1, <1>2, <1>3, <1>4, <1>5, <1>6, PostKeeps

\* A cancellation that is taken in supersedes what has not been launched.
LEMMA CancelKeeps == ASSUME IInv, CancelBegins, ~CancelTaken PROVE IInv'
<1> USE DEF CancelBegins, Idle
<1>1. Attentive BY Attends DEF Asking
<1>2. /\ pending' = Supersede(Unstarted)
      /\ binding' = [binding EXCEPT !.rev = auth.rev, !.auth = "cancel_requested",
             !.local = IF Unstarted THEN "cancel_pending_prepare" ELSE "cancel_requested"]
      /\ Request("cancel", binding.real) /\ Go("cancel", "idle")
  OBVIOUS
<1> DEFINE f == [action |-> "cancel", live |-> TRUE, real |-> binding.real]
<1>3. binding \in Bindings /\ auth.rev \in Nat /\ pending \in Commands \cup {NoCommand}
  BY DEF IInv, TypeOK
<1>4. f \in Frames /\ f.action = "cancel" /\ f.live
  <2>1. binding.real \in BOOLEAN BY <1>3 DEF Bindings
  <2> QED BY <2>1 DEF Frames
<1>5. wire' = Append(wire, f) /\ posted' = posted
  BY <1>2 DEF Request
<1> HIDE DEF f
<1>6. job' \in Jobs /\ job'.pc = "cancel" /\ answer' = Nothing
  BY <1>2, Going DEF Asking
<1>7. Asked(f)
  BY <1>4, <1>6 DEF Asked, Asking
<1>8. /\ binding' \in Bindings
      /\ binding'.local = (IF Unstarted THEN "cancel_pending_prepare" ELSE "cancel_requested")
      /\ binding'.rev = auth.rev /\ binding'.auth = "cancel_requested"
  BY <1>2, <1>3 DEF Bindings, ACTIVE
<1>9. pending' \in Commands \cup {NoCommand}
  BY <1>2, <1>3 DEF Supersede, Command, Commands
<1>10. Agrees'
  BY <1>8, <1>3 DEF Agrees, authority
<1>11. pending' = pending \/ Truthful(pending)'
  <2>1. CASE pending' = pending BY <2>1
  <2>2. CASE pending' = NoCommand BY <2>2 DEF NoCommand, Command, Truthful
  <2>3. CASE Unstarted /\ pending' = Command("cancelled", auth.rev, "not_started")
    <3>1. NoStart BY <2>3 DEF IInv, Placed, Unstarted
    <3>2. NoStart' BY <3>1, <1>5, <1>4, StillNoStart DEF agent
    <3>3. Never' BY <3>2, <1>8, <2>3 DEF Never
    <3>4. pending'.kind = "cancelled" /\ pending'.arg = "not_started" BY <2>3 DEF Command
    <3> QED BY <3>3, <3>4 DEF Truthful, Unstartable
  <2> QED BY <1>2, <2>1, <2>2, <2>3 DEF Supersede
<1>12. binding'.local \in Early => binding.local \in Early
  BY <1>8 DEF Early, Unstarted
<1>13. binding'.local \notin MayLaunch /\ binding'.local # "settled"
  BY <1>8 DEF MayLaunch
<1>14. \A c \in posted' \cup {pending'} : c \in posted \cup {pending} \/ Truthful(c)'
  BY <1>5, <1>11
<1>15. posted' \subseteq Commands /\ faults' \in 0 .. MaxFaults BY <1>5 DEF IInv, TypeOK
<1> QED BY <1>1, <1>4, <1>5, <1>6, <1>7, <1>8, <1>9, <1>10, <1>12, <1>13, <1>14, <1>15, JobKeeps

\* The agent is fenced: what is pending is delivered, or its receipt is asked for.
LEMMA CancelGoesOnKeeps == ASSUME IInv, CancelGoesOn PROVE IInv'
<1> USE DEF CancelGoesOn
<1>1. Attentive BY Attends
<1>2. CASE binding.local = "cancel_pending_prepare"
  <2>1. /\ pending' = pending /\ binding' = [binding EXCEPT !.local = "cancel_requested"]
        /\ Deliver(pending, "idle")
    BY <1>2
  <2>2. /\ wire' = wire
        /\ \/ Go("idle", "idle") /\ posted' = posted
           \/ Go("deliver", "idle") /\ posted' = posted \cup {pending'} /\ pending' # NoCommand
    BY <2>1 DEF Deliver
  <2>3. UNCHANGED <<authority, agent, machine, wire, faults>> BY <2>2
  <2>4. binding \in Bindings /\ pending' \in Commands \cup {NoCommand} BY <2>1 DEF IInv, TypeOK
  <2>5. /\ binding' \in Bindings /\ binding'.local = "cancel_requested"
        /\ binding'.rev = binding.rev /\ binding'.auth = binding.auth
    BY <2>1, <2>4 DEF Bindings
  <2>6. Agrees' BY <2>5, <1>2 DEF IInv, Agrees, authority
  <2>7. binding'.local \notin Early \cup MayLaunch \cup {"settled"} BY <2>5 DEF Early, MayLaunch
  <2> QED BY <1>1, <2>1, <2>2, <2>3, <2>4, <2>5, <2>6, <2>7, PostKeeps
<1>3. CASE binding.local # "cancel_pending_prepare"
  <2>1. AskReconcile /\ binding' = binding BY <1>3
  <2>2. faults' \in 0 .. MaxFaults BY DEF IInv, TypeOK
  <2> QED BY <1>1, <2>1, <2>2, ReconcileKeeps
<1> QED BY <1>2, <1>3

\* A command leads the record to one of its states.
LEMMA TargetType ==
  ASSUME NEW c \in Commands
  PROVE  Target(c) \in ACTIVE \cup TERMINAL
BY DEF Commands, Target, ACTIVE, TERMINAL

\* A receipt moves the binding to where the record was or has gone since.
LEMMA DeliveredKeeps == ASSUME IInv, Delivered PROVE IInv'
<1> USE DEF Delivered
<1>1. Attentive BY Attends DEF Asking
<1>2. /\ pending \in log /\ binding \in Bindings /\ log \subseteq Commands /\ auth.rev \in Nat
      /\ job.next \in {"idle", "launch", "retire"}
  BY DEF IInv, Recorded, TypeOK, Jobs
<1> DEFINE target == Target(pending)
<1>3. /\ target \in ACTIVE \cup TERMINAL /\ pending.rev \in Nat
      /\ pending.rev < auth.rev /\ (pending.rev + 1 = auth.rev => target = auth.state)
  <2>1. pending \in Commands BY <1>2
  <2>2. pending.rev \in Nat BY <2>1 DEF Commands
  <2> QED BY <1>2, <2>1, <2>2, TargetType DEF IInv, Recorded
<1>4. binding' = Applied(pending) OBVIOUS
<1> DEFINE moved == [binding EXCEPT !.rev = pending.rev + 1, !.auth = target,
                       !.local = IF pending.kind = "accept" /\ @ = "prepared" THEN "accepted" ELSE @]
           b == IF pending.rev + 1 > binding.rev THEN moved ELSE binding
<1>13. /\ moved \in Bindings /\ moved.rev = pending.rev + 1 /\ moved.auth = target
       /\ moved.local \in {binding.local, "accepted"}
       /\ moved.local # binding.local => binding.local = "prepared"
  <2>1. pending.rev + 1 \in Nat BY <1>3
  <2> HIDE DEF target
  <2> QED BY <2>1, <1>2, <1>3 DEF Bindings
<1>14. b \in Bindings BY <1>2, <1>13
<1>15. binding' \in {b, [b EXCEPT !.local = "cleanup_pending"]}
  BY <1>4 DEF Applied
<1> HIDE DEF moved, target
<1>16. /\ binding' \in Bindings /\ binding'.rev = b.rev /\ binding'.auth = b.auth
       /\ binding'.local \in {b.local, "cleanup_pending"}
  <2> HIDE DEF b
  <2> QED BY <1>14, <1>15 DEF Bindings
<1>5. \/ /\ pending.rev + 1 > binding.rev
         /\ binding'.rev = pending.rev + 1 /\ binding'.auth = target
      \/ /\ ~(pending.rev + 1 > binding.rev)
         /\ binding'.rev = binding.rev /\ binding'.auth = binding.auth
  BY <1>13, <1>16
<1>6. \/ binding'.local = binding.local
      \/ binding'.local = "accepted" /\ binding.local = "prepared"
      \/ binding'.local = "cleanup_pending"
  BY <1>13, <1>16
<1>7. binding' \in Bindings BY <1>16
<1>8. Agrees'
  BY <1>2, <1>3, <1>5 DEF IInv, Agrees, authority
<1>9. pending' = NoCommand /\ Go(job.next, "idle") /\ posted' = posted OBVIOUS
<1>10. Truthful(pending)' BY <1>9 DEF NoCommand, Command, Truthful
<1>11. UNCHANGED <<authority, agent, machine, wire, faults>> OBVIOUS
<1>12. /\ binding'.local \in Early => binding.local \in Early
       /\ binding'.local \in MayLaunch => binding.local \in MayLaunch
       /\ binding'.local = "settled" => binding.local = "settled"
  BY <1>6 DEF Early, MayLaunch
<1> QED BY <1>1, <1>2, <1>7, <1>8, <1>9, <1>10, <1>11, <1>12, PostKeeps

\* The launch is noted before the order to start is sent.
LEMMA LaunchKeeps == ASSUME IInv, Launch PROVE IInv'
<1> USE DEF Launch
<1>1. Attentive BY Attends DEF Asking
<1>2. faults' \in 0 .. MaxFaults BY DEF IInv, TypeOK
<1>3. CASE End /\ UNCHANGED binding
  BY <1>1, <1>2, <1>3, EndKeeps
<1>4. CASE /\ auth.state = "accepted" /\ binding.auth = "accepted" /\ auth.rev >= binding.rev
           /\ binding' = [binding EXCEPT !.rev = auth.rev, !.local = "launch_intent"]
           /\ Request("start", binding.real) /\ Go("start", "idle")
  <2> DEFINE f == [action |-> "start", live |-> TRUE, real |-> binding.real]
  <2>1. binding \in Bindings /\ auth.rev \in Nat BY DEF IInv, TypeOK
  <2>2. f \in Frames /\ f.action = "start" /\ f.live
    <3>1. binding.real \in BOOLEAN BY <2>1 DEF Bindings
    <3> QED BY <3>1 DEF Frames
  <2>3. wire' = Append(wire, f) /\ posted' = posted
    BY <1>4 DEF Request
  <2> HIDE DEF f
  <2>4. /\ binding' \in Bindings /\ binding'.local = "launch_intent"
        /\ binding'.rev = auth.rev /\ binding'.auth = auth.state
    BY <1>4, <2>1 DEF Bindings
  <2>5. job' \in Jobs /\ job'.pc = "start" /\ answer' = Nothing
    BY <1>4, Going DEF Asking
  <2>6. Asked(f)
    BY <2>2, <2>4, <2>5 DEF Asked, Asking
  <2>7. Agrees' BY <2>1, <2>4 DEF Agrees, authority
  <2>8. binding'.local \notin Early \cup MayLaunch \cup {"settled"} BY <2>4 DEF Early, MayLaunch
  <2>9. pending' = pending /\ pending' \in Commands \cup {NoCommand} /\ posted' \subseteq Commands
    BY <2>3 DEF IInv, TypeOK
  <2> QED BY <1>1, <1>2, <2>2, <2>3, <2>4, <2>5, <2>6, <2>7, <2>8, <2>9, JobKeeps
<1> QED BY <1>3, <1>4

\* What a receipt lets the executor report is so.
LEMMA ReportsAreTrue ==
  ASSUME IInv, NEW r \in Reports(answer)
  PROVE  /\ r[1] \in {"none", "started", "result", "cancelled", "unknown"}
         /\ r[2] \in {"none", "not_started", "stopped", "succeeded", "failed"}
         /\ r[1] = "result" => r[2] \in {"succeeded", "failed"} /\ receipt.outcome = r[2]
         /\ r[1] = "cancelled" =>
                \/ /\ r[2] = "not_started"
                   /\ \/ receipt.outcome # "none" /\ receipt.process = "not_started"
                      \/ prepared = "revoked_prepared"
                \/ r[2] = "stopped" /\ Stopped
<1>1. answer \in Receipts /\ receipt \in Receipts BY DEF IInv, TypeOK
<1>2. /\ r[1] \in {"none", "started", "result", "cancelled", "unknown"}
      /\ r[2] \in {"none", "not_started", "stopped", "succeeded", "failed"}
      /\ r[1] = "result" => r[2] \in {"succeeded", "failed"} /\ answer.outcome = r[2]
      /\ r[1] = "cancelled" =>
           /\ answer.outcome \notin {"none", "unknown"}
           /\ \/ r[2] = "not_started" /\ answer.process = "not_started"
              \/ r[2] = "stopped" /\ answer.process \in {"stopped", "finished"}
  <2>1. CASE answer.state = "gone" \/ answer.outcome = "unknown"
    BY <2>1 DEF Reports
  <2>2. CASE /\ ~(answer.state = "gone" \/ answer.outcome = "unknown")
             /\ binding.auth = "cancel_requested"
    BY <2>2 DEF Reports
  <2>3. CASE /\ ~(answer.state = "gone" \/ answer.outcome = "unknown")
             /\ binding.auth # "cancel_requested"
    BY <2>3 DEF Reports
  <2> QED BY <2>1, <2>2, <2>3
<1>3. answer.outcome \notin {"none", "unknown"} =>
        \/ answer = receipt
        \/ answer = Rcpt("cancelled", "not_started", "cancelled") /\ prepared = "revoked_prepared"
  BY DEF IInv, Answered
<1>4. r[1] = "result" => receipt.outcome = r[2]
  BY <1>2, <1>3 DEF Rcpt
<1>5. receipt.outcome \notin {"none", "unknown"} => Stopped
  BY DEF IInv, Invoked, Stopped
<1> QED BY <1>2, <1>3, <1>4, <1>5 DEF Rcpt

\* What the agent has answered is put into a command.
LEMMA ReportKeeps == ASSUME IInv, Report PROVE IInv'
<1> USE DEF Report
<1>1. Attentive BY Attends DEF Attentive
<1>2. binding \in Bindings /\ pending \in Commands \cup {NoCommand} BY DEF IInv, TypeOK
<1>3. /\ binding' \in Bindings /\ binding'.rev = binding.rev /\ binding'.auth = binding.auth
      /\ binding'.local \in {binding.local, "unknown"}
  BY <1>2 DEF Bindings
<1>4. Agrees' BY <1>3 DEF IInv, Agrees, authority
<1>5. /\ binding'.local \in Early => binding.local \in Early
      /\ binding'.local \in MayLaunch => binding.local \in MayLaunch
      /\ binding'.local = "settled" => binding.local = "settled"
  BY <1>3 DEF Early, MayLaunch
<1>6. PICK r \in Reports(answer) :
           IF r[1] = "none" THEN End /\ UNCHANGED pending
           ELSE Enqueue(r[1], binding.rev, r[2]) /\ Deliver(pending', "idle")
  OBVIOUS
<1>7. CASE r[1] = "none"
  <2>1. wire' = wire /\ posted' = posted /\ Go("idle", "idle") /\ pending' = pending
    BY <1>6, <1>7 DEF End
  <2>2. UNCHANGED <<authority, agent, machine, wire, faults>> BY <2>1
  <2> QED BY <1>1, <1>2, <1>3, <1>4, <1>5, <2>1, <2>2, PostKeeps
<1>8. CASE r[1] # "none"
  <2>1. pending' = (IF pending # NoCommand THEN pending ELSE Command(r[1], binding.rev, r[2]))
    BY <1>6, <1>8 DEF Enqueue
  <2>2. Command(r[1], binding.rev, r[2]) # NoCommand /\ Command(r[1], binding.rev, r[2]) \in Commands
    BY <1>2, <1>8, ReportsAreTrue DEF Command, NoCommand, Commands, Bindings
  <2>3. pending' # NoCommand /\ pending' \in Commands
    BY <1>2, <2>1, <2>2
  <2>4. wire' = wire /\ Go("deliver", "idle") /\ posted' = posted \cup {pending'}
    BY <1>6, <1>8, <2>3 DEF Deliver
  <2>5. pending' = pending \/ Truthful(pending)'
    <3>1. CASE pending' = Command(r[1], binding.rev, r[2])
      <4>1. pending'.kind = r[1] /\ pending'.arg = r[2] BY <3>1 DEF Command
      <4>2. r[1] \in {"none", "started", "result", "cancelled", "unknown"} BY ReportsAreTrue
      <4>3. r[1] = "result" => r[2] \in {"succeeded", "failed"} /\ receipt'.outcome = r[2]
        BY ReportsAreTrue DEF agent
      <4>4. r[1] = "cancelled" => \/ r[2] = "not_started" /\ Unstartable'
                                  \/ r[2] = "stopped" /\ Stopped'
        BY ReportsAreTrue DEF agent, machine, Unstartable, Stopped
      <4> QED BY <4>1, <4>2, <4>3, <4>4 DEF Truthful
    <3> QED BY <3>1, <2>1
  <2>6. UNCHANGED <<authority, agent, machine, wire, faults>> BY <2>4
  <2> QED BY <1>1, <1>3, <1>4, <1>5, <2>3, <2>4, <2>5, <2>6, PostKeeps
<1> QED BY <1>7, <1>8

\* A binding whose record is closed is retired.
LEMMA RetireKeeps == ASSUME IInv, Retire PROVE IInv'
<1> USE DEF Retire, Idle
<1>1. Attentive BY Attends DEF Asking
<1>2. faults' \in 0 .. MaxFaults BY DEF IInv, TypeOK
<1>3. binding \in Bindings /\ auth.rev \in Nat /\ auth.state \in ACTIVE \cup TERMINAL
  BY DEF IInv, TypeOK
<1>4. /\ binding' \in Bindings /\ binding'.local = "cleanup_pending"
      /\ \/ binding'.rev = auth.rev /\ binding'.auth = auth.state
         \/ binding' = binding
  BY <1>3 DEF Bindings
<1>5. Agrees' BY <1>3, <1>4 DEF IInv, Agrees, authority
<1>6. binding'.local \notin Early \cup MayLaunch \cup {"settled"} BY <1>4 DEF Early, MayLaunch
<1> DEFINE action == IF binding.real THEN "cancel" ELSE "describe"
           pc == IF binding.real THEN "cleanup" ELSE "describe"
           f == [action |-> action, live |-> TRUE, real |-> TRUE]
<1>7. f \in Frames /\ f.action = action /\ f.live /\ f.real BY DEF Frames
<1>8. wire' = Append(wire, f) /\ posted' = posted /\ Go(pc, "idle")
  BY DEF AskCleanup, Request
<1>9. job' \in Jobs /\ job'.pc = pc /\ answer' = Nothing
  BY <1>8, Going DEF Asking
<1>10. Asked(f)
  BY <1>7, <1>9, <1>4 DEF Asked, Asking
<1>11. pending' = pending /\ pending' \in Commands \cup {NoCommand} /\ posted' \subseteq Commands
  BY <1>8 DEF IInv, TypeOK
<1> HIDE DEF f
<1> QED BY <1>1, <1>2, <1>4, <1>5, <1>6, <1>7, <1>8, <1>9, <1>10, <1>11, JobKeeps

\* A binding is settled once its agent is fenced.
LEMMA SettleKeeps == ASSUME IInv, Settle PROVE IInv'
<1> USE DEF Settle
<1>1. Attentive BY Attends
<1>2. faults' \in 0 .. MaxFaults BY DEF IInv, TypeOK
<1>3. binding \in Bindings BY DEF IInv, TypeOK
<1>4. /\ binding' \in Bindings /\ binding'.local = "settled"
      /\ binding'.rev = binding.rev /\ binding'.auth = binding.auth
  BY <1>3 DEF Bindings
<1>5. Agrees' BY <1>4 DEF IInv, Agrees, authority
<1>6. prepared \notin {"prepared", "started"}
  BY DEF IInv, Placed
<1>7. wire = <<>>
  BY DEF IInv, Waited, Asking, Nothing, Rcpt
<1>8. wire' = wire /\ posted' = posted /\ Go("idle", "idle") BY DEF End
<1>9. job' \in Jobs /\ job'.pc = "idle" /\ answer' = Nothing BY <1>8, Going
<1>10. binding'.local \notin Early \cup MayLaunch BY <1>4 DEF Early, MayLaunch
<1>11. pending' = pending /\ pending' \in Commands \cup {NoCommand} /\ posted' \subseteq Commands
  BY <1>8 DEF IInv, TypeOK
<1>12. job'.pc \notin Asking BY <1>9 DEF Asking
<1> QED BY <1>1, <1>2, <1>4, <1>5, <1>6, <1>7, <1>8, <1>9, <1>10, <1>11, <1>12, JobKeeps
-----------------------------------------------------------------------------
(* The authority.                                                            *)

\* A step of the authority, which may answer the job.
LEMMA AuthorityKeeps ==
  ASSUME IInv, UNCHANGED <<executor, job, wire, agent, machine, faults>>,
         auth' \in [state : ACTIVE \cup TERMINAL, rev : Nat, bound : BOOLEAN, late : BOOLEAN,
                    proc : Processes],
         log' \subseteq Commands, posted' \subseteq posted, cancels' \in 0 .. MaxCancels,
         \/ answer' = answer
         \/ job.pc = "deliver" /\ answer' \in {Rcpt("receipt", "unknown", "none"),
                                               Rcpt("denied", "unknown", "none")},
         Recorded', Closed', Agrees'
  PROVE  IInv'
<1> USE DEF executor, agent, machine
<1>1. answer' \in Receipts
  BY DEF IInv, TypeOK, Rcpt, Receipts, Processes
<1>2. TypeOK'
  BY <1>1 DEF IInv, TypeOK
<1>3. Lasts
  BY DEF Lasts, Never, NoStart, Started, Unstartable, Stopped
<1>4. \A c \in posted' \cup {pending'} : Truthful(c)'
  BY <1>3, SaidStays DEF IInv
<1>5. Invoked'
  BY DEF IInv, Invoked, Started
<1>6. Answered'
  BY DEF IInv, Answered, Rcpt
<1>7. Waited'
  BY DEF IInv, Waited, Asking
<1>8. Placed'
  BY DEF IInv, Placed, NoStart, Started
<1> QED BY <1>2, <1>4, <1>5, <1>6, <1>7, <1>8 DEF IInv

\* What the authority takes for an end is one.
LEMMA EffectKeeps ==
  ASSUME IInv, NEW c \in posted, Accepts(c), auth' = Effect(c),
         UNCHANGED <<executor, job, wire, agent, machine, faults, cancels>>,
         posted' \subseteq posted, log' = log \cup {c}, Respond(c, "receipt")
  PROVE  IInv'
<1>1. /\ c \in Commands /\ c.rev \in Nat /\ c.rev = auth.rev /\ Truthful(c)
      /\ auth \in [state : ACTIVE \cup TERMINAL, rev : Nat, bound : BOOLEAN, late : BOOLEAN,
                   proc : Processes]
      /\ log \subseteq Commands
  BY DEF IInv, TypeOK, Accepts, Commands
<1>2. Target(c) \in (ACTIVE \cup TERMINAL) \ {"requested"}
  BY <1>1 DEF Commands, Target, ACTIVE, TERMINAL, Truthful
<1>3. ProcessState(c) \in Processes
  BY <1>1 DEF Commands, ProcessState, Processes, Truthful
<1>4. (auth.bound \/ c.kind = "accept") \in BOOLEAN OBVIOUS
<1> DEFINE state == Target(c)
           proc == ProcessState(c)
           bound == auth.bound \/ c.kind = "accept"
<1>5. auth' = [auth EXCEPT !.state = state, !.rev = @ + 1, !.proc = proc, !.bound = bound]
  BY DEF Effect
<1>6. state \in ACTIVE \cup TERMINAL /\ proc \in Processes /\ bound \in BOOLEAN
  BY <1>2, <1>3, <1>4
<1> HIDE DEF state, proc, bound
<1>7. /\ auth' \in [state : ACTIVE \cup TERMINAL, rev : Nat, bound : BOOLEAN, late : BOOLEAN,
                    proc : Processes]
      /\ auth'.state = state /\ auth'.rev = auth.rev + 1 /\ auth'.proc = proc
  <2>1. auth.rev + 1 \in Nat BY <1>1
  <2> QED BY <2>1, <1>1, <1>5, <1>6
<1>8. auth.rev \in Nat BY <1>1
<1>9. Recorded'
  <2>1. auth'.rev >= 1 /\ auth'.rev # 1
    BY <1>7, <1>8 DEF IInv, Recorded
  <2>2. auth'.state # "requested" BY <1>2, <1>7 DEF state
  <2>3. ASSUME NEW d \in log' PROVE d.rev < auth'.rev /\ (d.rev + 1 = auth'.rev => Target(d) = auth'.state)
    <3>1. CASE d \in log
      <4>1. d.rev < auth.rev /\ d.rev \in Nat BY <1>1, <3>1 DEF IInv, Recorded, Commands
      <4> QED BY <4>1, <1>7, <1>8
    <3>2. CASE d = c BY <3>2, <1>1, <1>7, <1>8 DEF state
    <3> QED BY <3>1, <3>2
  <2>4. (job.pc = "deliver" /\ answer.state = "receipt" => pending \in log)'
    BY DEF IInv, Recorded, Respond, executor
  <2> QED BY <2>1, <2>2, <2>3, <2>4 DEF Recorded
<1>10. Closed'
  <2>1. /\ state = "completed" => c.kind = "result" /\ c.arg = "succeeded"
        /\ state = "failed" => c.kind = "result" /\ c.arg = "failed"
        /\ state = "rejected" => c.kind = "reject"
        /\ state = "cancelled" => c.kind = "cancelled"
        /\ state \in TERMINAL => c.kind \in {"result", "reject", "cancelled"}
    BY <1>1 DEF state, Target, Commands, Truthful, TERMINAL
  <2>2. /\ c.kind = "result" => proc = "finished"
        /\ c.kind = "cancelled" => proc = c.arg
    BY DEF proc, ProcessState
  <2>3. Lasts
    BY DEF Lasts, Never, NoStart, Started, Unstartable, Stopped, executor, agent, machine
  <2>4. Truthful(c)'
    BY <1>1, <2>3, SaidStays
  <2> QED BY <2>1, <2>2, <2>4, <1>7 DEF Closed, Truthful, Unstartable
<1>11. Agrees'
  <2>1. binding.rev \in Nat BY DEF IInv, TypeOK, Bindings
  <2> QED BY <2>1, <1>7, <1>8 DEF IInv, Agrees, executor
<1>12. \/ answer' = answer
       \/ job.pc = "deliver" /\ answer' = Rcpt("receipt", "unknown", "none")
  BY DEF Respond
<1>13. log' \subseteq Commands /\ cancels' \in 0 .. MaxCancels BY <1>1 DEF IInv, TypeOK
<1> QED BY <1>7, <1>9, <1>10, <1>11, <1>12, <1>13, AuthorityKeeps

\* The authority takes in a command, in any order, any number of times.
LEMMA SubmitKeeps == ASSUME IInv, NEW c \in posted, Submit(c) PROVE IInv'
<1> USE DEF Submit
<1>1. posted' \subseteq posted /\ UNCHANGED <<executor, job, wire, agent, machine, cancels, faults>>
  OBVIOUS
<1>2. CASE Accepts(c) /\ auth' = Effect(c) /\ log' = log \cup {c} /\ Respond(c, "receipt")
  BY <1>1, <1>2, EffectKeeps
<1>3. ASSUME log' = log, Respond(c, "denied") \/ (c \in log /\ Respond(c, "receipt")),
             auth' \in [state : ACTIVE \cup TERMINAL, rev : Nat, bound : BOOLEAN, late : BOOLEAN,
                        proc : Processes],
             auth'.state = auth.state, auth'.rev = auth.rev, auth'.proc = auth.proc
      PROVE  IInv'
  <2>1. \/ answer' = answer
        \/ /\ job.pc = "deliver" /\ c = pending
           /\ \/ answer' = Rcpt("receipt", "unknown", "none") /\ c \in log
              \/ answer' = Rcpt("denied", "unknown", "none")
    BY <1>3 DEF Respond
  <2>2. Recorded'
    BY <1>1, <1>3, <2>1 DEF IInv, Recorded, executor, Rcpt
  <2>3. Lasts
    BY <1>1 DEF Lasts, Never, NoStart, Started, Unstartable, Stopped, executor, agent, machine
  <2>4. Closed' BY <1>3, <2>3, ClosedStays DEF IInv
  <2>5. Agrees' BY <1>1, <1>3 DEF IInv, Agrees, executor
  <2>6. log' \subseteq Commands /\ cancels' \in 0 .. MaxCancels BY <1>1, <1>3 DEF IInv, TypeOK
  <2> QED BY <1>1, <1>3, <2>1, <2>2, <2>4, <2>5, <2>6, AuthorityKeeps
<1>4. CASE c \in log /\ Respond(c, "receipt") /\ UNCHANGED <<auth, log>>
  <2>1. auth' \in [state : ACTIVE \cup TERMINAL, rev : Nat, bound : BOOLEAN, late : BOOLEAN,
                   proc : Processes]
    BY <1>4 DEF IInv, TypeOK
  <2> QED BY <2>1, <1>3, <1>4 DEF authority
<1>5. ASSUME auth' = [auth EXCEPT !.late =
                 @ \/ (c.kind = "result" /\ auth.state \in {"cancel_requested", "cancelled"})],
             Respond(c, "denied"), log' = log
      PROVE  IInv'
  <2> DEFINE late == auth.late \/ (c.kind = "result" /\ auth.state \in {"cancel_requested", "cancelled"})
  <2>1. late \in BOOLEAN OBVIOUS
  <2>2. auth' = [auth EXCEPT !.late = late] BY <1>5
  <2> HIDE DEF late
  <2>3. auth \in [state : ACTIVE \cup TERMINAL, rev : Nat, bound : BOOLEAN, late : BOOLEAN,
                  proc : Processes]
    BY DEF IInv, TypeOK
  <2>4. /\ auth' \in [state : ACTIVE \cup TERMINAL, rev : Nat, bound : BOOLEAN, late : BOOLEAN,
                      proc : Processes]
        /\ auth'.state = auth.state /\ auth'.rev = auth.rev /\ auth'.proc = auth.proc
    BY <2>1, <2>2, <2>3
  <2> QED BY <2>4, <1>3, <1>5
<1> QED BY <1>2, <1>4, <1>5

\* The user asks the authority to cancel.
LEMMA CancelRequestKeeps == ASSUME IInv, Cancel PROVE IInv'
<1> USE DEF Cancel
<1>1. /\ auth \in [state : ACTIVE \cup TERMINAL, rev : Nat, bound : BOOLEAN, late : BOOLEAN,
                   proc : Processes]
      /\ auth.rev \in Nat
  BY DEF IInv, TypeOK
<1>2. /\ auth' \in [state : ACTIVE \cup TERMINAL, rev : Nat, bound : BOOLEAN, late : BOOLEAN,
                    proc : Processes]
      /\ auth'.state = "cancel_requested" /\ auth'.rev = auth.rev + 1
  <2>1. auth.rev + 1 \in Nat BY <1>1
  <2> QED BY <2>1, <1>1 DEF ACTIVE
<1>3. Recorded'
  <2>1. \A d \in log : d.rev \in Nat /\ d.rev < auth.rev BY DEF IInv, Recorded, TypeOK, Commands
  <2> QED BY <1>1, <1>2, <2>1 DEF IInv, Recorded, executor
<1>4. Closed' BY <1>2 DEF Closed, TERMINAL
<1>5. Agrees'
  <2>1. binding.rev \in Nat BY DEF IInv, TypeOK, Bindings
  <2> QED BY <2>1, <1>1, <1>2 DEF IInv, Agrees, executor
<1>6. log' \subseteq Commands /\ posted' = posted /\ answer' = answer BY DEF IInv, TypeOK
<1>7. cancels' \in 0 .. MaxCancels BY DelegationAssumption DEF IInv, TypeOK
<1> QED BY <1>2, <1>3, <1>4, <1>5, <1>6, <1>7, AuthorityKeeps
-----------------------------------------------------------------------------
(* The agent, the connection and the invocation.                             *)

\* Every frame left was there before, the last one last.
Shrinks ==
    /\ wire' \in Seq(Frames)
    /\ \A i \in 1..Len(wire') : \E j \in 1..Len(wire) :
           wire'[i] = wire[j] /\ (j = Len(wire) => i = Len(wire'))

StartComes == \E i \in 1..Len(wire) : wire[i].action = "start"
PrepareComes == \E i \in 1..Len(wire) : wire[i].action = "prepare"

\* A step of the agent or of the invocation, answered or not.
LEMMA AgentKeeps ==
  ASSUME IInv, UNCHANGED <<authority, posted, executor, job>>, faults' \in 0 .. MaxFaults,
         Shrinks, answer' \in Receipts, receipt' \in Receipts, alive' \in BOOLEAN, starts' \in Nat,
         prepared' \in {"none", "prepared", "started", "revoked_prepared", "revoked_started"},
         Invoked', answer' = answer \/ Answered',
         job.pc \in Asking /\ answer' # Nothing => wire' = <<>>,
         answer' = answer \/ answer'.state # "receipt",
         Started' => Started \/ StartComes,
         prepared = "revoked_prepared" => prepared' = "revoked_prepared",
         receipt.outcome # "none" => receipt' = receipt /\ (alive' => alive),
         prepared \notin {"prepared", "started"} /\ prepared' \in {"prepared", "started"} =>
             prepared = "none" /\ PrepareComes,
         prepared' = "none" => prepared = "none",
         job.pc = "cleanup" /\ answer'.state \notin {"nothing", "denied"} =>
             prepared' \notin {"prepared", "started"},
         job.pc = "describe" /\ answer'.state = "gone" => prepared' = "none"
  PROVE  IInv'
<1> USE DEF authority, executor
<1>0. Len(wire) \in Nat /\ Len(wire') \in Nat BY LenProperties DEF IInv, TypeOK, Shrinks
<1>1. TypeOK'
  BY DEF IInv, TypeOK, Shrinks
<1>2. NoStart => NoStart'
  BY DEF NoStart, StartComes, Shrinks
<1>3. Lasts
  BY <1>2 DEF Lasts, Never, Unstartable, Stopped
<1>4. \A c \in posted' \cup {pending'} : Truthful(c)'
  BY <1>3, SaidStays DEF IInv
<1>5. Answered'
  BY DEF IInv, Answered, Rcpt
<1>6. Waited'
  <2>1. ASSUME NEW i \in 1..Len(wire'), wire'[i].live
        PROVE  /\ i = Len(wire') /\ job.pc \in Asking
               /\ job.pc = "cleanup" => wire'[i].action = "cancel" /\ wire'[i].real
               /\ job.pc = "describe" => wire'[i].action = "describe"
    <3>1. PICK j \in 1..Len(wire) : wire'[i] = wire[j] /\ (j = Len(wire) => i = Len(wire'))
      BY DEF Shrinks
    <3> QED BY <2>1, <3>1 DEF IInv, Waited
  <2> QED BY <2>1 DEF IInv, Waited
<1>7. Placed'
  <2>1. binding.local = "settled" =>
           /\ prepared' \notin {"prepared", "started"}
           /\ prepared' = "none" => \A i \in 1..Len(wire') : wire'[i].action # "prepare"
    BY DEF IInv, Placed, PrepareComes, Shrinks
  <2> QED BY <1>2, <2>1 DEF IInv, Placed
<1>8. Recorded'
  BY DEF IInv, Recorded
<1>9. Closed'
  BY <1>3, ClosedStays DEF IInv
<1>10. Agrees' BY DEF IInv, Agrees
<1> QED BY <1>1, <1>4, <1>5, <1>6, <1>7, <1>8, <1>9, <1>10 DEF IInv

\* No frame is added to the wire.
LEMMA SameWire ==
  ASSUME IInv, wire' = wire
  PROVE  Shrinks
<1>1. wire \in Seq(Frames) BY DEF IInv, TypeOK
<1> QED BY <1>1 DEF Shrinks

\* A connection that is lost takes its frames along.
LEMMA LostWire ==
  ASSUME wire' = <<>>
  PROVE  Shrinks
<1>1. wire' \in Seq(Frames) /\ Len(wire') = 0 BY DEF Shrinks
<1>2. \A i \in 1..Len(wire') : FALSE BY <1>1
<1> QED BY <1>1, <1>2 DEF Shrinks

\* The agent reads the first frame; if its answer is awaited it is the only one.
LEMMA ReadWire ==
  ASSUME IInv, wire # <<>>, wire' = Tail(wire)
  PROVE  /\ Shrinks /\ Head(wire) \in Frames /\ Head(wire) = wire[1]
         /\ Len(wire) \in Nat /\ 1 \in 1..Len(wire)
         /\ Head(wire).live => wire' = <<>> /\ answer = Nothing /\ job.pc \in Asking
         /\ job.pc \in Asking => answer = Nothing
<1>1. wire \in Seq(Frames) BY DEF IInv, TypeOK
<1>2. /\ wire' \in Seq(Frames) /\ Len(wire') = Len(wire) - 1 /\ Len(wire) \in Nat /\ Len(wire) # 0
      /\ \A i \in 1..Len(wire') : wire'[i] = wire[i + 1]
      /\ Head(wire) \in Frames /\ Head(wire) = wire[1]
  BY <1>1, HeadTailProperties, LenProperties, EmptySeq
<1>3. Shrinks
  <2>1. ASSUME NEW i \in 1..Len(wire')
        PROVE  \E j \in 1..Len(wire) : wire'[i] = wire[j] /\ (j = Len(wire) => i = Len(wire'))
    <3>1. i + 1 \in 1..Len(wire) BY <1>2
    <3>2. wire'[i] = wire[i + 1] BY <1>2, Zenon
    <3>3. i + 1 = Len(wire) => i = Len(wire')
      <4> DEFINE n == Len(wire)
                 m == Len(wire')
      <4>1. n \in Nat /\ m = n - 1 /\ i \in 1..m BY <1>2
      <4> HIDE DEF n, m
      <4>2. i + 1 = n => i = m BY <4>1
      <4> QED BY <4>2 DEF n, m
    <3> QED BY <3>1, <3>2, <3>3
  <2> QED BY <1>2, <2>1 DEF Shrinks
<1>4. 1 \in 1..Len(wire) BY <1>2
<1>5. job.pc \in Asking => answer = Nothing
  BY DEF IInv, Waited
<1>6. Head(wire).live => Len(wire) = 1 /\ job.pc \in Asking
  BY <1>2, <1>4 DEF IInv, Waited
<1>7. Len(wire') = 0 => wire' = <<>>
  BY <1>2, EmptySeq
<1> QED BY <1>2, <1>3, <1>4, <1>5, <1>6, <1>7

-----------------------------------------------------------------------------

\* The next process fences or recovers what it finds.
LEMMA Fencing ==
  ASSUME IInv
  PROVE  /\ Cancelled(receipt) \in Receipts /\ Recover(receipt) \in Receipts
         /\ receipt.outcome # "none" => Cancelled(receipt) = receipt /\ Recover(receipt) = receipt
         /\ receipt = NoReceipt => Cancelled(receipt) = receipt /\ Recover(receipt) = receipt
         /\ Cancelled(receipt).outcome = receipt.outcome
         /\ Cancelled(receipt).process = receipt.process
BY DEF IInv, TypeOK, Cancelled, Recover, Receipts, Processes, NoReceipt, Rcpt

\* A receipt that is fenced or recovered still fits the process.
LEMMA FencedInvoked ==
  ASSUME IInv, UNCHANGED machine,
         receipt' \in {Cancelled(receipt), Recover(receipt)}, Started => Started'
  PROVE  Invoked'
<1>1. Invoked /\ receipt \in Receipts BY DEF IInv, TypeOK
<1>2. CASE receipt' = Cancelled(receipt)
  BY <1>1, <1>2 DEF Invoked, machine, Cancelled, Receipts, NoReceipt, Rcpt
<1>3. CASE receipt' = Recover(receipt)
  BY <1>1, <1>3 DEF Invoked, machine, Recover, Receipts, NoReceipt, Rcpt
<1> QED BY <1>2, <1>3

\* The connection breaks: what was started is fenced and the frames are lost.
LEMMA DisconnectsKeeps == ASSUME IInv, Disconnects PROVE IInv'
<1> USE DEF Disconnects, ConnectionLost
<1>1. Shrinks BY LostWire
<1>2. faults' \in 0 .. MaxFaults BY DelegationAssumption DEF Fault, IInv, TypeOK
<1>3. answer' \in {answer, Denied} /\ answer' \in Receipts
  BY DEF IInv, TypeOK, Denied, Rcpt, Receipts, Processes
<1>4. answer' = answer \/ Answered'
  BY <1>3 DEF Answered, Denied, Rcpt
<1>5. \/ prepared' = prepared /\ receipt' = receipt
      \/ prepared = "started" /\ prepared' = "revoked_started" /\ receipt' = Cancelled(receipt)
  BY DEF Fence, Revoked, Started, agent
<1>6. /\ receipt' \in Receipts
      /\ prepared' \in {"none", "prepared", "started", "revoked_prepared", "revoked_started"}
  BY <1>5, Fencing DEF IInv, TypeOK
<1>7. Invoked'
  <2>1. CASE prepared' = prepared /\ receipt' = receipt
    BY <2>1 DEF IInv, Invoked, Started, machine
  <2>2. CASE prepared = "started" /\ prepared' = "revoked_started" /\ receipt' = Cancelled(receipt)
    BY <2>2, FencedInvoked DEF Started
  <2> QED BY <1>5, <2>1, <2>2
<1>8. alive' \in BOOLEAN /\ starts' \in Nat /\ alive' = alive BY DEF IInv, TypeOK, machine
<1>9. receipt.outcome # "none" => receipt' = receipt BY <1>5, Fencing
<1>10. Started' => Started BY <1>5 DEF Started
<1>11. /\ job.pc = "cleanup" /\ answer'.state \notin {"nothing", "denied"} =>
             prepared' \notin {"prepared", "started"}
       /\ job.pc = "describe" /\ answer'.state = "gone" => prepared' = "none"
  BY <1>3, <1>5 DEF IInv, Placed, Denied, Rcpt
<1>12. answer' = answer \/ answer'.state # "receipt" BY <1>3 DEF Denied, Rcpt
<1>13. /\ prepared = "revoked_prepared" => prepared' = "revoked_prepared"
       /\ ~(prepared \notin {"prepared", "started"} /\ prepared' \in {"prepared", "started"})
       /\ prepared' = "none" => prepared = "none"
  BY <1>5
<1> QED BY <1>1, <1>2, <1>3, <1>4, <1>6, <1>7, <1>8, <1>9, <1>10, <1>11, <1>12, <1>13, AgentKeeps

\* Nobody has renewed the lease: the agent fences what was started.
LEMMA LeaseExpiresKeeps == ASSUME IInv, LeaseExpires PROVE IInv'
<1> USE DEF LeaseExpires
<1>1. Shrinks BY SameWire
<1>2. faults' \in 0 .. MaxFaults BY DelegationAssumption DEF Fault, IInv, TypeOK
<1>3. answer' = answer /\ answer' \in Receipts BY DEF IInv, TypeOK
<1>4. prepared = "started" /\ prepared' = "revoked_started" /\ receipt' = Cancelled(receipt)
  BY DEF Fence, Revoked, Started
<1>5. receipt' \in Receipts BY <1>4, Fencing
<1>6. Invoked' BY <1>4, FencedInvoked DEF Started
<1>7. alive' \in BOOLEAN /\ starts' \in Nat /\ alive' = alive BY DEF IInv, TypeOK, machine
<1>8. receipt.outcome # "none" => receipt' = receipt BY <1>4, Fencing
<1>9. Started' => Started BY <1>4 DEF Started
<1>10. /\ job.pc = "cleanup" /\ answer'.state \notin {"nothing", "denied"} =>
             prepared' \notin {"prepared", "started"}
       /\ job.pc = "describe" /\ answer'.state = "gone" => prepared' = "none"
  BY <1>3, <1>4 DEF IInv, Placed
<1>11. job.pc \in Asking /\ answer' # Nothing => wire' = <<>> BY <1>3 DEF IInv, Waited
<1> QED BY <1>1, <1>2, <1>3, <1>4, <1>5, <1>6, <1>7, <1>8, <1>9, <1>10, <1>11, AgentKeeps

\* The agent dies, and its next process recovers what it finds.
LEMMA DiesKeeps == ASSUME IInv, NEW intent \in BOOLEAN, Dies(intent) PROVE IInv'
<1> USE DEF Dies, ConnectionLost
<1>1. Shrinks BY LostWire
<1>2. faults' \in 0 .. MaxFaults BY DelegationAssumption DEF Fault, IInv, TypeOK
<1>3. answer' \in {answer, Denied} /\ answer' \in Receipts
  BY DEF IInv, TypeOK, Denied, Rcpt, Receipts, Processes
<1>4. answer' = answer \/ Answered'
  BY <1>3 DEF Answered, Denied, Rcpt
<1>5. /\ \/ prepared' = prepared
         \/ prepared = "prepared" /\ prepared' = "started" /\ StartComes
      /\ receipt' = Recover(receipt)
  <2>1. CASE ~intent BY <2>1
  <2>2. CASE intent
    <3>1. wire # <<>> /\ Head(wire).action = "start" BY <2>2 DEF Mine
    <3>2. wire \in Seq(Frames) BY DEF IInv, TypeOK
    <3>3. Head(wire) = wire[1] /\ 1 \in 1..Len(wire)
      BY <3>1, <3>2, HeadTailProperties, LenProperties, EmptySeq
    <3>4. StartComes BY <3>1, <3>3 DEF StartComes
    <3> QED BY <2>2, <3>4
  <2> QED BY <2>1, <2>2
<1>6. /\ receipt' \in Receipts
      /\ prepared' \in {"none", "prepared", "started", "revoked_prepared", "revoked_started"}
  BY <1>5, Fencing DEF IInv, TypeOK
<1>7. Invoked'
  BY <1>5, FencedInvoked DEF Started
<1>8. alive' \in BOOLEAN /\ starts' \in Nat /\ alive' = alive BY DEF IInv, TypeOK, machine
<1>9. receipt.outcome # "none" => receipt' = receipt BY <1>5, Fencing
<1>10. Started' => Started \/ StartComes BY <1>5 DEF Started
<1>11. /\ job.pc = "cleanup" /\ answer'.state \notin {"nothing", "denied"} =>
             prepared' \notin {"prepared", "started"}
       /\ job.pc = "describe" /\ answer'.state = "gone" => prepared' = "none"
  BY <1>3, <1>5 DEF IInv, Placed, Denied, Rcpt
<1>12. answer' = answer \/ answer'.state # "receipt" BY <1>3 DEF Denied, Rcpt
<1>13. /\ prepared = "revoked_prepared" => prepared' = "revoked_prepared"
       /\ ~(prepared \notin {"prepared", "started"} /\ prepared' \in {"prepared", "started"})
       /\ prepared' = "none" => prepared = "none"
  BY <1>5
<1> QED BY <1>1, <1>2, <1>3, <1>4, <1>6, <1>7, <1>8, <1>9, <1>10, <1>11, <1>12, <1>13, AgentKeeps
-----------------------------------------------------------------------------
(* Control frames, one at a time.                                            *)

\* The agent handles a frame and answers it, if anyone waits.
LEMMA FrameKeeps ==
  ASSUME IInv, wire # <<>>, wire' = Tail(wire),
         UNCHANGED <<authority, posted, executor, job, machine>>, faults' \in 0 .. MaxFaults,
         \/ answer' = answer
         \/ Head(wire).live /\ answer' \in Receipts /\ answer'.state # "receipt" /\ Answered',
         prepared' \in {"none", "prepared", "started", "revoked_prepared", "revoked_started"},
         receipt' \in Receipts, Invoked',
         Started' => Started \/ Head(wire).action = "start",
         prepared = "revoked_prepared" => prepared' = "revoked_prepared",
         receipt.outcome # "none" => receipt' = receipt,
         prepared \notin {"prepared", "started"} /\ prepared' \in {"prepared", "started"} =>
             prepared = "none" /\ Head(wire).action = "prepare",
         prepared' = "none" => prepared = "none",
         Head(wire).action = "cancel" /\ Head(wire).real =>
             prepared' \notin {"prepared", "started"},
         Head(wire).action = "describe" /\ Head(wire).live /\ answer'.state = "gone" =>
             prepared' = "none"
  PROVE  IInv'
<1>1. /\ Shrinks /\ Head(wire) \in Frames /\ Head(wire) = wire[1] /\ 1 \in 1..Len(wire)
      /\ Head(wire).live => wire' = <<>> /\ answer = Nothing /\ job.pc \in Asking
      /\ job.pc \in Asking => answer = Nothing
  BY ReadWire
<1>2. Head(wire).live =>
        /\ job.pc = "cleanup" => Head(wire).action = "cancel" /\ Head(wire).real
        /\ job.pc = "describe" => Head(wire).action = "describe"
  BY <1>1 DEF IInv, Waited
<1>4. alive' \in BOOLEAN /\ starts' \in Nat /\ alive' = alive BY DEF IInv, TypeOK, machine
<1>5. answer' \in Receipts BY DEF IInv, TypeOK
<1>6. job.pc \in Asking /\ answer' # Nothing => wire' = <<>>
  BY <1>1
<1>7. Started' => Started \/ StartComes
  BY <1>1 DEF StartComes
<1>8. prepared \notin {"prepared", "started"} /\ prepared' \in {"prepared", "started"} =>
          prepared = "none" /\ PrepareComes
  BY <1>1 DEF PrepareComes
<1>9. job.pc = "cleanup" /\ answer'.state \notin {"nothing", "denied"} =>
          prepared' \notin {"prepared", "started"}
  BY <1>1, <1>2 DEF Asking, Nothing, Rcpt
<1>10. job.pc = "describe" /\ answer'.state = "gone" => prepared' = "none"
  BY <1>1, <1>2 DEF Asking, Nothing, Rcpt
<1>11. UNCHANGED <<authority, posted, executor, job>> OBVIOUS
<1>12. answer' = answer \/ Answered' OBVIOUS
<1>13. answer' = answer \/ answer'.state # "receipt" OBVIOUS
<1>14. receipt.outcome # "none" => receipt' = receipt /\ (alive' => alive) BY <1>4
<1> QED BY <1>1, <1>4, <1>5, <1>6, <1>7, <1>8, <1>9, <1>10, <1>11, <1>12, <1>13, <1>14, AgentKeeps

\* A frame that changes nothing at the agent.
LEMMA QuietFrame ==
  ASSUME IInv, wire # <<>>, wire' = Tail(wire),
         UNCHANGED <<authority, posted, executor, job, machine, agent>>, faults' \in 0 .. MaxFaults,
         \/ answer' = answer
         \/ Head(wire).live /\ answer' \in Receipts /\ answer'.state # "receipt" /\ Answered',
         Head(wire).action = "cancel" /\ Head(wire).real =>
             prepared \notin {"prepared", "started"},
         Head(wire).action = "describe" /\ Head(wire).live /\ answer'.state = "gone" =>
             prepared = "none"
  PROVE  IInv'
<1>1. prepared' = prepared /\ receipt' = receipt BY DEF agent
<1>2. receipt' \in Receipts
      /\ prepared' \in {"none", "prepared", "started", "revoked_prepared", "revoked_started"}
  BY <1>1 DEF IInv, TypeOK
<1>3. Invoked' BY <1>1 DEF IInv, Invoked, Started, machine
<1>4. Started' => Started BY <1>1 DEF Started
<1> QED BY <1>1, <1>2, <1>3, <1>4, FrameKeeps

\* The states of a receipt that is there are not those of an error.
LEMMA ReceiptStates ==
  ASSUME IInv
  PROVE  receipt \in Receipts /\ receipt.state \notin {"receipt", "gone", "denied", "nothing"}
BY DEF IInv, TypeOK, Invoked, Receipts

\* An answer that is not a receipt tells of no end.
LEMMA Errors ==
  /\ Denied \in Receipts /\ Gone \in Receipts /\ Rcpt("descriptor", "unknown", "none") \in Receipts
  /\ NoReceipt \in Receipts /\ Rcpt("queued", "not_started", "none") \in Receipts
  /\ Denied.outcome = "none" /\ Gone.outcome = "none" /\ Denied.state = "denied" /\ Gone.state = "gone"
  /\ Rcpt("descriptor", "unknown", "none").outcome = "none"
  /\ Rcpt("descriptor", "unknown", "none").state = "descriptor"
BY DEF Denied, Gone, Rcpt, Receipts, Processes, NoReceipt

\* A preparation or a start that is refused changes nothing at the agent.
LEMMA RefusesKeeps == ASSUME IInv, Refuses PROVE IInv'
<1> DEFINE f == Head(wire)
<1>1. /\ wire # <<>> /\ wire' = Tail(wire) /\ f.action \in {"prepare", "start"}
      /\ UNCHANGED <<authority, posted, executor, job, machine, agent>>
  BY DEF Refuses
<1>2. faults' \in 0 .. MaxFaults BY DelegationAssumption DEF Refuses, Fault, IInv, TypeOK
<1>3. answer' = answer \/ (f.live /\ answer' = Denied) BY DEF Refuses, Reply
<1>4. \/ answer' = answer
      \/ f.live /\ answer' \in Receipts /\ answer'.state # "receipt" /\ Answered'
  BY <1>3, Errors DEF Answered
<1> QED BY <1>1, <1>2, <1>4, QuietFrame

\* Every kind of frame, handled by the agent.
LEMMA HandleKeeps == ASSUME IInv, Handle PROVE IInv'
<1> DEFINE f == Head(wire)
<1>1. /\ wire # <<>> /\ wire' = Tail(wire)
      /\ UNCHANGED <<authority, posted, executor, job, machine>> /\ faults' \in 0 .. MaxFaults
  BY DEF Handle, IInv, TypeOK
<1>2. CASE HandlePrepare(f)
  <2>1. \/ answer' = answer
        \/ f.live /\ answer' \in {Denied, Rcpt("descriptor", "unknown", "none")}
    BY <1>2 DEF HandlePrepare, Reply
  <2>2. \/ answer' = answer
        \/ f.live /\ answer' \in Receipts /\ answer'.state # "receipt" /\ Answered'
    BY <2>1, Errors DEF Answered
  <2>3. /\ f.action = "prepare" /\ receipt' = receipt
        /\ \/ prepared' = prepared
           \/ prepared = "none" /\ prepared' = "prepared"
    BY <1>2 DEF HandlePrepare
  <2>4. receipt' \in Receipts
        /\ prepared' \in {"none", "prepared", "started", "revoked_prepared", "revoked_started"}
    BY <2>3 DEF IInv, TypeOK
  <2>5. Invoked' BY <1>1, <2>3 DEF IInv, Invoked, Started, machine
  <2>6. Started' => Started BY <2>3 DEF Started
  <2> QED BY <1>1, <2>2, <2>3, <2>4, <2>5, <2>6, FrameKeeps
<1>3. CASE HandleDescribe(f)
  <2>1. \/ answer' = answer /\ ~f.live
        \/ f.live /\ prepared = "none" /\ answer' = Gone
        \/ f.live /\ prepared # "none" /\ answer' = Rcpt("descriptor", "unknown", "none")
    BY <1>3 DEF HandleDescribe, Reply
  <2>2. \/ answer' = answer
        \/ f.live /\ answer' \in Receipts /\ answer'.state # "receipt" /\ Answered'
    BY <2>1, Errors DEF Answered
  <2>3. f.action = "describe" /\ UNCHANGED agent BY <1>3 DEF HandleDescribe
  <2> QED BY <1>1, <2>1, <2>2, <2>3, Errors, QuietFrame
<1>4. CASE HandleUnknown(f)
  <2>1. answer' = answer \/ (f.live /\ answer' \in {Gone, Denied})
    BY <1>4 DEF HandleUnknown, Reply
  <2>2. \/ answer' = answer
        \/ f.live /\ answer' \in Receipts /\ answer'.state # "receipt" /\ Answered'
    BY <2>1, Errors DEF Answered
  <2>3. f.action # "describe" /\ (prepared = "none" \/ ~f.real) /\ UNCHANGED agent
    BY <1>4 DEF HandleUnknown
  <2> QED BY <1>1, <2>2, <2>3, QuietFrame
<1>5. ASSUME NEW accepted \in BOOLEAN, HandleStart(f, accepted) PROVE IInv'
  <2>1. f.action = "start" BY <1>5 DEF HandleStart, Mine
  <2>2. CASE /\ prepared = "prepared" /\ prepared' = "started"
             /\ receipt' = IF accepted THEN Rcpt("queued", "not_started", "none") ELSE receipt
             /\ Reply(f, IF accepted THEN receipt' ELSE Denied)
    <3>1. receipt = NoReceipt /\ receipt' \in {NoReceipt, Rcpt("queued", "not_started", "none")}
      BY <2>2 DEF IInv, Invoked, Started
    <3>2. receipt' \in Receipts BY <3>1, Errors
    <3>3. answer' = answer \/ (f.live /\ answer' \in {Rcpt("queued", "not_started", "none"), Denied})
      BY <2>2 DEF Reply
    <3>4. \/ answer' = answer
          \/ f.live /\ answer' \in Receipts /\ answer'.state # "receipt" /\ Answered'
      BY <3>3, Errors DEF Answered, Rcpt, Denied
    <3>5. Invoked'
      <4>1. starts = 0 /\ ~alive /\ starts' = starts /\ alive' = alive
        BY <3>1, <1>1 DEF IInv, Invoked, NoReceipt, Rcpt, machine
      <4>2. Started' BY <2>2 DEF Started
      <4> QED BY <3>1, <4>1, <4>2 DEF Invoked, NoReceipt, Rcpt
    <3>6. receipt.outcome = "none" BY <3>1 DEF NoReceipt, Rcpt
    <3> QED BY <1>1, <2>1, <2>2, <3>2, <3>4, <3>5, <3>6, FrameKeeps
  <2>3. CASE UNCHANGED agent /\ \/ prepared = "started" /\ Reply(f, IF receipt = NoReceipt THEN Gone ELSE receipt)
                                \/ Reply(f, Denied)
    <3>1. answer' = answer \/ (f.live /\ answer' \in {Gone, Denied, receipt})
      BY <2>3 DEF Reply
    <3>2. receipt' = receipt BY <2>3 DEF agent
    <3>3. \/ answer' = answer
          \/ f.live /\ answer' \in Receipts /\ answer'.state # "receipt" /\ Answered'
      BY <3>1, <3>2, Errors, ReceiptStates DEF Answered
    <3> QED BY <1>1, <2>1, <2>3, <3>3, QuietFrame
  <2> QED BY <1>5, <2>2, <2>3 DEF HandleStart
<1>6. CASE HandleReconcile(f)
  <2>1. f.action = "reconcile" /\ UNCHANGED agent /\ Reply(f, Known(receipt, "reconcile"))
    BY <1>6 DEF HandleReconcile, Mine
  <2>2. answer' = answer \/ (f.live /\ answer' = Known(receipt, "reconcile"))
    BY <2>1 DEF Reply
  <2>3. receipt' = receipt /\ prepared' = prepared BY <2>1 DEF agent
  <2>4. ASSUME answer' = Known(receipt, "reconcile")
        PROVE  answer' \in Receipts /\ answer'.state # "receipt" /\ Answered'
    <3>1. answer' = receipt \/ answer' = Rcpt("unknown", "unknown", "unknown")
          \/ (prepared = "revoked_prepared" /\ answer' = Rcpt("cancelled", "not_started", "cancelled"))
          \/ answer' = Rcpt("prepared", "not_started", "none")
      BY <2>4 DEF Known
    <3>2. answer' \in Receipts /\ answer'.state # "receipt"
      BY <3>1, ReceiptStates DEF Rcpt, Receipts, Processes
    <3>3. Answered' BY <3>1, <2>3 DEF Answered, Rcpt
    <3> QED BY <3>2, <3>3
  <2>5. \/ answer' = answer
        \/ f.live /\ answer' \in Receipts /\ answer'.state # "receipt" /\ Answered'
    BY <2>2, <2>4
  <2> QED BY <1>1, <2>1, <2>5, QuietFrame
<1>7. CASE HandleCancel(f)
  <2>1. /\ f.action \in {"cancel", "revoke"} /\ prepared # "none"
        /\ prepared' = (IF Started THEN "revoked_started" ELSE "revoked_prepared")
        /\ receipt' = Cancelled(receipt) /\ Reply(f, Known(receipt', "cancel"))
    BY <1>7 DEF HandleCancel, Mine, Fence, Revoked
  <2>2. answer' = answer \/ (f.live /\ answer' = Known(receipt', "cancel"))
    BY <2>1 DEF Reply
  <2>3. /\ Started' <=> Started
        /\ prepared' \in {"none", "prepared", "started", "revoked_prepared", "revoked_started"}
    BY <2>1 DEF Started
  <2>4. Invoked' BY <1>1, <2>1, <2>3, FencedInvoked
  <2>5. receipt' \in Receipts /\ receipt'.state # "receipt"
    BY <2>1, Fencing, ReceiptStates DEF Cancelled, Receipts
  <2>6. ASSUME answer' = Known(receipt', "cancel")
        PROVE  answer' \in Receipts /\ answer'.state # "receipt" /\ Answered'
    <3>1. answer' = receipt' \/ answer' = Rcpt("unknown", "unknown", "unknown")
          \/ (~Started /\ answer' = Rcpt("cancelled", "not_started", "cancelled"))
      BY <2>6, <2>1 DEF Known, Started
    <3>2. answer' \in Receipts /\ answer'.state # "receipt"
      BY <3>1, <2>5 DEF Rcpt, Receipts, Processes
    <3>3. Answered' BY <3>1, <2>1 DEF Answered, Rcpt
    <3> QED BY <3>2, <3>3
  <2>7. \/ answer' = answer
        \/ f.live /\ answer' \in Receipts /\ answer'.state # "receipt" /\ Answered'
    BY <2>2, <2>6
  <2>8. receipt.outcome # "none" => receipt' = receipt BY <2>1, Fencing
  <2>9. prepared = "revoked_prepared" => prepared' = "revoked_prepared" BY <2>1 DEF Started
  <2> QED BY <1>1, <2>1, <2>3, <2>4, <2>5, <2>7, <2>8, <2>9, FrameKeeps
<1> QED BY <1>2, <1>3, <1>4, <1>5, <1>6, <1>7 DEF Handle
-----------------------------------------------------------------------------
(* The invocation.                                                           *)

\* A step of the invocation and its process alone.
LEMMA ProcessKeeps ==
  ASSUME IInv, UNCHANGED <<authority, posted, executor, job, answer, wire, prepared, faults>>,
         receipt' \in Receipts, alive' \in BOOLEAN, starts' \in Nat, Invoked',
         receipt.outcome # "none" => receipt' = receipt /\ (alive' => alive)
  PROVE  IInv'
<1>1. Shrinks BY SameWire
<1>2. faults' \in 0 .. MaxFaults /\ answer' \in Receipts /\ answer' = answer
      /\ prepared' \in {"none", "prepared", "started", "revoked_prepared", "revoked_started"}
  BY DEF IInv, TypeOK
<1>3. job.pc \in Asking /\ answer' # Nothing => wire' = <<>> BY DEF IInv, Waited
<1>4. Started' => Started BY DEF Started
<1>5. /\ job.pc = "cleanup" /\ answer'.state \notin {"nothing", "denied"} =>
             prepared' \notin {"prepared", "started"}
      /\ job.pc = "describe" /\ answer'.state = "gone" => prepared' = "none"
  BY DEF IInv, Placed
<1> QED BY <1>1, <1>2, <1>3, <1>4, <1>5, AgentKeeps

\* A receipt as it ends.
LEMMA FinishType ==
  ASSUME NEW outcome \in {"succeeded", "failed", "cancelled", "unknown"}, NEW process \in Processes,
         Finish(outcome, process)
  PROVE  /\ receipt' \in Receipts /\ receipt'.state = outcome /\ receipt'.process = process
         /\ receipt'.outcome = outcome
BY DEF Finish, Rcpt, Receipts

\* The invocation runs: it launches, notes its process, and ends.
LEMMA InvocationKeeps == ASSUME IInv, Invocation PROVE IInv'
<1>1. UNCHANGED <<authority, posted, executor, job, answer, wire, prepared, faults>>
  BY DEF Invocation
<1>2. /\ receipt \in Receipts /\ alive \in BOOLEAN /\ starts \in Nat /\ Invoked
      /\ Started' <=> Started
  BY <1>1 DEF IInv, TypeOK, Started
<1>3. receipt.state # "none" => Started
  BY <1>2 DEF Invoked, NoReceipt, Rcpt
<1>4. ASSUME Enter PROVE IInv'
  <2>1. /\ receipt.state = "queued" /\ UNCHANGED machine
        /\ \/ receipt' = Rcpt("launching", "unknown", "none")
           \/ Finish("failed", "not_started")
    BY <1>4 DEF Enter
  <2>2. receipt.outcome = "none" /\ receipt.process = "not_started" /\ starts = 0 /\ ~alive
    BY <1>2, <2>1 DEF Invoked, Receipts
  <2>3. receipt' \in Receipts /\ receipt' \in {Rcpt("launching", "unknown", "none"),
                                               Rcpt("failed", "not_started", "failed")}
    BY <2>1 DEF Finish, Rcpt, Receipts, Processes
  <2>4. starts' = 0 /\ ~alive' /\ Started' BY <1>2, <1>3, <2>1, <2>2 DEF machine
  <2>5. Invoked'
    BY <2>3, <2>4 DEF Invoked, NoReceipt, Rcpt
  <2> QED BY <1>1, <1>2, <2>1, <2>2, <2>3, <2>5, ProcessKeeps DEF machine
<1>5. ASSUME Fork PROVE IInv'
  <2>1. /\ receipt.process = "unknown" /\ receipt.outcome = "none" /\ receipt.state # "none"
        /\ receipt' = [receipt EXCEPT !.process = "running",
                                      !.state = IF @ = "launching" THEN "running" ELSE @]
        /\ alive' = TRUE /\ starts' = starts + 1
    BY <1>5 DEF Fork
  <2>2. starts = 0 BY <1>2, <2>1 DEF Invoked
  <2>3. starts' = 1 BY <2>1, <2>2
  <2>4. /\ receipt' \in Receipts /\ receipt'.process = "running" /\ receipt'.outcome = "none"
        /\ receipt'.state = IF receipt.state = "launching" THEN "running" ELSE receipt.state
    BY <1>2, <2>1 DEF Receipts, Processes
  <2>5. Invoked'
    BY <1>2, <1>3, <2>1, <2>3, <2>4 DEF Invoked
  <2> QED BY <1>1, <2>1, <2>3, <2>4, <2>5, ProcessKeeps
<1>6. ASSUME NotStarted PROVE IInv'
  <2>1. /\ receipt.outcome = "none" /\ receipt.process \in {"not_started", "unknown"}
        /\ UNCHANGED machine
        /\ \/ receipt.state = "cancel_requested" /\ Finish("cancelled", "not_started")
           \/ receipt.process = "unknown" /\ Finish("failed", "not_started")
    BY <1>6 DEF NotStarted
  <2>2. starts = 0 /\ ~alive /\ receipt.state # "none"
    BY <1>2, <2>1 DEF Invoked, NoReceipt, Rcpt
  <2>3. receipt' \in Receipts /\ Invoked'
    BY <1>2, <1>3, <2>1, <2>2 DEF Invoked, Finish, Rcpt, Receipts, Processes, machine
  <2> QED BY <1>1, <1>2, <2>1, <2>2, <2>3, ProcessKeeps DEF machine
<1>7. ASSUME NEW outcome \in {"succeeded", "failed", "cancelled"},
             NEW process \in {"finished", "stopped"}, NEW confirmed \in BOOLEAN,
             EngineEnds(outcome, process, confirmed)
      PROVE  IInv'
  <2>1. /\ receipt.process = "running" /\ receipt.outcome = "none"
        /\ starts' = starts /\ alive' = ~confirmed
        /\ \/ ~confirmed /\ Finish("unknown", "unknown")
           \/ confirmed /\ Finish("cancelled", "stopped")
           \/ confirmed /\ Finish(outcome, process)
    BY <1>7 DEF EngineEnds
  <2>2. Started /\ (alive => starts = 1) /\ starts =< 1
    BY <1>2, <1>3, <2>1 DEF Invoked, NoReceipt, Rcpt
  <2>3. alive' \in BOOLEAN BY <2>1
  <2>4. /\ receipt' \in Receipts /\ receipt'.outcome # "none" /\ receipt'.state = receipt'.outcome
        /\ receipt'.process # "not_started"
        /\ receipt'.outcome \in {"succeeded", "failed", "cancelled", "unknown"}
        /\ ~confirmed => receipt'.outcome = "unknown"
    BY <2>1 DEF Finish, Rcpt, Receipts, Processes
  <2>5. starts' = starts /\ starts \in Nat BY <1>2, <2>1
  <2>6. starts = 1 BY <1>2, <2>1 DEF Invoked
  <2>7. Invoked'
    BY <1>2, <2>1, <2>2, <2>4, <2>5, <2>6 DEF Invoked, NoReceipt, Rcpt
  <2> QED BY <1>1, <2>1, <2>3, <2>4, <2>5, <2>7, ProcessKeeps
<1> QED BY <1>4, <1>5, <1>6, <1>7 DEF Invocation

\* What an invocation left running ends.
LEMMA OrphanKeeps == ASSUME IInv, OrphanEnds PROVE IInv'
<1>1. /\ UNCHANGED <<authority, posted, executor, job, answer, wire, prepared, faults>>
      /\ receipt' = receipt /\ starts' = starts /\ alive' = FALSE
  BY DEF OrphanEnds, agent
<1>2. receipt' \in Receipts /\ starts' \in Nat /\ alive' \in BOOLEAN
  BY <1>1 DEF IInv, TypeOK
<1>3. Invoked'
  BY <1>1 DEF IInv, Invoked, Started
<1> QED BY <1>1, <1>2, <1>3, ProcessKeeps

-----------------------------------------------------------------------------
(* The job is abandoned.                                                     *)

\* The frames stay on the wire, but nobody waits for their answers.
LEMMA UnheardFrames ==
  ASSUME IInv
  PROVE  /\ Unheard \in Seq(Frames) /\ Len(Unheard) = Len(wire) /\ Len(wire) \in Nat
         /\ \A i \in 1..Len(wire) : Unheard[i].action = wire[i].action /\ ~Unheard[i].live
<1>1. wire \in Seq(Frames) /\ Len(wire) \in Nat
  BY LenProperties DEF IInv, TypeOK
<1>2. ASSUME NEW i \in 1..Len(wire)
      PROVE  /\ [wire[i] EXCEPT !.live = FALSE] \in Frames
             /\ [wire[i] EXCEPT !.live = FALSE].action = wire[i].action
             /\ [wire[i] EXCEPT !.live = FALSE].live = FALSE
  <2>1. wire[i] \in Frames BY <1>1, ElementOfSeq
  <2> QED BY <2>1 DEF Frames
<1>3. Unheard \in [1..Len(wire) -> Frames]
  BY <1>2 DEF Unheard
<1>4. Unheard \in Seq(Frames) /\ Len(Unheard) = Len(wire)
  <2>1. Unheard \in Seq(Frames) BY <1>1, <1>3, SeqDef
  <2>2. DOMAIN Unheard = 1..Len(Unheard) /\ Len(Unheard) \in Nat BY <2>1, LenProperties
  <2>3. DOMAIN Unheard = 1..Len(wire) BY <1>3
  <2> QED BY <1>1, <2>1, <2>2, <2>3
<1> QED BY <1>1, <1>2, <1>4 DEF Unheard

\* The executor leaves its job, and no answer is awaited any more.
LEMMA AbandonKeeps ==
  ASSUME IInv, UNCHANGED <<authority, posted, executor, agent, machine>>, faults' \in 0 .. MaxFaults,
         Go("idle", "idle"),
         \/ wire' = Unheard
         \/ \E f \in Frames : f.action = "cancel" /\ ~f.live /\ wire' = Append(Unheard, f)
  PROVE  IInv'
<1> USE DEF authority, executor, agent, machine
<1>1. job' \in Jobs /\ job'.pc = "idle" /\ answer' = Nothing
  BY Going
<1>2. answer' \in Receipts BY <1>1 DEF Nothing, Rcpt, Receipts, Processes
<1>3. /\ wire' \in Seq(Frames) /\ Len(wire') \in Nat
      /\ \A i \in 1..Len(wire') :
            /\ ~wire'[i].live
            /\ \/ wire'[i].action = "cancel"
               \/ i \in 1..Len(wire) /\ wire'[i].action = wire[i].action
  <2>1. CASE wire' = Unheard
    BY <2>1, UnheardFrames
  <2>2. ASSUME NEW f \in Frames, f.action = "cancel", ~f.live, wire' = Append(Unheard, f)
        PROVE  /\ wire' \in Seq(Frames) /\ Len(wire') \in Nat
               /\ \A i \in 1..Len(wire') :
                     /\ ~wire'[i].live
                     /\ \/ wire'[i].action = "cancel"
                        \/ i \in 1..Len(wire) /\ wire'[i].action = wire[i].action
    <3>1. /\ wire' \in Seq(Frames) /\ Len(wire') = Len(Unheard) + 1
          /\ \A i \in 1..Len(Unheard) : wire'[i] = Unheard[i]
          /\ wire'[Len(wire')] = f
      BY <2>2, UnheardFrames, AppendProperties
    <3>2. Len(wire') = Len(wire) + 1 /\ Len(wire) \in Nat BY <3>1, UnheardFrames
    <3>3. \A i \in 1..Len(wire) : ~wire'[i].live /\ wire'[i].action = wire[i].action
      BY <3>1, UnheardFrames
    <3>4. \A i \in 1..Len(wire') : i \in 1..Len(wire) \/ i = Len(wire')
      BY <3>2
    <3> QED BY <3>1, <3>2, <3>3, <3>4, <2>2
  <2> QED BY <2>1, <2>2
<1>4. TypeOK'
  BY <1>1, <1>2, <1>3 DEF IInv, TypeOK
<1>5. NoStart => NoStart'
  BY <1>3 DEF NoStart, Started
<1>6. Lasts
  BY <1>5 DEF Lasts, Never, Unstartable, Stopped
<1>7. \A c \in posted' \cup {pending'} : Truthful(c)'
  BY <1>6, SaidStays DEF IInv
<1>8. Invoked' BY DEF IInv, Invoked, Started
<1>9. Answered' BY <1>1 DEF Answered, Nothing, Rcpt
<1>10. Waited' BY <1>1, <1>3 DEF Waited, Asking
<1>11. Placed' BY <1>1, <1>3, <1>5 DEF IInv, Placed
<1>12. Recorded' BY <1>1 DEF IInv, Recorded
<1>13. Closed' BY <1>6, ClosedStays DEF IInv
<1>14. Agrees' BY DEF IInv, Agrees
<1> QED BY <1>4, <1>7, <1>8, <1>9, <1>10, <1>11, <1>12, <1>13, <1>14 DEF IInv

\* It runs out of time or dies, or shuts down and cancels what it has placed.
LEMMA AbandonSteps == ASSUME IInv, GivesUp \/ Closes PROVE IInv'
<1>1. CASE GivesUp
  <2>1. faults' \in 0 .. MaxFaults BY <1>1, DelegationAssumption DEF GivesUp, Fault, IInv, TypeOK
  <2> QED BY <1>1, <2>1, AbandonKeeps DEF GivesUp
<1>2. CASE Closes
  <2>1. faults' \in 0 .. MaxFaults BY <1>2, DelegationAssumption DEF Closes, Fault, IInv, TypeOK
  <2> DEFINE f == [action |-> "cancel", live |-> FALSE, real |-> binding.real]
  <2>2. binding.real \in BOOLEAN BY DEF IInv, TypeOK, Bindings
  <2>3. f \in Frames /\ f.action = "cancel" /\ ~f.live BY <2>2 DEF Frames
  <2>4. wire' = Append(Unheard, f) BY <1>2 DEF Closes
  <2> HIDE DEF f
  <2> QED BY <1>2, <2>1, <2>3, <2>4, AbandonKeeps DEF Closes
<1> QED BY <1>1, <1>2

-----------------------------------------------------------------------------
(* The invariant, and what it says.                                          *)

\* At first a request is recorded, and no other part knows of it.
LEMMA InitInv == Init => IInv
<1> SUFFICES ASSUME Init PROVE IInv OBVIOUS
<1> USE DEF Init
<1>1. wire \in Seq(Frames) /\ Len(wire) = 0 BY EmptySeq
<1>2. /\ auth \in [state : ACTIVE \cup TERMINAL, rev : Nat, bound : BOOLEAN, late : BOOLEAN,
                   proc : Processes]
      /\ binding \in Bindings /\ job \in Jobs
  BY DEF ACTIVE, Processes, Bindings, Jobs
<1>3. receipt \in Receipts /\ answer \in Receipts
  BY DEF NoReceipt, Nothing, Rcpt, Receipts, Processes
<1>13. alive \in BOOLEAN BY Zenon
<1>14. starts \in Nat /\ cancels \in 0 .. MaxCancels /\ faults \in 0 .. MaxFaults
  BY DelegationAssumption
<1>15. log \subseteq Commands /\ posted \subseteq Commands /\ pending \in Commands \cup {NoCommand}
  OBVIOUS
<1>4. TypeOK
  BY <1>1, <1>2, <1>3, <1>13, <1>14, <1>15 DEF TypeOK
<1>5. Invoked BY DEF Invoked, NoReceipt, Rcpt
<1>6. Answered BY DEF Answered, Nothing, Rcpt
<1>7. Waited BY <1>1 DEF Waited, Asking
<1>8. Placed BY <1>1 DEF Placed, NoStart, Started
<1>9. Recorded BY DEF Recorded
<1>10. Closed BY DEF Closed, TERMINAL
<1>11. Agrees BY DEF Agrees
<1>12. \A c \in posted \cup {pending} : Truthful(c) BY DEF Truthful, NoCommand, Command
<1> QED BY <1>4, <1>5, <1>6, <1>7, <1>8, <1>9, <1>10, <1>11, <1>12 DEF IInv

\* Every step of the executor, as it runs its job.
LEMMA JobStepKeeps == ASSUME IInv, JobStep PROVE IInv'
<1>1. CASE CancelBegins
  BY <1>1, CancelAgainKeeps, CancelKeeps
<1>2. CASE \E suppressed \in BOOLEAN : Prepare(suppressed)
  BY <1>2, PrepareKeeps
<1> QED BY <1>1, <1>2, AskPrepareKeeps, CancelUnpreparedKeeps, CancelGoesOnKeeps, ProceedKeeps,
           DeliveredKeeps, LaunchKeeps, ObserveKeeps, FenceLateStartKeeps, ReportKeeps,
           RetireKeeps, DescribedKeeps, SettleKeeps, FailsKeeps DEF JobStep

\* A step that changes nothing.
LEMMA Stutters == ASSUME IInv, UNCHANGED vars PROVE IInv'
<1> USE DEF vars, authority, executor, agent, machine
<1>1. TypeOK' BY DEF IInv, TypeOK
<1>2. Lasts BY DEF Lasts, Never, NoStart, Started, Unstartable, Stopped
<1>3. (\A c \in posted \cup {pending} : Truthful(c))' BY <1>2, SaidStays DEF IInv
<1>4. Closed' BY <1>2, ClosedStays DEF IInv
<1>5. Invoked' /\ Answered' BY DEF IInv, Invoked, Answered, Started
<1>6. Waited' BY DEF IInv, Waited
<1>7. Placed' BY DEF IInv, Placed, NoStart, Started
<1>8. Recorded' /\ Agrees' BY DEF IInv, Recorded, Agrees
<1> QED BY <1>1, <1>3, <1>4, <1>5, <1>6, <1>7, <1>8 DEF IInv

\* Every step of the two nodes, the agent and its machine keeps the invariant.
LEMMA Inductive == IInv /\ [Next]_vars => IInv'
<1> SUFFICES ASSUME IInv, [Next]_vars PROVE IInv' OBVIOUS
<1>1. CASE Authority BY <1>1, SubmitKeeps DEF Authority
<1>2. CASE Cancel BY <1>2, CancelRequestKeeps
<1>3. CASE JobStep BY <1>3, JobStepKeeps
<1>4. CASE ContextFails \/ GivesUp \/ Closes BY <1>4, ContextFailsKeeps, AbandonSteps
<1>5. CASE Handle BY <1>5, HandleKeeps
<1>6. CASE Refuses \/ Disconnects \/ LeaseExpires
  BY <1>6, RefusesKeeps, DisconnectsKeeps, LeaseExpiresKeeps
<1>7. CASE \E intent \in BOOLEAN : Dies(intent) BY <1>7, DiesKeeps
<1>8. CASE Invocation \/ OrphanEnds BY <1>8, InvocationKeeps, OrphanKeeps
<1>9. CASE UNCHANGED vars BY <1>9, Stutters
<1> QED BY <1>1, <1>2, <1>3, <1>4, <1>5, <1>6, <1>7, <1>8, <1>9 DEF Next

\* The inductive invariant: every command under way, every answer and whatever the
\* authority has closed is true of the agent's machine and stays so.
THEOREM Invariant == Spec => []IInv
BY InitInv, Inductive, PTL DEF Spec

\* Every record, command, frame and receipt keeps its type.
THEOREM TypeCorrect == Spec => []TypeOK
<1>1. IInv => TypeOK BY DEF IInv
<1> QED BY <1>1, Invariant, PTL

\* At most one native process is created for a delegation, however often frames
\* and commands are repeated or lost and either side restarts.
THEOREM StartsOnce == Spec => []OneStart
<1>1. IInv => OneStart BY DEF IInv, Invoked, OneStart
<1> QED BY <1>1, Invariant, PTL

\* A delegation that the authority has closed has ended as it says, and nothing
\* of it runs or will.
THEOREM ClosedIsSo == Spec => []ClosedIsTrue
<1>1. ASSUME IInv PROVE ClosedIsTrue
  <2>1. Stopped => ~alive /\ receipt.state \notin {"queued", "launching", "running"}
    BY <1>1 DEF IInv, TypeOK, Receipts, Invoked, Stopped
  <2>2. Unstartable => /\ starts = 0 /\ ~alive
                       /\ receipt.state \notin {"queued", "launching", "running"}
    BY <1>1 DEF IInv, TypeOK, Receipts, Invoked, Unstartable, Never, NoStart, Started, NoReceipt, Rcpt
  <2>3. receipt.outcome \in {"succeeded", "failed"} => Stopped
    BY <1>1 DEF IInv, Invoked, Stopped
  <2>4. auth.state \in TERMINAL => Stopped \/ Unstartable
    BY <1>1, <2>3 DEF IInv, Closed, TERMINAL, Unstartable
  <2> QED BY <1>1, <2>1, <2>2, <2>4 DEF IInv, Closed, ClosedIsTrue
<1> QED BY <1>1, Invariant, PTL

\* The executor's binding never runs ahead of the record, and never disagrees
\* with it at the same revision.
THEOREM ExecutorAgrees == Spec => []BindingAgrees
<1>1. IInv => BindingAgrees BY DEF IInv, Agrees, BindingAgrees
<1> QED BY <1>1, Invariant, PTL

\* A binding is settled only when the agent can no longer start its invocation.
THEOREM SettledStaysFenced == Spec => []SettledIsFenced
<1>1. IInv => SettledIsFenced BY DEF IInv, Placed, SettledIsFenced
<1> QED BY <1>1, Invariant, PTL
=============================================================================
