---------------------------- MODULE RoomSupervisor ----------------------------
(***************************************************************************)
(* The agent process in one room: what the client does with a delivered    *)
(* attempt (agent/client.py) and the supervisor that runs one engine at a  *)
(* time (agent/runtime/handler_wrapper.py).                                *)
(*                                                                         *)
(* A coroutine is interrupted only where it awaits, so every action is the *)
(* code between two awaits that matter: a lifecycle frame before the       *)
(* engine, the engine itself, the message to the room.                     *)
(***************************************************************************)
EXTENDS Integers, SequencesExt

CONSTANTS
    Requests,       \* turns delivered to this room
    Leased,         \* those the server's attempt machine retries
    MaxAttempt,     \* attempts the server makes of a leased turn
    QueueDepth,     \* _MAX_QUEUE_DEPTH
    MaxRetries,     \* _MAX_RETRY_ATTEMPTS
    MaxCancels,     \* stop frames
    MaxDisconnects  \* times the room's socket is lost

ASSUME SupervisorAssumption ==
    /\ Leased \subseteq Requests
    /\ MaxAttempt \in Nat \ {0} /\ QueueDepth \in Nat /\ MaxRetries \in Nat
    /\ MaxCancels \in Nat /\ MaxDisconnects \in Nat

\* _turn_key: the room and the generation are those of this process.
Keys == {k \in [req : Requests, attempt : 1..MaxAttempt] :
             k.req \in Leased \/ k.attempt = 1}
Phases == {"starting", "engine", "sending", "stale", "draining"}
Idle == [phase |-> "free"]
Held == [phase : Phases, key : Keys, tries : 0..MaxRetries]

VARIABLES
    seen,        \* _seen_seq_order: deliveries in order of arrival
    lock,        \* the room lock and where its holder is
    queue,       \* _queues[room]
    refusing,    \* dispatches over the cap, about to send their notice
    cancelled,   \* _cancelled_turns
    up,          \* the room has a connection
    drops,       \* connections lost so far
    \* What became of the deliveries.
    calls,       \* engine calls of each
    stale,       \* dropped: a later attempt had arrived
    shown,       \* answered in the room, by a reply or a notice
    quiet,       \* ended without a message on purpose
    lost         \* the message could not be sent

fates == <<calls, stale, shown, quiet, lost>>
vars == <<seen, lock, queue, refusing, cancelled, up, drops, calls, stale, shown, quiet, lost>>

Init ==
    /\ seen = <<>> /\ queue = <<>>
    /\ lock = Idle
    /\ refusing = {} /\ cancelled = {}
    /\ up = TRUE /\ drops = 0
    /\ calls = [k \in Keys |-> 0]
    /\ stale = {} /\ shown = {} /\ quiet = {} /\ lost = {}

Busy == lock.phase # "free"
At(phase) == lock.phase = phase

-----------------------------------------------------------------------------
\* Plausible slip: a retry reuses its message's sequence number, so only what
\* waits or runs is taken for a duplicate.
MutFresh(k) == k \notin ToSet(queue) /\ ~(Busy /\ lock.key = k)

\* _mark_seq_seen: duplicates are told apart by sequence number, request,
\* attempt and lease.  The window (256) is larger than any instance here.
Fresh(k) == k \notin ToSet(seen)

\* A delivery of an attempt older than the one last taken in is dropped.
Superseded(k) == \E o \in ToSet(seen) \ stale : o.req = k.req /\ o.attempt > k.attempt

\* _run up to its first await.
Run(k) ==
    IF k \in cancelled
    THEN /\ lock' = [phase |-> "draining", key |-> k, tries |-> 0]
         /\ quiet' = quiet \cup {k}
    ELSE /\ lock' = [phase |-> "starting", key |-> k, tries |-> 0]
         /\ UNCHANGED quiet

\* dispatch: run now, wait behind the turn that runs, or be refused at the cap.
\* A queue left behind by a failed send does not count: only the lock does.
Dispatch(k) ==
    \/ /\ k \in cancelled
       /\ quiet' = quiet \cup {k}
       /\ UNCHANGED <<lock, queue, refusing>>
    \/ /\ k \notin cancelled /\ Busy /\ Len(queue) < QueueDepth
       /\ queue' = Append(queue, k)
       /\ UNCHANGED <<lock, refusing, quiet>>
    \/ /\ k \notin cancelled /\ Busy /\ Len(queue) >= QueueDepth
       /\ refusing' = refusing \cup {k}
       /\ UNCHANGED <<lock, queue, quiet>>
    \/ /\ k \notin cancelled /\ ~Busy
       /\ Run(k)
       /\ UNCHANGED <<queue, refusing>>

\* A delivery arrives, for the first time or again (the outbox redelivers, a
\* reconnection replays); the handler reaches dispatch without an await.
Deliver(k) ==
    /\ up /\ Fresh(k)
    /\ seen' = Append(seen, k)
    /\ \/ /\ Superseded(k)
          /\ stale' = stale \cup {k}
          /\ UNCHANGED <<lock, queue, refusing, quiet>>
       \/ /\ ~Superseded(k)
          /\ Dispatch(k)
          /\ UNCHANGED stale
    /\ UNCHANGED <<cancelled, up, drops, calls, shown, lost>>

\* The notice of a dispatch over the cap.  The handler's exception is logged.
Refuse(k) ==
    /\ k \in refusing
    /\ refusing' = refusing \ {k}
    /\ \/ up /\ shown' = shown \cup {k} /\ UNCHANGED lost
       \/ ~up /\ lost' = lost \cup {k} /\ UNCHANGED shown
    /\ UNCHANGED <<seen, lock, queue, cancelled, up, drops, calls, stale, quiet>>

-----------------------------------------------------------------------------
\* Plausible slip: a stop drops every waiting attempt of the request.
MutCancelTurn(k) ==
    /\ cancelled' = cancelled \cup {k}
    /\ queue' = SelectSeq(queue, LAMBDA q : q.req # k.req)

\* cancel_turn: remembered for ever, and taken out of the queue without a word
\* (the server has already ended the attempt); being taken in once, it waits
\* there once.  A running engine is interrupted: how it then ends is
\* EngineEnds' choice.
CancelTurn(k) ==
    /\ cancelled' = cancelled \cup {k}
    /\ \/ k \notin ToSet(queue) /\ UNCHANGED queue
       \/ \E i \in DOMAIN queue : queue[i] = k /\ queue' = RemoveAt(queue, i)

\* A stop frame, for an attempt that runs, waits, has ended or is yet to come.
Cancel(k) ==
    /\ up /\ k \notin cancelled
    /\ Cardinality(cancelled) < MaxCancels
    /\ CancelTurn(k)
    /\ quiet' = quiet \cup (ToSet(queue) \cap {k})
    /\ UNCHANGED <<seen, lock, refusing, up, drops, calls, stale, shown, lost>>

\* Plausible slip: the tests made before the lifecycle frames are enough.
MutLaunch ==
    /\ At("starting")
    /\ lock' = [lock EXCEPT !.phase = "engine"]
    /\ calls' = [calls EXCEPT ![lock.key] = @ + 1]
    /\ UNCHANGED <<seen, queue, refusing, cancelled, up, drops, stale, shown, quiet, lost>>

\* The lifecycle frames are out.  A stop that came meanwhile cancels the engine
\* task before its first step.
Launch ==
    /\ At("starting")
    /\ \/ /\ lock.key \in cancelled
          /\ lock' = [lock EXCEPT !.phase = "draining"]
          /\ quiet' = quiet \cup {lock.key}
          /\ UNCHANGED calls
       \/ /\ lock.key \notin cancelled
          /\ lock' = [lock EXCEPT !.phase = "engine"]
          /\ calls' = [calls EXCEPT ![lock.key] = @ + 1]
          /\ UNCHANGED quiet
    /\ UNCHANGED <<seen, queue, refusing, cancelled, up, drops, stale, shown, lost>>

\* The server's attempt machine repeats a leased turn whose native call failed
\* transiently; the supervisor repeats only an unleased one.
ServerRetries(k) == k.req \in Leased
ShouldRetry == lock.key.req \notin Leased /\ lock.tries < MaxRetries

\* The engine returns a reply, fails or falls silent (both get a notice), fails
\* transiently, or was cancelled.
EngineEnds(outcome) ==
    /\ At("engine")
    /\ \/ /\ outcome = "cancelled" \/ (outcome = "transient" /\ ServerRetries(lock.key))
          /\ lock' = [lock EXCEPT !.phase = "draining"]
          /\ quiet' = quiet \cup {lock.key}
       \/ /\ outcome = "transient" /\ ShouldRetry
          /\ lock' = [lock EXCEPT !.phase = "starting", !.tries = @ + 1]
          /\ UNCHANGED quiet
       \/ /\ outcome = "transient" => ~ServerRetries(lock.key) /\ ~ShouldRetry
          /\ outcome # "cancelled"
          /\ lock' = [lock EXCEPT !.phase = "sending"]
          /\ UNCHANGED quiet
    /\ UNCHANGED <<seen, queue, refusing, cancelled, up, drops, calls, stale, shown, lost>>

\* Plausible slip: a message waits for the connection to come back.
MutSend ==
    /\ lock.phase \in {"sending", "stale"} /\ up
    /\ lock' = [lock EXCEPT !.phase = "draining"]
    /\ shown' = shown \cup {lock.key}
    /\ UNCHANGED <<seen, queue, refusing, cancelled, up, drops, calls, stale, quiet, lost>>

\* client.send raises without a connection: the exception leaves _run, the
\* drain and the lock, and whatever waits stays where it is.
Send ==
    /\ lock.phase \in {"sending", "stale"}
    /\ \/ /\ up
          /\ lock' = [lock EXCEPT !.phase = "draining"]
          /\ shown' = shown \cup {lock.key}
          /\ UNCHANGED lost
       \/ /\ ~up
          /\ lock' = Idle
          /\ lost' = lost \cup {lock.key}
          /\ UNCHANGED shown
    /\ UNCHANGED <<seen, queue, refusing, cancelled, up, drops, calls, stale, quiet>>

\* Plausible slip: the lock is released after every turn.
MutDrain(tooOld) ==
    /\ At("draining")
    /\ ~tooOld /\ lock' = Idle
    /\ UNCHANGED <<seen, queue, refusing, cancelled, up, drops, calls, stale, shown, quiet, lost>>

\* _drain_queue: the next follow-up, unless it was stopped or waited past its
\* TTL; with nothing left the lock is released in the same step.
Drain(tooOld) ==
    /\ At("draining")
    /\ \/ /\ queue = <<>> /\ ~tooOld
          /\ lock' = Idle
          /\ UNCHANGED <<queue, quiet>>
       \/ /\ queue # <<>>
          /\ queue' = Tail(queue)
          /\ IF tooOld /\ Head(queue) \notin cancelled
             THEN /\ lock' = [phase |-> "stale", key |-> Head(queue), tries |-> 0]
                  /\ UNCHANGED quiet
             ELSE Run(Head(queue))
    /\ UNCHANGED <<seen, refusing, cancelled, up, drops, calls, stale, shown, lost>>

-----------------------------------------------------------------------------
\* _room_loop: the connection is lost and made again.
Disconnect ==
    /\ up /\ drops < MaxDisconnects
    /\ up' = FALSE /\ drops' = drops + 1
    /\ UNCHANGED <<seen, lock, queue, refusing, cancelled, fates>>

Reconnect ==
    /\ ~up /\ up' = TRUE
    /\ UNCHANGED <<seen, lock, queue, refusing, cancelled, drops, fates>>

Holder ==
    \/ Launch \/ Send
    \/ \E outcome \in {"reply", "notice", "transient", "cancelled"} : EngineEnds(outcome)
    \/ \E tooOld \in BOOLEAN : Drain(tooOld)

Next ==
    \/ \E k \in Keys : Deliver(k) \/ Refuse(k) \/ Cancel(k)
    \/ Holder \/ Disconnect \/ Reconnect

\* The holder's coroutine is scheduled, and an engine call ends: it finishes,
\* fails, or the engine runtime's idle clock fires.
Spec == Init /\ [][Next]_vars /\ WF_vars(Holder)

-----------------------------------------------------------------------------
\* The queue stays within its cap, whatever arrives during a drain.
TypeOK ==
    /\ seen \in Seq(Keys) /\ queue \in Seq(Keys) /\ Len(queue) =< QueueDepth
    /\ lock = Idle \/ lock \in Held
    /\ refusing \subseteq Keys /\ cancelled \subseteq Keys
    /\ up \in BOOLEAN /\ drops \in 0..MaxDisconnects
    /\ calls \in [Keys -> Nat]
    /\ UNION {stale, shown, quiet, lost} \subseteq Keys

\* An attempt calls its engine once, and again only for the supervisor's own
\* retries, however often it is delivered.
OneCallPerAttempt == \A k \in Keys : calls[k] =< 1 + MaxRetries

\* A stop that arrives before the engine is created prevents it, in whichever
\* of the awaits before it, or of the queue, it finds the attempt.
StoppedNeverStarts == [][\A k \in cancelled : calls'[k] = calls[k]]_vars

\* Nobody is left without a word: an attempt that arrived runs, waits, was
\* answered, was ended on purpose, or its message could not be sent.
Waiting == ToSet(queue) \cup refusing \cup IF Busy THEN {lock.key} ELSE {}
NobodyIsForgotten == ToSet(seen) \subseteq Waiting \cup UNION {stale, shown, quiet, lost}

\* The turn that runs arrived before all that wait, which wait in the order in
\* which they arrived.
Before(j, k) == \E m, n \in DOMAIN seen : seen[m] = j /\ seen[n] = k /\ m < n
InArrivalOrder ==
    /\ \A i, j \in DOMAIN queue : i < j => Before(queue[i], queue[j])
    /\ Busy => \A i \in DOMAIN queue : Before(lock.key, queue[i])

\* The order holds as long as every message could be sent.
InOrderWhileConnected == lost = {} => InArrivalOrder

\* Whoever waits is served: the holder does not let go of the room with
\* follow-ups still queued, unless a message could not be sent.
QueueIsServed == Busy ~> (~Busy /\ (queue = <<>> \/ lost # {}))
===============================================================================
