------------------------- MODULE RoomSupervisorProofs -------------------------
(***************************************************************************)
(* Safety of the room supervisor, for any number of requests, deliveries,  *)
(* stops and lost connections.                                             *)
(***************************************************************************)
EXTENDS RoomSupervisor, SequenceTheorems, TLAPS

Fated == UNION {stale, shown, quiet, lost}
Locked(k) == Busy /\ lock.key = k

\* A delivery is queued once, behind another that runs, and has been taken in.
Queued ==
    /\ \A i, j \in DOMAIN queue : queue[i] = queue[j] => i = j
    /\ ToSet(queue) \subseteq ToSet(seen)
    /\ Busy => lock.key \in ToSet(seen) \ ToSet(queue)

\* Engine calls are counted by the tries of the turn that holds the lock.
Called ==
    /\ \A k \in Keys : k \notin ToSet(seen) \/ k \in ToSet(queue) => calls[k] = 0
    /\ At("starting") => calls[lock.key] = lock.tries
    /\ At("engine") => calls[lock.key] = lock.tries + 1
    /\ \A k \in Keys : calls[k] =< 1 + MaxRetries

\* A turn that is over has been answered or ended on purpose.
Ended == At("draining") => lock.key \in Fated

\* The lock is let go of with nothing queued, or by a message that was lost.
Released == Busy \/ queue = <<>> \/ lost # {}

IInv ==
    /\ TypeOK /\ Queued /\ Called /\ Ended /\ Released
    /\ NobodyIsForgotten /\ InOrderWhileConnected
-----------------------------------------------------------------------------
(* Sequences of deliveries.                                                  *)

\* The members of a sequence are at its places.
LEMMA SetOfSeq ==
  ASSUME NEW s \in Seq(Keys), NEW k
  PROVE  k \in ToSet(s) <=> \E i \in 1..Len(s) : s[i] = k
  BY DEF ToSet

\* A new delivery at the end: who is there, and who is before whom.
LEMMA Appended ==
  ASSUME NEW s \in Seq(Keys), NEW k \in Keys
  PROVE  /\ Append(s, k) \in Seq(Keys) /\ Len(Append(s, k)) = Len(s) + 1
         /\ \A i \in 1..Len(s) : Append(s, k)[i] = s[i]
         /\ Append(s, k)[Len(s) + 1] = k
         /\ ToSet(Append(s, k)) = ToSet(s) \cup {k}
<1>1. /\ Append(s, k) \in Seq(Keys) /\ Len(Append(s, k)) = Len(s) + 1
      /\ \A i \in 1..Len(s) : Append(s, k)[i] = s[i]
      /\ Append(s, k)[Len(s) + 1] = k
  BY AppendProperties
<1>2. ASSUME NEW j PROVE j \in ToSet(Append(s, k)) <=> j \in ToSet(s) \cup {k}
  <2> DEFINE t == Append(s, k)
  <2>1. Len(s) \in Nat BY LenProperties
  <2>2. t \in Seq(Keys) /\ Len(t) = Len(s) + 1 /\ (\A i \in 1..Len(s) : t[i] = s[i]) /\ t[Len(s) + 1] = k
    BY <1>1
  <2>3. j \in ToSet(t) <=> \E i \in 1..Len(t) : t[i] = j BY <2>2, SetOfSeq
  <2>4. j \in ToSet(s) <=> \E i \in 1..Len(s) : s[i] = j BY SetOfSeq
  <2> HIDE DEF t
  <2>5. (\E i \in 1..Len(t) : t[i] = j) <=> (\E i \in 1..Len(s) : s[i] = j) \/ j = k
    BY <2>1, <2>2
  <2> QED BY <2>3, <2>4, <2>5 DEF t
<1> QED BY <1>1, <1>2

\* Its head taken off, or any other member.
LEMMA Shortened ==
  ASSUME NEW s \in Seq(Keys), NEW n \in 1..Len(s)
  PROVE  /\ RemoveAt(s, n) \in Seq(Keys) /\ Len(RemoveAt(s, n)) = Len(s) - 1
         /\ \A i \in 1..(Len(s) - 1) : RemoveAt(s, n)[i] = IF i < n THEN s[i] ELSE s[i + 1]
<1> DEFINE a == SubSeq(s, 1, n - 1)
           b == SubSeq(s, n + 1, Len(s))
<1>1. a \in Seq(Keys) /\ Len(a) = n - 1 /\ \A i \in 1..(n - 1) : a[i] = s[i]
  BY SubSeqProperties
<1>2. b \in Seq(Keys) /\ Len(b) = Len(s) - n /\ \A i \in 1..(Len(s) - n) : b[i] = s[n + i]
  BY SubSeqProperties
<1>3. /\ a \o b \in Seq(Keys) /\ Len(a \o b) = Len(a) + Len(b)
      /\ \A i \in 1..(Len(a) + Len(b)) : (a \o b)[i] = IF i =< Len(a) THEN a[i] ELSE b[i - Len(a)]
  BY <1>1, <1>2, ConcatProperties
<1>4. RemoveAt(s, n) = a \o b BY DEF RemoveAt
<1>5. Len(s) \in Nat BY LenProperties
<1> HIDE DEF a, b
<1>6. Len(a \o b) = Len(s) - 1 BY <1>1, <1>2, <1>3, <1>5
<1>7. ASSUME NEW i \in 1..(Len(s) - 1) PROVE (a \o b)[i] = IF i < n THEN s[i] ELSE s[i + 1]
  <2>1. i \in 1..(Len(a) + Len(b)) BY <1>1, <1>2, <1>5
  <2>2. CASE i < n BY <1>1, <1>3, <2>1, <2>2
  <2>3. CASE ~(i < n)
    <3> DEFINE m == i - Len(a)
    <3>1. m \in 1..(Len(s) - n) /\ n + m = i + 1 BY <1>1, <1>5, <2>3
    <3>2. (a \o b)[i] = b[m] BY <1>1, <1>3, <2>1, <2>3
    <3> HIDE DEF m
    <3>3. b[m] = s[i + 1] BY <1>2, <3>1
    <3> QED BY <2>3, <3>2, <3>3
  <2> QED BY <2>2, <2>3
<1> QED BY <1>3, <1>4, <1>6, <1>7

\* What the head of the queue is, and what stays when it leaves.
LEMMA Taken ==
  ASSUME NEW s \in Seq(Keys), s # <<>>
  PROVE  /\ Head(s) = s[1] /\ Head(s) \in Keys /\ Len(s) \in Nat /\ Len(s) >= 1
         /\ Tail(s) \in Seq(Keys) /\ Len(Tail(s)) = Len(s) - 1
         /\ \A i \in 1..(Len(s) - 1) : Tail(s)[i] = s[i + 1]
  BY HeadTailProperties, EmptySeq

-----------------------------------------------------------------------------
(* The lock.                                                                 *)

\* The lock is free or names a turn and where it is.
LEMMA LockType ==
  ASSUME TypeOK
  PROVE  /\ Busy => lock \in Held /\ lock.key \in Keys /\ lock.tries \in 0..MaxRetries /\ lock.phase \in Phases
         /\ ~Busy => lock = Idle
<1>1. lock = Idle => lock.phase = "free" BY DEF Idle
<1>2. lock \in Held => lock.phase \in Phases /\ lock.key \in Keys /\ lock.tries \in 0..MaxRetries
  BY DEF Held
<1> QED BY <1>1, <1>2 DEF TypeOK, Busy, Phases

\* The turn that holds the lock is at one place only.
LEMMA Holds ==
  ASSUME NEW p \in Phases, NEW k \in Keys, NEW n \in 0..MaxRetries
  PROVE  [phase |-> p, key |-> k, tries |-> n] \in Held /\ [phase |-> p, key |-> k, tries |-> n].phase # "free"
  BY DEF Held, Phases

\* A step that takes nothing in, and lets go of nothing but what it gives an end.
LEMMA StillKeeps ==
  ASSUME IInv, TypeOK', Called', Ended', UNCHANGED <<seen, queue>>,
         Busy' <=> Busy, Busy => lock'.key = lock.key,
         Fated \subseteq Fated', lost \subseteq lost', refusing \subseteq refusing' \cup Fated'
  PROVE  IInv'
<1>1. Queued' BY DEF IInv, Queued
<1>2. Released' BY DEF IInv, Released
<1>3. NobodyIsForgotten' BY DEF IInv, NobodyIsForgotten, Waiting, Fated
<1>4. InOrderWhileConnected' BY DEF IInv, InOrderWhileConnected, InArrivalOrder, Before
<1> QED BY <1>1, <1>2, <1>3, <1>4 DEF IInv

\* The engine is called for a turn that has not been called before.
LEMMA LaunchKeeps == ASSUME IInv, Launch PROVE IInv'
<1>0. TypeOK /\ At("starting") /\ Busy /\ MaxRetries \in Nat
  BY SupervisorAssumption DEF IInv, Launch, At, Busy
<1>1. lock \in Held /\ lock.key \in Keys /\ lock.tries \in 0..MaxRetries BY <1>0, LockType
<1>2. UNCHANGED <<seen, queue, refusing, cancelled, up, drops, stale, shown, lost>> BY DEF Launch
<1>3. CASE /\ lock.key \in cancelled /\ lock' = [lock EXCEPT !.phase = "draining"]
           /\ quiet' = quiet \cup {lock.key} /\ UNCHANGED calls
  <2>1. lock' \in Held /\ lock'.phase = "draining" /\ lock'.key = lock.key /\ lock'.tries = lock.tries
    BY <1>1, <1>3 DEF Held, Phases
  <2>2. TypeOK' BY <1>0, <1>1, <1>2, <1>3, <2>1 DEF TypeOK
  <2>3. Fated' = Fated \cup {lock.key} BY <1>2, <1>3 DEF Fated
  <2>4. Called' /\ Ended' BY <1>0, <1>2, <1>3, <2>1, <2>3 DEF IInv, Called, Ended, At, Busy
  <2> QED BY <1>0, <1>2, <2>1, <2>2, <2>3, <2>4, StillKeeps DEF Busy
<1>4. CASE /\ lock.key \notin cancelled /\ lock' = [lock EXCEPT !.phase = "engine"]
           /\ calls' = [calls EXCEPT ![lock.key] = @ + 1] /\ UNCHANGED quiet
  <2>1. lock' \in Held /\ lock'.phase = "engine" /\ lock'.key = lock.key /\ lock'.tries = lock.tries
    BY <1>1, <1>4 DEF Held, Phases
  <2>2. /\ calls' \in [Keys -> Nat] /\ calls'[lock.key] = calls[lock.key] + 1
        /\ \A k \in Keys \ {lock.key} : calls'[k] = calls[k]
    BY <1>0, <1>1, <1>4 DEF TypeOK
  <2>3. TypeOK' BY <1>0, <1>2, <1>4, <2>1, <2>2 DEF TypeOK
  <2>4. calls[lock.key] = lock.tries BY <1>0 DEF IInv, Called
  <2>5. lock.key \in ToSet(seen) \ ToSet(queue) BY <1>0 DEF IInv, Queued
  <2>6. Called' BY <1>0, <1>1, <1>2, <2>1, <2>2, <2>4, <2>5 DEF IInv, Called, At, Busy
  <2>7. Ended' /\ Fated' = Fated BY <1>2, <1>4, <2>1 DEF Ended, At, Fated
  <2> QED BY <1>0, <1>2, <2>1, <2>3, <2>6, <2>7, StillKeeps DEF Busy
<1> QED BY <1>3, <1>4 DEF Launch

\* The end of an engine lets go of its turn with a word, or on account of a stop.
LEMMA EngineKeeps ==
  ASSUME IInv, NEW outcome \in {"reply", "notice", "transient", "cancelled"}, EngineEnds(outcome)
  PROVE  IInv'
<1>0. TypeOK /\ At("engine") /\ Busy /\ MaxRetries \in Nat
  BY SupervisorAssumption DEF IInv, EngineEnds, At, Busy
<1>1. lock \in Held /\ lock.key \in Keys /\ lock.tries \in 0..MaxRetries BY <1>0, LockType
<1>2. UNCHANGED <<seen, queue, refusing, cancelled, up, drops, calls, stale, shown, lost>> BY DEF EngineEnds
<1>3. calls[lock.key] = lock.tries + 1 BY <1>0 DEF IInv, Called
<1>4. CASE lock' = [lock EXCEPT !.phase = "draining"] /\ quiet' = quiet \cup {lock.key}
  <2>1. lock' \in Held /\ lock'.phase = "draining" /\ lock'.key = lock.key /\ lock'.tries = lock.tries
    BY <1>1, <1>4 DEF Held, Phases
  <2>2. TypeOK' BY <1>0, <1>1, <1>2, <1>4, <2>1 DEF TypeOK
  <2>3. Fated' = Fated \cup {lock.key} BY <1>2, <1>4 DEF Fated
  <2>4. Called' /\ Ended' BY <1>0, <1>2, <1>4, <2>1, <2>3 DEF IInv, Called, Ended, At, Busy
  <2> QED BY <1>0, <1>2, <2>1, <2>2, <2>3, <2>4, StillKeeps DEF Busy
<1>5. CASE ShouldRetry /\ lock' = [lock EXCEPT !.phase = "starting", !.tries = @ + 1] /\ UNCHANGED quiet
  <2>1. lock' \in Held /\ lock'.phase = "starting" /\ lock'.key = lock.key /\ lock'.tries = lock.tries + 1
    <3>1. lock.tries + 1 \in 0..MaxRetries BY <1>0, <1>1, <1>5 DEF ShouldRetry
    <3>2. lock' = [phase |-> "starting", key |-> lock.key, tries |-> lock.tries + 1] BY <1>1, <1>5 DEF Held
    <3> QED BY <1>1, <3>1, <3>2 DEF Held, Phases
  <2>2. TypeOK' BY <1>0, <1>2, <1>5, <2>1 DEF TypeOK
  <2>3. Called' BY <1>0, <1>2, <1>3, <2>1 DEF IInv, Called, At
  <2>4. Ended' /\ Fated' = Fated BY <1>2, <1>5, <2>1 DEF Ended, At, Fated
  <2> QED BY <1>0, <1>2, <2>1, <2>2, <2>3, <2>4, StillKeeps DEF Busy
<1>6. CASE lock' = [lock EXCEPT !.phase = "sending"] /\ UNCHANGED quiet
  <2>1. lock' \in Held /\ lock'.phase = "sending" /\ lock'.key = lock.key /\ lock'.tries = lock.tries
    BY <1>1, <1>6 DEF Held, Phases
  <2>2. TypeOK' BY <1>0, <1>2, <1>6, <2>1 DEF TypeOK
  <2>3. Called' BY <1>0, <1>2, <2>1 DEF IInv, Called, At
  <2>4. Ended' /\ Fated' = Fated BY <1>2, <1>6, <2>1 DEF Ended, At, Fated
  <2> QED BY <1>0, <1>2, <2>1, <2>2, <2>3, <2>4, StillKeeps DEF Busy
<1> QED BY <1>4, <1>5, <1>6 DEF EngineEnds

\* A message that cannot be sent leaves the lock, and the queue behind it.
LEMMA SendKeeps == ASSUME IInv, Send PROVE IInv'
<1>0. TypeOK /\ lock.phase \in {"sending", "stale"} /\ Busy BY DEF IInv, Send, Busy
<1>1. lock \in Held /\ lock.key \in Keys BY <1>0, LockType
<1>2. UNCHANGED <<seen, queue, refusing, cancelled, up, drops, calls, stale, quiet>> BY DEF Send
<1>3. CASE lock' = [lock EXCEPT !.phase = "draining"] /\ shown' = shown \cup {lock.key} /\ UNCHANGED lost
  <2>1. lock' \in Held /\ lock'.phase = "draining" /\ lock'.key = lock.key /\ lock'.tries = lock.tries
    BY <1>1, <1>3 DEF Held, Phases
  <2>2. TypeOK' BY <1>0, <1>1, <1>2, <1>3, <2>1 DEF TypeOK
  <2>3. Fated' = Fated \cup {lock.key} BY <1>2, <1>3 DEF Fated
  <2>4. Called' /\ Ended' BY <1>0, <1>2, <1>3, <2>1, <2>3 DEF IInv, Called, Ended, At, Busy
  <2> QED BY <1>0, <1>2, <1>3, <2>1, <2>2, <2>3, <2>4, StillKeeps DEF Busy
<1>4. CASE lock' = Idle /\ lost' = lost \cup {lock.key} /\ UNCHANGED shown
  <2>1. lock'.phase = "free" BY <1>4 DEF Idle
  <2>2. TypeOK' BY <1>0, <1>1, <1>2, <1>4 DEF TypeOK
  <2>3. Fated' = Fated \cup {lock.key} BY <1>2, <1>4 DEF Fated
  <2>4. Queued' /\ Called' /\ Ended' /\ Released'
    BY <1>2, <1>4, <2>1 DEF IInv, Queued, Called, Ended, Released, At, Busy
  <2>5. NobodyIsForgotten' BY <1>2, <2>3 DEF IInv, NobodyIsForgotten, Waiting, Fated
  <2>6. InOrderWhileConnected' BY <1>4 DEF InOrderWhileConnected
  <2> QED BY <2>2, <2>4, <2>5, <2>6 DEF IInv
<1> QED BY <1>3, <1>4 DEF Send

\* A connection that is lost or back changes what can be said, not who waits.
LEMMA ConnectionKeeps ==
  ASSUME IInv, Disconnect \/ Reconnect \/ \E k \in Keys : Refuse(k)
  PROVE  IInv'
<1>0. TypeOK BY DEF IInv
<1>1. CASE Disconnect \/ Reconnect
  <2>1. UNCHANGED <<seen, lock, queue, refusing, calls, stale, shown, quiet, lost>>
    BY <1>1 DEF Disconnect, Reconnect, fates
  <2>2. TypeOK'
    <3>1. cancelled' = cancelled BY <1>1 DEF Disconnect, Reconnect
    <3>2. up' \in BOOLEAN BY <1>1 DEF Disconnect, Reconnect
    <3>3. drops' \in 0..MaxDisconnects
      <4>1. drops \in 0..MaxDisconnects /\ MaxDisconnects \in Nat BY <1>0, SupervisorAssumption DEF TypeOK
      <4> QED BY <1>1, <4>1 DEF Disconnect, Reconnect
    <3> QED BY <1>0, <2>1, <3>1, <3>2, <3>3 DEF TypeOK
  <2>3. Called' /\ Ended' /\ Fated' = Fated BY <2>1 DEF IInv, Called, Ended, At, Fated
  <2> QED BY <2>1, <2>2, <2>3, StillKeeps DEF Busy
<1>2. ASSUME NEW k \in Keys, Refuse(k) PROVE IInv'
  <2>1. UNCHANGED <<seen, lock, queue, cancelled, up, drops, calls, stale, quiet>> /\ refusing' = refusing \ {k}
    BY <1>2 DEF Refuse
  <2>2. \/ shown' = shown \cup {k} /\ lost' = lost
        \/ lost' = lost \cup {k} /\ shown' = shown
    BY <1>2 DEF Refuse
  <2>3. Fated' = Fated \cup {k} BY <2>1, <2>2 DEF Fated
  <2>4. TypeOK' BY <1>0, <2>1, <2>2 DEF TypeOK
  <2>5. Called' /\ Ended' BY <2>1, <2>3 DEF IInv, Called, Ended, At
  <2> QED BY <2>1, <2>2, <2>3, <2>4, <2>5, StillKeeps DEF Busy
<1> QED BY <1>1, <1>2

-----------------------------------------------------------------------------
(* The queue.                                                                *)

\* The turn that takes the lock over, stopped before or not.
LEMMA Runs ==
  ASSUME TypeOK, NEW k \in Keys, Run(k)
  PROVE  /\ lock' \in Held /\ lock'.key = k /\ lock'.tries = 0 /\ lock'.phase \in {"draining", "starting"}
         /\ quiet \subseteq quiet' /\ quiet' \subseteq Keys
         /\ lock'.phase = "draining" => k \in quiet'
<1>0. 0 \in 0..MaxRetries BY SupervisorAssumption
<1>1. CASE lock' = [phase |-> "draining", key |-> k, tries |-> 0] /\ quiet' = quiet \cup {k}
  BY <1>0, <1>1 DEF Held, Phases, TypeOK
<1>2. CASE lock' = [phase |-> "starting", key |-> k, tries |-> 0] /\ quiet' = quiet
  BY <1>0, <1>2 DEF Held, Phases, TypeOK
<1> QED BY <1>1, <1>2 DEF Run

\* Members by their place.
LEMMA QueueType ==
  ASSUME TypeOK
  PROVE  /\ queue \in Seq(Keys) /\ Len(queue) \in Nat /\ DOMAIN queue = 1..Len(queue)
         /\ seen \in Seq(Keys) /\ Len(seen) \in Nat /\ DOMAIN seen = 1..Len(seen)
         /\ \A i \in 1..Len(queue) : queue[i] \in ToSet(queue) /\ queue[i] \in Keys
         /\ \A k \in ToSet(queue) : \E i \in 1..Len(queue) : queue[i] = k
         /\ QueueDepth \in Nat
<1>1. queue \in Seq(Keys) /\ seen \in Seq(Keys) BY DEF TypeOK
<1>2. /\ Len(queue) \in Nat /\ DOMAIN queue = 1..Len(queue)
      /\ Len(seen) \in Nat /\ DOMAIN seen = 1..Len(seen)
  BY <1>1, LenProperties
<1>3. \A i \in 1..Len(queue) : queue[i] \in Keys BY <1>1, ElementOfSeq
<1> QED BY <1>1, <1>2, <1>3, SetOfSeq, SupervisorAssumption

\* A follow-up takes the lock over from a turn that is over.
LEMMA DrainKeeps == ASSUME IInv, NEW tooOld \in BOOLEAN, Drain(tooOld) PROVE IInv'
<1>0. TypeOK /\ At("draining") /\ Busy /\ lock.key \in Fated BY DEF IInv, Drain, At, Busy, Ended
<1>1. UNCHANGED <<seen, refusing, cancelled, up, drops, calls, stale, shown, lost>> BY DEF Drain
<1>2. CASE queue = <<>> /\ lock' = Idle /\ UNCHANGED <<queue, quiet>>
  <2>1. lock'.phase = "free" BY <1>2 DEF Idle
  <2>2. TypeOK'
    <3>1. lock' = Idle /\ UNCHANGED <<queue, quiet>> BY <1>2
    <3> QED BY <1>0, <1>1, <3>1 DEF TypeOK
  <2>3. Queued' /\ Called' /\ Ended' /\ Released'
    BY <1>1, <1>2, <2>1 DEF IInv, Queued, Called, Ended, Released, At, Busy
  <2>4. NobodyIsForgotten' BY <1>0, <1>1, <1>2 DEF IInv, NobodyIsForgotten, Waiting, Fated
  <2>5. InOrderWhileConnected'
    BY <1>1, <1>2, <2>1 DEF IInv, InOrderWhileConnected, InArrivalOrder, Before, Busy
  <2> QED BY <2>2, <2>3, <2>4, <2>5 DEF IInv
<1>3. CASE /\ queue # <<>> /\ queue' = Tail(queue)
           /\ \/ lock' = [phase |-> "stale", key |-> Head(queue), tries |-> 0] /\ UNCHANGED quiet
              \/ Run(Head(queue))
  <2> DEFINE h == Head(queue)
             n == Len(queue)
  <2>1. /\ queue \in Seq(Keys) /\ n \in Nat /\ n >= 1 /\ h = queue[1] /\ h \in Keys
        /\ queue' \in Seq(Keys) /\ Len(queue') = n - 1 /\ \A i \in 1..(n - 1) : queue'[i] = queue[i + 1]
    BY <1>0, <1>3, Taken, QueueType
  <2>2. /\ lock' \in Held /\ lock'.key = h /\ lock'.tries = 0 /\ lock'.phase \in {"draining", "starting", "stale"}
        /\ quiet \subseteq quiet' /\ quiet' \subseteq Keys
        /\ lock'.phase = "draining" => h \in quiet'
    <3>1. CASE lock' = [phase |-> "stale", key |-> h, tries |-> 0] /\ UNCHANGED quiet
      BY <1>0, <2>1, <3>1, SupervisorAssumption DEF Held, Phases, TypeOK
    <3>2. CASE Run(h)
      BY <1>0, <2>1, <3>2, Runs
    <3> QED BY <1>3, <3>1, <3>2
  <2> HIDE DEF h, n
  <2>3. DOMAIN queue = 1..n /\ DOMAIN queue' = 1..(n - 1) BY <2>1, LenProperties DEF n
  <2>4. TypeOK'
    <3>1. Len(queue') =< QueueDepth BY <1>0, <2>1, SupervisorAssumption DEF TypeOK, n
    <3>2. UNION {stale', shown', quiet', lost'} \subseteq Keys BY <1>0, <1>1, <2>2 DEF TypeOK
    <3> QED BY <1>0, <1>1, <2>1, <2>2, <3>1, <3>2 DEF TypeOK
  <2>5. \A i \in 1..(n - 1) : i + 1 \in DOMAIN queue BY <2>1, <2>3
  <2>6. h \in ToSet(queue) /\ h = queue[1] /\ 1 \in DOMAIN queue BY <2>1, <2>3 DEF ToSet
  <2>7. ToSet(queue') = ToSet(queue) \ {h}
    <3>1. \A i, j \in DOMAIN queue : queue[i] = queue[j] => i = j BY DEF IInv, Queued
    <3>2. ASSUME NEW k \in ToSet(queue') PROVE k \in ToSet(queue) \ {h}
      <4>1. PICK i \in 1..(n - 1) : queue'[i] = k BY <2>3 DEF ToSet
      <4>2. k = queue[i + 1] /\ i + 1 \in DOMAIN queue /\ i + 1 # 1 BY <2>1, <2>3, <4>1
      <4> QED BY <2>6, <3>1, <4>2 DEF ToSet
    <3>3. ASSUME NEW k \in ToSet(queue) \ {h} PROVE k \in ToSet(queue')
      <4>1. PICK j \in 1..n : queue[j] = k BY <2>3 DEF ToSet
      <4>2. j # 1 BY <2>6, <4>1
      <4>3. j - 1 \in 1..(n - 1) /\ (j - 1) + 1 = j BY <2>1, <4>2
      <4>4. queue'[j - 1] = k BY <2>1, <4>1, <4>3
      <4> QED BY <2>3, <4>3, <4>4 DEF ToSet
    <3> QED BY <3>2, <3>3
  <2>8. Busy' BY <2>2 DEF Busy
  <2>9. Queued'
    <3>1. ASSUME NEW i \in DOMAIN queue', NEW j \in DOMAIN queue', queue'[i] = queue'[j] PROVE i = j
      <4>1. i \in 1..(n - 1) /\ j \in 1..(n - 1) /\ queue[i + 1] = queue[j + 1] BY <2>1, <2>3, <3>1
      <4>2. i + 1 = j + 1 BY <2>5, <4>1 DEF IInv, Queued
      <4> QED BY <2>1, <4>1, <4>2
    <3>2. ToSet(queue') \subseteq ToSet(seen') /\ h \in ToSet(seen') \ ToSet(queue')
      BY <1>1, <2>6, <2>7 DEF IInv, Queued
    <3> QED BY <2>2, <3>1, <3>2 DEF Queued
  <2>10. Called'
    <3>1. calls[h] = 0 BY <2>1, <2>6 DEF IInv, Called
    <3>2. \A k \in Keys : k \notin ToSet(seen') \/ k \in ToSet(queue') => calls'[k] = 0
      BY <1>1, <2>7 DEF IInv, Called
    <3>3. \A k \in Keys : calls'[k] =< 1 + MaxRetries BY <1>1 DEF IInv, Called
    <3>4. calls'[lock'.key] = lock'.tries /\ lock'.phase # "engine" BY <1>1, <2>2, <3>1
    <3> QED BY <3>2, <3>3, <3>4 DEF Called, At
  <2>11. Ended' /\ Released' BY <2>2, <2>8 DEF Ended, Released, At, Fated
  <2>12. NobodyIsForgotten'
    <3>1. Waiting = ToSet(queue) \cup refusing \cup {lock.key} BY <1>0 DEF Waiting
    <3>2. Waiting' = ToSet(queue') \cup refusing \cup {h} BY <1>1, <2>2, <2>8 DEF Waiting
    <3>3. Fated \subseteq Fated' BY <1>1, <2>2 DEF Fated
    <3>4. ToSet(seen) \subseteq Waiting \cup Fated BY DEF IInv, NobodyIsForgotten, Fated
    <3>5. ToSet(seen) \subseteq Waiting' \cup Fated' BY <1>0, <2>7, <3>1, <3>2, <3>3, <3>4
    <3> QED BY <1>1, <3>5 DEF NobodyIsForgotten, Fated
  <2>13. InOrderWhileConnected'
    <3> SUFFICES ASSUME lost = {} PROVE InArrivalOrder'
      BY <1>1 DEF InOrderWhileConnected
    <3>0. InArrivalOrder BY DEF IInv, InOrderWhileConnected
    <3>1. ASSUME NEW i \in DOMAIN queue', NEW j \in DOMAIN queue', i < j PROVE Before(queue'[i], queue'[j])
      <4>1. i + 1 \in DOMAIN queue /\ j + 1 \in DOMAIN queue /\ i + 1 < j + 1
            /\ queue'[i] = queue[i + 1] /\ queue'[j] = queue[j + 1]
        BY <2>1, <2>3, <3>1
      <4> QED BY <3>0, <4>1 DEF InArrivalOrder
    <3>2. ASSUME NEW i \in DOMAIN queue' PROVE Before(h, queue'[i])
      <4>1. i + 1 \in DOMAIN queue /\ 1 < i + 1 /\ queue'[i] = queue[i + 1] BY <2>1, <2>3
      <4> QED BY <2>6, <3>0, <4>1 DEF InArrivalOrder
    <3> QED BY <1>1, <2>2, <3>1, <3>2 DEF InArrivalOrder, Before
  <2> QED BY <2>4, <2>9, <2>10, <2>11, <2>12, <2>13 DEF IInv
<1> QED BY <1>2, <1>3 DEF Drain

\* A stop takes its delivery out of the queue, and nothing else.
LEMMA CancelKeeps == ASSUME IInv, NEW k \in Keys, Cancel(k) PROVE IInv'
<1>0. TypeOK BY DEF IInv
<1>1. /\ UNCHANGED <<seen, lock, refusing, up, drops, calls, stale, shown, lost>>
      /\ cancelled' = cancelled \cup {k} /\ quiet' = quiet \cup (ToSet(queue) \cap {k})
  BY DEF Cancel, CancelTurn
<1>2. CASE k \notin ToSet(queue) /\ UNCHANGED queue
  <2>1. quiet' = quiet BY <1>1, <1>2
  <2>2. TypeOK' BY <1>0, <1>1, <1>2, <2>1 DEF TypeOK
  <2>3. Called' /\ Ended' /\ Fated' = Fated BY <1>1, <1>2, <2>1 DEF IInv, Called, Ended, At, Fated
  <2> QED BY <1>1, <1>2, <2>2, <2>3, StillKeeps DEF Busy
<1>3. ASSUME NEW p \in DOMAIN queue, queue[p] = k, queue' = RemoveAt(queue, p) PROVE IInv'
  <2> DEFINE n == Len(queue)
  <2>1. queue \in Seq(Keys) /\ n \in Nat /\ DOMAIN queue = 1..n /\ QueueDepth \in Nat BY <1>0, QueueType
  <2>2. /\ queue' \in Seq(Keys) /\ Len(queue') = n - 1
        /\ \A i \in 1..(n - 1) : queue'[i] = IF i < p THEN queue[i] ELSE queue[i + 1]
    BY <1>3, <2>1, Shortened
  <2> DEFINE Old(i) == IF i < p THEN i ELSE i + 1
  <2>3. DOMAIN queue' = 1..(n - 1) BY <2>2, LenProperties
  <2>4. n =< QueueDepth BY <1>0 DEF TypeOK
  <2> HIDE DEF n
  <2>5. ASSUME NEW i \in 1..(n - 1)
        PROVE  Old(i) \in 1..n /\ Old(i) # p /\ queue'[i] = queue[Old(i)]
    BY <1>3, <2>1, <2>2
  <2>6. ASSUME NEW i \in 1..(n - 1), NEW j \in 1..(n - 1) PROVE i < j <=> Old(i) < Old(j)
    BY <1>3, <2>1
  <2>7. ASSUME NEW j \in 1..n, j # p PROVE \E i \in 1..(n - 1) : Old(i) = j
    <3>1. CASE j < p BY <1>3, <2>1, <2>7, <3>1
    <3>2. CASE j > p
      <4>1. j - 1 \in 1..(n - 1) /\ Old(j - 1) = j BY <1>3, <2>1, <3>2
      <4> QED BY <4>1
    <3> QED BY <1>3, <2>1, <2>7, <3>1, <3>2
  <2> HIDE DEF Old
  <2>8. TypeOK'
    <3>1. Len(queue') =< QueueDepth BY <2>1, <2>2, <2>4
    <3>2. UNION {stale', shown', quiet', lost'} \subseteq Keys BY <1>0, <1>1 DEF TypeOK
    <3> QED BY <1>0, <1>1, <2>2, <3>1, <3>2 DEF TypeOK
  <2>9. \A i, j \in 1..n : queue[i] = queue[j] => i = j BY <2>1 DEF IInv, Queued
  <2>10. ToSet(queue') = ToSet(queue) \ {k}
    <3>1. ASSUME NEW q \in ToSet(queue') PROVE q \in ToSet(queue) \ {k}
      <4>1. PICK i \in 1..(n - 1) : queue'[i] = q BY <2>3 DEF ToSet
      <4>2. q = queue[Old(i)] /\ Old(i) \in 1..n /\ Old(i) # p BY <2>5, <4>1
      <4> QED BY <1>3, <2>1, <2>9, <4>2 DEF ToSet
    <3>2. ASSUME NEW q \in ToSet(queue) \ {k} PROVE q \in ToSet(queue')
      <4>1. PICK j \in 1..n : queue[j] = q BY <2>1 DEF ToSet
      <4>2. j # p BY <1>3, <4>1
      <4>3. PICK i \in 1..(n - 1) : Old(i) = j BY <2>7, <4>2
      <4>4. queue'[i] = q BY <2>5, <4>1, <4>3
      <4> QED BY <2>3, <4>4 DEF ToSet
    <3> QED BY <3>1, <3>2
  <2>11. k \in ToSet(queue) BY <1>3 DEF ToSet
  <2>12. Queued'
    <3>1. ASSUME NEW i \in 1..(n - 1), NEW j \in 1..(n - 1), queue'[i] = queue'[j] PROVE i = j
      <4>1. Old(i) = Old(j) BY <2>5, <2>9, <3>1
      <4>2. ~(i < j) /\ ~(j < i)
        <5>1. Old(i) \in 1..n BY <2>5
        <5> QED BY <2>1, <2>6, <4>1, <5>1
      <4> QED BY <2>1, <4>2
    <3> QED BY <1>1, <2>3, <2>10, <3>1 DEF IInv, Queued, Busy
  <2>13. Called'
    <3>1. \A q \in Keys : q \notin ToSet(seen') \/ q \in ToSet(queue') => calls'[q] = 0
      BY <1>1, <2>10 DEF IInv, Called
    <3> QED BY <1>1, <3>1 DEF IInv, Called, At
  <2>14. Fated' = Fated \cup {k} BY <1>1, <2>11 DEF Fated
  <2>15. Ended' BY <1>1, <2>14 DEF IInv, Ended, At
  <2>16. Released'
    <3>1. queue # <<>>
      <4>1. n >= 1 BY <1>3, <2>1
      <4> QED BY <4>1, EmptySeq DEF n
    <3> QED BY <1>1, <3>1 DEF IInv, Released, Busy
  <2>17. NobodyIsForgotten'
    <3>1. ToSet(seen) \subseteq Waiting \cup Fated BY DEF IInv, NobodyIsForgotten, Fated
    <3>2. Waiting \subseteq Waiting' \cup {k} BY <1>1, <2>10 DEF Waiting, Busy
    <3>3. ToSet(seen) \subseteq Waiting' \cup Fated' BY <2>14, <3>1, <3>2
    <3> QED BY <1>1, <3>3 DEF NobodyIsForgotten, Fated
  <2>18. InOrderWhileConnected'
    <3> SUFFICES ASSUME lost = {} PROVE InArrivalOrder'
      BY <1>1 DEF InOrderWhileConnected
    <3>0. InArrivalOrder BY DEF IInv, InOrderWhileConnected
    <3>1. ASSUME NEW i \in DOMAIN queue', NEW j \in DOMAIN queue', i < j PROVE Before(queue'[i], queue'[j])
      <4>1. Old(i) \in DOMAIN queue /\ Old(j) \in DOMAIN queue /\ Old(i) < Old(j)
            /\ queue'[i] = queue[Old(i)] /\ queue'[j] = queue[Old(j)]
        BY <2>1, <2>3, <2>5, <2>6, <3>1
      <4> QED BY <3>0, <4>1 DEF InArrivalOrder
    <3>2. ASSUME Busy, NEW i \in DOMAIN queue' PROVE Before(lock.key, queue'[i])
      <4>1. Old(i) \in DOMAIN queue /\ queue'[i] = queue[Old(i)] BY <2>1, <2>3, <2>5
      <4> QED BY <3>0, <3>2, <4>1 DEF InArrivalOrder
    <3> QED BY <1>1, <3>1, <3>2 DEF InArrivalOrder, Before, Busy
  <2> QED BY <2>8, <2>12, <2>13, <2>15, <2>16, <2>17, <2>18 DEF IInv
<1> QED BY <1>2, <1>3 DEF Cancel, CancelTurn

-----------------------------------------------------------------------------
(* Deliveries.                                                               *)

\* Before, of a given order of arrival.
BeforeIn(s, j, k) == \E m, n \in DOMAIN s : s[m] = j /\ s[n] = k /\ m < n

\* The order of two deliveries is that of their places among all taken in.
LEMMA OrderIn ==
  /\ InArrivalOrder =>
        /\ \A i, j \in DOMAIN queue : i < j => BeforeIn(seen, queue[i], queue[j])
        /\ Busy => \A i \in DOMAIN queue : BeforeIn(seen, lock.key, queue[i])
  /\ (\A i, j \in DOMAIN queue' : i < j => BeforeIn(seen', queue'[i], queue'[j]))
     /\ (Busy' => \A i \in DOMAIN queue' : BeforeIn(seen', lock'.key, queue'[i]))
     => InArrivalOrder'
  BY DEF InArrivalOrder, Before, BeforeIn, Busy

\* What a delivery has in common, wherever it goes.
LEMMA Arrives ==
  ASSUME IInv, NEW k \in Keys, Deliver(k)
  PROVE  /\ seen' \in Seq(Keys) /\ ToSet(seen') = ToSet(seen) \cup {k} /\ k \notin ToSet(seen)
         /\ k \notin ToSet(queue) /\ calls[k] = 0 /\ (Busy => lock.key # k)
         /\ \A q \in ToSet(seen) : BeforeIn(seen', q, k)
         /\ \A q, r : BeforeIn(seen, q, r) => BeforeIn(seen', q, r)
<1>0. TypeOK /\ seen' = Append(seen, k) /\ k \notin ToSet(seen) BY DEF IInv, Deliver, Fresh
<1> DEFINE n == Len(seen)
<1>1. seen \in Seq(Keys) /\ n \in Nat /\ DOMAIN seen = 1..n BY <1>0, QueueType
<1>2. /\ seen' \in Seq(Keys) /\ Len(seen') = n + 1 /\ ToSet(seen') = ToSet(seen) \cup {k}
      /\ (\A i \in 1..n : seen'[i] = seen[i]) /\ seen'[n + 1] = k
  BY <1>0, <1>1, Appended
<1>3. DOMAIN seen' = 1..(n + 1) BY <1>2, LenProperties
<1> HIDE DEF n
<1>4. ASSUME NEW q \in ToSet(seen) PROVE BeforeIn(seen', q, k)
  <2>1. PICK i \in 1..n : seen[i] = q BY <1>1 DEF ToSet
  <2>2. i \in DOMAIN seen' /\ n + 1 \in DOMAIN seen' /\ i < n + 1 /\ seen'[i] = q BY <1>1, <1>2, <1>3, <2>1
  <2> QED BY <1>2, <2>2 DEF BeforeIn
<1>5. ASSUME NEW q, NEW r, BeforeIn(seen, q, r) PROVE BeforeIn(seen', q, r)
  <2>1. PICK i, j \in DOMAIN seen : seen[i] = q /\ seen[j] = r /\ i < j BY <1>5 DEF BeforeIn
  <2>2. i \in DOMAIN seen' /\ j \in DOMAIN seen' /\ seen'[i] = q /\ seen'[j] = r
    BY <1>1, <1>2, <1>3, <2>1
  <2> QED BY <2>1, <2>2 DEF BeforeIn
<1> QED BY <1>0, <1>2, <1>4, <1>5 DEF IInv, Queued, Called

\* A delivery that is not queued and does not run.
LEMMA AsideKeeps ==
  ASSUME IInv, NEW k \in Keys, Deliver(k), UNCHANGED <<queue, lock>>,
         refusing \subseteq refusing', Fated \subseteq Fated', k \in refusing' \cup Fated',
         refusing' \subseteq Keys, Fated' \subseteq Keys
  PROVE  IInv'
<1>1. UNCHANGED <<cancelled, up, drops, calls, shown, lost>> BY DEF Deliver
<1>2. TypeOK' BY <1>1, Arrives DEF IInv, TypeOK, Fated
<1>3. Queued' BY Arrives DEF IInv, Queued, Busy
<1>4. Called'
  <2>1. \A q \in Keys : q \notin ToSet(seen') \/ q \in ToSet(queue') => calls'[q] = 0
    BY <1>1, Arrives DEF IInv, Called
  <2> QED BY <1>1, <2>1 DEF IInv, Called, At
<1>5. Ended' /\ Released' BY <1>1 DEF IInv, Ended, Released, At, Busy
<1>6. NobodyIsForgotten'
  <2>1. ToSet(seen) \subseteq Waiting \cup Fated BY DEF IInv, NobodyIsForgotten, Fated
  <2>2. Waiting' = ToSet(queue) \cup refusing' \cup IF Busy THEN {lock.key} ELSE {} BY DEF Waiting, Busy
  <2>3. ToSet(seen') \subseteq Waiting' \cup Fated' BY <2>1, <2>2, Arrives DEF Waiting
  <2> QED BY <2>3 DEF NobodyIsForgotten, Fated
<1>7. InOrderWhileConnected'
  <2> SUFFICES ASSUME lost = {} PROVE InArrivalOrder'
    BY <1>1 DEF InOrderWhileConnected
  <2>1. InArrivalOrder BY DEF IInv, InOrderWhileConnected
  <2>2. /\ \A i, j \in DOMAIN queue : i < j => BeforeIn(seen', queue[i], queue[j])
        /\ Busy => \A i \in DOMAIN queue : BeforeIn(seen', lock.key, queue[i])
    BY <2>1, Arrives, OrderIn
  <2> QED BY <2>2, OrderIn DEF Busy
<1> QED BY <1>2, <1>3, <1>4, <1>5, <1>6, <1>7 DEF IInv

LEMMA DeliverKeeps == ASSUME IInv, NEW k \in Keys, Deliver(k) PROVE IInv'
<1>0. TypeOK BY DEF IInv
<1>1. UNCHANGED <<cancelled, up, drops, calls, shown, lost>> BY DEF Deliver
<1>2. CASE stale' = stale \cup {k} /\ UNCHANGED <<lock, queue, refusing, quiet>>
  <2>1. Fated' = Fated \cup {k} BY <1>1, <1>2 DEF Fated
  <2> QED BY <1>0, <1>2, <2>1, AsideKeeps DEF TypeOK, Fated
<1>3. CASE quiet' = quiet \cup {k} /\ UNCHANGED <<lock, queue, refusing, stale>>
  <2>1. Fated' = Fated \cup {k} BY <1>1, <1>3 DEF Fated
  <2> QED BY <1>0, <1>3, <2>1, AsideKeeps DEF TypeOK, Fated
<1>4. CASE refusing' = refusing \cup {k} /\ UNCHANGED <<lock, queue, quiet, stale>>
  <2>1. Fated' = Fated BY <1>1, <1>4 DEF Fated
  <2> QED BY <1>0, <1>4, <2>1, AsideKeeps DEF TypeOK, Fated
<1>5. CASE Busy /\ Len(queue) < QueueDepth /\ queue' = Append(queue, k) /\ UNCHANGED <<lock, refusing, quiet, stale>>
  <2> DEFINE n == Len(queue)
  <2>1. queue \in Seq(Keys) /\ n \in Nat /\ DOMAIN queue = 1..n /\ QueueDepth \in Nat BY <1>0, QueueType
  <2>2. /\ queue' \in Seq(Keys) /\ Len(queue') = n + 1 /\ ToSet(queue') = ToSet(queue) \cup {k}
        /\ (\A i \in 1..n : queue'[i] = queue[i]) /\ queue'[n + 1] = k
    BY <1>5, <2>1, Appended
  <2>3. DOMAIN queue' = 1..(n + 1) BY <2>2, LenProperties
  <2>4. n < QueueDepth BY <1>5
  <2> HIDE DEF n
  <2>5. Fated' = Fated BY <1>1, <1>5 DEF Fated
  <2>6. TypeOK' 
    <3>1. Len(queue') =< QueueDepth BY <2>1, <2>2, <2>4
    <3>2. UNION {stale', shown', quiet', lost'} \subseteq Keys BY <1>0, <1>1, <1>5 DEF TypeOK
    <3> QED BY <1>0, <1>1, <1>5, <2>2, <3>1, <3>2, Arrives DEF TypeOK
  <2>7. \A i \in 1..n : queue[i] \in ToSet(queue) /\ queue[i] # k /\ queue[i] \in ToSet(seen)
    <3>1. \A i \in 1..n : queue[i] \in ToSet(queue) BY <2>1 DEF ToSet
    <3> QED BY <3>1, Arrives DEF IInv, Queued
  <2>8. Queued'
    <3>1. ASSUME NEW i \in 1..(n + 1), NEW j \in 1..(n + 1), queue'[i] = queue'[j] PROVE i = j
      <4>1. i \in 1..n \/ i = n + 1 BY <2>1
      <4>2. j \in 1..n \/ j = n + 1 BY <2>1
      <4>3. \A a, b \in 1..n : queue[a] = queue[b] => a = b BY <2>1 DEF IInv, Queued
      <4> QED BY <2>2, <2>7, <3>1, <4>1, <4>2, <4>3
    <3>2. ToSet(queue') \subseteq ToSet(seen') BY <2>2, Arrives DEF IInv, Queued
    <3>3. lock.key \in ToSet(seen') \ ToSet(queue') BY <1>5, <2>2, Arrives DEF IInv, Queued
    <3> QED BY <1>5, <2>3, <3>1, <3>2, <3>3 DEF Queued
  <2>9. Called'
    <3>1. \A q \in Keys : q \notin ToSet(seen') \/ q \in ToSet(queue') => calls'[q] = 0
      BY <1>1, <2>2, Arrives DEF IInv, Called
    <3> QED BY <1>1, <1>5, <3>1 DEF IInv, Called, At
  <2>10. Ended' /\ Released' BY <1>5, <2>5 DEF IInv, Ended, Released, At, Busy
  <2>11. NobodyIsForgotten'
    <3>1. ToSet(seen) \subseteq Waiting \cup Fated BY DEF IInv, NobodyIsForgotten, Fated
    <3>2. Waiting' = Waiting \cup {k} BY <1>5, <2>2 DEF Waiting, Busy
    <3>3. ToSet(seen') \subseteq Waiting' \cup Fated' BY <2>5, <3>1, <3>2, Arrives
    <3> QED BY <3>3 DEF NobodyIsForgotten, Fated
  <2>12. InOrderWhileConnected'
    <3> SUFFICES ASSUME lost = {} PROVE InArrivalOrder'
      BY <1>1 DEF InOrderWhileConnected
    <3>1. InArrivalOrder BY DEF IInv, InOrderWhileConnected
    <3>2. ASSUME NEW i \in 1..(n + 1), NEW j \in 1..(n + 1), i < j
          PROVE  BeforeIn(seen', queue'[i], queue'[j])
      <4>1. i \in 1..n /\ (j \in 1..n \/ j = n + 1) BY <2>1, <3>2
      <4>2. CASE j \in 1..n
        <5>1. BeforeIn(seen, queue[i], queue[j]) BY <2>1, <3>1, <3>2, <4>1, <4>2, OrderIn
        <5> QED BY <2>2, <4>1, <4>2, <5>1, Arrives
      <4>3. CASE j = n + 1
        BY <2>2, <2>7, <4>1, <4>3, Arrives
      <4> QED BY <4>1, <4>2, <4>3
    <3>3. ASSUME NEW i \in 1..(n + 1) PROVE BeforeIn(seen', lock.key, queue'[i])
      <4>1. i \in 1..n \/ i = n + 1 BY <2>1
      <4>2. CASE i \in 1..n
        <5>1. BeforeIn(seen, lock.key, queue[i]) BY <1>5, <2>1, <3>1, <4>2, OrderIn
        <5> QED BY <2>2, <4>2, <5>1, Arrives
      <4>3. CASE i = n + 1
        <5>1. lock.key \in ToSet(seen) BY <1>5 DEF IInv, Queued
        <5> QED BY <2>2, <4>3, <5>1, Arrives
      <4> QED BY <4>1, <4>2, <4>3
    <3> QED BY <1>5, <2>3, <3>2, <3>3, OrderIn
  <2> QED BY <2>6, <2>8, <2>9, <2>10, <2>11, <2>12 DEF IInv
<1>6. CASE ~Busy /\ Run(k) /\ UNCHANGED <<queue, refusing, stale>>
  <2>1. /\ lock' \in Held /\ lock'.key = k /\ lock'.tries = 0 /\ lock'.phase \in {"draining", "starting"}
        /\ quiet \subseteq quiet' /\ quiet' \subseteq Keys
        /\ lock'.phase = "draining" => k \in quiet'
    BY <1>0, <1>6, Runs
  <2>2. Busy' BY <2>1 DEF Busy
  <2>3. TypeOK'
    <3>1. UNION {stale', shown', quiet', lost'} \subseteq Keys BY <1>0, <1>1, <1>6, <2>1 DEF TypeOK
    <3> QED BY <1>0, <1>1, <1>6, <2>1, <3>1, Arrives DEF TypeOK
  <2>4. Queued' BY <1>6, <2>1, <2>2, Arrives DEF IInv, Queued
  <2>5. Called'
    <3>1. \A q \in Keys : q \notin ToSet(seen') \/ q \in ToSet(queue') => calls'[q] = 0
      BY <1>1, <1>6, Arrives DEF IInv, Called
    <3>2. calls'[lock'.key] = lock'.tries /\ lock'.phase # "engine" BY <1>1, <2>1, Arrives
    <3> QED BY <1>1, <3>1, <3>2 DEF IInv, Called, At
  <2>6. Ended' /\ Released' BY <2>1, <2>2 DEF Ended, Released, At, Fated
  <2>7. NobodyIsForgotten'
    <3>1. ToSet(seen) \subseteq Waiting \cup Fated BY DEF IInv, NobodyIsForgotten, Fated
    <3>2. Waiting' = Waiting \cup {k} BY <1>6, <2>1, <2>2 DEF Waiting
    <3>3. Fated \subseteq Fated' BY <1>1, <1>6, <2>1 DEF Fated
    <3>4. ToSet(seen') \subseteq Waiting' \cup Fated' BY <3>1, <3>2, <3>3, Arrives
    <3> QED BY <3>4 DEF NobodyIsForgotten, Fated
  <2>8. InOrderWhileConnected'
    <3> SUFFICES ASSUME lost = {} PROVE InArrivalOrder'
      BY <1>1 DEF InOrderWhileConnected
    <3>1. queue = <<>> BY <1>6 DEF IInv, Released
    <3>2. DOMAIN queue' = {} BY <1>6, <3>1
    <3> QED BY <3>2 DEF InArrivalOrder
  <2> QED BY <2>3, <2>4, <2>5, <2>6, <2>7, <2>8 DEF IInv
<1> QED BY <1>2, <1>3, <1>4, <1>5, <1>6 DEF Deliver, Dispatch

-----------------------------------------------------------------------------
(* Safety.                                                                   *)

\* At first nothing has been taken in.
LEMMA InitInv == Init => IInv
<1> SUFFICES ASSUME Init PROVE IInv
  OBVIOUS
<1>1. lock.phase = "free" BY DEF Init, Idle
<1>2. <<>> \in Seq(Keys) /\ Len(<<>>) = 0 /\ DOMAIN <<>> = {} OBVIOUS
<1>3. ToSet(<<>>) = {} BY <1>2 DEF ToSet
<1>4. TypeOK BY <1>2, SupervisorAssumption DEF Init, TypeOK
<1>5. Queued /\ Ended /\ Released BY <1>1, <1>2, <1>3 DEF Init, Queued, Ended, Released, At, Busy
<1>6. Called BY <1>1, <1>3, SupervisorAssumption DEF Init, Called, At
<1>7. NobodyIsForgotten BY <1>3 DEF Init, NobodyIsForgotten
<1>8. InOrderWhileConnected BY <1>1, <1>2 DEF Init, InOrderWhileConnected, InArrivalOrder, Busy
<1> QED BY <1>4, <1>5, <1>6, <1>7, <1>8 DEF IInv

\* Every step of the supervisor, its engine and its connection keeps it.
LEMMA Inductive == IInv /\ [Next]_vars => IInv'
<1> SUFFICES ASSUME IInv, [Next]_vars PROVE IInv'
  OBVIOUS
<1>1. CASE UNCHANGED vars
  <2>1. UNCHANGED <<seen, lock, queue, refusing, cancelled, up, drops, calls, stale, shown, quiet, lost>>
    BY <1>1 DEF vars
  <2>2. TypeOK' /\ Called' /\ Ended' /\ Fated' = Fated
    BY <2>1 DEF IInv, TypeOK, Called, Ended, At, Fated
  <2> QED BY <2>1, <2>2, StillKeeps DEF Busy
<1>2. CASE Next
  BY <1>2, DeliverKeeps, ConnectionKeeps, CancelKeeps, LaunchKeeps, SendKeeps, EngineKeeps, DrainKeeps
  DEF Next, Holder
<1> QED BY <1>1, <1>2

\* The inductive invariant: every delivery taken in waits once, runs, or has had its
\* end, and the queue keeps the order of arrival.
THEOREM Invariant == Spec => []IInv
  BY InitInv, Inductive, PTL DEF Spec

\* The queue stays within its cap, whatever arrives during a drain.
THEOREM TypeCorrect == Spec => []TypeOK
  BY Invariant, PTL DEF IInv

\* However often an attempt is delivered, its engine is called once and again
\* only for the supervisor's own retries.
THEOREM CalledOnce == Spec => []OneCallPerAttempt
<1>1. IInv => OneCallPerAttempt BY DEF IInv, Called, OneCallPerAttempt
<1> QED BY <1>1, Invariant, PTL

\* Nobody who wrote to the agent is left without a word.
THEOREM EveryoneIsAnswered == Spec => []NobodyIsForgotten
  BY Invariant, PTL DEF IInv

\* Turns run in the order in which they arrived while messages can be sent.
THEOREM ServedInOrder == Spec => []InOrderWhileConnected
  BY Invariant, PTL DEF IInv

\* A stop that comes before the engine prevents its call, wherever it finds the
\* attempt.
THEOREM StopsPreventCalls == Spec => StoppedNeverStarts
<1>1. TypeOK /\ [Next]_vars => [\A k \in cancelled : calls'[k] = calls[k]]_vars
  <2> SUFFICES ASSUME TypeOK, Next PROVE \A k \in cancelled : calls'[k] = calls[k]
    BY DEF vars
  <2>1. CASE Launch BY <2>1 DEF Launch, TypeOK
  <2>2. CASE ~Launch
    BY <2>2 DEF Next, Holder, Deliver, Refuse, Cancel, Send, EngineEnds, Drain, Disconnect, Reconnect, fates
  <2> QED BY <2>1, <2>2
<1> QED BY <1>1, TypeCorrect, PTL DEF Spec, StoppedNeverStarts

===============================================================================
