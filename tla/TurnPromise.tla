----------------------------- MODULE TurnPromise -----------------------------
(***************************************************************************)
(* What a room is promised about the requests it addresses to an agent,    *)
(* with no attempts, leases, generations or messages in flight: requests   *)
(* are taken up in the order they were made, a request may be put back and *)
(* taken up again, and it is settled once and for all with at most one     *)
(* message the room can see.                                               *)
(***************************************************************************)
EXTENDS Naturals

CONSTANT Requests   \* 1..N, in the order of the room's messages

VARIABLES
    status,    \* none, waiting, working or settled
    visible    \* messages the request made visible in the room

promiseVars == <<status, visible>>

PromiseInit ==
    /\ status = [r \in Requests |-> "none"]
    /\ visible = [r \in Requests |-> 0]

\* A request is made; one the agent may not take is settled at once.
Ask(r) ==
    /\ status[r] = "none" /\ \A q \in Requests : q < r => status[q] # "none"
    /\ \E s \in {"waiting", "settled"} : status' = [status EXCEPT ![r] = s]
    /\ UNCHANGED visible

\* Every earlier request of the room is settled.
TakeUp(r) ==
    /\ status[r] = "waiting" /\ \A q \in Requests : q < r => status[q] = "settled"
    /\ status' = [status EXCEPT ![r] = "working"]
    /\ UNCHANGED visible

PutBack(r) ==
    /\ status[r] = "working"
    /\ status' = [status EXCEPT ![r] = "waiting"]
    /\ UNCHANGED visible

\* With a reply, with a failure notice, or with nothing.
Settle(r) ==
    /\ status[r] \in {"waiting", "working"}
    /\ status' = [status EXCEPT ![r] = "settled"]
    /\ \E v \in {0, 1} : visible' = [visible EXCEPT ![r] = v]

\* A revoked gate settles every open request of the room in one pass.
SettleAll ==
    /\ status' = [r \in Requests |-> IF status[r] \in {"waiting", "working"}
                                     THEN "settled" ELSE status[r]]
    /\ UNCHANGED visible

PromiseNext == (\E r \in Requests : Ask(r) \/ TakeUp(r) \/ PutBack(r) \/ Settle(r))
                  \/ SettleAll

PromiseSpec == PromiseInit /\ [][PromiseNext]_promiseVars
=============================================================================
