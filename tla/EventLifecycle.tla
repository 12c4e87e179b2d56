--------------------------- MODULE EventLifecycle ---------------------------
(***************************************************************************)
(* What the hub promises of each business action, whatever the requests,   *)
(* retries and crashes behind it: it is received at most once, it settles  *)
(* at most once, a failure can still be recovered, and every change of     *)
(* status but one (a failure that is later dismissed as a no-op) is        *)
(* announced through the outbox in the same step, exactly once.            *)
(***************************************************************************)
EXTENDS Naturals

CONSTANTS Actions, Kinds
VARIABLES status, announced

LInit ==
    /\ status = [a \in Actions |-> "unseen"]
    /\ announced = [a \in Actions |-> [k \in Kinds |-> 0]]

Receive(a) ==
    /\ status[a] = "unseen"
    /\ status' = [status EXCEPT ![a] = "received"]
    /\ UNCHANGED announced

Become(a, s) ==
    /\ status' = [status EXCEPT ![a] = s]
    /\ announced' = [announced EXCEPT ![a][s] = @ + 1]

Settle(a, s) == status[a] = "received" /\ Become(a, s)

Recover(a) == status[a] = "failed" /\ Become(a, "mapped")

\* The one silent change.
Dismiss(a) ==
    /\ status[a] = "failed"
    /\ status' = [status EXCEPT ![a] = "ignored"]
    /\ UNCHANGED announced

LNext ==
    \E a \in Actions :
       \/ Receive(a) \/ Recover(a) \/ Dismiss(a)
       \/ \E s \in Kinds : Settle(a, s)

LSpec == LInit /\ [][LNext]_<<status, announced>>
=============================================================================
