-------------------------- MODULE AccountLifecycle --------------------------
(***************************************************************************)
(* The life of an integration account: authorized (pending), completed     *)
(* (active), then expired or revoked, both final; a pending account may    *)
(* also be revoked.  Re-authorizing the scope replaces the account, and an *)
(* account that was replaced never comes back.                             *)
(***************************************************************************)
CONSTANT AccountIds
VARIABLE status

AInit == status = [a \in AccountIds |-> "unborn"]

Become(a, s) == status' = [status EXCEPT ![a] = s]

Complete(a)   == status[a] = "pending" /\ Become(a, "active")
Expire(a)     == status[a] = "active" /\ Become(a, "expired")
Disconnect(a) == status[a] \in {"pending", "active"} /\ Become(a, "revoked")

\* A new account, in place of the accounts R.
Authorize(a, R) ==
    /\ status[a] = "unborn"
    /\ \A r \in R : status[r] \notin {"unborn", "replaced"}
    /\ status' = [b \in AccountIds |->
                    CASE b = a -> "pending" [] b \in R -> "replaced" [] OTHER -> status[b]]

ANext ==
    \E a \in AccountIds :
       \/ Complete(a) \/ Expire(a) \/ Disconnect(a)
       \/ \E R \in SUBSET AccountIds : Authorize(a, R)

ASpec == AInit /\ [][ANext]_status
=============================================================================
