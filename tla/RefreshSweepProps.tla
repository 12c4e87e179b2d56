-------------------------- MODULE RefreshSweepProps --------------------------
(***************************************************************************)
(* What must hold of the refresh before expiry, and what its documents say *)
(* of it.                                                                  *)
(***************************************************************************)
EXTENDS RefreshSweep

Processing(r) == pc[r] \in {"read", "exchange", "rotate", "mirror"}

\* FOR UPDATE SKIP LOCKED: concurrent runners (replicas of the job, a manual run,
\* the request path) never process the same account, from claim to commit, also
\* when one of them dies half way.
ClaimsDisjoint ==
    \A r, q \in Runners :
        r # q /\ Processing(r) /\ Processing(q) => cur[r] # cur[q]

\* A disconnect is not undone by a refresh in flight: when the row says revoked
\* the store holds no live credential, although the refresh had read the
\* credential before the disconnect and writes its successor afterwards.  For
\* disconnects under the account's own company.
RevokedIsDead ==
    \A a \in Accounts : acct[a].status = "revoked" => cell[a].live = None

\* The mirror errs to the early side only: no failure or crash between the
\* rotation and the mirror leaves an active account scheduled later than its
\* credential expires.
MirrorNotLate ==
    \A a \in Accounts :
        acct[a].status = "active" /\ cell[a].live # None => acct[a].exp <= cell[a].live.exp

\* expired and revoked are final: the job's UPDATEs carry no guard on the status
\* and rely on the lock taken with the claim.
StatusFinal ==
    [][\A a \in Accounts : acct[a].status # "active" => acct'[a].status = acct[a].status]_vars

\* An account is sent to reconnect only when nothing else is left: its credential
\* was withdrawn, the provider dropped the grant, or there is no refresh token.
\* Holds, provider outages aside, when every account is looked at again within the
\* refresh window, no answer is lost and the sweep runs for the account's company.
\* The documents of the job ask for none of the three: "a schedule gap degrades
\* latency, never correctness", "Accounts skipped on a retryable failure [...] Left
\* due; next tick retries", "An unknown or stale value fails closed at the store".
NoFalseExpiry ==
    [][\A a \in Accounts \ Flaky :
          acct[a].status = "active" /\ acct'[a].status = "expired"
            => \/ cell[a].live = None
               \/ cell[a].live.token = 0
               \/ grant[a] = 0]_vars

\* An account that comes due does not stay due: while runs keep starting it is
\* refreshed, expired or disconnected, unless its own provider is out of order.
\* Within a run the batch goes to the oldest accounts, and those that were skipped
\* are the oldest again in the next: it holds as long as fewer accounts are stuck than
\* a batch has room for.  The job's documents ask for no such thing: "Not a loss:
\* unclaimed accounts are still due, so the next tick [...] picks them up".
HealthyServed ==
    \A a \in Accounts \ (Flaky \cup Unconfigured) : Due(a) ~> ~Due(a)
=============================================================================
