--------------------------- MODULE OAuthFlowProps ---------------------------
(***************************************************************************)
(* What must hold of the OAuth flow, and what its documents say of it.     *)
(***************************************************************************)
EXTENDS OAuthFlow

\* Re-authorizing replaces: a scope never has two account rows, even when two
\* authorize calls of it overlap.  (Needs the decorator's unique index: the
\* module's own migrations no longer declare one.)
OneAccountPerScope ==
    \A a, b \in Rows : accounts[a].scope = accounts[b].scope => a = b

\* An authorization completes at most once, whatever number of complete calls
\* carry its state: all but one lose the UPDATE guarded on 'pending'.
CompletedOnce == \A a \in AccountIds : completed[a] <= 1

\* Store first, then transition: an account that ever became active had its own
\* credential stored before.
ActiveWasStored ==
    \A a \in Rows : accounts[a].status \in {"active", "expired"} => a \in storedFor

\* Once a disconnect has reported success the account is closed for good, also
\* when a completion activated it between disconnect's read and its UPDATE.
DisconnectedIsClosed ==
    \A a \in disconnected \cap Rows : accounts[a].status \in {"revoked", "expired"}

\* The PKCE verifier is on the row "solely while the authorization is pending": however
\* it ends (activation, or a disconnect from either status) the secret goes with it.
VerifierOnlyWhilePending ==
    \A a \in Rows : accounts[a].verifier => accounts[a].status = "pending"

\* The accounts move along the declared lifecycle: expired and revoked are
\* final, and a replaced account never returns.
LifeOf(a) ==
    IF a \in Rows THEN accounts[a].status
    ELSE IF minted[a] = None THEN "unborn" ELSE "replaced"
Life == INSTANCE AccountLifecycle WITH status <- [a \in AccountIds |-> LifeOf(a)]
ImplementsAccountLifecycle == Life!ASpec

\* A revoked account has no live credential in the store (the model yaml says so
\* of the status).  Calls that do not overlap keep it, whatever fails between
\* the two writes; a completion that overlaps a disconnect breaks it.
RevokedIsDead ==
    \A a \in Rows : accounts[a].status = "revoked" => store[accounts[a].scope].live = None

\* The expires_at of an active account mirrors the expiry of the credential in
\* the store.  Holds for calls that do not overlap.
MirrorIsStore ==
    \A a \in Rows : accounts[a].status = "active" =>
       LET cell == store[accounts[a].scope]
       IN cell.live = None \/ cell.live.exp = accounts[a].exp

-----------------------------------------------------------------------------
(* What the documents say and the code does not do.                        *)

\* "Every rejection path leaves ZERO writes: the account stays pending, the store is
\* untouched."  A call that is refused has written nothing to the store.
RejectionWritesNothing ==
    [][\A c \in Calls : pc[c] # "idle" /\ pc'[c] = "idle" /\ verdict'[c] = "refused"
          => ~wrote[c]]_vars

\* The verifier is "consumed by exactly one exchange, then cleared": no completion takes
\* one up that an earlier exchange of the same account has consumed.
VerifierSingleUse ==
    [][\A c \in Calls : pc[c] = "verifier" /\ pc'[c] = "exchange" => acc[c] \notin spent]_vars

\* A consent that hands back no refresh token carries the prior one forward, so that
\* "rotation lineage keeps the account reconnectable either way": a live credential is
\* never replaced by one that has lost the refresh token.
RefreshTokenKept ==
    [][\A s \in Scopes :
          /\ store[s].live # None /\ store[s].live.refresh
          /\ store'[s].live # None
          => store'[s].live.refresh]_vars
=============================================================================
