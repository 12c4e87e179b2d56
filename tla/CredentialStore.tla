--------------------------- MODULE CredentialStore ---------------------------
(***************************************************************************)
(* The credential store behind the OAuthCredentialStore port, as one cell  *)
(* per scope (provider, account_ref): the credential that is active, if    *)
(* any, and whether the scope ever held one.  The four verbs of the port   *)
(* follow the store the repository's tests bind to it.  A credential past  *)
(* its expiry stays active until it is rotated or revoked; only reading it *)
(* is refused.                                                             *)
(***************************************************************************)
EXTENDS Naturals

CONSTANT None

EmptyCell == [live |-> None, ever |-> FALSE]
Holding(bundle) == [live |-> bundle, ever |-> TRUE]

\* issue: an active credential, expired or not, is duplicate_active.
CanIssue(cell) == cell.live = None

\* rotate: without an active credential, not_found; an expired one is repaired.
CanRotate(cell) == cell.live # None

\* read_token's answer at time t.
ReadCode(cell, t) ==
    CASE cell.live = None /\ cell.ever  -> "not_active"
      [] cell.live = None /\ ~cell.ever -> "not_found"
      [] cell.live # None               -> IF cell.live.exp <= t THEN "expired" ELSE "ok"

\* revoke: a scope that never held a credential is not_found (and unchanged).
Revoked(cell) == [cell EXCEPT !.live = None]
=============================================================================
