------------------------------ MODULE OAuthFlow ------------------------------
(***************************************************************************)
(* The OAuth generation flow: authorize, complete and disconnect of        *)
(* IntegrationsOauthService over the integration_accounts table, the       *)
(* credential store behind its port and the provider.                      *)
(*                                                                         *)
(* A call is one request in flight; its awaits are its steps.  The two     *)
(* statements of authorize's transaction are two steps, the DELETE taking  *)
(* effect with the commit.  Between exchange and the store the flow reads  *)
(* the identity and runs the gauntlet; these touch nothing that others     *)
(* see, so exchange, identity read and gauntlet are one step with three    *)
(* ways out.  callback_page and status only read.  A call refused on its   *)
(* first read (bad or expired state, no such account, not pending) is no   *)
(* step.                                                                   *)
(***************************************************************************)
EXTENDS Naturals, FiniteSets, CredentialStore

CONSTANTS
    Scopes,       \* (provider, account_ref)
    AccountIds,   \* ids of account rows; bounds the authorizations
    Calls,        \* requests in flight
    MaxTime,      \* bounds the clock
    StateTTL,     \* STATE_TTL_SECONDS in clock units
    Lifetimes,    \* expires_in values of the provider
    UniqueScope,  \* whether the deployment's decorator declares scopes unique
    MaxAborts     \* how many requests may fail or stop half way

ASSUME FlowAssumption ==
    /\ MaxTime \in Nat /\ StateTTL \in Nat \ {0}
    /\ Lifetimes \subseteq Nat \ {0}
    /\ UniqueScope \in BOOLEAN /\ MaxAborts \in Nat
    /\ None \notin AccountIds \cup Scopes \cup Nat
    /\ None \notin [scope : Scopes, status : {"pending", "active", "expired", "revoked"},
                    verifier : BOOLEAN, exp : Nat \cup {None}]
    /\ None \notin [exp : Nat, refresh : BOOLEAN, owner : AccountIds]

VARIABLES
    accounts,      \* the accounts table
    minted,        \* the expiry of the state signed for each authorization
    store,         \* the credential store, a cell per scope
    now,
    pc, acc, scp, seen, bundle, wrote, verdict,  \* per call
    spent,         \* accounts whose verifier an exchange has consumed
    storedFor,     \* accounts whose credential reached the store
    completed,     \* successful completions per account
    disconnected,  \* accounts a disconnect has reported Ok for
    aborts

vars == <<accounts, minted, store, now, pc, acc, scp, seen, bundle, wrote, verdict,
          spent, storedFor, completed, disconnected, aborts>>
history == <<spent, storedFor, completed, disconnected>>

Bundle  == [exp : Nat, refresh : BOOLEAN, owner : AccountIds]
Account == [scope : Scopes, status : {"pending", "active", "expired", "revoked"},
            verifier : BOOLEAN, exp : Nat \cup {None}]
Places  == {"idle", "insert", "verifier", "exchange", "carry", "issue", "rotate",
            "activate", "revoke", "close"}

Rows == {a \in AccountIds : accounts[a] # None}

TypeOK ==
    /\ accounts \in [AccountIds -> Account \cup {None}]
    /\ minted \in [AccountIds -> Nat \cup {None}]
    /\ store \in [Scopes -> [live : Bundle \cup {None}, ever : BOOLEAN]]
    /\ now \in 0..MaxTime
    /\ pc \in [Calls -> Places]
    /\ acc \in [Calls -> AccountIds \cup {None}]
    /\ scp \in [Calls -> Scopes \cup {None}]
    /\ seen \in [Calls -> SUBSET AccountIds]
    /\ bundle \in [Calls -> Bundle \cup {None}]
    /\ wrote \in [Calls -> BOOLEAN]
    /\ verdict \in [Calls -> {"none", "ok", "refused", "aborted"}]
    /\ spent \subseteq AccountIds /\ storedFor \subseteq AccountIds
    /\ completed \in [AccountIds -> Nat]
    /\ disconnected \subseteq AccountIds
    /\ aborts \in 0..MaxAborts

Init ==
    /\ accounts = [a \in AccountIds |-> None]
    /\ minted = [a \in AccountIds |-> None]
    /\ store = [s \in Scopes |-> EmptyCell]
    /\ now = 0
    /\ pc = [c \in Calls |-> "idle"]
    /\ acc = [c \in Calls |-> None] /\ scp = [c \in Calls |-> None]
    /\ seen = [c \in Calls |-> {}] /\ bundle = [c \in Calls |-> None]
    /\ wrote = [c \in Calls |-> FALSE] /\ verdict = [c \in Calls |-> "none"]
    /\ spent = {} /\ storedFor = {} /\ disconnected = {}
    /\ completed = [a \in AccountIds |-> 0]
    /\ aborts = 0

-----------------------------------------------------------------------------

Goto(c, p) == pc' = [pc EXCEPT ![c] = p]

Begin(c, p, a, s) ==
    /\ pc[c] = "idle"
    /\ Goto(c, p)
    /\ acc' = [acc EXCEPT ![c] = a]
    /\ scp' = [scp EXCEPT ![c] = s]
    /\ verdict' = [verdict EXCEPT ![c] = "none"]
    /\ UNCHANGED <<bundle, wrote>>

\* The call is over; what it held on to is dropped.
End(c, v) ==
    /\ Goto(c, "idle")
    /\ acc' = [acc EXCEPT ![c] = None]
    /\ scp' = [scp EXCEPT ![c] = None]
    /\ seen' = [seen EXCEPT ![c] = {}]
    /\ bundle' = [bundle EXCEPT ![c] = None]
    /\ wrote' = [wrote EXCEPT ![c] = FALSE]
    /\ verdict' = [verdict EXCEPT ![c] = v]

\* An early return with an error.
Refuse(c) == End(c, "refused") /\ UNCHANGED <<accounts, store, history>>

Stay(c) == UNCHANGED <<acc, scp, seen, verdict>>

-----------------------------------------------------------------------------
(* authorize                                                               *)

\* Rows that an authorize has deleted and not yet committed: their writers wait.
Locked(a) == \E d \in Calls : pc[d] = "insert" /\ a \in seen[d]

\* begin; DELETE every row of the scope that this statement sees.  (The guard on
\* unused ids bounds the authorizations.)
AuthorizeDelete(c, s) ==
    /\ Cardinality({d \in Calls : pc[d] = "insert"})
         < Cardinality({a \in AccountIds : minted[a] = None})
    /\ Begin(c, "insert", None, s)
    /\ seen' = [seen EXCEPT ![c] = {a \in Rows : accounts[a].scope = s}]
    /\ UNCHANGED <<accounts, minted, store, now, history, aborts>>

\* Mutation: the old rows of the scope are left in place.
AuthorizeKeepsOld(c) ==
    /\ pc[c] = "insert"
    /\ \E a \in AccountIds :
          /\ minted[a] = None
          /\ accounts' = [accounts EXCEPT ![a] =
                            [scope |-> scp[c], status |-> "pending", verifier |-> TRUE, exp |-> None]]
          /\ minted' = [minted EXCEPT ![a] = now + StateTTL]
    /\ End(c, "ok")
    /\ UNCHANGED <<store, now, history, aborts>>

\* INSERT the pending row under a fresh id and commit; then sign its state.  Where
\* scopes are unique a row that appeared since the DELETE fails the insert.
AuthorizeInsert(c) ==
    /\ pc[c] = "insert"
    /\ IF UniqueScope /\ \E a \in Rows \ seen[c] : accounts[a].scope = scp[c]
       THEN Refuse(c) /\ UNCHANGED minted
       ELSE \E a \in AccountIds :
              /\ minted[a] = None
              /\ accounts' = [b \in AccountIds |->
                    CASE b = a -> [scope |-> scp[c], status |-> "pending",
                                   verifier |-> TRUE, exp |-> None]
                      [] b \in seen[c] -> None
                      [] OTHER -> accounts[b]]
              /\ minted' = [minted EXCEPT ![a] = now + StateTTL]
              /\ End(c, "ok")
              /\ UNCHANGED <<store, history>>
    /\ UNCHANGED <<now, aborts>>

-----------------------------------------------------------------------------
(* complete                                                                *)

\* StateSigner::verify and fetch_account: a live state for a pending account.
CompleteVerify(c, a) ==
    /\ minted[a] # None /\ minted[a] > now
    /\ a \in Rows /\ accounts[a].status = "pending"
    /\ Begin(c, "verifier", a, accounts[a].scope)
    /\ UNCHANGED <<accounts, minted, store, now, seen, history, aborts>>

\* The verifier is read by a statement of its own.
CompleteReadVerifier(c) ==
    /\ pc[c] = "verifier"
    /\ IF acc[c] \in Rows /\ accounts[acc[c]].verifier
       THEN /\ Goto(c, "exchange")
            /\ Stay(c)
            /\ UNCHANGED <<accounts, store, history, bundle, wrote>>
       ELSE Refuse(c)
    /\ UNCHANGED <<minted, now, aborts>>

\* transport.exchange, the expires_in check, fetch_identity and the gauntlet.  The
\* exchange fails; or it is answered, and with that has consumed the verifier, and the
\* call is refused after it or goes on with the bundle.
CompleteExchange(c) ==
    /\ pc[c] = "exchange"
    /\ \/ Refuse(c)
       \/ /\ spent' = spent \cup {acc[c]}
          /\ UNCHANGED <<accounts, store, storedFor, completed, disconnected>>
          /\ \/ End(c, "refused")
             \/ \E life \in Lifetimes, r \in BOOLEAN :
                  /\ bundle' = [bundle EXCEPT ![c] =
                                  [exp |-> now + life, refresh |-> r, owner |-> acc[c]]]
                  /\ Goto(c, IF r THEN "issue" ELSE "carry")
                  /\ Stay(c)
                  /\ UNCHANGED wrote
    /\ UNCHANGED <<minted, now, aborts>>

\* No refresh token in the answer: the stored one, if it can be read.
CompleteCarry(c) ==
    /\ pc[c] = "carry"
    /\ LET cell == store[scp[c]]
       IN \/ /\ ReadCode(cell, now) = "ok"
             /\ bundle' = [bundle EXCEPT ![c].refresh = cell.live.refresh]
          \/ UNCHANGED bundle                \* refused, or the store is unreachable
    /\ Goto(c, "issue")
    /\ Stay(c)
    /\ UNCHANGED <<accounts, minted, store, now, wrote, history, aborts>>

\* The bundle reaches the store.
Store(c) ==
    /\ store' = [store EXCEPT ![scp[c]] = Holding(bundle[c])]
    /\ storedFor' = storedFor \cup {acc[c]}
    /\ wrote' = [wrote EXCEPT ![c] = TRUE]
    /\ Goto(c, "activate")
    /\ Stay(c)
    /\ UNCHANGED <<accounts, bundle, spent, completed, disconnected>>

\* Mutation: an existing credential is taken for the one just obtained.
IssueKeepsOld(c) ==
    /\ pc[c] = "issue"
    /\ \/ CanIssue(store[scp[c]]) /\ Store(c)
       \/ /\ ~CanIssue(store[scp[c]])
          /\ Goto(c, "activate")
          /\ Stay(c)
          /\ UNCHANGED <<accounts, store, bundle, wrote, history>>
       \/ Refuse(c)
    /\ UNCHANGED <<minted, now, aborts>>

CompleteIssue(c) ==
    /\ pc[c] = "issue"
    /\ \/ CanIssue(store[scp[c]]) /\ Store(c)
       \/ /\ ~CanIssue(store[scp[c]])       \* duplicate_active
          /\ Goto(c, "rotate")
          /\ Stay(c)
          /\ UNCHANGED <<accounts, store, bundle, wrote, history>>
       \/ Refuse(c)                         \* any other failure of the store
    /\ UNCHANGED <<minted, now, aborts>>

CompleteRotate(c) ==
    /\ pc[c] = "rotate"
    /\ \/ CanRotate(store[scp[c]]) /\ Store(c)
       \/ Refuse(c)
    /\ UNCHANGED <<minted, now, aborts>>

\* Mutations: the guard of the activating UPDATE.
ById(a) == a \in Rows
NotRevoked(a) == a \in Rows /\ accounts[a].status # "revoked"

\* ... WHERE id = $1 AND status = 'pending'
StillPending(a) == a \in Rows /\ accounts[a].status = "pending"

\* The transition to active; a row that is no longer pending is an error.
CompleteActivate(c) ==
    /\ pc[c] = "activate" /\ ~Locked(acc[c])
    /\ IF StillPending(acc[c])
       THEN /\ accounts' = [accounts EXCEPT ![acc[c]].status = "active",
                                            ![acc[c]].exp = bundle[c].exp,
                                            ![acc[c]].verifier = FALSE]
            /\ completed' = [completed EXCEPT ![acc[c]] = @ + 1]
            /\ End(c, "ok")
            /\ UNCHANGED <<store, spent, storedFor, disconnected>>
       ELSE Refuse(c)
    /\ UNCHANGED <<minted, now, aborts>>

-----------------------------------------------------------------------------
(* disconnect                                                              *)

\* fetch_account; a revoked account is done already.
DisconnectFetch(c, a) ==
    /\ a \in Rows
    /\ IF accounts[a].status = "revoked"
       THEN /\ pc[c] = "idle"
            /\ disconnected' = disconnected \cup {a}
            /\ UNCHANGED <<pc, acc, scp, verdict, bundle, wrote>>
       ELSE Begin(c, "revoke", a, accounts[a].scope) /\ UNCHANGED disconnected
    /\ UNCHANGED <<accounts, minted, store, now, seen, spent, storedFor, completed, aborts>>

\* Mutation: a store that cannot be reached is taken for one that never held it.
RevokeTolerant(c) ==
    /\ pc[c] = "revoke"
    /\ store' \in {store, [store EXCEPT ![scp[c]] = Revoked(@)]}
    /\ Goto(c, "close")
    /\ Stay(c)
    /\ UNCHANGED <<accounts, minted, now, bundle, wrote, history, aborts>>

\* store.revoke: not_found is tolerated (and leaves the cell as it is).
DisconnectRevoke(c) ==
    /\ pc[c] = "revoke"
    /\ \/ /\ store' = [store EXCEPT ![scp[c]] = Revoked(@)]
          /\ Goto(c, "close")
          /\ Stay(c)
          /\ UNCHANGED <<accounts, bundle, wrote, history>>
       \/ Refuse(c)
    /\ UNCHANGED <<minted, now, aborts>>

\* Mutation: only an account that is still pending is closed.
Pendings(a) == a \in Rows /\ accounts[a].status = "pending"

\* ... WHERE id = $1 AND status IN ('pending', 'active')
Closable(a) == a \in Rows /\ accounts[a].status \in {"pending", "active"}

\* Mutation: the status alone is written.
CloseKeepsVerifier(c) ==
    /\ pc[c] = "close" /\ ~Locked(acc[c])
    /\ accounts' = IF Closable(acc[c]) THEN [accounts EXCEPT ![acc[c]].status = "revoked"]
                                       ELSE accounts
    /\ disconnected' = disconnected \cup {acc[c]}
    /\ End(c, "ok")
    /\ UNCHANGED <<minted, store, now, spent, storedFor, completed, aborts>>

\* The transition to revoked; Ok however many rows it changed.
DisconnectClose(c) ==
    /\ pc[c] = "close" /\ ~Locked(acc[c])
    /\ accounts' = IF Closable(acc[c])
                   THEN [accounts EXCEPT ![acc[c]].status = "revoked",
                                         ![acc[c]].verifier = FALSE]
                   ELSE accounts
    /\ disconnected' = disconnected \cup {acc[c]}
    /\ End(c, "ok")
    /\ UNCHANGED <<minted, store, now, spent, storedFor, completed, aborts>>

-----------------------------------------------------------------------------

\* What the refresh sweep does to the status of an account: the provider may
\* answer invalid_grant at any time.
SweepExpire(a) ==
    /\ a \in Rows /\ accounts[a].status = "active" /\ ~Locked(a)
    /\ accounts' = [accounts EXCEPT ![a].status = "expired"]
    /\ UNCHANGED <<minted, store, now, pc, acc, scp, seen, bundle, wrote, verdict, history, aborts>>

Tick ==
    /\ now < MaxTime
    /\ now' = now + 1
    /\ UNCHANGED <<accounts, minted, store, pc, acc, scp, seen, bundle, wrote, verdict,
                   history, aborts>>

\* The database refuses a statement, or cannot be reached: Err(Db) goes to the caller,
\* and an open transaction is rolled back.
Fail(c) ==
    /\ pc[c] \in {"insert", "verifier", "activate", "close"}
    /\ aborts < MaxAborts
    /\ aborts' = aborts + 1
    /\ Refuse(c)
    /\ UNCHANGED <<minted, now>>

\* The process dies, or the caller's connection does: nobody is answered.
Abort(c) ==
    /\ pc[c] # "idle"
    /\ aborts < MaxAborts
    /\ aborts' = aborts + 1
    /\ End(c, "aborted")
    /\ UNCHANGED <<accounts, minted, store, now, history>>

Authorizing(c) == (\E s \in Scopes : AuthorizeDelete(c, s)) \/ AuthorizeInsert(c)

Completing(c) ==
    \/ \E a \in AccountIds : CompleteVerify(c, a)
    \/ CompleteReadVerifier(c) \/ CompleteExchange(c) \/ CompleteCarry(c)
    \/ CompleteIssue(c) \/ CompleteRotate(c) \/ CompleteActivate(c)

Disconnecting(c) ==
    \/ \E a \in AccountIds : DisconnectFetch(c, a)
    \/ DisconnectRevoke(c) \/ DisconnectClose(c)

Next ==
    \/ \E c \in Calls : Authorizing(c) \/ Completing(c) \/ Disconnecting(c) \/ Fail(c) \/ Abort(c)
    \/ \E a \in AccountIds : SweepExpire(a)
    \/ Tick

Spec == Init /\ [][Next]_vars
=============================================================================
