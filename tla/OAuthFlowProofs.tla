--------------------------- MODULE OAuthFlowProofs ---------------------------
(***************************************************************************)
(* Proofs about the OAuth flow, for any scopes, accounts, calls, lifetimes *)
(* and aborts.                                                             *)
(***************************************************************************)
EXTENDS OAuthFlowProps, TLAPS

\* The places of a call that works on an account, and on a bundle for it.
OnAccount == {"verifier", "exchange", "carry", "issue", "rotate", "activate", "revoke", "close"}
OnBundle  == {"carry", "issue", "rotate", "activate"}

\* What a call may rely on between two awaits, however many others are running.
Holds(c) ==
    /\ pc[c] \in OnAccount => /\ acc[c] \in AccountIds /\ minted[acc[c]] # None
                              /\ scp[c] \in Scopes
    /\ pc[c] \in OnBundle => bundle[c] \in Bundle
    /\ pc[c] = "activate" => acc[c] \in storedFor
    /\ pc[c] = "insert" => scp[c] \in Scopes
    /\ \A a \in seen[c] : minted[a] # None

\* A row has a signed state, and an account without one has no past.
Minted ==
    /\ \A a \in Rows : minted[a] # None
    /\ \A a \in AccountIds : minted[a] = None => completed[a] = 0 /\ a \notin disconnected

\* A pending account has not been completed.
PendingIsNew == \A a \in Rows : accounts[a].status = "pending" => completed[a] = 0

Ledger ==
    /\ Minted /\ PendingIsNew
    /\ CompletedOnce /\ ActiveWasStored /\ DisconnectedIsClosed /\ VerifierOnlyWhilePending

FlowInv == TypeOK /\ (\A c \in Calls : Holds(c)) /\ Ledger

-----------------------------------------------------------------------------

LEMMA NoneApart == None \notin Account /\ None \notin Bundle /\ None \notin Nat
  BY FlowAssumption DEF Account, Bundle

LEMMA RowTyped ==
    ASSUME TypeOK, NEW a \in Rows
    PROVE  a \in AccountIds /\ accounts[a] \in Account
  BY DEF TypeOK, Rows

LEMMA FlowInit == Init => FlowInv
  <1> SUFFICES ASSUME Init PROVE FlowInv
    OBVIOUS
  <1>1. TypeOK
    BY FlowAssumption DEF Init, TypeOK, EmptyCell, Places
  <1>2. Rows = {}
    BY DEF Init, Rows
  <1> QED
    BY <1>1, <1>2 DEF Init, FlowInv, Ledger, Holds, OnAccount, OnBundle, Minted, PendingIsNew, CompletedOnce,
       ActiveWasStored, DisconnectedIsClosed, VerifierOnlyWhilePending

\* The type invariant in two halves: the tables and histories, and the calls.
TablesTyped ==
    /\ accounts \in [AccountIds -> Account \cup {None}]
    /\ minted \in [AccountIds -> Nat \cup {None}]
    /\ store \in [Scopes -> [live : Bundle \cup {None}, ever : BOOLEAN]]
    /\ now \in 0..MaxTime
    /\ spent \subseteq AccountIds /\ storedFor \subseteq AccountIds
    /\ completed \in [AccountIds -> Nat]
    /\ disconnected \subseteq AccountIds
    /\ aborts \in 0..MaxAborts

CallsTyped ==
    /\ pc \in [Calls -> Places]
    /\ acc \in [Calls -> AccountIds \cup {None}]
    /\ scp \in [Calls -> Scopes \cup {None}]
    /\ seen \in [Calls -> SUBSET AccountIds]
    /\ bundle \in [Calls -> Bundle \cup {None}]
    /\ wrote \in [Calls -> BOOLEAN]
    /\ verdict \in [Calls -> {"none", "ok", "refused", "aborted"}]

LEMMA TwoHalves == TypeOK <=> TablesTyped /\ CallsTyped
  BY DEF TypeOK, TablesTyped, CallsTyped

LEMMA EndTyped ==
    ASSUME CallsTyped, NEW c \in Calls, NEW v \in {"none", "ok", "refused", "aborted"}, End(c, v)
    PROVE  CallsTyped'
  BY DEF CallsTyped, End, Goto, Places

LEMMA BeginTyped ==
    ASSUME CallsTyped, NEW c \in Calls, NEW p \in Places, NEW a \in AccountIds \cup {None},
           NEW s \in Scopes, Begin(c, p, a, s), seen' \in [Calls -> SUBSET AccountIds]
    PROVE  CallsTyped'
  BY DEF CallsTyped, Begin, Goto

LEMMA StayTyped ==
    ASSUME CallsTyped, NEW c \in Calls, NEW p \in Places, Goto(c, p), Stay(c),
           bundle' \in [Calls -> Bundle \cup {None}], wrote' \in [Calls -> BOOLEAN]
    PROVE  CallsTyped'
  BY DEF CallsTyped, Goto, Stay

LEMMA FlowTyped == ASSUME FlowInv, [Next]_vars PROVE TypeOK'
  <1> USE FlowAssumption DEF history
  <1>0. TablesTyped /\ CallsTyped
    BY TwoHalves DEF FlowInv
  <1> SUFFICES TablesTyped' /\ CallsTyped'
    BY DEF TypeOK, TablesTyped, CallsTyped
  <1>h. ASSUME NEW c \in Calls PROVE Holds(c)
    BY DEF FlowInv
  <1>r. ASSUME NEW c \in Calls, Refuse(c), UNCHANGED <<minted, now, aborts>>
        PROVE  TablesTyped' /\ CallsTyped'
    BY <1>0, <1>r, EndTyped DEF Refuse, TablesTyped
  <1>1. ASSUME NEW c \in Calls, NEW s \in Scopes, AuthorizeDelete(c, s)
        PROVE  TablesTyped' /\ CallsTyped'
    <2>1. seen' \in [Calls -> SUBSET AccountIds]
      BY <1>0, <1>1 DEF AuthorizeDelete, CallsTyped, Rows
    <2>2. CallsTyped'
      BY <1>0, <1>1, <2>1, BeginTyped DEF AuthorizeDelete, Places
    <2> QED
      BY <1>0, <1>1, <2>2 DEF AuthorizeDelete, TablesTyped
  <1>2. ASSUME NEW c \in Calls, AuthorizeInsert(c)
        PROVE  TablesTyped' /\ CallsTyped'
    <2>1. CASE Refuse(c) /\ UNCHANGED minted
      BY <1>2, <1>r, <2>1 DEF AuthorizeInsert
    <2>2. ASSUME NEW a \in AccountIds,
                 accounts' = [b \in AccountIds |->
                    CASE b = a -> [scope |-> scp[c], status |-> "pending",
                                   verifier |-> TRUE, exp |-> None]
                      [] b \in seen[c] -> None
                      [] OTHER -> accounts[b]],
                 minted' = [minted EXCEPT ![a] = now + StateTTL],
                 End(c, "ok"), UNCHANGED <<store, history>>, UNCHANGED <<now, aborts>>
          PROVE  TablesTyped' /\ CallsTyped'
      <3>1. CallsTyped'
        BY <1>0, <2>2, EndTyped
      <3>2. scp[c] \in Scopes
        BY <1>2, <1>h DEF Holds, AuthorizeInsert
      <3>3. accounts' \in [AccountIds -> Account \cup {None}]
        BY <1>0, <2>2, <3>2 DEF TablesTyped, Account
      <3>4. minted' \in [AccountIds -> Nat \cup {None}]
        BY <1>0, <2>2 DEF TablesTyped
      <3> QED
        BY <1>0, <2>2, <3>1, <3>3, <3>4 DEF TablesTyped
    <2> QED
      BY <1>2, <2>1, <2>2 DEF AuthorizeInsert
  <1>3. ASSUME NEW c \in Calls, NEW a \in AccountIds, CompleteVerify(c, a)
        PROVE  TablesTyped' /\ CallsTyped'
    <2>1. accounts[a].scope \in Scopes
      BY <1>0, <1>3 DEF CompleteVerify, Rows, TablesTyped, Account
    <2>2. CallsTyped'
      BY <1>0, <1>3, <2>1, BeginTyped DEF CompleteVerify, Places, CallsTyped
    <2> QED
      BY <1>0, <1>3, <2>2 DEF CompleteVerify, TablesTyped
  <1>4. ASSUME NEW c \in Calls, CompleteReadVerifier(c)
        PROVE  TablesTyped' /\ CallsTyped'
    <2>1. CASE Refuse(c)
      BY <1>4, <1>r, <2>1 DEF CompleteReadVerifier
    <2>2. CASE ~Refuse(c)
      <3>1. CallsTyped'
        BY <1>0, <1>4, <2>2, StayTyped DEF CompleteReadVerifier, Places, CallsTyped
      <3> QED
        BY <1>0, <1>4, <2>2, <3>1 DEF CompleteReadVerifier, TablesTyped
    <2> QED
      BY <2>1, <2>2
  <1>5. ASSUME NEW c \in Calls, CompleteExchange(c)
        PROVE  TablesTyped' /\ CallsTyped'
    <2>1. CASE Refuse(c)
      BY <1>5, <1>r, <2>1 DEF CompleteExchange
    <2>2. ASSUME NEW life \in Lifetimes, NEW r \in BOOLEAN,
                 bundle' = [bundle EXCEPT ![c] =
                              [exp |-> now + life, refresh |-> r, owner |-> acc[c]]],
                 Goto(c, IF r THEN "issue" ELSE "carry"), Stay(c),
                 UNCHANGED wrote, spent' = spent \cup {acc[c]},
                 UNCHANGED <<accounts, store, storedFor, completed, disconnected>>
          PROVE  TablesTyped' /\ CallsTyped'
      <3>1. acc[c] \in AccountIds
        BY <1>5, <1>h DEF Holds, OnAccount, CompleteExchange
      <3>2. [exp |-> now + life, refresh |-> r, owner |-> acc[c]] \in Bundle
        BY <1>0, <3>1 DEF TablesTyped, Bundle
      <3>3. bundle' \in [Calls -> Bundle \cup {None}] /\ wrote' \in [Calls -> BOOLEAN]
        BY <1>0, <2>2, <3>2 DEF CallsTyped
      <3>4. (IF r THEN "issue" ELSE "carry") \in Places
        BY DEF Places
      <3>5. CallsTyped'
        BY <1>0, <2>2, <3>3, <3>4, StayTyped
      <3> QED
        BY <1>0, <1>5, <2>2, <3>1, <3>5 DEF CompleteExchange, TablesTyped
    <2>3. ASSUME End(c, "refused"), spent' = spent \cup {acc[c]},
                 UNCHANGED <<accounts, store, storedFor, completed, disconnected>>
          PROVE  TablesTyped' /\ CallsTyped'
      <3>1. acc[c] \in AccountIds
        BY <1>5, <1>h DEF Holds, OnAccount, CompleteExchange
      <3>2. CallsTyped'
        BY <1>0, <2>3, EndTyped
      <3> QED
        BY <1>0, <1>5, <2>3, <3>1, <3>2 DEF CompleteExchange, TablesTyped
    <2> QED
      BY <1>5, <2>1, <2>2, <2>3 DEF CompleteExchange
  <1>6. ASSUME NEW c \in Calls, CompleteCarry(c)
        PROVE  TablesTyped' /\ CallsTyped'
    <2>1. bundle[c] \in Bundle /\ scp[c] \in Scopes
      BY <1>6, <1>h DEF Holds, OnAccount, OnBundle, CompleteCarry
    <2>2. bundle' \in [Calls -> Bundle \cup {None}]
      <3>1. CASE UNCHANGED bundle
        BY <1>0, <3>1 DEF CallsTyped
      <3>2. CASE /\ ReadCode(store[scp[c]], now) = "ok"
                 /\ bundle' = [bundle EXCEPT ![c].refresh = store[scp[c]].live.refresh]
        <4>1. store[scp[c]] \in [live : Bundle \cup {None}, ever : BOOLEAN]
          BY <1>0, <2>1 DEF TablesTyped
        <4>2. store[scp[c]].live # None
          BY <3>2, <4>1 DEF ReadCode
        <4>3. store[scp[c]].live.refresh \in BOOLEAN
          BY <4>1, <4>2 DEF Bundle
        <4> QED
          BY <1>0, <2>1, <3>2, <4>3 DEF CallsTyped, Bundle
      <3> QED
        BY <1>6, <3>1, <3>2 DEF CompleteCarry
    <2>3. CallsTyped'
      BY <1>0, <1>6, <2>2, StayTyped DEF CompleteCarry, Places, CallsTyped
    <2> QED
      BY <1>0, <1>6, <2>3 DEF CompleteCarry, TablesTyped
  <1>7. ASSUME NEW c \in Calls, CompleteIssue(c) \/ CompleteRotate(c)
        PROVE  TablesTyped' /\ CallsTyped'
    <2>1. CASE Refuse(c)
      BY <1>7, <1>r, <2>1 DEF CompleteIssue, CompleteRotate
    <2>2. CASE Store(c)
      <3>1. bundle[c] \in Bundle /\ scp[c] \in Scopes /\ acc[c] \in AccountIds
        BY <1>7, <1>h DEF Holds, OnAccount, OnBundle, CompleteIssue, CompleteRotate
      <3>2. CallsTyped'
        BY <1>0, <2>2, StayTyped DEF Store, Places, CallsTyped
      <3> QED
        BY <1>0, <1>7, <2>2, <3>1, <3>2 DEF Store, Holding, CompleteIssue, CompleteRotate, TablesTyped
    <2>3. CASE Goto(c, "rotate") /\ Stay(c) /\ UNCHANGED <<accounts, store, bundle, wrote, history>>
      <3>1. CallsTyped'
        BY <1>0, <2>3, StayTyped DEF Places, CallsTyped
      <3> QED
        BY <1>0, <1>7, <2>3, <3>1 DEF CompleteIssue, CompleteRotate, TablesTyped
    <2> QED
      BY <1>7, <2>1, <2>2, <2>3 DEF CompleteIssue, CompleteRotate
  <1>8. ASSUME NEW c \in Calls, CompleteActivate(c)
        PROVE  TablesTyped' /\ CallsTyped'
    <2>1. CASE Refuse(c)
      BY <1>8, <1>r, <2>1 DEF CompleteActivate
    <2>2. CASE StillPending(acc[c]) /\ ~Refuse(c)
      <3>1. bundle[c] \in Bundle /\ acc[c] \in AccountIds
        BY <1>8, <1>h DEF Holds, OnAccount, OnBundle, CompleteActivate
      <3>2. CallsTyped'
        BY <1>0, <1>8, <2>2, EndTyped DEF CompleteActivate
      <3>3. accounts' \in [AccountIds -> Account \cup {None}]
        BY <1>0, <1>8, <2>2, <3>1 DEF CompleteActivate, StillPending, Rows, TablesTyped, Account, Bundle
      <3> QED
        BY <1>0, <1>8, <2>2, <3>1, <3>2, <3>3 DEF CompleteActivate, TablesTyped
    <2> QED
      BY <1>8, <2>1, <2>2 DEF CompleteActivate
  <1>9. ASSUME NEW c \in Calls, NEW a \in AccountIds, DisconnectFetch(c, a)
        PROVE  TablesTyped' /\ CallsTyped'
    <2>1. accounts[a].scope \in Scopes
      BY <1>0, <1>9 DEF DisconnectFetch, Rows, TablesTyped, Account
    <2>2. CASE Begin(c, "revoke", a, accounts[a].scope) /\ UNCHANGED disconnected
      <3>1. CallsTyped'
        BY <1>0, <1>9, <2>1, <2>2, BeginTyped DEF DisconnectFetch, Places, CallsTyped
      <3> QED
        BY <1>0, <1>9, <2>2, <3>1 DEF DisconnectFetch, TablesTyped
    <2>3. CASE UNCHANGED <<pc, acc, scp, verdict, bundle, wrote>> /\ disconnected' = disconnected \cup {a}
      BY <1>0, <1>9, <2>3 DEF DisconnectFetch, TablesTyped, CallsTyped
    <2> QED
      BY <1>9, <2>2, <2>3 DEF DisconnectFetch
  <1>10. ASSUME NEW c \in Calls, DisconnectRevoke(c)
         PROVE  TablesTyped' /\ CallsTyped'
    <2>1. CASE Refuse(c)
      BY <1>10, <1>r, <2>1 DEF DisconnectRevoke
    <2>2. CASE ~Refuse(c)
      <3>1. scp[c] \in Scopes
        BY <1>10, <1>h DEF Holds, OnAccount, DisconnectRevoke
      <3>2. CallsTyped'
        BY <1>0, <1>10, <2>2, StayTyped DEF DisconnectRevoke, Places, CallsTyped
      <3>3. store' \in [Scopes -> [live : Bundle \cup {None}, ever : BOOLEAN]]
        BY <1>0, <1>10, <2>2, <3>1 DEF DisconnectRevoke, Revoked, TablesTyped
      <3> QED
        BY <1>0, <1>10, <2>2, <3>2, <3>3 DEF DisconnectRevoke, TablesTyped
    <2> QED
      BY <2>1, <2>2
  <1>11. ASSUME NEW c \in Calls, DisconnectClose(c)
         PROVE  TablesTyped' /\ CallsTyped'
    <2>1. acc[c] \in AccountIds
      BY <1>11, <1>h DEF Holds, OnAccount, DisconnectClose
    <2>2. CallsTyped'
      BY <1>0, <1>11, EndTyped DEF DisconnectClose
    <2>3. accounts' \in [AccountIds -> Account \cup {None}]
      <3>1. CASE Closable(acc[c])
        BY <1>0, <1>11, <2>1, <3>1 DEF DisconnectClose, Closable, Rows, TablesTyped, Account
      <3>2. CASE ~Closable(acc[c])
        BY <1>0, <1>11, <3>2 DEF DisconnectClose, TablesTyped
      <3> QED
        BY <3>1, <3>2
    <2> QED
      BY <1>0, <1>11, <2>1, <2>2, <2>3 DEF DisconnectClose, TablesTyped
  <1>12. ASSUME NEW c \in Calls, Abort(c)
         PROVE  TablesTyped' /\ CallsTyped'
    <2>1. CallsTyped'
      BY <1>0, <1>12, EndTyped DEF Abort
    <2> QED
      BY <1>0, <1>12, <2>1 DEF Abort, TablesTyped
  <1>16. ASSUME NEW c \in Calls, Fail(c)
         PROVE  TablesTyped' /\ CallsTyped'
    <2>1. CallsTyped'
      BY <1>0, <1>16, EndTyped DEF Fail, Refuse
    <2> QED
      BY <1>0, <1>16, <2>1 DEF Fail, Refuse, TablesTyped
  <1>13. ASSUME NEW a \in AccountIds, SweepExpire(a)
         PROVE  TablesTyped' /\ CallsTyped'
    <2>1. accounts' \in [AccountIds -> Account \cup {None}]
      BY <1>0, <1>13 DEF SweepExpire, Rows, TablesTyped, Account
    <2> QED
      BY <1>0, <1>13, <2>1 DEF SweepExpire, TablesTyped, CallsTyped
  <1>14. CASE Tick
    BY <1>0, <1>14 DEF Tick, TablesTyped, CallsTyped
  <1>15. CASE UNCHANGED vars
    BY <1>0, <1>15 DEF vars, TablesTyped, CallsTyped
  <1> QED
    BY <1>1, <1>2, <1>3, <1>4, <1>5, <1>6, <1>7, <1>8, <1>9, <1>10, <1>11, <1>12, <1>13, <1>14, <1>15, <1>16
    DEF Next, Authorizing, Completing, Disconnecting

-----------------------------------------------------------------------------
(* The ways the accounts change, and what each change keeps.               *)

\* Nothing of the accounts; a bundle may have reached the store.
Untouched ==
    /\ UNCHANGED <<accounts, minted, completed, disconnected>>
    /\ storedFor \subseteq storedFor'

\* A new account a of scope s in place of the accounts R.
Inserted(a, s, R) ==
    /\ minted[a] = None
    /\ \A r \in R : minted[r] # None
    /\ UniqueScope => \A b \in Rows \ R : accounts[b].scope # s
    /\ accounts' = [b \in AccountIds |->
          CASE b = a -> [scope |-> s, status |-> "pending", verifier |-> TRUE, exp |-> None]
            [] b \in R -> None
            [] OTHER -> accounts[b]]
    /\ minted' = [minted EXCEPT ![a] = now + StateTTL]
    /\ UNCHANGED history

Activated(a, e) ==
    /\ a \in Rows /\ accounts[a].status = "pending" /\ a \in storedFor
    /\ accounts' = [accounts EXCEPT ![a].status = "active", ![a].exp = e,
                                    ![a].verifier = FALSE]
    /\ completed' = [completed EXCEPT ![a] = @ + 1]
    /\ UNCHANGED <<minted, storedFor, disconnected>>

Closed(a) ==
    /\ a \in Rows /\ accounts[a].status \in {"pending", "active"}
    /\ accounts' = [accounts EXCEPT ![a].status = "revoked", ![a].verifier = FALSE]
    /\ disconnected' = disconnected \cup {a}
    /\ UNCHANGED <<minted, storedFor, completed>>

ClosedBefore(a) ==
    /\ minted[a] # None
    /\ a \in Rows => accounts[a].status \in {"expired", "revoked"}
    /\ disconnected' = disconnected \cup {a}
    /\ UNCHANGED <<accounts, minted, storedFor, completed>>

Expired(a) ==
    /\ a \in Rows /\ accounts[a].status = "active"
    /\ accounts' = [accounts EXCEPT ![a].status = "expired"]
    /\ UNCHANGED <<minted, history>>

RowStep ==
    \/ Untouched
    \/ \E a \in AccountIds :
         \/ \E s \in Scopes, R \in SUBSET AccountIds : Inserted(a, s, R)
         \/ \E e \in Nat : Activated(a, e)
         \/ Closed(a) \/ ClosedBefore(a) \/ Expired(a)

\* What one row becomes in each kind of change; the other rows stay.
LEMMA InsertedRows ==
    ASSUME TypeOK, NEW a \in AccountIds, NEW s \in Scopes, NEW R \in SUBSET AccountIds,
           Inserted(a, s, R)
    PROVE  /\ Rows' = (Rows \ R) \cup {a}
           /\ accounts'[a] = [scope |-> s, status |-> "pending", verifier |-> TRUE, exp |-> None]
           /\ \A b \in (Rows \ R) \ {a} : accounts'[b] = accounts[b]
           /\ minted'[a] # None
           /\ \A b \in AccountIds \ {a} : minted'[b] = minted[b]
  <1>1. [scope |-> s, status |-> "pending", verifier |-> TRUE, exp |-> None] \in Account
    BY DEF Account
  <1>2. now + StateTTL \in Nat
    BY FlowAssumption DEF TypeOK
  <1>3. accounts'[a] = [scope |-> s, status |-> "pending", verifier |-> TRUE, exp |-> None]
    BY DEF Inserted
  <1>4. accounts'[a] # None
    BY <1>1, <1>3, NoneApart
  <1>5. \A b \in AccountIds \ {a} : accounts'[b] = IF b \in R THEN None ELSE accounts[b]
    BY DEF Inserted
  <1>6. Rows' = (Rows \ R) \cup {a}
    BY <1>4, <1>5 DEF Rows
  <1>7. minted'[a] # None /\ \A b \in AccountIds \ {a} : minted'[b] = minted[b]
    BY <1>2, NoneApart DEF Inserted, TypeOK
  <1> QED
    BY <1>3, <1>5, <1>6, <1>7 DEF Rows

LEMMA UpdatedRow ==
    ASSUME TypeOK, NEW a \in Rows, NEW r \in Account, accounts'[a] = r,
           \A b \in AccountIds \ {a} : accounts'[b] = accounts[b]
    PROVE  Rows' = Rows
  BY NoneApart DEF TypeOK, Rows

LEMMA ActivatedRow ==
    ASSUME TypeOK, NEW a \in AccountIds, NEW e \in Nat, Activated(a, e)
    PROVE  /\ Rows' = Rows /\ a \in Rows
           /\ \A b \in AccountIds \ {a} : accounts'[b] = accounts[b]
           /\ accounts'[a] = [scope |-> accounts[a].scope, status |-> "active",
                              verifier |-> FALSE, exp |-> e]
  <1> DEFINE r == [scope |-> accounts[a].scope, status |-> "active",
                   verifier |-> FALSE, exp |-> e]
  <1>1. a \in Rows /\ accounts[a] \in Account
    BY RowTyped DEF Activated
  <1>2. accounts'[a] = [accounts[a] EXCEPT !.status = "active", !.exp = e, !.verifier = FALSE]
    BY DEF Activated, TypeOK
  <1>3. accounts'[a] = r /\ r \in Account
    BY <1>1, <1>2 DEF Account
  <1>4. \A b \in AccountIds \ {a} : accounts'[b] = accounts[b]
    BY DEF Activated, TypeOK
  <1> QED
    BY <1>1, <1>3, <1>4, UpdatedRow

LEMMA ClosedRow ==
    ASSUME TypeOK, NEW a \in AccountIds, Closed(a)
    PROVE  /\ Rows' = Rows /\ a \in Rows
           /\ \A b \in AccountIds \ {a} : accounts'[b] = accounts[b]
           /\ accounts'[a] = [scope |-> accounts[a].scope, status |-> "revoked",
                              verifier |-> FALSE, exp |-> accounts[a].exp]
  <1> DEFINE r == [scope |-> accounts[a].scope, status |-> "revoked",
                   verifier |-> FALSE, exp |-> accounts[a].exp]
  <1>1. a \in Rows /\ accounts[a] \in Account
    BY RowTyped DEF Closed
  <1>2. accounts'[a] = [accounts[a] EXCEPT !.status = "revoked", !.verifier = FALSE]
    BY DEF Closed, TypeOK
  <1>3. accounts'[a] = r /\ r \in Account
    BY <1>1, <1>2 DEF Account
  <1>4. \A b \in AccountIds \ {a} : accounts'[b] = accounts[b]
    BY DEF Closed, TypeOK
  <1> QED
    BY <1>1, <1>3, <1>4, UpdatedRow

LEMMA ExpiredRow ==
    ASSUME TypeOK, NEW a \in AccountIds, Expired(a)
    PROVE  /\ Rows' = Rows /\ a \in Rows
           /\ \A b \in AccountIds \ {a} : accounts'[b] = accounts[b]
           /\ accounts'[a] = [scope |-> accounts[a].scope, status |-> "expired",
                              verifier |-> accounts[a].verifier, exp |-> accounts[a].exp]
  <1> DEFINE r == [scope |-> accounts[a].scope, status |-> "expired",
                   verifier |-> accounts[a].verifier, exp |-> accounts[a].exp]
  <1>1. a \in Rows /\ accounts[a] \in Account
    BY RowTyped DEF Expired
  <1>2. accounts'[a] = [accounts[a] EXCEPT !.status = "expired"]
    BY DEF Expired, TypeOK
  <1>3. accounts'[a] = r /\ r \in Account
    BY <1>1, <1>2 DEF Account
  <1>4. \A b \in AccountIds \ {a} : accounts'[b] = accounts[b]
    BY DEF Expired, TypeOK
  <1> QED
    BY <1>1, <1>3, <1>4, UpdatedRow

\* Whoever makes the change, the accounts and their histories stay in step.
LEMMA LedgerStep == ASSUME TypeOK, Ledger, RowStep PROVE Ledger'
  <1>0. Rows \subseteq AccountIds
    BY DEF Rows
  <1>1. CASE Untouched
    BY <1>1 DEF Untouched, Rows, Ledger, Minted, PendingIsNew, CompletedOnce, ActiveWasStored,
       DisconnectedIsClosed, VerifierOnlyWhilePending
  <1>2. ASSUME NEW a \in AccountIds, NEW s \in Scopes, NEW R \in SUBSET AccountIds,
               Inserted(a, s, R)
        PROVE  Ledger'
    <2>1. completed' = completed /\ disconnected' = disconnected /\ storedFor' = storedFor
      BY <1>2 DEF Inserted, history
    <2>2. /\ Rows' = (Rows \ R) \cup {a}
          /\ accounts'[a].status = "pending" /\ accounts'[a].verifier = TRUE
          /\ \A b \in (Rows \ R) \ {a} : accounts'[b] = accounts[b]
          /\ minted'[a] # None /\ minted[a] = None
          /\ \A b \in AccountIds \ {a} : minted'[b] = minted[b]
      <3>1. minted[a] = None
        BY <1>2 DEF Inserted
      <3> QED
        <4>1. /\ Rows' = (Rows \ R) \cup {a}
              /\ accounts'[a] = [scope |-> s, status |-> "pending", verifier |-> TRUE, exp |-> None]
              /\ \A b \in (Rows \ R) \ {a} : accounts'[b] = accounts[b]
              /\ minted'[a] # None
              /\ \A b \in AccountIds \ {a} : minted'[b] = minted[b]
          BY <1>2, InsertedRows
        <4>2. accounts'[a] = [scope |-> s, status |-> "pending", verifier |-> TRUE, exp |-> None]
          BY <4>1
        <4>3. accounts'[a].status = "pending" /\ accounts'[a].verifier = TRUE
          BY <4>2
        <4> QED
          BY <3>1, <4>1, <4>3
    <2>3. Minted' /\ PendingIsNew' /\ CompletedOnce'
      BY <1>0, <2>1, <2>2 DEF Ledger, Minted, PendingIsNew, CompletedOnce
    <2>4. ActiveWasStored' /\ DisconnectedIsClosed'
      BY <1>0, <2>1, <2>2 DEF Ledger, Minted, ActiveWasStored, DisconnectedIsClosed
    <2>5. VerifierOnlyWhilePending'
      BY <1>0, <2>2 DEF Ledger, VerifierOnlyWhilePending
    <2> QED
      BY <2>3, <2>4, <2>5 DEF Ledger
  <1>3. ASSUME NEW a \in AccountIds, NEW e \in Nat, Activated(a, e) PROVE Ledger'
    <2>1. completed'[a] = completed[a] + 1 /\ \A b \in AccountIds \ {a} : completed'[b] = completed[b]
      BY <1>3 DEF Activated, TypeOK
    <2>2. /\ Rows' = Rows /\ a \in Rows /\ completed[a] = 0 /\ a \in storedFor /\ a \notin disconnected
          /\ accounts'[a].status = "active" /\ accounts'[a].verifier = FALSE
          /\ \A b \in AccountIds \ {a} : accounts'[b] = accounts[b]
      <3>1. /\ a \in Rows /\ accounts[a].status = "pending" /\ a \in storedFor
        BY <1>3 DEF Activated
      <3>2. completed[a] = 0 /\ a \notin disconnected
        BY <3>1 DEF Ledger, PendingIsNew, DisconnectedIsClosed
      <3> QED
        <4>1. Rows' = Rows /\ a \in Rows /\ \A b \in AccountIds \ {a} : accounts'[b] = accounts[b]
          BY <1>3, ActivatedRow
        <4>2. accounts'[a] = [scope |-> accounts[a].scope, status |-> "active", verifier |-> FALSE, exp |-> e]
          BY <1>3, ActivatedRow
        <4>3. accounts'[a].status = "active" /\ accounts'[a].verifier = FALSE
          BY <4>2
        <4> QED
          BY <3>1, <3>2, <4>1, <4>3
    <2>3. minted' = minted /\ storedFor' = storedFor /\ disconnected' = disconnected
      BY <1>3 DEF Activated
    <2>4. Minted' /\ PendingIsNew' /\ CompletedOnce'
      BY <1>0, <2>1, <2>2, <2>3 DEF Ledger, Minted, PendingIsNew, CompletedOnce
    <2>5. ActiveWasStored' /\ DisconnectedIsClosed'
      BY <1>0, <2>2, <2>3 DEF Ledger, Minted, ActiveWasStored, DisconnectedIsClosed
    <2>6. VerifierOnlyWhilePending'
      BY <1>0, <2>2 DEF Ledger, VerifierOnlyWhilePending
    <2> QED
      BY <2>4, <2>5, <2>6 DEF Ledger
  <1>4. ASSUME NEW a \in AccountIds, Closed(a) PROVE Ledger'
    <2>1. /\ Rows' = Rows /\ a \in Rows
          /\ accounts'[a].status = "revoked" /\ accounts'[a].verifier = FALSE
          /\ \A b \in AccountIds \ {a} : accounts'[b] = accounts[b]
      <3>1. Rows' = Rows /\ a \in Rows /\ \A b \in AccountIds \ {a} : accounts'[b] = accounts[b]
        BY <1>4, ClosedRow
      <3>2. accounts'[a] = [scope |-> accounts[a].scope, status |-> "revoked", verifier |-> FALSE, exp |-> accounts[a].exp]
        BY <1>4, ClosedRow
      <3>3. accounts'[a].status = "revoked" /\ accounts'[a].verifier = FALSE
        BY <3>2
      <3> QED
        BY <3>1, <3>3
    <2>2. /\ minted' = minted /\ storedFor' = storedFor /\ completed' = completed
          /\ disconnected' = disconnected \cup {a}
      BY <1>4 DEF Closed
    <2>3. Minted' /\ PendingIsNew' /\ CompletedOnce'
      BY <1>0, <2>1, <2>2 DEF Ledger, Minted, PendingIsNew, CompletedOnce
    <2>4. ActiveWasStored' /\ DisconnectedIsClosed'
      BY <1>0, <2>1, <2>2 DEF Ledger, Minted, ActiveWasStored, DisconnectedIsClosed
    <2>5. VerifierOnlyWhilePending'
      BY <1>0, <2>1 DEF Ledger, VerifierOnlyWhilePending
    <2> QED
      BY <2>3, <2>4, <2>5 DEF Ledger
  <1>5. ASSUME NEW a \in AccountIds, ClosedBefore(a) PROVE Ledger'
    BY <1>5 DEF ClosedBefore, Rows, Ledger, Minted, PendingIsNew, CompletedOnce, ActiveWasStored,
       DisconnectedIsClosed, VerifierOnlyWhilePending
  <1>6. ASSUME NEW a \in AccountIds, Expired(a) PROVE Ledger'
    <2>1. /\ Rows' = Rows /\ a \in Rows /\ accounts[a].status = "active"
          /\ accounts'[a].status = "expired" /\ accounts'[a].verifier = accounts[a].verifier
          /\ \A b \in AccountIds \ {a} : accounts'[b] = accounts[b]
      <3>1. accounts[a].status = "active"
        BY <1>6 DEF Expired
      <3> QED
        <4>1. Rows' = Rows /\ a \in Rows /\ \A b \in AccountIds \ {a} : accounts'[b] = accounts[b]
          BY <1>6, ExpiredRow
        <4>2. accounts'[a] = [scope |-> accounts[a].scope, status |-> "expired", verifier |-> accounts[a].verifier, exp |-> accounts[a].exp]
          BY <1>6, ExpiredRow
        <4>3. accounts'[a].status = "expired" /\ accounts'[a].verifier = accounts[a].verifier
          BY <4>2
        <4> QED
          BY <3>1, <4>1, <4>3
    <2>2. /\ minted' = minted /\ storedFor' = storedFor /\ completed' = completed
          /\ disconnected' = disconnected
      BY <1>6 DEF Expired, history
    <2>3. Minted' /\ PendingIsNew' /\ CompletedOnce'
      BY <1>0, <2>1, <2>2 DEF Ledger, Minted, PendingIsNew, CompletedOnce
    <2>4. ActiveWasStored' /\ DisconnectedIsClosed'
      BY <1>0, <2>1, <2>2 DEF Ledger, Minted, ActiveWasStored, DisconnectedIsClosed
    <2>5. VerifierOnlyWhilePending'
      BY <1>0, <2>1 DEF Ledger, VerifierOnlyWhilePending
    <2> QED
      BY <2>3, <2>4, <2>5 DEF Ledger
  <1> QED
    BY <1>1, <1>2, <1>3, <1>4, <1>5, <1>6 DEF RowStep

-----------------------------------------------------------------------------
(* What the calls may rely on.                                             *)

\* A signed state and a stored credential stay on record.
LEMMA RecordsGrow ==
    ASSUME TypeOK, RowStep
    PROVE  /\ \A a \in AccountIds : minted[a] # None => minted'[a] # None
           /\ storedFor \subseteq storedFor'
  <1>1. ASSUME NEW a \in AccountIds, NEW s \in Scopes, NEW R \in SUBSET AccountIds, Inserted(a, s, R)
        PROVE  /\ \A b \in AccountIds : minted[b] # None => minted'[b] # None
               /\ storedFor \subseteq storedFor'
    <2>1. /\ Rows' = (Rows \ R) \cup {a}
          /\ accounts'[a] = [scope |-> s, status |-> "pending", verifier |-> TRUE, exp |-> None]
          /\ \A b \in (Rows \ R) \ {a} : accounts'[b] = accounts[b]
          /\ minted'[a] # None
          /\ \A b \in AccountIds \ {a} : minted'[b] = minted[b]
      BY <1>1, InsertedRows
    <2>2. minted'[a] # None /\ \A b \in AccountIds \ {a} : minted'[b] = minted[b]
      BY <2>1
    <2> QED
      BY <1>1, <2>2 DEF Inserted, history
  <1> QED
    BY <1>1 DEF RowStep, Untouched, Activated, Closed, ClosedBefore, Expired, history

\* The calls other than c keep their local variables.
OthersStay(c) ==
    \A d \in Calls \ {c} :
       /\ pc'[d] = pc[d] /\ acc'[d] = acc[d] /\ scp'[d] = scp[d]
       /\ seen'[d] = seen[d] /\ bundle'[d] = bundle[d]

LEMMA StillHolds ==
    ASSUME FlowInv, RowStep, NEW c, OthersStay(c), NEW d \in Calls \ {c}
    PROVE  Holds(d)'
  <1>1. Holds(d) /\ seen[d] \subseteq AccountIds
    BY DEF FlowInv, TypeOK
  <1>2. /\ \A a \in AccountIds : minted[a] # None => minted'[a] # None
        /\ storedFor \subseteq storedFor'
    BY RecordsGrow DEF FlowInv
  <1> QED
    BY <1>1, <1>2 DEF Holds, OthersStay

LEMMA EndStays ==
    ASSUME CallsTyped, NEW c \in Calls, NEW v, End(c, v)
    PROVE  OthersStay(c) /\ Holds(c)'
  <1>1. pc'[c] = "idle" /\ seen'[c] = {}
    BY DEF CallsTyped, End, Goto
  <1> QED
    BY <1>1 DEF CallsTyped, End, Goto, OthersStay, Holds, OnAccount, OnBundle

LEMMA BeginStays ==
    ASSUME CallsTyped, NEW c \in Calls, NEW p, NEW a, NEW s, Begin(c, p, a, s)
    PROVE  /\ \A d \in Calls \ {c} : /\ pc'[d] = pc[d] /\ acc'[d] = acc[d] /\ scp'[d] = scp[d]
                                     /\ bundle'[d] = bundle[d]
           /\ pc'[c] = p /\ acc'[c] = a /\ scp'[c] = s
  BY DEF CallsTyped, Begin, Goto

LEMMA GoesOn ==
    ASSUME CallsTyped, NEW c \in Calls, NEW p, Goto(c, p), Stay(c),
           \A d \in Calls \ {c} : bundle'[d] = bundle[d]
    PROVE  OthersStay(c) /\ pc'[c] = p /\ acc'[c] = acc[c] /\ scp'[c] = scp[c] /\ seen'[c] = seen[c]
  BY DEF CallsTyped, Goto, Stay, OthersStay

\* Each step changes the accounts in one of the listed ways and leaves its own call
\* with what its next place needs.
Good(c) == RowStep /\ OthersStay(c) /\ Holds(c)'

LEMMA RefuseGood ==
    ASSUME FlowInv, NEW c \in Calls, Refuse(c), UNCHANGED minted
    PROVE  Good(c)
  <1>1. CallsTyped
    BY TwoHalves DEF FlowInv
  <1>2. RowStep
    BY DEF Refuse, history, RowStep, Untouched
  <1> QED
    BY <1>1, <1>2, EndStays DEF Refuse, Good

LEMMA AuthorizeGood ==
    ASSUME FlowInv, NEW c \in Calls, Authorizing(c)
    PROVE  Good(c)
  <1>0. CallsTyped /\ Holds(c) /\ TypeOK
    BY TwoHalves DEF FlowInv
  <1>1. ASSUME NEW s \in Scopes, AuthorizeDelete(c, s) PROVE Good(c)
    <2>1. RowStep
      BY <1>1 DEF AuthorizeDelete, history, RowStep, Untouched
    <2>2. /\ seen'[c] \subseteq Rows /\ \A d \in Calls \ {c} : seen'[d] = seen[d]
      BY <1>0, <1>1 DEF AuthorizeDelete, CallsTyped
    <2>3. OthersStay(c) /\ pc'[c] = "insert" /\ scp'[c] = s
      BY <1>0, <1>1, <2>2, BeginStays DEF AuthorizeDelete, OthersStay
    <2>4. \A a \in seen'[c] : minted'[a] # None
      BY <1>1, <2>2 DEF AuthorizeDelete, FlowInv, Ledger, Minted
    <2> QED
      BY <2>1, <2>3, <2>4 DEF Good, Holds, OnAccount, OnBundle
  <1>2. CASE AuthorizeInsert(c)
    <2>1. CASE Refuse(c) /\ UNCHANGED minted
      BY <2>1, RefuseGood
    <2>2. ASSUME NEW a \in AccountIds,
                 ~(UniqueScope /\ \E b \in Rows \ seen[c] : accounts[b].scope = scp[c]),
                 minted[a] = None,
                 accounts' = [b \in AccountIds |->
                    CASE b = a -> [scope |-> scp[c], status |-> "pending",
                                   verifier |-> TRUE, exp |-> None]
                      [] b \in seen[c] -> None
                      [] OTHER -> accounts[b]],
                 minted' = [minted EXCEPT ![a] = now + StateTTL],
                 End(c, "ok"), UNCHANGED <<store, history>>
          PROVE  Good(c)
      <3>1. scp[c] \in Scopes /\ seen[c] \in SUBSET AccountIds /\ \A r \in seen[c] : minted[r] # None
        BY <1>0, <1>2 DEF AuthorizeInsert, Holds, CallsTyped
      <3>2. Inserted(a, scp[c], seen[c])
        BY <2>2, <3>1 DEF Inserted
      <3>3. RowStep
        BY <3>1, <3>2 DEF RowStep
      <3> QED
        BY <1>0, <2>2, <3>3, EndStays DEF Good
    <2> QED
      BY <1>2, <2>1, <2>2 DEF AuthorizeInsert
  <1> QED
    BY <1>1, <1>2 DEF Authorizing

LEMMA CompleteGood ==
    ASSUME FlowInv, NEW c \in Calls, Completing(c)
    PROVE  Good(c)
  <1>0. CallsTyped /\ Holds(c) /\ TypeOK
    BY TwoHalves DEF FlowInv
  <1>1. ASSUME NEW a \in AccountIds, CompleteVerify(c, a) PROVE Good(c)
    <2>1. RowStep
      BY <1>1 DEF CompleteVerify, history, RowStep, Untouched
    <2>2. OthersStay(c) /\ pc'[c] = "verifier" /\ acc'[c] = a /\ scp'[c] = accounts[a].scope
      BY <1>0, <1>1, BeginStays DEF CompleteVerify, OthersStay
    <2>3. accounts[a].scope \in Scopes
      BY <1>0, <1>1, RowTyped DEF CompleteVerify, Account
    <2>4. minted'[a] # None /\ seen' = seen /\ minted' = minted
      BY <1>1 DEF CompleteVerify
    <2> QED
      BY <1>0, <2>1, <2>2, <2>3, <2>4 DEF Good, Holds, OnAccount, OnBundle
  <1>2. CASE CompleteReadVerifier(c)
    <2>1. CASE Refuse(c)
      BY <1>2, <2>1, RefuseGood DEF CompleteReadVerifier
    <2>2. CASE Goto(c, "exchange") /\ Stay(c) /\ UNCHANGED <<accounts, store, history, bundle, wrote>>
      <3>1. RowStep
        BY <1>2, <2>2 DEF CompleteReadVerifier, history, RowStep, Untouched
      <3>2. OthersStay(c) /\ pc'[c] = "exchange" /\ acc'[c] = acc[c] /\ scp'[c] = scp[c] /\ seen'[c] = seen[c]
        BY <1>0, <2>2, GoesOn
      <3> QED
        BY <1>0, <1>2, <3>1, <3>2 DEF CompleteReadVerifier, Good, Holds, OnAccount, OnBundle
    <2> QED
      BY <1>2, <2>1, <2>2 DEF CompleteReadVerifier
  <1>3. CASE CompleteExchange(c)
    <2>1. CASE Refuse(c)
      BY <1>3, <2>1, RefuseGood DEF CompleteExchange
    <2>2. ASSUME NEW life \in Lifetimes, NEW r \in BOOLEAN,
                 bundle' = [bundle EXCEPT ![c] =
                              [exp |-> now + life, refresh |-> r, owner |-> acc[c]]],
                 Goto(c, IF r THEN "issue" ELSE "carry"), Stay(c),
                 UNCHANGED wrote, UNCHANGED <<accounts, store, storedFor, completed, disconnected>>
          PROVE  Good(c)
      <3>1. acc[c] \in AccountIds /\ scp[c] \in Scopes /\ minted[acc[c]] # None
        BY <1>0, <1>3 DEF Holds, OnAccount, CompleteExchange
      <3>2. [exp |-> now + life, refresh |-> r, owner |-> acc[c]] \in Bundle
        BY <1>0, <3>1, FlowAssumption DEF TypeOK, Bundle
      <3>3. bundle'[c] \in Bundle /\ \A d \in Calls \ {c} : bundle'[d] = bundle[d]
        BY <1>0, <2>2, <3>2 DEF CallsTyped
      <3>4. OthersStay(c) /\ pc'[c] \in {"issue", "carry"} /\ acc'[c] = acc[c] /\ scp'[c] = scp[c]
            /\ seen'[c] = seen[c]
        BY <1>0, <2>2, <3>3, GoesOn
      <3>5. RowStep
        BY <1>3, <2>2 DEF CompleteExchange, history, RowStep, Untouched
      <3> QED
        BY <1>0, <1>3, <3>1, <3>3, <3>4, <3>5 DEF CompleteExchange, Good, Holds, OnAccount, OnBundle
    <2>3. ASSUME End(c, "refused"), UNCHANGED <<accounts, store, storedFor, completed, disconnected>>
          PROVE  Good(c)
      <3>1. RowStep
        BY <1>3, <2>3 DEF CompleteExchange, RowStep, Untouched
      <3> QED
        BY <1>0, <2>3, <3>1, EndStays DEF Good
    <2> QED
      BY <1>3, <2>1, <2>2, <2>3 DEF CompleteExchange
  <1>4. CASE CompleteCarry(c)
    <2>1. RowStep
      BY <1>4 DEF CompleteCarry, history, RowStep, Untouched
    <2>2. /\ acc[c] \in AccountIds /\ scp[c] \in Scopes /\ minted[acc[c]] # None
          /\ bundle[c] \in Bundle
      BY <1>0, <1>4 DEF Holds, OnAccount, OnBundle, CompleteCarry
    <2>3. bundle'[c] \in Bundle /\ \A d \in Calls \ {c} : bundle'[d] = bundle[d]
      <3>1. CASE UNCHANGED bundle
        BY <2>2, <3>1
      <3>2. CASE /\ ReadCode(store[scp[c]], now) = "ok"
                 /\ bundle' = [bundle EXCEPT ![c].refresh = store[scp[c]].live.refresh]
        <4>1. store[scp[c]] \in [live : Bundle \cup {None}, ever : BOOLEAN]
          BY <1>0, <2>2 DEF TypeOK
        <4>2. store[scp[c]].live # None
          BY <3>2, <4>1 DEF ReadCode
        <4>3. store[scp[c]].live.refresh \in BOOLEAN
          BY <4>1, <4>2 DEF Bundle
        <4> QED
          BY <1>0, <2>2, <3>2, <4>3 DEF CallsTyped, Bundle
      <3> QED
        BY <1>4, <3>1, <3>2 DEF CompleteCarry
    <2>4. OthersStay(c) /\ pc'[c] = "issue" /\ acc'[c] = acc[c] /\ scp'[c] = scp[c] /\ seen'[c] = seen[c]
      BY <1>0, <1>4, <2>3, GoesOn DEF CompleteCarry
    <2> QED
      BY <1>0, <1>4, <2>1, <2>2, <2>3, <2>4 DEF CompleteCarry, Good, Holds, OnAccount, OnBundle
  <1>5. CASE CompleteIssue(c) \/ CompleteRotate(c)
    <2>0. /\ acc[c] \in AccountIds /\ scp[c] \in Scopes /\ minted[acc[c]] # None
          /\ bundle[c] \in Bundle /\ minted' = minted
      BY <1>0, <1>5 DEF Holds, OnAccount, OnBundle, CompleteIssue, CompleteRotate
    <2>1. CASE Refuse(c)
      BY <2>0, <2>1, RefuseGood
    <2>2. CASE Store(c)
      <3>1. RowStep
        BY <2>0, <2>2 DEF Store, RowStep, Untouched
      <3>2. OthersStay(c) /\ pc'[c] = "activate" /\ acc'[c] = acc[c] /\ scp'[c] = scp[c]
            /\ seen'[c] = seen[c]
        BY <1>0, <2>2, GoesOn DEF Store
      <3> QED
        BY <1>0, <2>0, <2>2, <3>1, <3>2 DEF Store, Good, Holds, OnAccount, OnBundle
    <2>3. CASE Goto(c, "rotate") /\ Stay(c) /\ UNCHANGED <<accounts, store, bundle, wrote, history>>
      <3>1. RowStep
        BY <2>0, <2>3 DEF history, RowStep, Untouched
      <3>2. OthersStay(c) /\ pc'[c] = "rotate" /\ acc'[c] = acc[c] /\ scp'[c] = scp[c]
            /\ seen'[c] = seen[c]
        BY <1>0, <2>3, GoesOn
      <3> QED
        BY <1>0, <2>0, <2>3, <3>1, <3>2 DEF Good, Holds, OnAccount, OnBundle
    <2> QED
      BY <1>5, <2>1, <2>2, <2>3 DEF CompleteIssue, CompleteRotate
  <1>6. CASE CompleteActivate(c)
    <2>1. CASE Refuse(c)
      BY <1>6, <2>1, RefuseGood DEF CompleteActivate
    <2>2. CASE StillPending(acc[c]) /\ ~Refuse(c)
      <3>1. acc[c] \in AccountIds /\ bundle[c] \in Bundle /\ acc[c] \in storedFor
        BY <1>0, <1>6 DEF Holds, OnAccount, OnBundle, CompleteActivate
      <3>2. bundle[c].exp \in Nat
        BY <3>1 DEF Bundle
      <3>3. Activated(acc[c], bundle[c].exp)
        BY <1>6, <2>2, <3>1 DEF Activated, CompleteActivate, StillPending
      <3>4. RowStep
        BY <3>1, <3>2, <3>3 DEF RowStep
      <3> QED
        BY <1>0, <1>6, <2>2, <3>4, EndStays DEF CompleteActivate, Good
    <2> QED
      BY <1>6, <2>1, <2>2 DEF CompleteActivate
  <1> QED
    BY <1>1, <1>2, <1>3, <1>4, <1>5, <1>6 DEF Completing

LEMMA DisconnectGood ==
    ASSUME FlowInv, NEW c \in Calls, Disconnecting(c)
    PROVE  Good(c)
  <1>0. CallsTyped /\ Holds(c) /\ TypeOK
    BY TwoHalves DEF FlowInv
  <1>1. ASSUME NEW a \in AccountIds, DisconnectFetch(c, a) PROVE Good(c)
    <2>0. minted[a] # None /\ a \in Rows /\ minted' = minted /\ accounts' = accounts /\ seen' = seen
      BY <1>1 DEF DisconnectFetch, FlowInv, Ledger, Minted
    <2>1. CASE accounts[a].status = "revoked"
      <3>1. ClosedBefore(a)
        BY <1>1, <2>0, <2>1 DEF DisconnectFetch, ClosedBefore
      <3>2. RowStep
        BY <3>1 DEF RowStep
      <3>3. UNCHANGED <<pc, acc, scp, seen, bundle>> /\ pc[c] = "idle"
        BY <1>1, <2>1 DEF DisconnectFetch
      <3> QED
        BY <1>0, <2>0, <3>2, <3>3 DEF Good, OthersStay, Holds, OnAccount, OnBundle
    <2>2. CASE accounts[a].status # "revoked"
      <3>1. RowStep
        BY <1>1, <2>0, <2>2 DEF DisconnectFetch, RowStep, Untouched
      <3>2. OthersStay(c) /\ pc'[c] = "revoke" /\ acc'[c] = a /\ scp'[c] = accounts[a].scope
        BY <1>0, <1>1, <2>0, <2>2, BeginStays DEF DisconnectFetch, OthersStay
      <3>3. accounts[a].scope \in Scopes
        BY <1>0, <2>0, RowTyped DEF Account
      <3> QED
        BY <1>0, <2>0, <3>1, <3>2, <3>3 DEF Good, Holds, OnAccount, OnBundle
    <2> QED
      BY <2>1, <2>2
  <1>2. CASE DisconnectRevoke(c)
    <2>0. acc[c] \in AccountIds /\ scp[c] \in Scopes /\ minted[acc[c]] # None /\ minted' = minted
      BY <1>0, <1>2 DEF Holds, OnAccount, DisconnectRevoke
    <2>1. CASE Refuse(c)
      BY <2>0, <2>1, RefuseGood
    <2>2. CASE ~Refuse(c)
      <3>1. RowStep
        BY <1>2, <2>2 DEF DisconnectRevoke, history, RowStep, Untouched
      <3>2. OthersStay(c) /\ pc'[c] = "close" /\ acc'[c] = acc[c] /\ scp'[c] = scp[c]
            /\ seen'[c] = seen[c]
        BY <1>0, <1>2, <2>2, GoesOn DEF DisconnectRevoke
      <3> QED
        BY <1>0, <2>0, <3>1, <3>2 DEF Good, Holds, OnAccount, OnBundle
    <2> QED
      BY <2>1, <2>2
  <1>3. CASE DisconnectClose(c)
    <2>0. acc[c] \in AccountIds /\ minted[acc[c]] # None
      BY <1>0, <1>3 DEF Holds, OnAccount, DisconnectClose
    <2>1. ASSUME Closable(acc[c]) PROVE RowStep
      <3>1. Closed(acc[c])
        BY <1>3, <2>1 DEF DisconnectClose, Closable, Closed
      <3> QED
        BY <2>0, <3>1 DEF RowStep
    <2>2. ASSUME ~Closable(acc[c]) PROVE RowStep
      <3>1. acc[c] \in Rows => accounts[acc[c]].status \in {"expired", "revoked"}
        BY <1>0, <2>2, RowTyped DEF Closable, Account
      <3>2. ClosedBefore(acc[c])
        BY <1>3, <2>0, <2>2, <3>1 DEF DisconnectClose, ClosedBefore
      <3> QED
        BY <2>0, <3>2 DEF RowStep
    <2>3. RowStep
      BY <2>1, <2>2
    <2> QED
      BY <1>0, <1>3, <2>3, EndStays DEF DisconnectClose, Good
  <1> QED
    BY <1>1, <1>2, <1>3 DEF Disconnecting

LEMMA AbortGood ==
    ASSUME FlowInv, NEW c \in Calls, Fail(c) \/ Abort(c)
    PROVE  Good(c)
  <1>1. CallsTyped
    BY TwoHalves DEF FlowInv
  <1>2. CASE Fail(c)
    BY <1>2, RefuseGood DEF Fail
  <1>3. CASE Abort(c)
    <2>1. RowStep
      BY <1>3 DEF Abort, history, RowStep, Untouched
    <2> QED
      BY <1>1, <1>3, <2>1, EndStays DEF Abort, Good
  <1> QED
    BY <1>2, <1>3

\* Every step of the flow changes the accounts in one of the listed ways, and no call
\* loses what it relies on.
LEMMA FlowStep ==
    ASSUME FlowInv, [Next]_vars
    PROVE  RowStep /\ \A c \in Calls : Holds(c)'
  <1>0. TypeOK /\ \A c \in Calls : Holds(c)
    BY DEF FlowInv
  <1>1. ASSUME NEW c \in Calls,
               Authorizing(c) \/ Completing(c) \/ Disconnecting(c) \/ Fail(c) \/ Abort(c)
        PROVE  RowStep /\ \A d \in Calls : Holds(d)'
    <2>1. Good(c)
      BY <1>1, AuthorizeGood, CompleteGood, DisconnectGood, AbortGood
    <2>2. RowStep /\ OthersStay(c) /\ Holds(c)'
      BY <2>1 DEF Good
    <2>3. \A d \in Calls \ {c} : Holds(d)'
      BY <2>2, StillHolds
    <2> QED
      BY <2>2, <2>3
  <1>2. ASSUME RowStep, UNCHANGED <<pc, acc, scp, seen, bundle>>
        PROVE  RowStep /\ \A d \in Calls : Holds(d)'
    <2>1. ASSUME NEW d \in Calls PROVE Holds(d)'
      <3>1. Holds(d) /\ seen[d] \subseteq AccountIds
        BY <1>0 DEF TypeOK
      <3>2. /\ \A a \in AccountIds : minted[a] # None => minted'[a] # None
            /\ storedFor \subseteq storedFor'
        BY <1>0, <1>2, RecordsGrow
      <3> QED
        BY <1>2, <3>1, <3>2 DEF Holds
    <2> QED
      BY <1>2, <2>1
  <1>3. ASSUME NEW a \in AccountIds, SweepExpire(a)
        PROVE  RowStep /\ \A d \in Calls : Holds(d)'
    <2>1. Expired(a)
      BY <1>3 DEF SweepExpire, Expired
    <2>2. RowStep
      BY <2>1 DEF RowStep
    <2> QED
      BY <1>2, <1>3, <2>2 DEF SweepExpire
  <1>4. CASE Tick \/ UNCHANGED vars
    <2>1. RowStep /\ UNCHANGED <<pc, acc, scp, seen, bundle>>
      BY <1>4 DEF Tick, vars, history, RowStep, Untouched
    <2> QED
      BY <1>2, <2>1
  <1> QED
    BY <1>1, <1>3, <1>4 DEF Next

LEMMA FlowNext == FlowInv /\ [Next]_vars => FlowInv'
  <1> SUFFICES ASSUME FlowInv, [Next]_vars PROVE FlowInv'
    OBVIOUS
  <1>1. TypeOK'
    BY FlowTyped
  <1>2. RowStep /\ \A c \in Calls : Holds(c)'
    BY FlowStep
  <1>3. Ledger'
    BY <1>2, LedgerStep DEF FlowInv
  <1> QED
    BY <1>1, <1>2, <1>3 DEF FlowInv

\* However the calls interleave, fail or stop, the variables keep their types, every
\* call may rely on what it read before its awaits as far as Holds says, and the
\* ledger of the accounts is in order.
THEOREM FlowInvariant == Spec => []FlowInv
  BY FlowInit, FlowNext, PTL DEF Spec

\* The tables and the calls keep their types.
THEOREM Typed == Spec => []TypeOK
  <1>1. FlowInv => TypeOK
    BY DEF FlowInv
  <1> QED
    BY <1>1, FlowInvariant, PTL

\* No number of complete calls carrying one state completes an authorization twice.
THEOREM CompletesOnce == Spec => []CompletedOnce
  <1>1. FlowInv => CompletedOnce
    BY DEF FlowInv, Ledger
  <1> QED
    BY <1>1, FlowInvariant, PTL

\* The transition to active comes after the account's own credential was stored.
THEOREM StoredBeforeActive == Spec => []ActiveWasStored
  <1>1. FlowInv => ActiveWasStored
    BY DEF FlowInv, Ledger
  <1> QED
    BY <1>1, FlowInvariant, PTL

\* An account that a disconnect reported closed is revoked or expired from then on.
THEOREM DisconnectCloses == Spec => []DisconnectedIsClosed
  <1>1. FlowInv => DisconnectedIsClosed
    BY DEF FlowInv, Ledger
  <1> QED
    BY <1>1, FlowInvariant, PTL

\* No account keeps its PKCE verifier past the end of pending, however the calls overlap
\* (the activating and the closing UPDATE clear it).
THEOREM VerifierGoes == Spec => []VerifierOnlyWhilePending
  <1>1. FlowInv => VerifierOnlyWhilePending
    BY DEF FlowInv, Ledger
  <1> QED
    BY <1>1, FlowInvariant, PTL
-----------------------------------------------------------------------------
(* One account per scope.                                                  *)

LEMMA UniqueStep ==
    ASSUME TypeOK, UniqueScope, OneAccountPerScope, RowStep
    PROVE  OneAccountPerScope'
  <1>1. ASSUME NEW a \in AccountIds, NEW s \in Scopes, NEW R \in SUBSET AccountIds, Inserted(a, s, R)
        PROVE  OneAccountPerScope'
    <2>1. /\ Rows' = (Rows \ R) \cup {a}
          /\ accounts'[a] = [scope |-> s, status |-> "pending", verifier |-> TRUE, exp |-> None]
          /\ \A b \in (Rows \ R) \ {a} : accounts'[b] = accounts[b]
          /\ minted'[a] # None
          /\ \A b \in AccountIds \ {a} : minted'[b] = minted[b]
      BY <1>1, InsertedRows
    <2>2. \A b \in Rows \ R : accounts[b].scope # s
      BY <1>1 DEF Inserted
    <2> QED
      BY <2>1, <2>2 DEF OneAccountPerScope
  <1>2. ASSUME NEW a \in AccountIds, NEW e \in Nat, Activated(a, e)
        PROVE  OneAccountPerScope'
    <2>1. /\ Rows' = Rows /\ a \in Rows
          /\ \A b \in AccountIds \ {a} : accounts'[b] = accounts[b]
          /\ accounts'[a] = [scope |-> accounts[a].scope, status |-> "active",
                              verifier |-> FALSE, exp |-> e]
      BY <1>2, ActivatedRow
    <2> QED
      BY <2>1 DEF OneAccountPerScope, Rows
  <1>3. ASSUME NEW a \in AccountIds, Closed(a)
        PROVE  OneAccountPerScope'
    <2>1. /\ Rows' = Rows /\ a \in Rows
          /\ \A b \in AccountIds \ {a} : accounts'[b] = accounts[b]
          /\ accounts'[a] = [scope |-> accounts[a].scope, status |-> "revoked",
                              verifier |-> FALSE, exp |-> accounts[a].exp]
      BY <1>3, ClosedRow
    <2> QED
      BY <2>1 DEF OneAccountPerScope, Rows
  <1>4. ASSUME NEW a \in AccountIds, Expired(a)
        PROVE  OneAccountPerScope'
    <2>1. /\ Rows' = Rows /\ a \in Rows
          /\ \A b \in AccountIds \ {a} : accounts'[b] = accounts[b]
          /\ accounts'[a] = [scope |-> accounts[a].scope, status |-> "expired",
                              verifier |-> accounts[a].verifier, exp |-> accounts[a].exp]
      BY <1>4, ExpiredRow
    <2> QED
      BY <2>1 DEF OneAccountPerScope, Rows
  <1>5. ASSUME UNCHANGED accounts PROVE OneAccountPerScope'
    BY <1>5 DEF OneAccountPerScope, Rows
  <1> QED
    BY <1>1, <1>2, <1>3, <1>4, <1>5 DEF RowStep, Untouched, ClosedBefore

\* Where the deployment declares scopes unique, overlapping authorize calls never leave
\* two accounts of one scope: the DELETE and the INSERT of a transaction replace.
THEOREM ReplacesInScope == ASSUME UniqueScope PROVE Spec => []OneAccountPerScope
  <1>1. Init => OneAccountPerScope
    BY DEF Init, OneAccountPerScope, Rows
  <1>2. FlowInv /\ OneAccountPerScope /\ [Next]_vars => OneAccountPerScope'
    BY FlowStep, UniqueStep DEF FlowInv
  <1> QED
    BY <1>1, <1>2, FlowInvariant, PTL DEF Spec

-----------------------------------------------------------------------------
(* The accounts implement AccountLifecycle.                                *)

Lives == [a \in AccountIds |-> LifeOf(a)]

LEMMA LifeOfRow ==
    ASSUME TypeOK, NEW a \in AccountIds
    PROVE  /\ a \in Rows => LifeOf(a) = accounts[a].status
           /\ a \in Rows => LifeOf(a) \in {"pending", "active", "expired", "revoked"}
           /\ a \notin Rows /\ minted[a] = None => LifeOf(a) = "unborn"
           /\ a \notin Rows /\ minted[a] # None => LifeOf(a) = "replaced"
  BY DEF LifeOf, TypeOK, Rows, Account

LEMMA LifeStep ==
    ASSUME TypeOK, TypeOK', Minted, RowStep
    PROVE  [Life!ANext]_Lives
  <1>1. ASSUME NEW a \in AccountIds, NEW s \in Scopes, NEW R \in SUBSET AccountIds, Inserted(a, s, R)
        PROVE  Life!ANext
    <2>1. /\ Rows' = (Rows \ R) \cup {a}
          /\ accounts'[a] = [scope |-> s, status |-> "pending", verifier |-> TRUE, exp |-> None]
          /\ \A b \in (Rows \ R) \ {a} : accounts'[b] = accounts[b]
          /\ minted'[a] # None
          /\ \A b \in AccountIds \ {a} : minted'[b] = minted[b]
      BY <1>1, InsertedRows
    <2>2. a \notin Rows /\ minted[a] = None /\ \A r \in R : minted[r] # None
      BY <1>1 DEF Inserted, Minted
    <2>3. LifeOf(a) = "unborn" /\ LifeOf(a)' = "pending"
      BY <2>1, <2>2 DEF LifeOf
    <2>4. \A r \in R \cap Rows : LifeOf(r) \notin {"unborn", "replaced"}
      BY LifeOfRow
    <2>5. ASSUME NEW b \in AccountIds, b # a
          PROVE  LifeOf(b)' = IF b \in R \cap Rows THEN "replaced" ELSE LifeOf(b)
      <3>1. CASE b \in R \cap Rows
        BY <2>1, <2>2, <2>5, <3>1 DEF LifeOf
      <3>2. CASE b \notin R \cap Rows /\ b \in Rows
        BY <2>1, <2>2, <2>5, <3>2 DEF LifeOf
      <3>3. CASE b \notin Rows
        BY <2>1, <2>2, <2>5, <3>3 DEF LifeOf
      <3> QED
        BY <3>1, <3>2, <3>3
    <2>6. Lives' = [b \in AccountIds |-> CASE b = a -> "pending"
                                            [] b \in R \cap Rows -> "replaced"
                                            [] OTHER -> Lives[b]]
      <3>1. ASSUME NEW b \in AccountIds
            PROVE  LifeOf(b)' = CASE b = a -> "pending"
                                  [] b \in R \cap Rows -> "replaced"
                                  [] OTHER -> LifeOf(b)
        BY <2>2, <2>3, <2>5
      <3> QED
        BY <3>1 DEF Lives
    <2>7. Life!Authorize(a, R \cap Rows)
      BY <2>3, <2>4, <2>6 DEF Life!Authorize, Lives
    <2> QED
      BY <2>7 DEF Life!ANext
  <1>2. ASSUME NEW a \in AccountIds, a \in Rows, Rows' = Rows, UNCHANGED minted,
               \A b \in AccountIds \ {a} : accounts'[b] = accounts[b]
        PROVE  Lives[a] = accounts[a].status /\ Lives' = [Lives EXCEPT ![a] = accounts'[a].status]
    <2>1. LifeOf(a)' = accounts'[a].status /\ Lives[a] = accounts[a].status
      BY <1>2 DEF LifeOf, Lives
    <2>2. \A b \in AccountIds \ {a} : LifeOf(b)' = LifeOf(b)
      BY <1>2 DEF LifeOf
    <2> QED
      BY <2>1, <2>2 DEF Lives
  <1>3. ASSUME NEW a \in AccountIds, NEW e \in Nat, Activated(a, e)
        PROVE  Life!ANext
    <2>1. /\ Rows' = Rows /\ a \in Rows
          /\ \A b \in AccountIds \ {a} : accounts'[b] = accounts[b]
          /\ accounts'[a] = [scope |-> accounts[a].scope, status |-> "active",
                              verifier |-> FALSE, exp |-> e]
      BY <1>3, ActivatedRow
    <2>2. accounts'[a].status = "active" /\ accounts[a].status = "pending" /\ minted' = minted
      BY <1>3, <2>1 DEF Activated
    <2>3. Lives[a] = "pending" /\ Lives' = [Lives EXCEPT ![a] = "active"]
      BY <1>2, <2>1, <2>2
    <2>4. Life!Complete(a)
      BY <2>3 DEF Life!Complete, Life!Become, Lives
    <2> QED
      BY <2>4 DEF Life!ANext
  <1>4. ASSUME NEW a \in AccountIds, Closed(a)
        PROVE  Life!ANext
    <2>1. /\ Rows' = Rows /\ a \in Rows
          /\ \A b \in AccountIds \ {a} : accounts'[b] = accounts[b]
          /\ accounts'[a] = [scope |-> accounts[a].scope, status |-> "revoked",
                              verifier |-> FALSE, exp |-> accounts[a].exp]
      BY <1>4, ClosedRow
    <2>2. accounts'[a].status = "revoked" /\ accounts[a].status \in {"pending", "active"} /\ minted' = minted
      BY <1>4, <2>1 DEF Closed
    <2>3. Lives[a] \in {"pending", "active"} /\ Lives' = [Lives EXCEPT ![a] = "revoked"]
      BY <1>2, <2>1, <2>2
    <2>4. Life!Disconnect(a)
      BY <2>3 DEF Life!Disconnect, Life!Become, Lives
    <2> QED
      BY <2>4 DEF Life!ANext
  <1>5. ASSUME NEW a \in AccountIds, Expired(a)
        PROVE  Life!ANext
    <2>1. /\ Rows' = Rows /\ a \in Rows
          /\ \A b \in AccountIds \ {a} : accounts'[b] = accounts[b]
          /\ accounts'[a] = [scope |-> accounts[a].scope, status |-> "expired",
                              verifier |-> accounts[a].verifier, exp |-> accounts[a].exp]
      BY <1>5, ExpiredRow
    <2>2. accounts'[a].status = "expired" /\ accounts[a].status = "active" /\ minted' = minted
      BY <1>5, <2>1 DEF Expired
    <2>3. Lives[a] = "active" /\ Lives' = [Lives EXCEPT ![a] = "expired"]
      BY <1>2, <2>1, <2>2
    <2>4. Life!Expire(a)
      BY <2>3 DEF Life!Expire, Life!Become, Lives
    <2> QED
      BY <2>4 DEF Life!ANext
  <1>6. ASSUME UNCHANGED <<accounts, minted>> PROVE UNCHANGED Lives
    BY <1>6 DEF Lives, LifeOf, Rows
  <1> QED
    BY <1>1, <1>3, <1>4, <1>5, <1>6 DEF RowStep, Untouched, ClosedBefore

\* Under every interleaving of authorize, complete, disconnect and the sweep the accounts
\* move along the declared lifecycle: each step of the flow is one of its steps or none.
THEOREM AccountsFollowLifecycle == Spec => ImplementsAccountLifecycle
  <1>1. Init => Life!AInit
    BY DEF Init, Life!AInit, LifeOf, Rows
  <1>2. FlowInv /\ [Next]_vars => [Life!ANext]_Lives
    <2> SUFFICES ASSUME FlowInv, [Next]_vars PROVE [Life!ANext]_Lives
      OBVIOUS
    <2>1. TypeOK /\ Minted /\ TypeOK' /\ RowStep
      BY FlowTyped, FlowStep DEF FlowInv, Ledger
    <2> QED
      BY <2>1, LifeStep
  <1> QED
    BY <1>1, <1>2, FlowInvariant, PTL DEF Spec, ImplementsAccountLifecycle, Life!ASpec, Lives
-----------------------------------------------------------------------------
(* Calls that do not overlap.                                              *)

\* At most one request is in flight.
OneAtATime == \A c, d \in Calls : c = d

OnPending == {"verifier", "exchange", "carry", "issue", "rotate", "activate"}

\* What a call knows when no other one runs: what it read still holds after its awaits.
Alone(c) ==
    /\ pc[c] = "insert" => \A a \in Rows : accounts[a].scope = scp[c] => a \in seen[c]
    /\ pc[c] \in OnPending => /\ acc[c] \in Rows /\ accounts[acc[c]].scope = scp[c]
                              /\ accounts[acc[c]].status = "pending"
    /\ pc[c] \in {"revoke", "close"} => acc[c] \in Rows /\ accounts[acc[c]].scope = scp[c]
    /\ pc[c] = "close" => store[scp[c]].live = None
    /\ pc[c] = "activate" => store[scp[c]].live = bundle[c]
    /\ wrote[c] => pc[c] = "activate"

Sound == OneAccountPerScope /\ RevokedIsDead /\ MirrorIsStore

SerialInv == Sound /\ \A c \in Calls : Alone(c)

LEMMA SoundKept ==
    ASSUME Sound, UNCHANGED <<accounts, store>>
    PROVE  Sound'
  BY DEF Sound, OneAccountPerScope, RevokedIsDead, MirrorIsStore, Rows

LEMMA EndAlone ==
    ASSUME CallsTyped, NEW c \in Calls, NEW v, End(c, v)
    PROVE  Alone(c)' /\ verdict'[c] = v
  <1>1. pc'[c] = "idle" /\ wrote'[c] = FALSE /\ verdict'[c] = v
    BY DEF CallsTyped, End, Goto
  <1> QED
    BY <1>1 DEF Alone, OnPending

LEMMA RefuseAlone ==
    ASSUME FlowInv, SerialInv, NEW c \in Calls, Refuse(c)
    PROVE  Sound' /\ Alone(c)'
  <1>1. CallsTyped /\ Sound
    BY TwoHalves DEF FlowInv, SerialInv
  <1>2. Sound'
    BY <1>1, SoundKept DEF Refuse
  <1> QED
    BY <1>1, <1>2, EndAlone DEF Refuse

LEMMA AuthorizeAlone ==
    ASSUME FlowInv, SerialInv, NEW c \in Calls, Authorizing(c)
    PROVE  Sound' /\ Alone(c)'
  <1>0. CallsTyped /\ TypeOK /\ Sound /\ Alone(c) /\ Holds(c) /\ Minted
    BY TwoHalves DEF FlowInv, SerialInv, Ledger
  <1>1. ASSUME NEW s \in Scopes, AuthorizeDelete(c, s) PROVE Sound' /\ Alone(c)'
    <2>1. Sound'
      BY <1>0, <1>1, SoundKept DEF AuthorizeDelete
    <2>2. pc'[c] = "insert" /\ scp'[c] = s
      BY <1>0, <1>1, BeginStays DEF AuthorizeDelete
    <2>3. seen'[c] = {a \in Rows : accounts[a].scope = s} /\ accounts' = accounts
      BY <1>0, <1>1 DEF AuthorizeDelete, CallsTyped
    <2>4. ~wrote'[c]
      BY <1>0, <1>1 DEF AuthorizeDelete, Begin, Alone
    <2> QED
      BY <2>1, <2>2, <2>3, <2>4 DEF Alone, OnPending, Rows
  <1>2. CASE AuthorizeInsert(c)
    <2>1. CASE Refuse(c)
      BY <2>1, RefuseAlone
    <2>2. ASSUME NEW a \in AccountIds,
                 ~(UniqueScope /\ \E b \in Rows \ seen[c] : accounts[b].scope = scp[c]),
                 minted[a] = None,
                 accounts' = [b \in AccountIds |->
                    CASE b = a -> [scope |-> scp[c], status |-> "pending",
                                   verifier |-> TRUE, exp |-> None]
                      [] b \in seen[c] -> None
                      [] OTHER -> accounts[b]],
                 minted' = [minted EXCEPT ![a] = now + StateTTL],
                 End(c, "ok"), UNCHANGED <<store, history>>
          PROVE  Sound' /\ Alone(c)'
      <3>1. scp[c] \in Scopes /\ seen[c] \in SUBSET AccountIds /\ \A r \in seen[c] : minted[r] # None
        BY <1>0, <1>2 DEF AuthorizeInsert, Holds, CallsTyped
      <3>2. Inserted(a, scp[c], seen[c])
        BY <2>2, <3>1 DEF Inserted
      <3>3. /\ Rows' = (Rows \ seen[c]) \cup {a}
            /\ accounts'[a] = [scope |-> scp[c], status |-> "pending", verifier |-> TRUE, exp |-> None]
            /\ \A b \in (Rows \ seen[c]) \ {a} : accounts'[b] = accounts[b]
            /\ minted'[a] # None
            /\ \A b \in AccountIds \ {a} : minted'[b] = minted[b]
        BY <1>0, <3>1, <3>2, InsertedRows
      <3>4. accounts'[a].scope = scp[c] /\ accounts'[a].status = "pending"
        BY <3>3
      <3>5. \A b \in Rows \ seen[c] : accounts[b].scope # scp[c]
        BY <1>0, <1>2 DEF AuthorizeInsert, Alone
      <3>6. OneAccountPerScope'
        BY <1>0, <3>3, <3>4, <3>5 DEF Sound, OneAccountPerScope
      <3>7. RevokedIsDead'
        BY <1>0, <2>2, <3>3, <3>4 DEF Sound, RevokedIsDead
      <3>8. MirrorIsStore'
        BY <1>0, <2>2, <3>3, <3>4 DEF Sound, MirrorIsStore
      <3>9. Alone(c)'
        BY <1>0, <2>2, EndAlone
      <3> QED
        BY <3>6, <3>7, <3>8, <3>9 DEF Sound
    <2> QED
      BY <1>2, <2>1, <2>2 DEF AuthorizeInsert
  <1> QED
    BY <1>1, <1>2 DEF Authorizing

LEMMA CompleteAlone ==
    ASSUME FlowInv, SerialInv, NEW c \in Calls, Completing(c)
    PROVE  Sound' /\ Alone(c)'
  <1>0. CallsTyped /\ TypeOK /\ Sound /\ Alone(c) /\ Holds(c)
    BY TwoHalves DEF FlowInv, SerialInv
  <1>1. ASSUME NEW a \in AccountIds, CompleteVerify(c, a) PROVE Sound' /\ Alone(c)'
    <2>1. Sound'
      BY <1>0, <1>1, SoundKept DEF CompleteVerify
    <2>2. pc'[c] = "verifier" /\ acc'[c] = a /\ scp'[c] = accounts[a].scope
      BY <1>0, <1>1, BeginStays DEF CompleteVerify
    <2>3. ~wrote'[c] /\ a \in Rows /\ accounts[a].status = "pending" /\ accounts' = accounts
      BY <1>0, <1>1 DEF CompleteVerify, Begin, Alone
    <2> QED
      BY <2>1, <2>2, <2>3 DEF Alone, OnPending, Rows
  \* The steps that only move the call on, before the store is written.
  <1>2. ASSUME NEW p \in {"exchange", "carry", "issue", "rotate"}, pc[c] \in OnPending \ {"activate"},
               Goto(c, p), Stay(c), UNCHANGED <<accounts, store, wrote>>
        PROVE  Sound' /\ Alone(c)'
    <2>1. Sound'
      BY <1>0, <1>2, SoundKept
    <2>2. pc'[c] = p /\ acc'[c] = acc[c] /\ scp'[c] = scp[c] /\ ~wrote'[c]
      BY <1>0, <1>2 DEF CallsTyped, Goto, Stay, Alone, OnPending
    <2> QED
      BY <1>0, <1>2, <2>1, <2>2 DEF Alone, OnPending, Rows
  <1>3. CASE CompleteReadVerifier(c)
    BY <1>2, <1>3, RefuseAlone DEF CompleteReadVerifier, OnPending
  <1>4. CASE CompleteExchange(c)
    <2>1. ASSUME NEW life \in Lifetimes, NEW r \in BOOLEAN,
                 Goto(c, IF r THEN "issue" ELSE "carry"), Stay(c),
                 UNCHANGED <<accounts, store, wrote>>
          PROVE  Sound' /\ Alone(c)'
      <3>1. (IF r THEN "issue" ELSE "carry") \in {"exchange", "carry", "issue", "rotate"}
        OBVIOUS
      <3> QED
        BY <1>2, <1>4, <2>1, <3>1 DEF CompleteExchange, OnPending
    <2>2. ASSUME End(c, "refused"), UNCHANGED <<accounts, store>>
          PROVE  Sound' /\ Alone(c)'
      BY <1>0, <2>2, SoundKept, EndAlone
    <2> QED
      BY <1>4, <2>1, <2>2, RefuseAlone DEF CompleteExchange
  <1>5. CASE CompleteCarry(c)
    BY <1>2, <1>5 DEF CompleteCarry, OnPending
  <1>6. ASSUME Store(c), pc[c] \in {"issue", "rotate"}
        PROVE  Sound' /\ Alone(c)'
    <2>1. /\ scp[c] \in Scopes /\ bundle[c] \in Bundle /\ acc[c] \in Rows
          /\ accounts[acc[c]].scope = scp[c] /\ accounts[acc[c]].status = "pending"
      BY <1>0, <1>6 DEF Holds, OnAccount, OnBundle, Alone, OnPending
    <2>2. /\ store'[scp[c]].live = bundle[c]
          /\ \A s \in Scopes \ {scp[c]} : store'[s] = store[s]
          /\ accounts' = accounts
      BY <1>0, <1>6, <2>1 DEF Store, Holding, TypeOK
    <2>3. \A a \in Rows : accounts[a].scope \in Scopes /\ (accounts[a].scope = scp[c] => a = acc[c])
      BY <1>0, <2>1, RowTyped DEF Sound, OneAccountPerScope, Account
    <2>4. OneAccountPerScope'
      BY <1>0, <2>2 DEF Sound, OneAccountPerScope, Rows
    <2>5. RevokedIsDead'
      BY <1>0, <2>1, <2>2, <2>3 DEF Sound, RevokedIsDead, Rows
    <2>6. MirrorIsStore'
      BY <1>0, <2>1, <2>2, <2>3 DEF Sound, MirrorIsStore, Rows
    <2>7. pc'[c] = "activate" /\ acc'[c] = acc[c] /\ scp'[c] = scp[c] /\ bundle'[c] = bundle[c]
      BY <1>0, <1>6 DEF CallsTyped, Store, Goto, Stay
    <2> QED
      BY <2>1, <2>2, <2>4, <2>5, <2>6, <2>7 DEF Sound, Alone, OnPending, Rows
  <1>7. CASE CompleteIssue(c)
    BY <1>2, <1>6, <1>7, RefuseAlone DEF CompleteIssue, OnPending
  <1>8. CASE CompleteRotate(c)
    BY <1>6, <1>8, RefuseAlone DEF CompleteRotate
  <1>9. CASE CompleteActivate(c)
    <2>1. CASE Refuse(c)
      BY <2>1, RefuseAlone
    <2>2. CASE StillPending(acc[c]) /\ ~Refuse(c)
      <3>1. /\ acc[c] \in AccountIds /\ bundle[c] \in Bundle /\ acc[c] \in storedFor
            /\ accounts[acc[c]].scope = scp[c] /\ store[scp[c]].live = bundle[c]
        BY <1>0, <1>9 DEF Holds, OnAccount, OnBundle, CompleteActivate, Alone, OnPending
      <3>2. bundle[c].exp \in Nat
        BY <3>1 DEF Bundle
      <3>3. Activated(acc[c], bundle[c].exp) /\ store' = store
        BY <1>9, <2>2, <3>1 DEF Activated, CompleteActivate, StillPending
      <3>4. /\ Rows' = Rows /\ acc[c] \in Rows
            /\ \A b \in AccountIds \ {acc[c]} : accounts'[b] = accounts[b]
            /\ accounts'[acc[c]] = [scope |-> accounts[acc[c]].scope, status |-> "active",
                                    verifier |-> FALSE, exp |-> bundle[c].exp]
        BY <1>0, <3>1, <3>2, <3>3, ActivatedRow
      <3>5. /\ accounts'[acc[c]].scope = accounts[acc[c]].scope
            /\ accounts'[acc[c]].status = "active" /\ accounts'[acc[c]].exp = bundle[c].exp
        BY <3>4
      <3>6. OneAccountPerScope'
        BY <1>0, <3>4, <3>5 DEF Sound, OneAccountPerScope, Rows
      <3>7. RevokedIsDead'
        BY <1>0, <3>3, <3>4, <3>5 DEF Sound, RevokedIsDead, Rows
      <3>8. MirrorIsStore'
        BY <1>0, <3>1, <3>3, <3>4, <3>5 DEF Sound, MirrorIsStore, Rows
      <3>9. Alone(c)'
        BY <1>0, <1>9, <2>2, EndAlone DEF CompleteActivate
      <3> QED
        BY <3>6, <3>7, <3>8, <3>9 DEF Sound
    <2> QED
      BY <1>9, <2>1, <2>2 DEF CompleteActivate
  <1> QED
    BY <1>1, <1>3, <1>4, <1>5, <1>7, <1>8, <1>9 DEF Completing

LEMMA DisconnectAlone ==
    ASSUME FlowInv, SerialInv, NEW c \in Calls, Disconnecting(c)
    PROVE  Sound' /\ Alone(c)'
  <1>0. CallsTyped /\ TypeOK /\ Sound /\ Alone(c) /\ Holds(c)
    BY TwoHalves DEF FlowInv, SerialInv
  <1>1. ASSUME NEW a \in AccountIds, DisconnectFetch(c, a) PROVE Sound' /\ Alone(c)'
    <2>1. Sound' /\ a \in Rows /\ accounts' = accounts /\ store' = store /\ seen' = seen
      BY <1>0, <1>1, SoundKept DEF DisconnectFetch
    <2>2. CASE accounts[a].status = "revoked"
      <3>1. UNCHANGED <<pc, acc, scp, bundle, wrote>>
        BY <1>1, <2>2 DEF DisconnectFetch
      <3> QED
        BY <1>0, <2>1, <3>1 DEF Alone, Rows
    <2>3. CASE accounts[a].status # "revoked"
      <3>1. Begin(c, "revoke", a, accounts[a].scope)
        BY <1>1, <2>3 DEF DisconnectFetch
      <3>2. pc'[c] = "revoke" /\ acc'[c] = a /\ scp'[c] = accounts[a].scope
        BY <1>0, <3>1, BeginStays
      <3>3. ~wrote'[c]
        BY <1>0, <3>1 DEF Begin, Alone
      <3> QED
        BY <2>1, <3>2, <3>3 DEF Alone, OnPending, Rows
    <2> QED
      BY <2>2, <2>3
  <1>2. CASE DisconnectRevoke(c)
    <2>1. CASE Refuse(c)
      BY <2>1, RefuseAlone
    <2>2. CASE ~Refuse(c)
      <3>1. scp[c] \in Scopes /\ acc[c] \in Rows /\ accounts[acc[c]].scope = scp[c]
        BY <1>0, <1>2 DEF Holds, OnAccount, DisconnectRevoke, Alone
      <3>2. accounts' = accounts /\ store' = [store EXCEPT ![scp[c]] = Revoked(@)]
        BY <1>2, <2>2 DEF DisconnectRevoke
      <3>3. store'[scp[c]].live = None /\ \A s \in Scopes \ {scp[c]} : store'[s] = store[s]
        BY <1>0, <3>1, <3>2 DEF Revoked, TypeOK
      <3>4. \A a \in Rows : accounts[a].scope \in Scopes
        BY <1>0, RowTyped DEF Account
      <3>5. Sound'
        BY <1>0, <3>2, <3>3, <3>4 DEF Sound, OneAccountPerScope, RevokedIsDead, MirrorIsStore, Rows
      <3>6. pc'[c] = "close" /\ acc'[c] = acc[c] /\ scp'[c] = scp[c] /\ ~wrote'[c]
        BY <1>0, <1>2, <2>2 DEF CallsTyped, DisconnectRevoke, Goto, Stay, Alone
      <3> QED
        BY <3>1, <3>2, <3>3, <3>5, <3>6 DEF Alone, OnPending, Rows
    <2> QED
      BY <2>1, <2>2
  <1>3. CASE DisconnectClose(c)
    <2>1. Alone(c)' /\ store' = store
      BY <1>0, <1>3, EndAlone DEF DisconnectClose
    <2>2. ASSUME ~Closable(acc[c]) PROVE Sound'
      BY <1>0, <1>3, <2>2, SoundKept DEF DisconnectClose
    <2>3. ASSUME Closable(acc[c]) PROVE Sound'
      <3>1. acc[c] \in AccountIds /\ accounts[acc[c]].scope = scp[c] /\ store[scp[c]].live = None
        BY <1>0, <1>3 DEF Holds, OnAccount, DisconnectClose, Alone
      <3>2. Closed(acc[c])
        BY <1>3, <2>3 DEF DisconnectClose, Closable, Closed
      <3>3. /\ Rows' = Rows /\ acc[c] \in Rows
            /\ \A b \in AccountIds \ {acc[c]} : accounts'[b] = accounts[b]
            /\ accounts'[acc[c]] = [scope |-> accounts[acc[c]].scope, status |-> "revoked",
                                    verifier |-> FALSE, exp |-> accounts[acc[c]].exp]
        BY <1>0, <3>1, <3>2, ClosedRow
      <3>4. accounts'[acc[c]].scope = accounts[acc[c]].scope /\ accounts'[acc[c]].status = "revoked"
        BY <3>3
      <3>5. OneAccountPerScope'
        BY <1>0, <3>3, <3>4 DEF Sound, OneAccountPerScope, Rows
      <3>6. RevokedIsDead'
        BY <1>0, <2>1, <3>1, <3>3, <3>4 DEF Sound, RevokedIsDead, Rows
      <3>7. MirrorIsStore'
        BY <1>0, <2>1, <3>1, <3>3, <3>4 DEF Sound, MirrorIsStore, Rows
      <3> QED
        BY <3>5, <3>6, <3>7 DEF Sound
    <2> QED
      BY <2>1, <2>2, <2>3
  <1> QED
    BY <1>1, <1>2, <1>3 DEF Disconnecting

\* The steps that belong to no call.
LEMMA SweepAlone ==
    ASSUME FlowInv, SerialInv, NEW a \in AccountIds, SweepExpire(a)
    PROVE  SerialInv'
  <1>0. TypeOK /\ Sound /\ \A c \in Calls : Alone(c)
    BY DEF FlowInv, SerialInv
  <1>1. Expired(a) /\ store' = store /\ UNCHANGED <<pc, acc, scp, seen, bundle, wrote>>
    BY DEF SweepExpire, Expired
  <1>2. /\ Rows' = Rows /\ a \in Rows
        /\ \A b \in AccountIds \ {a} : accounts'[b] = accounts[b]
        /\ accounts'[a] = [scope |-> accounts[a].scope, status |-> "expired",
                           verifier |-> accounts[a].verifier, exp |-> accounts[a].exp]
    BY <1>0, <1>1, ExpiredRow
  <1>3. /\ accounts'[a].scope = accounts[a].scope /\ accounts'[a].status = "expired"
        /\ accounts[a].status = "active"
    BY <1>1, <1>2 DEF Expired
  <1>4. OneAccountPerScope'
    BY <1>0, <1>2, <1>3 DEF Sound, OneAccountPerScope, Rows
  <1>5. RevokedIsDead'
    BY <1>0, <1>1, <1>2, <1>3 DEF Sound, RevokedIsDead, Rows
  <1>6. MirrorIsStore'
    BY <1>0, <1>1, <1>2, <1>3 DEF Sound, MirrorIsStore, Rows
  <1>7. \A b \in Rows : accounts'[b].scope = accounts[b].scope
                        /\ (accounts[b].status = "pending" => accounts'[b].status = "pending")
    BY <1>2, <1>3 DEF Rows
  <1>8. ASSUME NEW c \in Calls PROVE Alone(c)'
    BY <1>0, <1>1, <1>2, <1>7 DEF Alone
  <1> QED
    BY <1>4, <1>5, <1>6, <1>8 DEF SerialInv, Sound

LEMMA SerialNext ==
    ASSUME OneAtATime, FlowInv, SerialInv, [Next]_vars
    PROVE  SerialInv'
  <1>1. ASSUME NEW c \in Calls, Sound' /\ Alone(c)' PROVE SerialInv'
    <2>1. \A d \in Calls : d = c
      BY DEF OneAtATime
    <2> QED
      BY <1>1, <2>1 DEF SerialInv
  <1>2. ASSUME NEW c \in Calls, Authorizing(c) \/ Completing(c) \/ Disconnecting(c)
        PROVE  SerialInv'
    BY <1>1, <1>2, AuthorizeAlone, CompleteAlone, DisconnectAlone
  <1>3. ASSUME NEW c \in Calls, Abort(c) PROVE SerialInv'
    <2>1. CallsTyped /\ Sound
      BY TwoHalves DEF FlowInv, SerialInv
    <2>2. Sound'
      BY <1>3, <2>1, SoundKept DEF Abort
    <2>3. Alone(c)'
      BY <1>3, <2>1, EndAlone DEF Abort
    <2> QED
      BY <1>1, <2>2, <2>3
  <1>6. ASSUME NEW c \in Calls, Fail(c) PROVE SerialInv'
    BY <1>1, <1>6, RefuseAlone DEF Fail
  <1>4. ASSUME NEW a \in AccountIds, SweepExpire(a) PROVE SerialInv'
    BY <1>4, SweepAlone
  <1>5. CASE Tick \/ UNCHANGED vars
    <2>1. UNCHANGED <<accounts, store, pc, acc, scp, seen, bundle, wrote>>
      BY <1>5 DEF Tick, vars
    <2>2. Sound'
      BY <2>1, SoundKept DEF SerialInv
    <2>3. ASSUME NEW c \in Calls PROVE Alone(c)'
      BY <2>1 DEF SerialInv, Alone, Rows
    <2> QED
      BY <2>2, <2>3 DEF SerialInv
  <1> QED
    BY <1>2, <1>3, <1>4, <1>5, <1>6 DEF Next

\* Requests that do not overlap find what they read unchanged after their awaits, and
\* leave the tables sound, whatever fails or stops between two writes.
THEOREM SerialInvariant == ASSUME OneAtATime PROVE Spec => []SerialInv
  <1>1. Init => SerialInv
    <2> SUFFICES ASSUME Init PROVE SerialInv
      OBVIOUS
    <2>1. Rows = {}
      BY DEF Init, Rows
    <2> QED
      BY <2>1 DEF Init, SerialInv, Sound, Alone, OnPending, OneAccountPerScope, RevokedIsDead,
                  MirrorIsStore
  <1>2. FlowInv /\ SerialInv /\ [Next]_vars => SerialInv'
    BY SerialNext
  <1> QED
    BY <1>1, <1>2, FlowInvariant, PTL DEF Spec

\* Without overlap a revoked account has no live credential in the store.
THEOREM RevokedIsDeadWhenSerial == ASSUME OneAtATime PROVE Spec => []RevokedIsDead
  <1>1. SerialInv => RevokedIsDead
    BY DEF SerialInv, Sound
  <1> QED
    BY <1>1, SerialInvariant, PTL

\* Without overlap the expires_at of an active account is its credential's expiry.
THEOREM MirrorIsStoreWhenSerial == ASSUME OneAtATime PROVE Spec => []MirrorIsStore
  <1>1. SerialInv => MirrorIsStore
    BY DEF SerialInv, Sound
  <1> QED
    BY <1>1, SerialInvariant, PTL
=============================================================================
