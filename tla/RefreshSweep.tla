---------------------------- MODULE RefreshSweep ----------------------------
(***************************************************************************)
(* Refresh before expiry: the scheduled job (refresh_oauth_credentials)    *)
(* and the service's own refresh_due and ensure_fresh, over the active     *)
(* accounts, the company-scoped credential store and the provider, with    *)
(* disconnects going on at the same time.                                  *)
(*                                                                         *)
(* A runner works through one account after another, each in a transaction *)
(* that holds the row lock from the claim to the commit or rollback.  The  *)
(* claim skips locked rows; any other writer of the row waits for it.      *)
(***************************************************************************)
EXTENDS Naturals, FiniteSets, CredentialStore

CONSTANTS
    Accounts, Companies,
    OwnerOf,           \* the company whose store holds the account's credential
    Jobs, Services,    \* runners of the job, and of refresh_due / ensure_fresh
    Window,            \* refresh_window_seconds
    Batch,             \* refresh_batch_size
    Interval,          \* a run is over this long after the one before it began
    FirstExpiry,       \* when the tokens obtained on connecting may expire
    Life,              \* expires_in of a refreshed token
    MaxTime,           \* bounds the clock
    Rotating,          \* accounts whose provider replaces the refresh token on use
    Unconfigured,      \* accounts whose provider has no usable endpoint or client config
    Flaky,             \* accounts whose provider may answer an error at any time
    Glitches,          \* how many calls to provider or store may fail in transit
    MaxCrashes,        \* how many runners may die
    GrantsDie          \* whether users withdraw consent at the provider

Runners == Jobs \cup Services

ASSUME SweepAssumption ==
    /\ OwnerOf \in [Accounts -> Companies]
    /\ Window \in Nat /\ Batch \in Nat /\ Interval \in Nat \ {0} /\ Life \in Nat \ {0}
    /\ FirstExpiry \subseteq Nat /\ MaxTime \in Nat /\ Glitches \in Nat /\ MaxCrashes \in Nat
    /\ Rotating \cup Flaky \cup Unconfigured \subseteq Accounts
    /\ GrantsDie \in BOOLEAN
    /\ Jobs \cap Services = {}
    /\ None \notin Accounts \cup Companies \cup Runners

VARIABLES
    acct,     \* the account rows: status and the expires_at mirror
    cell,     \* the owner's cell of the credential store, per account
    grant,    \* the refresh token the provider accepts (0: consent withdrawn)
    lock,     \* row locks
    closing,  \* accounts whose disconnect has revoked the credential, not yet the row
    now,
    pc, run, cur, got,   \* per runner
    lastRun,  \* per runner: when the last run that finished had started
    glitches, crashes

vars == <<acct, cell, grant, lock, closing, now, pc, run, cur, got, lastRun, glitches, crashes>>

\* A refresh token is a number; 0 stands for a bundle without one.
Bundle == [exp : Nat, token : Nat]
Run == [company : Companies, start : Nat, batch : {0, Batch}, claims : 0..Batch,
        attempted : SUBSET Accounts]

TypeOK ==
    /\ acct \in [Accounts -> [status : {"active", "expired", "revoked"}, exp : Nat]]
    /\ cell \in [Accounts -> [live : Bundle \cup {None}, ever : BOOLEAN]]
    /\ grant \in [Accounts -> Nat]
    /\ lock \in [Accounts -> Runners \cup {None}]
    /\ closing \subseteq Accounts
    /\ now \in 0..MaxTime
    /\ pc \in [Runners -> {"idle", "claim", "ensure", "read", "exchange", "rotate", "mirror"}]
    /\ run \in [Runners -> Run \cup {None}]
    /\ cur \in [Runners -> Accounts \cup {None}]
    /\ got \in [Runners -> Bundle \cup {None}]
    /\ lastRun \in [Runners -> Nat]
    /\ glitches \in 0..Glitches /\ crashes \in 0..MaxCrashes

\* Connected accounts: active, mirrored, with or without a refresh token.
Init ==
    /\ \E e \in [Accounts -> FirstExpiry], t \in [Accounts -> {0, 1}] :
         /\ acct = [a \in Accounts |-> [status |-> "active", exp |-> e[a]]]
         /\ cell = [a \in Accounts |-> Holding([exp |-> e[a], token |-> t[a]])]
    /\ grant = [a \in Accounts |-> 1]
    /\ lock = [a \in Accounts |-> None]
    /\ closing = {} /\ now = 0
    /\ pc = [r \in Runners |-> "idle"] /\ run = [r \in Runners |-> None]
    /\ cur = [r \in Runners |-> None] /\ got = [r \in Runners |-> None]
    /\ lastRun = [r \in Runners |-> 0]
    /\ glitches = 0 /\ crashes = 0

-----------------------------------------------------------------------------
(* The run: claim, process, next.                                          *)

others == <<cell, grant, closing, now, crashes>>

Start(r, co, batch) ==
    run' = [run EXCEPT ![r] = [company |-> co, start |-> now, batch |-> batch,
                               claims |-> 0, attempted |-> {}]]

\* The tick of the schedule (or an overlapping manual run), for one company.
StartRun(r, co) ==
    /\ pc[r] = "idle"
    /\ Start(r, co, Batch)
    /\ pc' = [pc EXCEPT ![r] = "claim"]
    /\ UNCHANGED <<acct, lock, cur, got, lastRun, glitches, others>>

\* Mutation: without the window.
DueAtExpiry(a) == acct[a].status = "active" /\ acct[a].exp <= now

\* expires_at < now + window
Due(a) == acct[a].status = "active" /\ acct[a].exp < now + Window

\* Mutations: the claim is a plain SELECT; the job does not remember its attempts.
ClaimableUnlocked(r, a) == Due(a) /\ (r \in Jobs => a \notin run[r].attempted)
ClaimableAgain(r, a) == Due(a) /\ lock[a] = None

\* The job leaves out what this run has attempted; refresh_due does not.
Claimable(r, a) ==
    /\ Due(a)
    /\ lock[a] = None
    /\ r \in Jobs => a \notin run[r].attempted

\* The oldest due account, locked in a transaction of its own.
Claim(r) ==
    /\ pc[r] = "claim"
    /\ run[r].claims < run[r].batch
    /\ \E a \in Accounts :
         /\ Claimable(r, a)
         /\ \A b \in Accounts : Claimable(r, b) => acct[a].exp <= acct[b].exp
         /\ lock' = [lock EXCEPT ![a] = r]
         /\ cur' = [cur EXCEPT ![r] = a]
         /\ run' = [run EXCEPT ![r].claims = @ + 1, ![r].attempted = @ \cup {a}]
    /\ pc' = [pc EXCEPT ![r] = "read"]
    /\ UNCHANGED <<acct, got, lastRun, glitches, others>>

\* The batch is used up, or nothing claimable is due.
EndRun(r) ==
    /\ pc[r] = "claim"
    /\ run[r].claims = run[r].batch \/ \A a \in Accounts : ~Claimable(r, a)
    /\ pc' = [pc EXCEPT ![r] = "idle"]
    /\ lastRun' = [lastRun EXCEPT ![r] = run[r].start]
    /\ run' = [run EXCEPT ![r] = None]
    /\ UNCHANGED <<acct, lock, cur, got, glitches, others>>

\* ensure_fresh: the row is read and found due, then claimed by its id.
EnsureFresh(r, a, co) ==
    /\ r \in Services
    /\ pc[r] = "idle"
    /\ Due(a)
    /\ Start(r, co, 0)
    /\ cur' = [cur EXCEPT ![r] = a]
    /\ pc' = [pc EXCEPT ![r] = "ensure"]
    /\ UNCHANGED <<acct, lock, got, lastRun, glitches, others>>

EnsureClaim(r) ==
    /\ pc[r] = "ensure"
    /\ IF acct[cur[r]].status = "active" /\ lock[cur[r]] = None
       THEN /\ lock' = [lock EXCEPT ![cur[r]] = r]
            /\ pc' = [pc EXCEPT ![r] = "read"]
            /\ UNCHANGED cur
       ELSE /\ pc' = [pc EXCEPT ![r] = "claim"]
            /\ cur' = [cur EXCEPT ![r] = None]
            /\ UNCHANGED lock
    /\ UNCHANGED <<acct, run, got, lastRun, glitches, others>>

-----------------------------------------------------------------------------
(* One claimed account: refresh_one of the job, refresh_claimed of the     *)
(* service.  Every way out ends the transaction and releases the row.      *)

\* Commit with the row as given, and go on with the batch.
Settle(r, row) ==
    /\ acct' = [acct EXCEPT ![cur[r]] = row]
    /\ lock' = [lock EXCEPT ![cur[r]] = None]
    /\ pc' = [pc EXCEPT ![r] = "claim"]
    /\ cur' = [cur EXCEPT ![r] = None]
    /\ got' = [got EXCEPT ![r] = None]
    /\ UNCHANGED <<run, lastRun>>

Skip(r) == Settle(r, acct[cur[r]])
Expire(r) == Settle(r, [acct[cur[r]] EXCEPT !.status = "expired"])

\* An error that ends the whole run; the open transaction is rolled back.
Fail(r) ==
    /\ lock' = [a \in Accounts |-> IF lock[a] = r THEN None ELSE lock[a]]
    /\ pc' = [pc EXCEPT ![r] = "idle"]
    /\ run' = [run EXCEPT ![r] = None]
    /\ cur' = [cur EXCEPT ![r] = None]
    /\ got' = [got EXCEPT ![r] = None]
    /\ UNCHANGED <<acct, lastRun>>

Step(r, p) ==
    /\ pc' = [pc EXCEPT ![r] = p]
    /\ UNCHANGED <<acct, lock, run, cur, lastRun>>

Glitch == glitches < Glitches /\ glitches' = glitches + 1

\* Another company's store does not know the account.
CellFor(r) == IF run[r].company = OwnerOf[cur[r]] THEN cell[cur[r]] ELSE EmptyCell

\* store.read_token, and what follows from the answer.  The job looks for the
\* provider's configuration first, the service once it is about to exchange.
Read(r) ==
    LET c == CellFor(r) IN
    /\ pc[r] = "read"
    /\ \/ Glitch /\ Skip(r)
       \/ r \in Jobs /\ cur[r] \in Unconfigured /\ Skip(r) /\ UNCHANGED glitches
       \/ /\ r \in Services \/ cur[r] \notin Unconfigured
          /\ UNCHANGED glitches
          /\ \/ ReadCode(c, now) # "ok" /\ Expire(r)
             \/ /\ ReadCode(c, now) = "ok"
                /\ \/ /\ r \in Services /\ c.live.exp >= now + Window  \* only the mirror was stale
                      /\ Settle(r, [acct[cur[r]] EXCEPT !.exp = c.live.exp])
                   \/ /\ r \in Jobs \/ c.live.exp < now + Window
                      /\ IF c.live.token = 0
                         THEN Expire(r)
                         ELSE /\ got' = [got EXCEPT ![r] = c.live]
                              /\ Step(r, "exchange")
    /\ UNCHANGED others

\* What the provider's refresh grant does: a rotating provider replaces the token.
Successor(a, t) == IF a \in Rotating THEN t + 1 ELSE t

\* transport.exchange with the refresh token just read.
Exchange(r) ==
    LET a == cur[r]
        t == got[r].token
    IN
    /\ pc[r] = "exchange"
    /\ \/ /\ a \in Flaky \cup Unconfigured         \* left due
          /\ Skip(r)
          /\ UNCHANGED <<grant, glitches>>
       \/ /\ a \notin Unconfigured
          /\ Glitch                                \* the request or its answer is lost,
          /\ Skip(r)                               \* or the answer has no expires_in
          /\ grant' \in {grant, [grant EXCEPT ![a] = IF @ = t THEN Successor(a, t) ELSE @]}
       \/ /\ a \notin Unconfigured
          /\ UNCHANGED glitches
          /\ IF grant[a] # t
             THEN Expire(r) /\ UNCHANGED grant     \* invalid_grant
             ELSE /\ grant' = [grant EXCEPT ![a] = Successor(a, t)]
                  /\ got' = [got EXCEPT ![r] = [exp |-> now + Life, token |-> Successor(a, t)]]
                  /\ Step(r, "rotate")
    /\ UNCHANGED <<cell, closing, now, crashes>>

\* Mutations: a rotation that stores whatever the cell holds; a mirror that is
\* committed before the rotation.
RotateUpserts(r) ==
    /\ pc[r] = "rotate"
    /\ cell' = [cell EXCEPT ![cur[r]] = Holding(got[r])]
    /\ UNCHANGED got
    /\ Step(r, "mirror")
    /\ UNCHANGED <<grant, closing, now, glitches, crashes>>
RotateAfterMirror(r) ==
    /\ pc[r] = "rotate"
    /\ \/ /\ CanRotate(CellFor(r))
          /\ cell' = [cell EXCEPT ![cur[r]] = Holding(got[r])]
          /\ UNCHANGED got
          /\ Step(r, "mirror")
          /\ UNCHANGED glitches
       \/ /\ Glitch \/ (~CanRotate(CellFor(r)) /\ UNCHANGED glitches)
          /\ Settle(r, [acct[cur[r]] EXCEPT !.exp = got[r].exp])
          /\ UNCHANGED cell
    /\ UNCHANGED <<grant, closing, now, crashes>>

\* store.rotate.  The job tells an unreachable store from a refusal; the service
\* lets either end the run.
Rotate(r) ==
    /\ pc[r] = "rotate"
    /\ \/ /\ CanRotate(CellFor(r))
          /\ cell' = [cell EXCEPT ![cur[r]] = Holding(got[r])]
          /\ UNCHANGED got
          /\ Step(r, "mirror")
          /\ UNCHANGED glitches
       \/ /\ ~CanRotate(CellFor(r))
          /\ IF r \in Jobs THEN Expire(r) ELSE Fail(r)
          /\ UNCHANGED <<cell, glitches>>
       \/ /\ Glitch
          /\ IF r \in Jobs THEN Skip(r) ELSE Fail(r)
          /\ UNCHANGED cell
    /\ UNCHANGED <<grant, closing, now, crashes>>

\* The mirror moves to the successor's expiry; commit.
Mirror(r) ==
    /\ pc[r] = "mirror"
    /\ Settle(r, [acct[cur[r]] EXCEPT !.exp = got[r].exp])
    /\ UNCHANGED <<glitches, others>>

-----------------------------------------------------------------------------
(* What goes on around the runners.                                        *)

runners == <<pc, run, cur, got, lastRun>>

\* disconnect: the credential first, then the row, once nobody holds its lock.  Another
\* company's store answers not_found, which is tolerated.
DisconnectRevoke(a, co) ==
    /\ a \notin closing /\ acct[a].status # "revoked"
    /\ cell' = IF co = OwnerOf[a] THEN [cell EXCEPT ![a] = Revoked(@)] ELSE cell
    /\ closing' = closing \cup {a}
    /\ UNCHANGED <<acct, grant, lock, now, runners, glitches, crashes>>

DisconnectClose(a) ==
    /\ a \in closing
    /\ lock[a] = None
    /\ acct' = IF acct[a].status = "active"
               THEN [acct EXCEPT ![a].status = "revoked"] ELSE acct
    /\ closing' = closing \ {a}
    /\ UNCHANGED <<cell, grant, lock, now, runners, glitches, crashes>>

\* The user withdraws consent at the provider.
GrantDies(a) ==
    /\ GrantsDie /\ grant[a] # 0
    /\ grant' = [grant EXCEPT ![a] = 0]
    /\ UNCHANGED <<acct, cell, lock, closing, now, runners, glitches, crashes>>

\* The process of a runner dies; its connection drops the transaction.
Crash(r) ==
    /\ pc[r] # "idle" /\ crashes < MaxCrashes
    /\ crashes' = crashes + 1
    /\ Fail(r)
    /\ UNCHANGED <<cell, grant, closing, now, glitches>>

\* Time passes, within the schedule: a run of every job is over at most Interval
\* after its predecessor began.
Tick ==
    /\ now < MaxTime
    /\ \A r \in Jobs : now < lastRun[r] + Interval
    /\ now' = now + 1
    /\ UNCHANGED <<acct, cell, grant, lock, closing, runners, glitches, crashes>>

Working(r) == Claim(r) \/ EndRun(r) \/ EnsureClaim(r) \/ Read(r) \/ Exchange(r)
                \/ Rotate(r) \/ Mirror(r)

Next ==
    \/ \E r \in Runners, co \in Companies : StartRun(r, co)
    \/ \E r \in Services, a \in Accounts, co \in Companies : EnsureFresh(r, a, co)
    \/ \E r \in Runners : Working(r) \/ Crash(r)
    \/ \E a \in Accounts, co \in Companies : DisconnectRevoke(a, co)
    \/ \E a \in Accounts : DisconnectClose(a) \/ GrantDies(a)
    \/ Tick

Spec == Init /\ [][Next]_vars

\* The scheduler keeps starting runs, and a run that is going on goes on.
Fairness ==
    \A r \in Runners : /\ \A co \in Companies : WF_vars(StartRun(r, co))
                       /\ WF_vars(Working(r))
FairSpec == Spec /\ Fairness
=============================================================================
