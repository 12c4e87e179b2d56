------------------------ MODULE RefreshScheduleProofs ------------------------
(***************************************************************************)
(* Proofs about the schedule of the refresh job: no account is sent to     *)
(* reconnect that could have been refreshed, for any accounts, replicas of *)
(* the job, expiries and lifetimes that fit the schedule.                  *)
(***************************************************************************)
EXTENDS RefreshSweepProofs, FiniteSetTheorems

\* The deployment: the job alone refreshes, under the accounts' own company; a run takes
\* every due account; a run is over sooner after its predecessor than the window is long,
\* and a new token outlives the window.  A replica of the job finds rows locked that the
\* other one exchanged up to an interval ago, so with replicas a token must outlive two.
OnSchedule ==
    /\ Services = {} /\ OwnCompany
    /\ Glitches = 0 /\ MaxCrashes = 0
    /\ IsFiniteSet(Accounts) /\ Cardinality(Accounts) <= Batch
    /\ Interval < Window /\ Window <= Life
    /\ \A e \in FirstExpiry : Interval < e
    /\ \A q, r \in Jobs : q = r \/ Interval + Interval < Life

\* Accounts whose provider is configured and answers.
Served == Accounts \ (Flaky \cup Unconfigured)

\* The clock against the runs: each began after the one before it, and is not late.
Clock(r) ==
    /\ lastRun[r] <= now /\ now <= lastRun[r] + Interval
    /\ pc[r] # "idle" => lastRun[r] <= run[r].start /\ run[r].start <= now

\* A run that is under way has counted what it attempted.
Counted(r) ==
    pc[r] # "idle" => run[r].batch = Batch /\ run[r].claims = Cardinality(run[r].attempted)

\* What a finished run has looked at, and what this run has been through, can wait for
\* the next one.
Waits(r, a) ==
    acct[a].status = "active" =>
        /\ lock[a] \in {None, r} => lastRun[r] + Interval < acct[a].exp
        /\ pc[r] # "idle" /\ a \in run[r].attempted /\ lock[a] = None
              => run[r].start + Interval < acct[a].exp

\* The token in hand: as long as a lifetime from this run on, and the one the provider
\* accepts.
InHand(r) ==
    /\ pc[r] \in {"rotate", "mirror"} => run[r].start + Life <= got[r].exp
    /\ pc[r] = "exchange" => cell[cur[r]].live \in {None, got[r]} /\ got[r].token # 0
    /\ pc[r] = "rotate" => grant[cur[r]] \in {0, got[r].token}

\* The provider accepts the refresh token in the store, unless a runner holds a newer one.
Accepted(a) ==
    \/ cell[a].live = None
    \/ cell[a].live.token = 0
    \/ grant[a] \in {0, cell[a].live.token}
    \/ lock[a] # None /\ pc[lock[a]] = "rotate"

\* All that runner r knows of itself.
Timed(r) == pc[r] # "ensure" /\ Clock(r) /\ Counted(r) /\ InHand(r)

ScheduleInv ==
    /\ \A r \in Jobs : Timed(r)
    /\ \A r \in Jobs, a \in Served : Waits(r, a)
    /\ \A a \in Accounts : Accepted(a)

-----------------------------------------------------------------------------
(* What a step of one runner leaves to the others.                         *)

\* The clock, the other runs, and the credentials of accounts it has not locked.
LeavesOthers(r) ==
    /\ now' = now
    /\ \A q \in Jobs \ {r} : lastRun'[q] = lastRun[q]
    /\ \A a \in Accounts : lock[a] # r => cell'[a] = cell[a] /\ grant'[a] = grant[a]

\* What is to be shown of a step of runner r.
OnTime(r) ==
    /\ LeavesOthers(r) /\ Timed(r)'
    /\ \A q \in Jobs, a \in Served : Waits(q, a)'
    /\ \A a \in Accounts : Accepted(a)'

LEMMA JobsAlone == ASSUME OnSchedule PROVE Runners = Jobs
  BY DEF OnSchedule, Runners

\* A runner whose credential is left alone, or revoked or withdrawn, stays in time.
LEMMA StillTimed ==
    ASSUME SweepInv, NEW r, OthersStay(r), NEW q \in Runners \ {r}, Timed(q),
           lastRun'[q] = lastRun[q],
           now' \in Nat, now <= now', now' <= lastRun[q] + Interval,
           \A a \in Accounts : lock[a] = q =>
              /\ cell'[a] = cell[a] \/ cell'[a].live = None
              /\ grant'[a] \in {grant[a], 0}
    PROVE  Timed(q)'
  <1>1. /\ Holds(q) /\ now \in Nat /\ lastRun[q] \in Nat
        /\ (pc[q] # "idle" => run[q].start \in Nat)
    BY DEF SweepInv, TypeOK, Holds, Run
  <1>2. /\ pc'[q] = pc[q] /\ run'[q] = run[q] /\ cur'[q] = cur[q] /\ got'[q] = got[q]
    BY DEF OthersStay
  <1>3. pc'[q] # "ensure" /\ Counted(q)'
    BY <1>2 DEF Timed, Counted
  <1>4. Clock(q)'
    BY <1>1, <1>2 DEF Timed, Clock
  <1>5. InHand(q)'
    <2>1. ASSUME pc[q] \in {"exchange", "rotate"}
          PROVE  /\ cell'[cur[q]] = cell[cur[q]] \/ cell'[cur[q]].live = None
                 /\ grant'[cur[q]] \in {grant[cur[q]], 0}
      BY <1>1, <2>1 DEF Holds, Processing
    <2> QED
      BY <1>2, <2>1 DEF Timed, InHand
  <1> QED
    BY <1>3, <1>4, <1>5 DEF Timed

\* Accounts that nobody touches wait as before, unless a run has ended or begun.
LEMMA StillWaits ==
    ASSUME NEW q \in Jobs, NEW a \in Served, Waits(q, a), UNCHANGED lastRun,
           acct'[a] = acct[a] \/ acct'[a].status # "active",
           lock'[a] = lock[a] \/ lock'[a] \notin {None, q},
           pc'[q] # "idle" => pc[q] # "idle", pc'[q] # "idle" => run'[q] = run[q]
    PROVE  Waits(q, a)'
  BY DEF Waits

LEMMA StillAccepted ==
    ASSUME SweepInv, NEW r, OthersStay(r), NEW a \in Accounts, Accepted(a), lock[a] # r,
           lock'[a] = lock[a], cell'[a] = cell[a] \/ cell'[a].live = None,
           grant'[a] \in {grant[a], 0}
    PROVE  Accepted(a)'
  <1>1. lock[a] # None => lock[a] \in Runners \ {r}
    BY DEF SweepInv, TypeOK
  <1>2. lock[a] # None => pc'[lock[a]] = pc[lock[a]]
    BY <1>1 DEF OthersStay
  <1> QED
    BY <1>2 DEF Accepted

-----------------------------------------------------------------------------
(* The steps of a run.                                                     *)

LEMMA StartOnTime ==
    ASSUME OnSchedule, SweepInv, ScheduleInv, NEW r \in Jobs, NEW co \in Companies, StartRun(r, co)
    PROVE  OnTime(r)
  <1>0. /\ TypeOK /\ RunnersTyped /\ Holds(r) /\ Timed(r) /\ r \in Runners
        /\ UNCHANGED <<acct, lock, lastRun, others>>
    BY TwoHalves, JobsAlone DEF SweepInv, ScheduleInv, StartRun
  <1>1. /\ pc'[r] = "claim"
        /\ run'[r] = [company |-> co, start |-> now, batch |-> Batch, claims |-> 0, attempted |-> {}]
    BY <1>0 DEF StartRun, Start, RunnersTyped
  <1>2. \A q \in Jobs \ {r} : pc'[q] = pc[q] /\ run'[q] = run[q]
    BY <1>0, JobsAlone DEF StartRun, Start, RunnersTyped
  <1>3. LeavesOthers(r)
    BY <1>0 DEF LeavesOthers, others
  <1>4. Timed(r)'
    <2>1. Clock(r)'
      BY <1>0, <1>1 DEF Timed, Clock, others, TypeOK
    <2>2. Counted(r)' /\ InHand(r)'
      BY <1>1, FS_EmptySet DEF Counted, InHand
    <2> QED
      BY <1>1, <2>1, <2>2 DEF Timed
  <1>5. ASSUME NEW q \in Jobs, NEW a \in Served PROVE Waits(q, a)'
    <2>1. CASE q = r
      BY <1>0, <1>1, <2>1 DEF Waits, ScheduleInv
    <2>2. CASE q # r
      BY <1>0, <1>2, <2>2 DEF Waits, ScheduleInv
    <2> QED
      BY <2>1, <2>2
  <1>6. ASSUME NEW a \in Accounts PROVE Accepted(a)'
    <2>1. lock[a] # r
      BY <1>0 DEF StartRun, Holds, Processing
    <2>2. OthersStay(r) /\ Accepted(a)
      BY <1>0, ByRunnerGood DEF ByRunner, Good, ScheduleInv
    <2> QED
      BY <1>0, <2>1, <2>2, StillAccepted DEF others
  <1> QED
    BY <1>3, <1>4, <1>5, <1>6 DEF OnTime

LEMMA ClaimOnTime ==
    ASSUME OnSchedule, SweepInv, ScheduleInv, NEW r \in Jobs, Claim(r)
    PROVE  OnTime(r)
  <1>0. /\ TypeOK /\ RunnersTyped /\ TablesTyped /\ Holds(r) /\ Timed(r) /\ r \in Runners
        /\ UNCHANGED <<acct, lastRun, others>> /\ r # None /\ pc[r] = "claim"
    BY TwoHalves, JobsAlone, SweepAssumption DEF SweepInv, ScheduleInv, Claim
  <1>1. PICK a \in Accounts :
          /\ Claimable(r, a)
          /\ lock' = [lock EXCEPT ![a] = r]
          /\ run' = [run EXCEPT ![r].claims = @ + 1, ![r].attempted = @ \cup {a}]
    BY DEF Claim
  <1>2. run[r] \in Run
    BY <1>0 DEF Holds
  <1>3. /\ run'[r] = [run[r] EXCEPT !.claims = @ + 1, !.attempted = @ \cup {a}]
        /\ pc'[r] = "read"
        /\ \A q \in Jobs \ {r} : run'[q] = run[q] /\ pc'[q] = pc[q]
    BY <1>0, <1>1, JobsAlone DEF Claim, RunnersTyped
  <1>4. /\ run'[r].start = run[r].start /\ run'[r].batch = run[r].batch
        /\ run'[r].claims = run[r].claims + 1
        /\ run'[r].attempted = run[r].attempted \cup {a}
    BY <1>2, <1>3 DEF Run
  <1>5. lock[a] = None /\ lock'[a] = r /\ \A b \in Accounts \ {a} : lock'[b] = lock[b]
    BY <1>0, <1>1 DEF Claimable, TablesTyped
  <1>6. LeavesOthers(r)
    BY <1>0 DEF LeavesOthers, others
  <1>7. Timed(r)'
    <2>1. Clock(r)'
      BY <1>0, <1>3, <1>4 DEF Timed, Clock, others
    <2>2. a \notin run[r].attempted /\ run[r].attempted \in SUBSET Accounts
      BY <1>1, <1>2 DEF Claimable, Run
    <2>3. Cardinality(run[r].attempted \cup {a}) = Cardinality(run[r].attempted) + 1
      BY <2>2, FS_Subset, FS_AddElement DEF OnSchedule
    <2>4. Counted(r)' /\ InHand(r)'
      BY <1>0, <1>3, <1>4, <2>3 DEF Timed, Counted, InHand
    <2> QED
      BY <1>3, <2>1, <2>4 DEF Timed
  <1>8. ASSUME NEW q \in Jobs, NEW b \in Served PROVE Waits(q, b)'
    <2>0. Waits(q, b) /\ b \in Accounts
      BY DEF ScheduleInv, Served
    <2>1. CASE q # r
      BY <1>0, <1>3, <1>5, <2>0, <2>1 DEF Waits
    <2>2. CASE q = r
      BY <1>0, <1>3, <1>4, <1>5, <2>0, <2>2 DEF Waits
    <2> QED
      BY <2>1, <2>2
  <1>9. ASSUME NEW b \in Accounts PROVE Accepted(b)'
    <2>0. Accepted(b) /\ UNCHANGED <<cell, grant>>
      BY <1>0 DEF ScheduleInv, others
    <2>1. CASE b = a
      BY <1>5, <2>0, <2>1 DEF Accepted
    <2>2. CASE b # a
      <3>1. lock[b] # r /\ lock'[b] = lock[b]
        BY <1>0, <1>5, <2>2 DEF Holds, Processing
      <3>2. OthersStay(r)
        BY <1>0, ClaimGood DEF Good
      <3> QED
        BY <2>0, <3>1, <3>2, StillAccepted
    <2> QED
      BY <2>1, <2>2
  <1> QED
    BY <1>6, <1>7, <1>8, <1>9 DEF OnTime

\* A run ends when it has been through every account that was due.
LEMMA EndOnTime ==
    ASSUME OnSchedule, SweepInv, ScheduleInv, NEW r \in Jobs, EndRun(r)
    PROVE  OnTime(r)
  <1>0. /\ TypeOK /\ RunnersTyped /\ TablesTyped /\ Holds(r) /\ Timed(r) /\ r \in Runners
        /\ UNCHANGED <<acct, lock, others>> /\ pc[r] = "claim" /\ run[r] \in Run
    BY TwoHalves, JobsAlone DEF SweepInv, ScheduleInv, EndRun, Holds
  <1>1. /\ pc'[r] = "idle" /\ lastRun'[r] = run[r].start
        /\ \A q \in Jobs \ {r} : pc'[q] = pc[q] /\ run'[q] = run[q] /\ lastRun'[q] = lastRun[q]
    BY <1>0, JobsAlone DEF EndRun, RunnersTyped
  <1>2. LeavesOthers(r)
    BY <1>0, <1>1 DEF LeavesOthers, others
  <1>3. /\ now \in Nat /\ run[r].start \in Nat /\ lastRun[r] \in Nat
        /\ Window \in Nat /\ Interval \in Nat
        /\ run[r].start <= now /\ lastRun[r] <= run[r].start /\ now <= lastRun[r] + Interval
    BY <1>0, SweepAssumption DEF TypeOK, Run, Timed, Clock
  <1>4. Timed(r)'
    BY <1>0, <1>1, <1>3 DEF Timed, Clock, Counted, InHand, others
  <1>5. ASSUME NEW a \in Served, acct[a].status = "active", lock[a] = None
        PROVE  run[r].start + Interval < acct[a].exp
    <2>0. a \in Accounts /\ Waits(r, a) /\ acct[a].exp \in Nat
      BY <1>0 DEF Served, ScheduleInv, TypeOK
    <2>1. CASE a \in run[r].attempted
      BY <1>0, <1>5, <2>0, <2>1 DEF Waits
    <2>2. CASE a \notin run[r].attempted
      <3>1. run[r].attempted \in SUBSET Accounts
        BY <1>0 DEF Run
      <3>2. Cardinality(run[r].attempted) \in Nat /\ Cardinality(Accounts) \in Nat
        BY <3>1, FS_Subset, FS_CardinalityType DEF OnSchedule
      <3>3. Cardinality(run[r].attempted) <= Cardinality(Accounts)
            /\ Cardinality(run[r].attempted) # Cardinality(Accounts)
        BY <2>0, <2>2, <3>1, FS_Subset DEF OnSchedule
      <3>4. run[r].claims # run[r].batch
        BY <1>0, <3>2, <3>3, SweepAssumption DEF Timed, Counted, OnSchedule
      <3>5. ~Due(a)
        BY <1>5, <2>0, <2>2, <3>4 DEF EndRun, Claimable
      <3>6. now + Window <= acct[a].exp
        BY <1>3, <1>5, <2>0, <3>5 DEF Due
      <3> QED
        BY <1>3, <2>0, <3>6 DEF OnSchedule
    <2> QED
      BY <2>1, <2>2
  <1>6. ASSUME NEW q \in Jobs, NEW a \in Served PROVE Waits(q, a)'
    <2>0. Waits(q, a) /\ a \in Accounts
      BY DEF ScheduleInv, Served
    <2>1. CASE q # r
      BY <1>0, <1>1, <2>0, <2>1 DEF Waits
    <2>2. CASE q = r
      <3>1. lock[a] # r
        BY <1>0, <2>0 DEF Holds, Processing
      <3> QED
        BY <1>0, <1>1, <1>5, <2>2, <3>1 DEF Waits
    <2> QED
      BY <2>1, <2>2
  <1>7. ASSUME NEW a \in Accounts PROVE Accepted(a)'
    <2>1. lock[a] # r
      BY <1>0 DEF Holds, Processing
    <2>2. OthersStay(r) /\ Accepted(a) /\ UNCHANGED <<lock, cell, grant>>
      BY <1>0, EndRunGood DEF Good, ScheduleInv, others
    <2> QED
      BY <2>1, <2>2, StillAccepted
  <1> QED
    BY <1>2, <1>4, <1>6, <1>7 DEF OnTime

-----------------------------------------------------------------------------
(* The steps of one claimed account.                                       *)

\* A row that its runner lets go is closed, not for this job to serve, or good for longer
\* than any run that has begun.
LEMMA SettleOnTime ==
    ASSUME OnSchedule, SweepInv, ScheduleInv, NEW r \in Jobs, Processing(r),
           NEW row \in Row, Settle(r, row), UNCHANGED <<cell, grant, now>>,
           cur[r] \in Served /\ row.status = "active" => run[r].start + Life <= row.exp,
           pc[r] # "rotate" \/ cell[cur[r]].live = None
    PROVE  OnTime(r)
  <1>0. /\ TypeOK /\ RunnersTyped /\ TablesTyped /\ Holds(r) /\ Timed(r) /\ r \in Runners
        /\ cur[r] \in Accounts /\ lock[cur[r]] = r /\ run[r] \in Run /\ pc[r] # "idle"
        /\ r # None
    BY TwoHalves, JobsAlone, SweepAssumption DEF SweepInv, ScheduleInv, Holds, Processing
  <1>1. /\ OthersStay(r) /\ acct'[cur[r]] = row
        /\ \A a \in Accounts \ {cur[r]} : acct'[a] = acct[a]
    BY <1>0, SettleStep
  <1>2. /\ lock'[cur[r]] = None /\ \A a \in Accounts \ {cur[r]} : lock'[a] = lock[a]
        /\ pc'[r] = "claim" /\ UNCHANGED <<run, lastRun>>
    BY <1>0 DEF Settle, TablesTyped, RunnersTyped
  <1>3. LeavesOthers(r)
    BY <1>2 DEF LeavesOthers
  <1>4. Timed(r)'
    BY <1>0, <1>2 DEF Timed, Clock, Counted, InHand
  <1>5. \A q \in Jobs : pc'[q] # "idle" => pc[q] # "idle"
    BY <1>0, <1>1, JobsAlone DEF OthersStay
  <1>6. ASSUME NEW q \in Jobs, NEW a \in Served PROVE Waits(q, a)'
    <2>0. Waits(q, a) /\ a \in Accounts
      BY DEF ScheduleInv, Served
    <2>1. CASE a # cur[r]
      BY <1>1, <1>2, <1>5, <2>0, <2>1, StillWaits
    <2>2. CASE a = cur[r] /\ row.status = "active"
      <3>1. run[r].start + Life <= row.exp
        BY <2>2
      <3>2. /\ lastRun[r] \in Nat /\ lastRun[q] \in Nat /\ now \in Nat /\ run[r].start \in Nat
            /\ row.exp \in Nat /\ Life \in Nat /\ Interval \in Nat /\ Window \in Nat
        BY <1>0, JobsAlone, SweepAssumption DEF TypeOK, Run, Row
      <3>3. pc[q] # "idle" => run[q].start \in Nat
        BY JobsAlone DEF SweepInv, Holds, Run
      <3>4. /\ lastRun[r] <= run[r].start /\ now <= run[r].start + Interval
            /\ lastRun[q] <= now /\ (pc[q] # "idle" => run[q].start <= now)
        BY <1>0, <3>2 DEF Timed, Clock, ScheduleInv
      <3>5. Interval < Life
        BY <3>2 DEF OnSchedule
      <3>6. lastRun[q] + Interval < row.exp /\ (pc[q] # "idle" => run[q].start + Interval < row.exp)
        <4>1. CASE q = r
          BY <3>1, <3>2, <3>4, <3>5, <4>1
        <4>2. CASE q # r
          <5>1. Interval + Interval < Life
            BY <4>2 DEF OnSchedule
          <5> QED
            BY <3>1, <3>2, <3>3, <3>4, <5>1
        <4> QED
          BY <4>1, <4>2
      <3> QED
        BY <1>1, <1>2, <1>5, <2>2, <3>6 DEF Waits
    <2>3. CASE a = cur[r] /\ row.status # "active"
      BY <1>1, <2>3 DEF Waits
    <2> QED
      BY <2>1, <2>2, <2>3
  <1>7. ASSUME NEW a \in Accounts PROVE Accepted(a)'
    <2>1. CASE a = cur[r]
      BY <1>0, <1>2, <2>1 DEF Accepted, ScheduleInv
    <2>2. CASE a # cur[r]
      <3>1. lock[a] # r /\ lock'[a] = lock[a] /\ Accepted(a)
        BY <1>0, <1>2, <2>2 DEF Holds, ScheduleInv
      <3> QED
        BY <1>1, <3>1, StillAccepted
    <2> QED
      BY <2>1, <2>2
  <1> QED
    BY <1>3, <1>4, <1>6, <1>7 DEF OnTime

LEMMA ExpireOnTime ==
    ASSUME OnSchedule, SweepInv, ScheduleInv, NEW r \in Jobs, Processing(r),
           UNCHANGED <<cell, grant, now>>, pc[r] # "rotate" \/ cell[cur[r]].live = None,
           Expire(r) \/ (Skip(r) /\ cur[r] \notin Served)
    PROVE  OnTime(r)
  <1>1. /\ acct[cur[r]] \in Row
        /\ [acct[cur[r]] EXCEPT !.status = "expired"] \in Row
        /\ [acct[cur[r]] EXCEPT !.status = "expired"].status = "expired"
    BY JobsAlone DEF SweepInv, TypeOK, Row, Holds
  <1>2. CASE Expire(r)
    BY <1>1, <1>2, SettleOnTime DEF Expire
  <1>3. CASE Skip(r) /\ cur[r] \notin Served
    BY <1>1, <1>3, SettleOnTime DEF Skip
  <1> QED
    BY <1>2, <1>3

\* A step of a runner that keeps its row.
LEMMA InnerOnTime ==
    ASSUME OnSchedule, SweepInv, ScheduleInv, NEW r \in Jobs, Processing(r), OthersStay(r),
           NEW p \in {"exchange", "rotate", "mirror"}, Step(r, p), now' = now,
           \A a \in Accounts : lock[a] # r => cell'[a] = cell[a] /\ grant'[a] = grant[a],
           InHand(r)', Accepted(cur[r])'
    PROVE  OnTime(r)
  <1>0. /\ TypeOK /\ RunnersTyped /\ Holds(r) /\ Timed(r) /\ r \in Runners
        /\ UNCHANGED <<acct, lock, run, cur, lastRun>> /\ pc[r] # "idle"
    BY TwoHalves, JobsAlone DEF SweepInv, ScheduleInv, Step, Processing
  <1>1. pc'[r] = p
    BY <1>0 DEF Step, RunnersTyped
  <1>2. \A q \in Jobs : pc'[q] # "idle" => pc[q] # "idle"
    BY <1>0, JobsAlone DEF OthersStay
  <1>3. LeavesOthers(r)
    BY <1>0 DEF LeavesOthers
  <1>4. Timed(r)'
    BY <1>0, <1>1 DEF Timed, Clock, Counted
  <1>5. \A q \in Jobs, a \in Served : Waits(q, a)'
    BY <1>0, <1>2, StillWaits DEF ScheduleInv
  <1>6. ASSUME NEW a \in Accounts PROVE Accepted(a)'
    <2>1. CASE lock[a] = r
      BY <1>0, <2>1 DEF Holds
    <2>2. CASE lock[a] # r
      BY <1>0, <2>2, StillAccepted DEF ScheduleInv
    <2> QED
      BY <2>1, <2>2
  <1> QED
    BY <1>3, <1>4, <1>5, <1>6 DEF OnTime

\* The deployment: nothing is lost in transit, nobody dies, one company.
LEMMA Undisturbed ==
    ASSUME OnSchedule, TypeOK
    PROVE  /\ ~Glitch
           /\ \A r \in Runners : ~Crash(r)
  BY DEF OnSchedule, TypeOK, Glitch, Crash

LEMMA OwnCell ==
    ASSUME OnSchedule, SweepInv, NEW r \in Jobs, Processing(r)
    PROVE  CellFor(r) = cell[cur[r]] /\ cur[r] \in Accounts /\ lock[cur[r]] = r
  <1>1. cur[r] \in Accounts /\ lock[cur[r]] = r /\ run[r] \in Run
    BY JobsAlone DEF SweepInv, Holds, Processing
  <1>2. run[r].company \in Companies
    BY <1>1 DEF Run
  <1> QED
    BY <1>1, <1>2 DEF CellFor, OnSchedule, OwnCompany

LEMMA ReadOnTime ==
    ASSUME OnSchedule, SweepInv, ScheduleInv, NEW r \in Jobs, Read(r)
    PROVE  OnTime(r)
  <1>0. /\ TypeOK /\ RunnersTyped /\ Processing(r) /\ r \in Runners /\ r \notin Services
        /\ UNCHANGED <<cell, grant, now>> /\ pc[r] = "read" /\ r # None
    BY TwoHalves, JobsAlone, SweepAssumption DEF SweepInv, Read, Processing, others, OnSchedule
  <1>1. CellFor(r) = cell[cur[r]] /\ cur[r] \in Accounts /\ lock[cur[r]] = r
    BY <1>0, OwnCell
  <1>2. ASSUME ReadCode(CellFor(r), now) = "ok", CellFor(r).live.token # 0,
               got' = [got EXCEPT ![r] = CellFor(r).live], Step(r, "exchange")
        PROVE  OnTime(r)
    <2>1. /\ pc'[r] = "exchange" /\ got'[r] = cell[cur[r]].live /\ UNCHANGED <<cur, lock>>
      BY <1>0, <1>1, <1>2 DEF Step, RunnersTyped
    <2>2. InHand(r)'
      BY <1>0, <1>1, <1>2, <2>1 DEF InHand
    <2>3. Accepted(cur[r])'
      BY <1>0, <1>1, <2>1 DEF ScheduleInv, Accepted
    <2>4. OthersStay(r)
      BY <1>0, ReadGood DEF Good
    <2> QED
      BY <1>0, <1>2, <2>2, <2>3, <2>4, InnerOnTime
  <1>3. \/ Expire(r) \/ (Skip(r) /\ cur[r] \notin Served)
        \/ /\ ReadCode(CellFor(r), now) = "ok" /\ CellFor(r).live.token # 0
           /\ got' = [got EXCEPT ![r] = CellFor(r).live] /\ Step(r, "exchange")
    BY <1>0, Undisturbed DEF Read, Served
  <1> QED
    BY <1>0, <1>2, <1>3, ExpireOnTime

LEMMA ExchangeOnTime ==
    ASSUME OnSchedule, SweepInv, ScheduleInv, NEW r \in Jobs, Exchange(r)
    PROVE  OnTime(r)
  <1>0. /\ TypeOK /\ RunnersTyped /\ TablesTyped /\ Processing(r) /\ r \in Runners
        /\ UNCHANGED <<cell, now>> /\ pc[r] = "exchange" /\ Timed(r) /\ Holds(r) /\ r # None
    BY TwoHalves, JobsAlone, SweepAssumption DEF SweepInv, ScheduleInv, Exchange, Processing
  <1>1. cur[r] \in Accounts /\ lock[cur[r]] = r
    BY <1>0, OwnCell
  <1> DEFINE t == Successor(cur[r], got[r].token)
  <1>2. ASSUME grant' = [grant EXCEPT ![cur[r]] = t],
               got' = [got EXCEPT ![r] = [exp |-> now + Life, token |-> t]], Step(r, "rotate")
        PROVE  OnTime(r)
    <2>1. /\ pc'[r] = "rotate" /\ got'[r].exp = now + Life /\ got'[r].token = t
          /\ UNCHANGED <<cur, lock, run>>
      BY <1>0, <1>2 DEF Step, RunnersTyped
    <2>2. grant'[cur[r]] = t /\ \A a \in Accounts \ {cur[r]} : grant'[a] = grant[a]
      BY <1>0, <1>1, <1>2 DEF TablesTyped
    <2>3. run[r].start + Life <= now + Life
      <3>1. run[r].start \in Nat /\ now \in Nat /\ Life \in Nat /\ run[r].start <= now
        BY <1>0, SweepAssumption DEF TypeOK, Holds, Run, Timed, Clock
      <3> QED
        BY <3>1
    <2>4. InHand(r)'
      BY <2>1, <2>2, <2>3 DEF InHand
    <2>5. Accepted(cur[r])'
      BY <1>0, <1>1, <2>1 DEF Accepted
    <2>6. OthersStay(r)
      BY <1>0, ExchangeGood DEF Good
    <2> QED
      BY <1>0, <1>1, <1>2, <2>2, <2>4, <2>5, <2>6, InnerOnTime
  <1>3. \/ (Expire(r) \/ (Skip(r) /\ cur[r] \notin Served)) /\ UNCHANGED grant
        \/ /\ grant' = [grant EXCEPT ![cur[r]] = t]
           /\ got' = [got EXCEPT ![r] = [exp |-> now + Life, token |-> t]] /\ Step(r, "rotate")
    BY <1>0, Undisturbed DEF Exchange, Served
  <1> QED
    BY <1>0, <1>2, <1>3, ExpireOnTime

LEMMA RotateOnTime ==
    ASSUME OnSchedule, SweepInv, ScheduleInv, NEW r \in Jobs, Rotate(r)
    PROVE  OnTime(r)
  <1>0. /\ TypeOK /\ RunnersTyped /\ TablesTyped /\ Processing(r) /\ r \in Runners
        /\ UNCHANGED <<grant, now>> /\ pc[r] = "rotate" /\ Timed(r)
    BY TwoHalves, JobsAlone DEF SweepInv, ScheduleInv, Rotate, Processing
  <1>1. CellFor(r) = cell[cur[r]] /\ cur[r] \in Accounts /\ lock[cur[r]] = r
    BY <1>0, OwnCell
  <1>2. ASSUME cell' = [cell EXCEPT ![cur[r]] = Holding(got[r])], UNCHANGED got, Step(r, "mirror")
        PROVE  OnTime(r)
    <2>1. pc'[r] = "mirror" /\ UNCHANGED <<cur, lock, run>>
      BY <1>0, <1>2 DEF Step, RunnersTyped
    <2>2. cell'[cur[r]].live = got[r] /\ \A a \in Accounts \ {cur[r]} : cell'[a] = cell[a]
      BY <1>0, <1>1, <1>2 DEF TablesTyped, Holding
    <2>3. InHand(r)'
      BY <1>0, <1>2, <2>1 DEF Timed, InHand
    <2>4. Accepted(cur[r])'
      BY <1>0, <2>1, <2>2 DEF Timed, InHand, Accepted
    <2>5. OthersStay(r)
      BY <1>0, RotateGood DEF Good
    <2> QED
      BY <1>0, <1>1, <1>2, <2>2, <2>3, <2>4, <2>5, InnerOnTime
  <1>3. \/ /\ cell' = [cell EXCEPT ![cur[r]] = Holding(got[r])] /\ UNCHANGED got
           /\ Step(r, "mirror")
        \/ Expire(r) /\ UNCHANGED cell /\ cell[cur[r]].live = None
    BY <1>0, <1>1, Undisturbed DEF Rotate, CanRotate
  <1> QED
    BY <1>0, <1>2, <1>3, ExpireOnTime

LEMMA MirrorOnTime ==
    ASSUME OnSchedule, SweepInv, ScheduleInv, NEW r \in Jobs, Mirror(r)
    PROVE  OnTime(r)
  <1>0. /\ Processing(r) /\ cur[r] \in Accounts /\ acct[cur[r]] \in Row /\ got[r].exp \in Nat
        /\ UNCHANGED <<cell, grant, now>> /\ pc[r] = "mirror"
        /\ run[r].start + Life <= got[r].exp
    BY JobsAlone DEF SweepInv, TypeOK, Row, Holds, Bundle, ScheduleInv, Timed, InHand, Mirror,
       Processing, others
  <1>1. /\ [acct[cur[r]] EXCEPT !.exp = got[r].exp] \in Row
        /\ [acct[cur[r]] EXCEPT !.exp = got[r].exp].exp = got[r].exp
    BY <1>0 DEF Row
  <1> QED
    BY <1>0, <1>1, SettleOnTime DEF Mirror

-----------------------------------------------------------------------------
(* The invariant of the schedule.                                          *)

LEMMA JobOnTime ==
    ASSUME OnSchedule, SweepInv, ScheduleInv, NEW r \in Jobs, ByRunner(r)
    PROVE  OnTime(r)
  <1>1. ~Crash(r) /\ ~EnsureClaim(r) /\ r \notin Services
    BY Undisturbed, JobsAlone DEF SweepInv, ScheduleInv, Timed, EnsureClaim, OnSchedule
  <1> QED
    BY <1>1, StartOnTime, ClaimOnTime, EndOnTime, ReadOnTime, ExchangeOnTime, RotateOnTime, MirrorOnTime
    DEF ByRunner, Working

\* Disconnects, withdrawn consents and the clock.
LEMMA AroundOnTime ==
    ASSUME OnSchedule, SweepInv, ScheduleInv, Around
    PROVE  ScheduleInv'
  <1>0. /\ TypeOK /\ TablesTyped /\ now \in Nat /\ Interval \in Nat
        /\ \A q \in Jobs : lastRun[q] \in Nat /\ Timed(q) /\ now <= lastRun[q] + Interval
    BY TwoHalves, JobsAlone, SweepAssumption DEF SweepInv, TypeOK, ScheduleInv, Timed, Clock
  <1>1. UNCHANGED <<lock, runners>>
    BY DEF Around, DisconnectRevoke, DisconnectClose, GrantDies, Tick, vars, runners
  <1>2. ASSUME NEW a \in Accounts PROVE cell'[a] = cell[a] \/ cell'[a].live = None
    BY <1>0 DEF Around, DisconnectRevoke, DisconnectClose, GrantDies, Tick, vars, TablesTyped, Cell, Revoked
  <1>3. ASSUME NEW a \in Accounts PROVE grant'[a] \in {grant[a], 0}
    BY <1>0 DEF Around, DisconnectRevoke, DisconnectClose, GrantDies, Tick, vars, TablesTyped
  <1>4. ASSUME NEW a \in Accounts PROVE acct'[a] = acct[a] \/ acct'[a].status # "active"
    BY <1>0 DEF Around, DisconnectRevoke, DisconnectClose, GrantDies, Tick, vars, TablesTyped, Row
  <1>5. now' = now \/ Tick
    BY DEF Around, DisconnectRevoke, DisconnectClose, GrantDies, vars
  <1>6. now' \in Nat /\ now <= now' /\ \A q \in Jobs : now' <= lastRun[q] + Interval
    <2>1. CASE now' = now
      BY <1>0, <2>1
    <2>2. CASE Tick
      BY <1>0, <2>2 DEF Tick
    <2> QED
      BY <1>5, <2>1, <2>2
  <1>7. ASSUME NEW q \in Jobs PROVE Timed(q)'
    <2>1. OthersStay(None) /\ q \in Runners \ {None} /\ lastRun'[q] = lastRun[q]
      BY <1>1, AroundGood, JobsAlone, SweepAssumption DEF runners
    <2> QED
      BY <1>0, <1>2, <1>3, <1>6, <2>1, StillTimed
  <1>8. ASSUME NEW q \in Jobs, NEW a \in Served PROVE Waits(q, a)'
    <2>1. Waits(q, a) /\ a \in Accounts
      BY DEF ScheduleInv, Served
    <2> QED
      BY <1>1, <1>4, <2>1, StillWaits DEF runners
  <1>9. ASSUME NEW a \in Accounts PROVE Accepted(a)'
    BY <1>1, <1>2, <1>3 DEF ScheduleInv, Accepted, runners
  <1> QED
    BY <1>7, <1>8, <1>9 DEF ScheduleInv

LEMMA ScheduleInitial ==
    ASSUME OnSchedule, Init
    PROVE  ScheduleInv
  <1>1. PICK e \in [Accounts -> FirstExpiry], t \in [Accounts -> {0, 1}] :
          /\ acct = [a \in Accounts |-> [status |-> "active", exp |-> e[a]]]
          /\ cell = [a \in Accounts |-> Holding([exp |-> e[a], token |-> t[a]])]
    BY DEF Init
  <1>2. ASSUME NEW r \in Jobs
        PROVE  pc[r] = "idle" /\ lastRun[r] = 0 /\ now = 0
    BY <1>2 DEF Init, Runners
  <1>3. ASSUME NEW r \in Jobs PROVE Timed(r)
    BY <1>2, SweepAssumption DEF Timed, Clock, Counted, InHand
  <1>4. ASSUME NEW r \in Jobs, NEW a \in Served PROVE Waits(r, a)
    <2>1. a \in Accounts
      BY DEF Served
    <2>2. acct[a].exp = e[a] /\ e[a] \in FirstExpiry
      BY <1>1, <2>1
    <2>3. \A n \in FirstExpiry : Interval < n
      BY DEF OnSchedule
    <2>4. Interval < e[a]
      BY <2>2, <2>3
    <2>5. 0 + Interval = Interval
      BY SweepAssumption
    <2> QED
      BY <1>2, <2>2, <2>4, <2>5 DEF Waits
  <1>5. ASSUME NEW a \in Accounts PROVE Accepted(a)
    <2>1. grant[a] = 1 /\ cell[a].live.token = t[a] /\ t[a] \in {0, 1}
      BY <1>1 DEF Init, Holding
    <2> QED
      BY <2>1 DEF Accepted
  <1> QED
    BY <1>3, <1>4, <1>5 DEF ScheduleInv

LEMMA ScheduleNext ==
    ASSUME OnSchedule, SweepInv, ScheduleInv, [Next]_vars
    PROVE  ScheduleInv'
  <1>1. ASSUME NEW r \in Jobs, ByRunner(r) PROVE ScheduleInv'
    <2>1. OnTime(r) /\ OthersStay(r)
      BY <1>1, JobOnTime, ByRunnerGood, JobsAlone DEF Good
    <2>2. LeavesOthers(r) /\ Timed(r)'
      BY <2>1 DEF OnTime
    <2>3. ASSUME NEW q \in Jobs \ {r} PROVE Timed(q)'
      <3>1. /\ Timed(q) /\ lastRun'[q] = lastRun[q] /\ q \in Runners \ {r}
            /\ now' = now /\ now \in Nat /\ now <= lastRun[q] + Interval
        BY <2>2, JobsAlone, SweepAssumption
        DEF ScheduleInv, LeavesOthers, Timed, Clock, SweepInv, TypeOK
      <3>2. \A a \in Accounts : lock[a] = q => cell'[a] = cell[a] /\ grant'[a] = grant[a]
        BY <2>2 DEF LeavesOthers
      <3>3. now <= now
        BY <3>1
      <3> QED
        BY <2>1, <3>1, <3>2, <3>3, StillTimed
    <2> QED
      BY <2>1, <2>2, <2>3 DEF OnTime, ScheduleInv
  <1> QED
    BY <1>1, WhoseStep, JobsAlone, AroundOnTime

\* While the schedule is kept, every account the job can serve was refreshed, or good for
\* longer, when each replica's last run passed it; and the provider accepts its token.
THEOREM ScheduleInvariant == ASSUME OnSchedule PROVE Spec => []ScheduleInv
  <1>1. Init => ScheduleInv
    BY ScheduleInitial
  <1>2. SweepInv /\ ScheduleInv /\ [Next]_vars => ScheduleInv'
    BY ScheduleNext
  <1> QED
    BY <1>1, <1>2, SweepInvariant, PTL DEF Spec

-----------------------------------------------------------------------------
(* What an expiry means.                                                   *)

\* Nothing else was left: the credential or the consent was withdrawn, or it could never
\* be refreshed.
Spent(a) == cell[a].live = None \/ cell[a].live.token = 0 \/ grant[a] = 0

LEMMA StaysActive ==
    ASSUME SweepInv, NEW r \in Runners, Processing(r), NEW a \in Accounts,
           acct[a].status = "active",
           Skip(r) \/ (\E e \in Nat : Settle(r, [acct[cur[r]] EXCEPT !.exp = e]))
    PROVE  acct'[a].status = "active"
  <1>0. /\ TypeOK /\ Holds(r) /\ cur[r] \in Accounts /\ acct[cur[r]] \in Row
        /\ acct[cur[r]].status = "active"
    BY DEF SweepInv, Holds, TypeOK, Row
  <1>1. ASSUME NEW row \in Row, Settle(r, row), row.status = "active"
        PROVE  acct'[a].status = "active"
    <2>1. acct'[cur[r]] = row /\ \A b \in Accounts \ {cur[r]} : acct'[b] = acct[b]
      BY <1>0, <1>1, SettleStep
    <2> QED
      BY <1>1, <2>1
  <1>2. CASE Skip(r)
    BY <1>0, <1>1, <1>2 DEF Skip
  <1>3. ASSUME NEW e \in Nat, Settle(r, [acct[cur[r]] EXCEPT !.exp = e])
        PROVE  acct'[a].status = "active"
    <2>1. /\ [acct[cur[r]] EXCEPT !.exp = e] \in Row
          /\ [acct[cur[r]] EXCEPT !.exp = e].status = "active"
      BY <1>0 DEF Row
    <2> QED
      BY <1>1, <1>3, <2>1
  <1> QED
    BY <1>2, <1>3

\* A runner expires the account in its hand and no other.
LEMMA ExpiresItsOwn ==
    ASSUME SweepInv, NEW r \in Runners, Processing(r), Expire(r), NEW a \in Accounts,
           acct[a].status = "active", acct'[a].status # "active"
    PROVE  cur[r] = a /\ lock[a] = r
  <1>0. TablesTyped /\ Holds(r) /\ cur[r] \in Accounts
    BY TwoHalves DEF SweepInv, Holds
  <1>1. \A b \in Accounts \ {cur[r]} : acct'[b] = acct[b]
    BY <1>0 DEF Expire, Settle, TablesTyped
  <1> QED
    BY <1>0, <1>1 DEF Holds

LEMMA ReadIsJust ==
    ASSUME OnSchedule, SweepInv, ScheduleInv, MirrorNotLate, NEW r \in Jobs, Read(r),
           NEW a \in Accounts \ Flaky, acct[a].status = "active", acct'[a].status # "active"
    PROVE  Spent(a)
  <1>0. TypeOK /\ Processing(r) /\ r \in Runners /\ r \notin Services /\ CellFor(r) = cell[cur[r]]
    BY JobsAlone, OwnCell DEF SweepInv, Read, Processing, OnSchedule
  <1>1. ~Skip(r) /\ acct' # acct
    BY <1>0, StaysActive
  <1>2. /\ Expire(r) /\ cur[r] \notin Unconfigured
        /\ ReadCode(cell[cur[r]], now) # "ok" \/ cell[cur[r]].live.token = 0
    BY <1>0, <1>1 DEF Read, Step
  <1>3. cur[r] = a /\ lock[a] = r
    BY <1>0, <1>2, ExpiresItsOwn
  <1>4. CASE ReadCode(cell[a], now) # "ok" /\ cell[a].live # None
    <2>1. cell[a].live.exp <= now
      BY <1>4 DEF ReadCode
    <2>2. acct[a].exp <= cell[a].live.exp
      BY <1>4 DEF MirrorNotLate
    <2>3. lastRun[r] + Interval < acct[a].exp
      BY <1>2, <1>3 DEF ScheduleInv, Waits, Served
    <2>4. now <= lastRun[r] + Interval
      BY DEF ScheduleInv, Timed, Clock
    <2>5. /\ now \in Nat /\ lastRun[r] \in Nat /\ Interval \in Nat /\ acct[a].exp \in Nat
          /\ cell[a].live.exp \in Nat
      BY <1>0, <1>4, SweepAssumption DEF TypeOK, Bundle
    <2> QED
      BY <2>1, <2>2, <2>3, <2>4, <2>5
  <1> QED
    BY <1>2, <1>3, <1>4 DEF Spent

LEMMA ExchangeIsJust ==
    ASSUME OnSchedule, SweepInv, ScheduleInv, NEW r \in Jobs, Exchange(r),
           NEW a \in Accounts, acct[a].status = "active", acct'[a].status # "active"
    PROVE  Spent(a)
  <1>0. TypeOK /\ Processing(r) /\ r \in Runners /\ r # None /\ pc[r] = "exchange"
    BY JobsAlone, SweepAssumption DEF SweepInv, Exchange, Processing
  <1>1. ~Skip(r) /\ acct' # acct
    BY <1>0, StaysActive
  <1>2. Expire(r) /\ grant[cur[r]] # got[r].token
    BY <1>1 DEF Exchange, Step
  <1>3. cur[r] = a /\ lock[a] = r
    BY <1>0, <1>2, ExpiresItsOwn
  <1>4. cell[a].live \in {None, got[r]}
    BY <1>0, <1>3 DEF ScheduleInv, Timed, InHand
  <1>5. Accepted(a)
    BY DEF ScheduleInv
  <1> QED
    BY <1>0, <1>2, <1>3, <1>4, <1>5 DEF Accepted, Spent

LEMMA RotateIsJust ==
    ASSUME OnSchedule, SweepInv, ScheduleInv, NEW r \in Jobs, Rotate(r),
           NEW a \in Accounts, acct[a].status = "active", acct'[a].status # "active"
    PROVE  Spent(a)
  <1>0. TypeOK /\ Processing(r) /\ r \in Runners /\ CellFor(r) = cell[cur[r]]
    BY JobsAlone, OwnCell DEF SweepInv, Rotate, Processing
  <1>1. ~Skip(r) /\ acct' # acct
    BY <1>0, StaysActive
  <1>2. Expire(r) /\ cell[cur[r]].live = None
    BY <1>0, <1>1, Undisturbed DEF Rotate, Step, CanRotate, Fail
  <1>3. cur[r] = a
    BY <1>0, <1>2, ExpiresItsOwn
  <1> QED
    BY <1>2, <1>3 DEF Spent

LEMMA ExpiryIsJust ==
    ASSUME OnSchedule, SweepInv, ScheduleInv, MirrorNotLate, [Next]_vars,
           NEW a \in Accounts \ Flaky, acct[a].status = "active", acct'[a].status = "expired"
    PROVE  Spent(a)
  <1>0. TablesTyped
    BY TwoHalves DEF SweepInv
  <1>1. ASSUME NEW r \in Runners, Mirror(r) PROVE FALSE
    <2>1. Processing(r) /\ got[r].exp \in Nat
      BY <1>1 DEF SweepInv, Mirror, Processing, Holds, Bundle
    <2> QED
      BY <1>1, <2>1, StaysActive DEF Mirror
  <1>2. ASSUME NEW b \in Accounts, DisconnectClose(b) PROVE FALSE
    BY <1>0, <1>2 DEF DisconnectClose, TablesTyped, Row
  <1>3. \E r \in Runners : Read(r) \/ Exchange(r) \/ Rotate(r)
    BY <1>1, <1>2
    DEF Next, StartRun, EnsureFresh, Working, Claim, EndRun, EnsureClaim, Crash, Fail,
        DisconnectRevoke, GrantDies, Tick, vars
  <1> QED
    BY <1>3, JobsAlone, ReadIsJust, ExchangeIsJust, RotateIsJust

\* On a schedule shorter than the window, with tokens that outlive it and no outage, the
\* job sends nobody to reconnect whose credential could have been refreshed.
THEOREM NoExpiryIsFalse == ASSUME OnSchedule PROVE Spec => NoFalseExpiry
  <1>1. OutlivesWindow
    BY DEF OnSchedule, OutlivesWindow
  <1>2. Spec => []MirrorNotLate
    BY <1>1, MirrorErrsEarly
  <1>3. SweepInv /\ ScheduleInv /\ MirrorNotLate /\ [Next]_vars
          => [\A a \in Accounts \ Flaky :
                acct[a].status = "active" /\ acct'[a].status = "expired"
                  => \/ cell[a].live = None
                     \/ cell[a].live.token = 0
                     \/ grant[a] = 0]_vars
    BY ExpiryIsJust DEF Spent
  <1> QED
    BY <1>2, <1>3, SweepInvariant, ScheduleInvariant, PTL DEF Spec, NoFalseExpiry
=============================================================================
