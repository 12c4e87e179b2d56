------------------------- MODULE RefreshSweepProofs -------------------------
(***************************************************************************)
(* Proofs about the refresh, for any accounts, companies, runners, windows *)
(* and failures.                                                           *)
(***************************************************************************)
EXTENDS RefreshSweepProps, TLAPS

Row  == [status : {"active", "expired", "revoked"}, exp : Nat]
Cell == [live : Bundle \cup {None}, ever : BOOLEAN]

\* What a runner may rely on from its claim to the end of the transaction, whoever else
\* is running: the lock is its own, and its account is active.
Holds(r) ==
    /\ pc[r] # "idle" => run[r] \in Run
    /\ pc[r] = "ensure" => cur[r] \in Accounts
    /\ Processing(r) => cur[r] \in Accounts /\ lock[cur[r]] = r /\ acct[cur[r]].status = "active"
    /\ pc[r] \in {"exchange", "rotate", "mirror"} => got[r] \in Bundle
    /\ \A a \in Accounts : lock[a] = r => Processing(r) /\ cur[r] = a

SweepInv == TypeOK /\ \A r \in Runners : Holds(r)

\* The type invariant in two halves: what is shared, and the runners.
TablesTyped ==
    /\ acct \in [Accounts -> Row]
    /\ cell \in [Accounts -> Cell]
    /\ grant \in [Accounts -> Nat]
    /\ lock \in [Accounts -> Runners \cup {None}]
    /\ closing \subseteq Accounts
    /\ now \in 0..MaxTime
    /\ glitches \in 0..Glitches /\ crashes \in 0..MaxCrashes

RunnersTyped ==
    /\ pc \in [Runners -> {"idle", "claim", "ensure", "read", "exchange", "rotate", "mirror"}]
    /\ run \in [Runners -> Run \cup {None}]
    /\ cur \in [Runners -> Accounts \cup {None}]
    /\ got \in [Runners -> Bundle \cup {None}]
    /\ lastRun \in [Runners -> Nat]

LEMMA TwoHalves == TypeOK <=> TablesTyped /\ RunnersTyped
  BY DEF TypeOK, TablesTyped, RunnersTyped, Row, Cell

\* The other runners, their locks and the rows under them stay as they are.
OthersStay(r) ==
    /\ \A q \in Runners \ {r} : pc'[q] = pc[q] /\ run'[q] = run[q] /\ cur'[q] = cur[q] /\ got'[q] = got[q]
    /\ \A a \in Accounts : lock'[a] = lock[a] \/ (lock[a] \in {None, r} /\ lock'[a] \in {None, r})
    /\ \A a \in Accounts : acct'[a] = acct[a] \/ lock[a] \in {None, r}

LEMMA StillHolds ==
    ASSUME SweepInv, NEW r, OthersStay(r), NEW q \in Runners \ {r}
    PROVE  Holds(q)'
  <1>1. Holds(q) /\ q # None /\ (pc[q] \in {"idle", "claim", "ensure", "read", "exchange", "rotate", "mirror"})
    BY SweepAssumption DEF SweepInv, TypeOK
  <1>2. /\ pc'[q] = pc[q] /\ run'[q] = run[q] /\ cur'[q] = cur[q] /\ got'[q] = got[q]
    BY DEF OthersStay
  <1>3. \A a \in Accounts : lock'[a] = q <=> lock[a] = q
    BY <1>1 DEF OthersStay
  <1>4. \A a \in Accounts : lock[a] = q => acct'[a] = acct[a]
    BY <1>1 DEF OthersStay
  <1> QED
    BY <1>1, <1>2, <1>3, <1>4 DEF Holds, Processing

LEMMA SweepInit == Init => SweepInv
  <1> SUFFICES ASSUME Init PROVE SweepInv
    OBVIOUS
  <1>1. PICK e \in [Accounts -> FirstExpiry], t \in [Accounts -> {0, 1}] :
          /\ acct = [a \in Accounts |-> [status |-> "active", exp |-> e[a]]]
          /\ cell = [a \in Accounts |-> Holding([exp |-> e[a], token |-> t[a]])]
    BY DEF Init
  <1>2. acct \in [Accounts -> Row]
    BY <1>1, SweepAssumption DEF Row
  <1>3. ASSUME NEW a \in Accounts PROVE cell[a] \in Cell
    <2>1. e[a] \in FirstExpiry /\ t[a] \in {0, 1}
      OBVIOUS
    <2>2. FirstExpiry \subseteq Nat
      BY SweepAssumption
    <2>3. e[a] \in Nat
      BY <2>1, <2>2
    <2>4. t[a] = 0 \/ t[a] = 1
      BY <2>1
    <2>5. t[a] \in Nat
      BY <2>4
    <2> QED
      BY <1>1, <2>3, <2>5 DEF Cell, Bundle, Holding
  <1>4. cell \in [Accounts -> Cell]
    BY <1>1, <1>3
  <1>5. TablesTyped /\ RunnersTyped
    BY <1>2, <1>4, SweepAssumption DEF Init, TablesTyped, RunnersTyped
  <1>6. ASSUME NEW r \in Runners PROVE Holds(r)
    BY SweepAssumption DEF Init, Holds, Processing
  <1> QED
    BY <1>5, <1>6, TwoHalves DEF SweepInv

-----------------------------------------------------------------------------
(* The ways out of the transaction, and the steps within it.               *)

\* What a step of runner r keeps.
Good(r) == TypeOK' /\ OthersStay(r) /\ Holds(r)'

LEMMA SettleStep ==
    ASSUME TypeOK, NEW r \in Runners, Holds(r), Processing(r), NEW row \in Row, Settle(r, row)
    PROVE  /\ acct' \in [Accounts -> Row] /\ lock' \in [Accounts -> Runners \cup {None}]
           /\ RunnersTyped' /\ OthersStay(r) /\ Holds(r)'
           /\ acct'[cur[r]] = row
           /\ \A a \in Accounts \ {cur[r]} : acct'[a] = acct[a]
  <1>1. TablesTyped /\ RunnersTyped /\ cur[r] \in Accounts /\ lock[cur[r]] = r /\ r # None
    BY TwoHalves, SweepAssumption DEF Holds
  <1>2. /\ acct' \in [Accounts -> Row] /\ lock' \in [Accounts -> Runners \cup {None}] /\ RunnersTyped'
    BY <1>1 DEF Settle, TablesTyped, RunnersTyped
  <1>3. /\ acct'[cur[r]] = row /\ lock'[cur[r]] = None
        /\ \A a \in Accounts \ {cur[r]} : acct'[a] = acct[a] /\ lock'[a] = lock[a]
    BY <1>1 DEF Settle, TablesTyped
  <1>4. pc'[r] = "claim" /\ run' = run
    BY <1>1 DEF Settle, RunnersTyped
  <1>5. \A q \in Runners \ {r} : pc'[q] = pc[q] /\ cur'[q] = cur[q] /\ got'[q] = got[q]
    BY <1>1 DEF Settle, RunnersTyped
  <1>6. OthersStay(r)
    BY <1>1, <1>3, <1>4, <1>5 DEF OthersStay
  <1>7. \A a \in Accounts : lock'[a] # r
    BY <1>1, <1>3 DEF Holds
  <1>8. Holds(r)'
    BY <1>4, <1>7 DEF Holds, Processing
  <1> QED
    BY <1>2, <1>3, <1>6, <1>8

LEMMA FailStep ==
    ASSUME TypeOK, NEW r \in Runners, Fail(r)
    PROVE  /\ lock' \in [Accounts -> Runners \cup {None}] /\ RunnersTyped'
           /\ OthersStay(r) /\ Holds(r)' /\ acct' = acct
  <1>1. TablesTyped /\ RunnersTyped /\ r # None
    BY TwoHalves, SweepAssumption
  <1>2. lock' \in [Accounts -> Runners \cup {None}] /\ RunnersTyped'
    BY <1>1 DEF Fail, TablesTyped, RunnersTyped
  <1>3. pc'[r] = "idle" /\ \A a \in Accounts : lock'[a] = IF lock[a] = r THEN None ELSE lock[a]
    BY <1>1 DEF Fail, RunnersTyped
  <1>4. \A q \in Runners \ {r} : pc'[q] = pc[q] /\ run'[q] = run[q] /\ cur'[q] = cur[q] /\ got'[q] = got[q]
    BY <1>1 DEF Fail, RunnersTyped
  <1>5. OthersStay(r)
    BY <1>3, <1>4 DEF OthersStay, Fail
  <1>6. Holds(r)'
    BY <1>1, <1>3 DEF Holds, Processing
  <1> QED
    BY <1>2, <1>5, <1>6 DEF Fail

LEMMA InnerStep ==
    ASSUME TypeOK, NEW r \in Runners, Holds(r), Processing(r),
           NEW p \in {"exchange", "rotate", "mirror"}, Step(r, p),
           NEW b \in Bundle, got' = [got EXCEPT ![r] = b]
    PROVE  RunnersTyped' /\ OthersStay(r) /\ Holds(r)'
  <1>1. TablesTyped /\ RunnersTyped
    BY TwoHalves
  <1>2. RunnersTyped'
    BY <1>1 DEF Step, RunnersTyped
  <1>3. pc'[r] = p /\ got'[r] = b
    BY <1>1 DEF Step, RunnersTyped
  <1>4. \A q \in Runners \ {r} : pc'[q] = pc[q] /\ got'[q] = got[q]
    BY <1>1 DEF Step, RunnersTyped
  <1>5. OthersStay(r)
    BY <1>4 DEF OthersStay, Step
  <1>6. Holds(r)'
    BY <1>3 DEF Holds, Processing, Step
  <1> QED
    BY <1>2, <1>5, <1>6

LEMMA StartGood ==
    ASSUME SweepInv, NEW r \in Runners, NEW co \in Companies, NEW n \in {0, Batch},
           pc[r] = "idle", Start(r, co, n), NEW p \in {"claim", "ensure"},
           pc' = [pc EXCEPT ![r] = p], NEW a \in Accounts \cup {None}, cur' = [cur EXCEPT ![r] = a],
           p = "ensure" => a \in Accounts,
           UNCHANGED <<acct, lock, got, lastRun, glitches, others>>
    PROVE  Good(r)
  <1>1. TablesTyped /\ RunnersTyped /\ Holds(r)
    BY TwoHalves DEF SweepInv
  <1>2. [company |-> co, start |-> now, batch |-> n, claims |-> 0, attempted |-> {}] \in Run
    BY <1>1, SweepAssumption DEF Run, TablesTyped
  <1>3. RunnersTyped' /\ TablesTyped'
    BY <1>1, <1>2 DEF Start, RunnersTyped, TablesTyped, others
  <1>4. pc'[r] = p /\ run'[r] \in Run /\ cur'[r] = a
    BY <1>1, <1>2 DEF Start, RunnersTyped
  <1>5. \A q \in Runners \ {r} : pc'[q] = pc[q] /\ run'[q] = run[q] /\ cur'[q] = cur[q] /\ got'[q] = got[q]
    BY <1>1 DEF Start, RunnersTyped
  <1>6. OthersStay(r)
    BY <1>5 DEF OthersStay
  <1>7. \A b \in Accounts : lock'[b] # r
    BY <1>1 DEF Holds, Processing
  <1>8. Holds(r)'
    BY <1>4, <1>7 DEF Holds, Processing
  <1> QED
    BY <1>3, <1>6, <1>8 DEF Good, TypeOK, TablesTyped, RunnersTyped, Row, Cell

LEMMA ClaimGood ==
    ASSUME SweepInv, NEW r \in Runners, Claim(r)
    PROVE  Good(r)
  <1>1. TablesTyped /\ RunnersTyped /\ Holds(r) /\ r # None
    BY TwoHalves, SweepAssumption DEF SweepInv
  <1>2. run[r] \in Run /\ pc[r] = "claim" /\ run[r].claims < run[r].batch
    BY <1>1 DEF Claim, Holds
  <1>3. PICK a \in Accounts :
          /\ Claimable(r, a)
          /\ lock' = [lock EXCEPT ![a] = r]
          /\ cur' = [cur EXCEPT ![r] = a]
          /\ run' = [run EXCEPT ![r].claims = @ + 1, ![r].attempted = @ \cup {a}]
    BY DEF Claim
  <1>4. run'[r] = [run[r] EXCEPT !.claims = @ + 1, !.attempted = @ \cup {a}]
        /\ \A q \in Runners \ {r} : run'[q] = run[q]
    BY <1>1, <1>3 DEF RunnersTyped
  <1>5. run[r].claims + 1 \in 0..Batch
    BY <1>2, SweepAssumption DEF Run
  <1>6. run'[r] \in Run
    BY <1>2, <1>4, <1>5 DEF Run
  <1>7. run' \in [Runners -> Run \cup {None}]
    BY <1>1, <1>3, <1>4, <1>6 DEF RunnersTyped
  <1>8. RunnersTyped'
    BY <1>1, <1>3, <1>7 DEF Claim, RunnersTyped
  <1>9. TablesTyped'
    BY <1>1, <1>3 DEF Claim, TablesTyped, others
  <1>10. lock'[a] = r /\ lock[a] = None /\ acct[a].status = "active" /\ acct' = acct
         /\ \A b \in Accounts \ {a} : lock'[b] = lock[b]
    BY <1>1, <1>3 DEF Claimable, Due, Claim, TablesTyped
  <1>11. /\ pc'[r] = "read" /\ cur'[r] = a
         /\ \A q \in Runners \ {r} : pc'[q] = pc[q] /\ cur'[q] = cur[q] /\ got'[q] = got[q]
    BY <1>1, <1>3 DEF Claim, RunnersTyped
  <1>12. OthersStay(r)
    BY <1>4, <1>10, <1>11 DEF OthersStay
  <1>13. \A b \in Accounts : lock[b] # r
    BY <1>1, <1>2 DEF Holds, Processing
  <1>14. Holds(r)'
    BY <1>6, <1>10, <1>11, <1>13 DEF Holds, Processing
  <1> QED
    BY <1>8, <1>9, <1>12, <1>14 DEF Good, TypeOK, TablesTyped, RunnersTyped, Row, Cell

LEMMA EndRunGood ==
    ASSUME SweepInv, NEW r \in Runners, EndRun(r)
    PROVE  Good(r)
  <1>1. TablesTyped /\ RunnersTyped /\ Holds(r)
    BY TwoHalves DEF SweepInv
  <1>2. run[r].start \in Nat
    BY <1>1 DEF EndRun, Holds, Run
  <1>3. RunnersTyped' /\ TablesTyped'
    BY <1>1, <1>2 DEF EndRun, RunnersTyped, TablesTyped, others
  <1>4. /\ pc'[r] = "idle"
        /\ \A q \in Runners \ {r} : pc'[q] = pc[q] /\ run'[q] = run[q] /\ cur'[q] = cur[q] /\ got'[q] = got[q]
    BY <1>1 DEF EndRun, RunnersTyped
  <1>5. OthersStay(r)
    BY <1>4 DEF OthersStay, EndRun
  <1>6. \A b \in Accounts : lock'[b] # r
    BY <1>1 DEF Holds, Processing, EndRun
  <1>7. Holds(r)'
    BY <1>4, <1>6 DEF Holds, Processing
  <1> QED
    BY <1>3, <1>5, <1>7 DEF Good, TypeOK, TablesTyped, RunnersTyped, Row, Cell

LEMMA EnsureClaimGood ==
    ASSUME SweepInv, NEW r \in Runners, EnsureClaim(r)
    PROVE  Good(r)
  <1>1. TablesTyped /\ RunnersTyped /\ Holds(r) /\ r # None
    BY TwoHalves, SweepAssumption DEF SweepInv
  <1>2. cur[r] \in Accounts /\ run[r] \in Run /\ \A b \in Accounts : lock[b] # r
    BY <1>1 DEF EnsureClaim, Holds, Processing
  <1>3. RunnersTyped' /\ TablesTyped'
    BY <1>1, <1>2 DEF EnsureClaim, RunnersTyped, TablesTyped, others
  <1>4. /\ \A q \in Runners \ {r} : pc'[q] = pc[q] /\ run'[q] = run[q] /\ cur'[q] = cur[q] /\ got'[q] = got[q]
        /\ \A a \in Accounts : lock'[a] = lock[a] \/ (a = cur[r] /\ lock[a] = None /\ lock'[a] = r)
    BY <1>1, <1>2 DEF EnsureClaim, RunnersTyped, TablesTyped
  <1>5. OthersStay(r)
    BY <1>4 DEF OthersStay, EnsureClaim
  <1>6. CASE acct[cur[r]].status = "active" /\ lock[cur[r]] = None
    <2>1. pc'[r] = "read" /\ cur' = cur /\ run' = run /\ lock'[cur[r]] = r /\ acct' = acct
      BY <1>1, <1>2, <1>6 DEF EnsureClaim, RunnersTyped, TablesTyped
    <2>2. Holds(r)'
      BY <1>2, <1>4, <1>6, <2>1 DEF Holds, Processing
    <2> QED
      BY <1>3, <1>5, <2>2 DEF Good, TypeOK, TablesTyped, RunnersTyped, Row, Cell
  <1>7. CASE ~(acct[cur[r]].status = "active" /\ lock[cur[r]] = None)
    <2>1. pc'[r] = "claim" /\ run' = run /\ lock' = lock
      BY <1>1, <1>7 DEF EnsureClaim, RunnersTyped
    <2>2. Holds(r)'
      BY <1>2, <2>1 DEF Holds, Processing
    <2> QED
      BY <1>3, <1>5, <2>2 DEF Good, TypeOK, TablesTyped, RunnersTyped, Row, Cell
  <1> QED
    BY <1>6, <1>7

\* The store answers with the account's own credential or with none.
LEMMA CellForTyped ==
    ASSUME TypeOK, NEW r \in Runners, cur[r] \in Accounts
    PROVE  /\ CellFor(r) \in Cell
           /\ CellFor(r).live # None => CellFor(r) = cell[cur[r]] /\ cell[cur[r]].live \in Bundle
  <1>1. cell[cur[r]] \in Cell
    BY DEF TypeOK, Cell
  <1>2. EmptyCell \in Cell /\ EmptyCell.live = None
    BY DEF EmptyCell, Cell
  <1> QED
    BY <1>1, <1>2 DEF CellFor, Cell

\* The rows that a runner commits.
LEMMA RowsTyped ==
    ASSUME TypeOK, NEW a \in Accounts, NEW e \in Nat
    PROVE  /\ acct[a] \in Row
           /\ [acct[a] EXCEPT !.status = "expired"] \in Row
           /\ [acct[a] EXCEPT !.exp = e] \in Row
  BY DEF TypeOK, Row

LEMMA SettleGood ==
    ASSUME SweepInv, NEW r \in Runners, Processing(r), NEW row \in Row, Settle(r, row),
           cell' \in [Accounts -> Cell], grant' \in [Accounts -> Nat],
           glitches' \in 0..Glitches, UNCHANGED <<closing, now, crashes>>
    PROVE  Good(r)
  <1>1. TypeOK /\ TablesTyped /\ Holds(r)
    BY TwoHalves DEF SweepInv
  <1>2. /\ acct' \in [Accounts -> Row] /\ lock' \in [Accounts -> Runners \cup {None}]
        /\ RunnersTyped' /\ OthersStay(r) /\ Holds(r)'
        /\ acct'[cur[r]] = row
        /\ \A a \in Accounts \ {cur[r]} : acct'[a] = acct[a]
    BY <1>1, SettleStep
  <1>3. TablesTyped'
    BY <1>1, <1>2 DEF TablesTyped
  <1> QED
    BY <1>2, <1>3 DEF Good, TypeOK, TablesTyped, RunnersTyped, Row, Cell

LEMMA FailGood ==
    ASSUME SweepInv, NEW r \in Runners, Fail(r), UNCHANGED <<cell, grant, closing, now>>,
           glitches' \in 0..Glitches, crashes' \in 0..MaxCrashes
    PROVE  Good(r)
  <1>1. TypeOK /\ TablesTyped
    BY TwoHalves DEF SweepInv
  <1>2. /\ lock' \in [Accounts -> Runners \cup {None}] /\ RunnersTyped'
        /\ OthersStay(r) /\ Holds(r)' /\ acct' = acct
    BY <1>1, FailStep
  <1>3. TablesTyped'
    BY <1>1, <1>2 DEF TablesTyped
  <1> QED
    BY <1>2, <1>3 DEF Good, TypeOK, TablesTyped, RunnersTyped, Row, Cell

LEMMA InnerGood ==
    ASSUME SweepInv, NEW r \in Runners, Processing(r),
           NEW p \in {"exchange", "rotate", "mirror"}, Step(r, p),
           NEW b \in Bundle, got' = [got EXCEPT ![r] = b],
           cell' \in [Accounts -> Cell], grant' \in [Accounts -> Nat],
           UNCHANGED <<closing, now, glitches, crashes>>
    PROVE  Good(r)
  <1>1. TypeOK /\ TablesTyped /\ Holds(r)
    BY TwoHalves DEF SweepInv
  <1>2. RunnersTyped' /\ OthersStay(r) /\ Holds(r)'
    BY <1>1, InnerStep
  <1>3. TablesTyped'
    BY <1>1 DEF TablesTyped, Step
  <1> QED
    BY <1>2, <1>3 DEF Good, TypeOK, TablesTyped, RunnersTyped, Row, Cell

LEMMA ReadGood ==
    ASSUME SweepInv, NEW r \in Runners, Read(r)
    PROVE  Good(r)
  <1>0. /\ TypeOK /\ TablesTyped /\ Holds(r) /\ Processing(r) /\ cur[r] \in Accounts
        /\ UNCHANGED <<cell, grant, closing, now, crashes>>
    BY TwoHalves DEF SweepInv, Holds, Read, Processing, others
  <1>1. cell' \in [Accounts -> Cell] /\ grant' \in [Accounts -> Nat]
    BY <1>0 DEF TablesTyped
  <1>2. Glitch \/ UNCHANGED glitches => glitches' \in 0..Glitches
    BY <1>0, SweepAssumption DEF TablesTyped, Glitch
  <1>3. ASSUME Skip(r), Glitch \/ UNCHANGED glitches PROVE Good(r)
    <2>1. acct[cur[r]] \in Row
      BY <1>0 DEF TablesTyped
    <2> QED
      BY <1>0, <1>1, <1>2, <1>3, <2>1, SettleGood DEF Skip
  <1>4. ASSUME Expire(r), UNCHANGED glitches PROVE Good(r)
    <2>1. [acct[cur[r]] EXCEPT !.status = "expired"] \in Row
      BY <1>0 DEF TablesTyped, Row
    <2> QED
      BY <1>0, <1>1, <1>2, <1>4, <2>1, SettleGood DEF Expire
  <1>5. ASSUME ReadCode(CellFor(r), now) = "ok" PROVE CellFor(r).live \in Bundle
    BY <1>0, <1>5, CellForTyped DEF ReadCode, Cell
  <1>6. ASSUME ReadCode(CellFor(r), now) = "ok", UNCHANGED glitches,
               Settle(r, [acct[cur[r]] EXCEPT !.exp = CellFor(r).live.exp])
        PROVE  Good(r)
    <2>1. CellFor(r).live.exp \in Nat
      BY <1>5, <1>6 DEF Bundle
    <2>2. [acct[cur[r]] EXCEPT !.exp = CellFor(r).live.exp] \in Row
      BY <1>0, <2>1, RowsTyped
    <2> QED
      BY <1>0, <1>1, <1>2, <1>6, <2>2, SettleGood
  <1>7. ASSUME ReadCode(CellFor(r), now) = "ok", UNCHANGED glitches,
               got' = [got EXCEPT ![r] = CellFor(r).live], Step(r, "exchange")
        PROVE  Good(r)
    BY <1>0, <1>1, <1>5, <1>7, InnerGood
  <1> QED
    BY <1>3, <1>4, <1>6, <1>7 DEF Read

LEMMA ExchangeGood ==
    ASSUME SweepInv, NEW r \in Runners, Exchange(r)
    PROVE  Good(r)
  <1>0. /\ TypeOK /\ TablesTyped /\ Holds(r) /\ Processing(r) /\ cur[r] \in Accounts
        /\ got[r] \in Bundle /\ UNCHANGED <<cell, closing, now, crashes>>
    BY TwoHalves DEF SweepInv, Holds, Exchange, Processing
  <1>1. Successor(cur[r], got[r].token) \in Nat
    BY <1>0 DEF Successor, Bundle
  <1>2. cell' \in [Accounts -> Cell] /\ grant' \in [Accounts -> Nat]
    BY <1>0, <1>1 DEF TablesTyped, Exchange
  <1>3. Glitch \/ UNCHANGED glitches => glitches' \in 0..Glitches
    BY <1>0, SweepAssumption DEF TablesTyped, Glitch
  <1>4. ASSUME Skip(r), Glitch \/ UNCHANGED glitches PROVE Good(r)
    <2>1. acct[cur[r]] \in Row
      BY <1>0 DEF TablesTyped
    <2> QED
      BY <1>0, <1>2, <1>3, <1>4, <2>1, SettleGood DEF Skip
  <1>5. ASSUME Expire(r), UNCHANGED glitches PROVE Good(r)
    <2>1. [acct[cur[r]] EXCEPT !.status = "expired"] \in Row
      BY <1>0 DEF TablesTyped, Row
    <2> QED
      BY <1>0, <1>2, <1>3, <1>5, <2>1, SettleGood DEF Expire
  <1>6. ASSUME UNCHANGED glitches, Step(r, "rotate"),
               got' = [got EXCEPT ![r] = [exp |-> now + Life, token |-> Successor(cur[r], got[r].token)]]
        PROVE  Good(r)
    <2>1. [exp |-> now + Life, token |-> Successor(cur[r], got[r].token)] \in Bundle
      BY <1>0, <1>1, SweepAssumption DEF TablesTyped, Bundle
    <2> QED
      BY <1>0, <1>2, <1>6, <2>1, InnerGood
  <1> QED
    BY <1>4, <1>5, <1>6 DEF Exchange

LEMMA RotateGood ==
    ASSUME SweepInv, NEW r \in Runners, Rotate(r)
    PROVE  Good(r)
  <1>0. /\ TypeOK /\ TablesTyped /\ RunnersTyped /\ Holds(r) /\ Processing(r) /\ cur[r] \in Accounts
        /\ got[r] \in Bundle /\ UNCHANGED <<grant, closing, now, crashes>>
    BY TwoHalves DEF SweepInv, Holds, Rotate, Processing
  <1>1. cell' \in [Accounts -> Cell] /\ grant' \in [Accounts -> Nat]
    <2>1. cell' = cell \/ cell' = [cell EXCEPT ![cur[r]] = Holding(got[r])]
      BY DEF Rotate
    <2>2. Holding(got[r]) \in Cell
      BY <1>0 DEF Holding, Cell
    <2> QED
      BY <1>0, <2>1, <2>2 DEF TablesTyped
  <1>2. Glitch \/ UNCHANGED glitches => glitches' \in 0..Glitches
    BY <1>0, SweepAssumption DEF TablesTyped, Glitch
  <1>3. ASSUME Skip(r), Glitch \/ UNCHANGED glitches PROVE Good(r)
    <2>1. acct[cur[r]] \in Row
      BY <1>0 DEF TablesTyped
    <2> QED
      BY <1>0, <1>1, <1>2, <1>3, <2>1, SettleGood DEF Skip
  <1>4. ASSUME Expire(r), UNCHANGED glitches PROVE Good(r)
    <2>1. [acct[cur[r]] EXCEPT !.status = "expired"] \in Row
      BY <1>0 DEF TablesTyped, Row
    <2> QED
      BY <1>0, <1>1, <1>2, <1>4, <2>1, SettleGood DEF Expire
  <1>5. ASSUME Fail(r), Glitch \/ UNCHANGED glitches, UNCHANGED cell PROVE Good(r)
    <2>1. crashes' \in 0..MaxCrashes
      BY <1>0 DEF TablesTyped
    <2> QED
      BY <1>0, <1>2, <1>5, <2>1, FailGood
  <1>6. ASSUME UNCHANGED <<got, glitches>>, Step(r, "mirror") PROVE Good(r)
    <2>1. got' = [got EXCEPT ![r] = got[r]]
      BY <1>0, <1>6 DEF RunnersTyped
    <2> QED
      BY <1>0, <1>1, <1>6, <2>1, InnerGood
  <1> QED
    BY <1>3, <1>4, <1>5, <1>6 DEF Rotate

LEMMA MirrorGood ==
    ASSUME SweepInv, NEW r \in Runners, Mirror(r)
    PROVE  Good(r)
  <1>0. /\ TypeOK /\ TablesTyped /\ Holds(r) /\ Processing(r) /\ cur[r] \in Accounts
        /\ got[r] \in Bundle /\ UNCHANGED <<cell, grant, closing, now, crashes, glitches>>
    BY TwoHalves DEF SweepInv, Holds, Mirror, Processing, others
  <1>1. got[r].exp \in Nat
    BY <1>0 DEF Bundle
  <1>2. [acct[cur[r]] EXCEPT !.exp = got[r].exp] \in Row
    BY <1>0, <1>1, RowsTyped
  <1>3. cell' \in [Accounts -> Cell] /\ grant' \in [Accounts -> Nat] /\ glitches' \in 0..Glitches
    BY <1>0 DEF TablesTyped
  <1> QED
    BY <1>0, <1>2, <1>3, SettleGood DEF Mirror

LEMMA CrashGood ==
    ASSUME SweepInv, NEW r \in Runners, Crash(r)
    PROVE  Good(r)
  <1>1. TablesTyped
    BY TwoHalves DEF SweepInv
  <1>2. glitches' \in 0..Glitches /\ crashes' \in 0..MaxCrashes
    BY <1>1, SweepAssumption DEF TablesTyped, Crash
  <1> QED
    BY <1>2, FailGood DEF Crash

LEMMA RunnerGood ==
    ASSUME SweepInv, NEW r \in Runners, Working(r) \/ Crash(r)
    PROVE  Good(r)
  BY ClaimGood, EndRunGood, EnsureClaimGood, ReadGood, ExchangeGood, RotateGood, MirrorGood, CrashGood
  DEF Working

\* The steps of a runner, and the steps of everyone else.
ByRunner(r) ==
    \/ \E co \in Companies : StartRun(r, co)
    \/ r \in Services /\ \E a \in Accounts, co \in Companies : EnsureFresh(r, a, co)
    \/ Working(r) \/ Crash(r)

Around ==
    \/ \E a \in Accounts, co \in Companies : DisconnectRevoke(a, co)
    \/ \E a \in Accounts : DisconnectClose(a) \/ GrantDies(a)
    \/ Tick \/ UNCHANGED vars

LEMMA WhoseStep == [Next]_vars => (\E r \in Runners : ByRunner(r)) \/ Around
  BY DEF Next, ByRunner, Around, Runners

LEMMA ByRunnerGood ==
    ASSUME SweepInv, NEW r \in Runners, ByRunner(r)
    PROVE  Good(r)
  <1>1. ASSUME NEW co \in Companies, StartRun(r, co) PROVE Good(r)
    <2>1. cur[r] \in Accounts \cup {None} /\ cur' = [cur EXCEPT ![r] = cur[r]]
      BY <1>1 DEF StartRun, SweepInv, TypeOK
    <2> QED
      BY <1>1, <2>1, StartGood DEF StartRun
  <1>2. ASSUME NEW a \in Accounts, NEW co \in Companies, EnsureFresh(r, a, co) PROVE Good(r)
    BY <1>2, StartGood DEF EnsureFresh
  <1> QED
    BY <1>1, <1>2, RunnerGood DEF ByRunner

\* Whatever goes on around the runners leaves a locked row alone.
LEMMA AroundGood ==
    ASSUME SweepInv, Around
    PROVE  TypeOK' /\ OthersStay(None)
  <1>0. TablesTyped /\ RunnersTyped
    BY TwoHalves DEF SweepInv
  <1> SUFFICES TablesTyped' /\ RunnersTyped' /\ OthersStay(None)
    BY DEF TypeOK, TablesTyped, RunnersTyped, Row, Cell
  <1>1. ASSUME NEW a \in Accounts, NEW co \in Companies, DisconnectRevoke(a, co)
        PROVE  TablesTyped' /\ RunnersTyped' /\ OthersStay(None)
    <2>1. Revoked(cell[a]) \in Cell
      BY <1>0 DEF TablesTyped, Cell, Revoked
    <2>2. cell' \in [Accounts -> Cell]
      BY <1>0, <1>1, <2>1 DEF TablesTyped, DisconnectRevoke
    <2> QED
      BY <1>0, <1>1, <2>2 DEF TablesTyped, RunnersTyped, OthersStay, DisconnectRevoke, runners
  <1>2. ASSUME NEW a \in Accounts, DisconnectClose(a)
        PROVE  TablesTyped' /\ RunnersTyped' /\ OthersStay(None)
    <2>1. acct' \in [Accounts -> Row]
      BY <1>0, <1>2 DEF TablesTyped, DisconnectClose, Row
    <2>2. lock[a] = None /\ \A b \in Accounts \ {a} : acct'[b] = acct[b]
      BY <1>0, <1>2 DEF TablesTyped, DisconnectClose
    <2> QED
      BY <1>0, <1>2, <2>1, <2>2 DEF TablesTyped, RunnersTyped, OthersStay, DisconnectClose, runners
  <1>3. ASSUME NEW a \in Accounts, GrantDies(a)
        PROVE  TablesTyped' /\ RunnersTyped' /\ OthersStay(None)
    BY <1>0, <1>3 DEF TablesTyped, RunnersTyped, OthersStay, GrantDies, runners
  <1>4. CASE Tick \/ UNCHANGED vars
    BY <1>0, <1>4, SweepAssumption DEF TablesTyped, RunnersTyped, OthersStay, Tick, vars, runners
  <1> QED
    BY <1>1, <1>2, <1>3, <1>4 DEF Around

LEMMA SweepNext == SweepInv /\ [Next]_vars => SweepInv'
  <1> SUFFICES ASSUME SweepInv, [Next]_vars PROVE SweepInv'
    OBVIOUS
  <1>1. ASSUME NEW r \in Runners, Good(r) PROVE SweepInv'
    <2>1. \A q \in Runners \ {r} : Holds(q)'
      BY <1>1, StillHolds DEF Good
    <2> QED
      BY <1>1, <2>1 DEF Good, SweepInv
  <1>2. ASSUME TypeOK', OthersStay(None) PROVE SweepInv'
    <2>1. \A q \in Runners \ {None} : Holds(q)'
      BY <1>2, StillHolds
    <2> QED
      BY <1>2, <2>1, SweepAssumption DEF SweepInv
  <1> QED
    BY <1>1, <1>2, WhoseStep, ByRunnerGood, AroundGood

\* Whoever else is running, dying or disconnecting, a runner that processes an account
\* holds its row lock and the account is active until the runner itself lets go.
THEOREM SweepInvariant == Spec => []SweepInv
  BY SweepInit, SweepNext, PTL DEF Spec

\* The rows, the store and the runners keep their types.
THEOREM SweepTyped == Spec => []TypeOK
  <1>1. SweepInv => TypeOK
    BY DEF SweepInv
  <1> QED
    BY <1>1, SweepInvariant, PTL

\* Concurrent runners never process the same account.
THEOREM RunnersApart == Spec => []ClaimsDisjoint
  <1>1. SweepInv => ClaimsDisjoint
    BY DEF SweepInv, ClaimsDisjoint, Holds
  <1> QED
    BY <1>1, SweepInvariant, PTL
-----------------------------------------------------------------------------
(* The status of an account.                                               *)

\* A step writes the row of an account that is active, or none.
LEMMA RowStep ==
    ASSUME SweepInv, [Next]_vars, NEW a \in Accounts
    PROVE  /\ acct[a].status # "active" => acct'[a] = acct[a]
           /\ acct[a].status = "active" /\ acct'[a].status = "revoked" => a \in closing
  <1>0. TypeOK /\ TablesTyped /\ \A r \in Runners : Holds(r)
    BY TwoHalves DEF SweepInv
  <1>1. ASSUME NEW r \in Runners, Processing(r), NEW row \in Row, Settle(r, row),
               row.status # "revoked"
        PROVE  /\ acct[a].status # "active" => acct'[a] = acct[a]
               /\ acct'[a].status = "revoked" => acct[a].status = "revoked"
    <2>1. cur[r] \in Accounts /\ acct[cur[r]].status = "active"
      BY <1>0, <1>1 DEF Holds
    <2>2. acct'[cur[r]] = row /\ \A b \in Accounts \ {cur[r]} : acct'[b] = acct[b]
      BY <1>0, <1>1, <2>1 DEF Settle, TablesTyped
    <2> QED
      BY <1>1, <2>1, <2>2
  <1>2. ASSUME NEW r \in Runners, Processing(r), Skip(r) \/ Expire(r)
        PROVE  /\ acct[a].status # "active" => acct'[a] = acct[a]
               /\ acct'[a].status = "revoked" => acct[a].status = "revoked"
    <2>1. cur[r] \in Accounts /\ acct[cur[r]].status = "active" /\ acct[cur[r]] \in Row
      BY <1>0, <1>2 DEF Holds, TablesTyped
    <2>2. /\ [acct[cur[r]] EXCEPT !.status = "expired"] \in Row
          /\ [acct[cur[r]] EXCEPT !.status = "expired"].status = "expired"
      BY <2>1 DEF Row
    <2> QED
      BY <1>1, <1>2, <2>1, <2>2 DEF Skip, Expire
  <1>3. ASSUME NEW r \in Runners, Processing(r), NEW e \in Nat,
               Settle(r, [acct[cur[r]] EXCEPT !.exp = e])
        PROVE  /\ acct[a].status # "active" => acct'[a] = acct[a]
               /\ acct'[a].status = "revoked" => acct[a].status = "revoked"
    <2>1. cur[r] \in Accounts /\ acct[cur[r]].status = "active" /\ acct[cur[r]] \in Row
      BY <1>0, <1>3 DEF Holds, TablesTyped
    <2>2. /\ [acct[cur[r]] EXCEPT !.exp = e] \in Row
          /\ [acct[cur[r]] EXCEPT !.exp = e].status = "active"
      BY <2>1 DEF Row
    <2> QED
      BY <1>1, <1>3, <2>2
  <1>4. ASSUME NEW r \in Runners, Read(r)
        PROVE  acct' = acct \/ (/\ acct[a].status # "active" => acct'[a] = acct[a]
                                /\ acct'[a].status = "revoked" => acct[a].status = "revoked")
    <2>1. Processing(r) /\ cur[r] \in Accounts
      BY <1>0, <1>4 DEF Read, Processing, Holds
    <2>2. ReadCode(CellFor(r), now) = "ok" => CellFor(r).live.exp \in Nat
      BY <1>0, <2>1, CellForTyped DEF ReadCode, Cell, Bundle
    <2>3. \/ Skip(r) \/ Expire(r) \/ UNCHANGED acct
          \/ /\ ReadCode(CellFor(r), now) = "ok"
             /\ Settle(r, [acct[cur[r]] EXCEPT !.exp = CellFor(r).live.exp])
      BY <1>4 DEF Read, Step
    <2> QED
      BY <1>2, <1>3, <2>1, <2>2, <2>3
  <1>5. ASSUME NEW r \in Runners, Exchange(r) \/ Rotate(r)
        PROVE  acct' = acct \/ (/\ acct[a].status # "active" => acct'[a] = acct[a]
                                /\ acct'[a].status = "revoked" => acct[a].status = "revoked")
    <2>1. Processing(r)
      BY <1>5 DEF Exchange, Rotate, Processing
    <2>2. Skip(r) \/ Expire(r) \/ UNCHANGED acct
      BY <1>5 DEF Exchange, Rotate, Step, Fail
    <2> QED
      BY <1>2, <2>1, <2>2
  <1>6. ASSUME NEW r \in Runners, Mirror(r)
        PROVE  /\ acct[a].status # "active" => acct'[a] = acct[a]
               /\ acct'[a].status = "revoked" => acct[a].status = "revoked"
    <2>1. Processing(r) /\ got[r].exp \in Nat
      BY <1>0, <1>6 DEF Mirror, Processing, Holds, Bundle
    <2> QED
      BY <1>3, <1>6, <2>1 DEF Mirror
  <1>7. ASSUME NEW b \in Accounts, DisconnectClose(b)
        PROVE  /\ acct[a].status # "active" => acct'[a] = acct[a]
               /\ acct'[a].status = "revoked" => acct[a].status = "revoked" \/ a \in closing
    BY <1>0, <1>7 DEF DisconnectClose, TablesTyped
  <1>8. CASE UNCHANGED acct
    BY <1>8
  <1> QED
    BY <1>4, <1>5, <1>6, <1>7, <1>8
    DEF Next, StartRun, EnsureFresh, Working, Claim, EndRun, EnsureClaim, Crash, Fail,
        DisconnectRevoke, GrantDies, Tick, vars

\* expired and revoked are final, although the runners' UPDATEs carry no guard on the
\* status.
THEOREM StatusIsFinal == Spec => StatusFinal
  <1>1. SweepInv /\ [Next]_vars
          => [\A a \in Accounts : acct[a].status # "active" => acct'[a].status = acct[a].status]_vars
    BY RowStep
  <1> QED
    BY <1>1, SweepInvariant, PTL DEF Spec, StatusFinal

-----------------------------------------------------------------------------
(* Disconnects in the course of a refresh.                                 *)

\* Every disconnect comes under the company whose store holds the credential.
OwnCompany == \A a \in Accounts, co \in Companies : co = OwnerOf[a]

\* From the revocation on, before and after the row is closed, the credential is dead.
DeadInv == RevokedIsDead /\ \A a \in closing : cell[a].live = None

\* A refresh replaces a live credential and never revives a dead one.
LEMMA CellStep ==
    ASSUME SweepInv, [Next]_vars
    PROVE  \/ cell' = cell
           \/ \E r \in Runners :
                /\ Rotate(r) /\ cur[r] \in Accounts /\ cell[cur[r]].live # None
                /\ cell' = [cell EXCEPT ![cur[r]] = Holding(got[r])]
           \/ \E a \in Accounts, co \in Companies : DisconnectRevoke(a, co)
  <1>1. ASSUME NEW r \in Runners, Rotate(r), cell' # cell
        PROVE  /\ cur[r] \in Accounts /\ cell[cur[r]].live # None
               /\ cell' = [cell EXCEPT ![cur[r]] = Holding(got[r])]
    <2>1. CanRotate(CellFor(r)) /\ cell' = [cell EXCEPT ![cur[r]] = Holding(got[r])]
      BY <1>1 DEF Rotate
    <2>2. cur[r] \in Accounts /\ TypeOK
      BY <1>1 DEF SweepInv, Holds, Processing, Rotate
    <2> QED
      BY <2>1, <2>2, CellForTyped DEF CanRotate
  <1> QED
    BY <1>1
    DEF Next, StartRun, EnsureFresh, Working, Claim, EndRun, EnsureClaim, Read, Exchange, Mirror,
        Crash, DisconnectClose, GrantDies, Tick, vars, others

LEMMA DeadNext ==
    ASSUME OwnCompany, SweepInv, DeadInv, [Next]_vars
    PROVE  DeadInv'
  <1>0. TablesTyped
    BY TwoHalves DEF SweepInv
  <1>1. ASSUME NEW a \in Accounts, cell[a].live = None PROVE cell'[a].live = None
    <2>1. ASSUME NEW r \in Runners, cur[r] \in Accounts, cell[cur[r]].live # None,
                 cell' = [cell EXCEPT ![cur[r]] = Holding(got[r])]
          PROVE  cell'[a].live = None
      BY <1>0, <1>1, <2>1 DEF TablesTyped
    <2>2. ASSUME NEW b \in Accounts, NEW co \in Companies, DisconnectRevoke(b, co)
          PROVE  cell'[a].live = None
      BY <1>0, <1>1, <2>2 DEF TablesTyped, DisconnectRevoke, Revoked, Cell
    <2> QED
      BY <1>1, <2>1, <2>2, CellStep
  <1>2. ASSUME NEW a \in Accounts, a \in closing', a \notin closing PROVE cell'[a].live = None
    <2>1. PICK co \in Companies : DisconnectRevoke(a, co)
      BY <1>2 DEF Next, StartRun, EnsureFresh, Working, Claim, EndRun, EnsureClaim, Read, Exchange,
         Rotate, Mirror, Crash, DisconnectRevoke, DisconnectClose, GrantDies, Tick, vars, others
    <2>2. cell' = [cell EXCEPT ![a] = Revoked(cell[a])]
      BY <2>1 DEF DisconnectRevoke, OwnCompany
    <2> QED
      BY <1>0, <2>2 DEF TablesTyped, Revoked, Cell
  <1>3. ASSUME NEW a \in Accounts, acct'[a].status = "revoked" PROVE cell'[a].live = None
    <2>1. acct[a].status = "revoked" \/ a \in closing
      <3>1. /\ acct[a].status # "active" => acct'[a] = acct[a]
            /\ acct[a].status = "active" /\ acct'[a].status = "revoked" => a \in closing
        BY RowStep
      <3> QED
        BY <1>3, <3>1
    <2> QED
      BY <1>1, <2>1 DEF DeadInv, RevokedIsDead
  <1>4. closing' \subseteq Accounts
    BY SweepNext DEF SweepInv, TypeOK
  <1> QED
    BY <1>1, <1>2, <1>3, <1>4 DEF DeadInv, RevokedIsDead

\* A disconnect under the account's company is not undone by a refresh in flight, whether
\* the refresh read the credential before it or writes its successor after it.
THEOREM RevocationLasts == ASSUME OwnCompany PROVE Spec => []RevokedIsDead
  <1>1. Init => DeadInv
    BY DEF Init, DeadInv, RevokedIsDead
  <1>2. SweepInv /\ DeadInv /\ [Next]_vars => DeadInv'
    BY DeadNext
  <1>3. DeadInv => RevokedIsDead
    BY DEF DeadInv
  <1> QED
    BY <1>1, <1>2, <1>3, SweepInvariant, PTL DEF Spec
-----------------------------------------------------------------------------
(* The expires_at mirror.                                                  *)

\* A refreshed token outlives the window in which its predecessor came due.
OutlivesWindow == Window <= Life

\* How the account in hand stands to the clock and to the token obtained for it.
Early(r) ==
    /\ pc[r] = "ensure" => r \in Services
    /\ pc[r] = "read" /\ r \in Jobs => acct[cur[r]].exp < now + Window
    /\ pc[r] = "exchange" => acct[cur[r]].exp < now + Window
    /\ pc[r] \in {"rotate", "mirror"} => acct[cur[r]].exp <= got[r].exp
    /\ pc[r] = "mirror" => cell[cur[r]].live \in {None, got[r]}

EarlyInv == MirrorNotLate /\ \A r \in Runners : Early(r)

\* A cell is written by the runner that holds the row, or emptied by a disconnect.
CellsStay(r) == \A a \in Accounts : cell'[a] = cell[a] \/ cell'[a].live = None \/ lock[a] = r

LEMMA StillEarly ==
    ASSUME SweepInv, EarlyInv, NEW r, OthersStay(r), CellsStay(r), now' \in Nat, now <= now',
           NEW q \in Runners \ {r}
    PROVE  Early(q)'
  <1>1. Holds(q) /\ Early(q) /\ q # None
    BY SweepAssumption DEF SweepInv, EarlyInv
  <1>2. pc'[q] = pc[q] /\ cur'[q] = cur[q] /\ got'[q] = got[q]
    BY DEF OthersStay
  <1>3. ASSUME Processing(q)
        PROVE  /\ cur[q] \in Accounts /\ acct'[cur[q]] = acct[cur[q]] /\ acct[cur[q]].exp \in Nat
               /\ cell'[cur[q]] = cell[cur[q]] \/ cell'[cur[q]].live = None
    <2>1. cur[q] \in Accounts /\ lock[cur[q]] = q
      BY <1>1, <1>3 DEF Holds
    <2> QED
      BY <1>1, <2>1 DEF OthersStay, CellsStay, SweepInv, TypeOK
  <1>4. now \in Nat /\ Window \in Nat
    BY SweepAssumption DEF SweepInv, TypeOK
  <1>5. CASE ~Processing(q)
    BY <1>1, <1>2, <1>5 DEF Early, Processing
  <1>6. CASE Processing(q)
    BY <1>1, <1>2, <1>3, <1>4, <1>6 DEF Early
  <1> QED
    BY <1>5, <1>6

\* What a step of runner r does for the mirror.
Punctual(r) == MirrorNotLate' /\ CellsStay(r) /\ Early(r)' /\ now' = now

LEMMA UnmovedPunctual ==
    ASSUME SweepInv, EarlyInv, NEW r \in Runners, UNCHANGED <<acct, cell, now>>, Early(r)'
    PROVE  Punctual(r)
  BY DEF Punctual, CellsStay, EarlyInv, MirrorNotLate

LEMMA SettlePunctual ==
    ASSUME SweepInv, EarlyInv, NEW r \in Runners, Processing(r), NEW row \in Row, Settle(r, row),
           UNCHANGED <<cell, now>>,
           row.status = "active" /\ cell[cur[r]].live # None => row.exp <= cell[cur[r]].live.exp
    PROVE  Punctual(r)
  <1>1. TypeOK /\ Holds(r) /\ TablesTyped /\ RunnersTyped
    BY TwoHalves DEF SweepInv
  <1>2. /\ acct'[cur[r]] = row
        /\ \A a \in Accounts \ {cur[r]} : acct'[a] = acct[a]
    BY <1>1 DEF Settle, TablesTyped, Holds
  <1>3. MirrorNotLate'
    BY <1>2 DEF EarlyInv, MirrorNotLate
  <1>4. pc'[r] = "claim"
    BY <1>1 DEF Settle, RunnersTyped
  <1> QED
    BY <1>3, <1>4 DEF Punctual, CellsStay, Early

LEMMA SkipPunctual ==
    ASSUME SweepInv, EarlyInv, NEW r \in Runners, Processing(r), Skip(r) \/ Expire(r),
           UNCHANGED <<cell, now>>
    PROVE  Punctual(r)
  <1>1. cur[r] \in Accounts /\ acct[cur[r]] \in Row
    BY TwoHalves DEF SweepInv, Holds, TablesTyped
  <1>2. /\ [acct[cur[r]] EXCEPT !.status = "expired"] \in Row
        /\ [acct[cur[r]] EXCEPT !.status = "expired"].status # "active"
    BY <1>1 DEF Row
  <1>3. acct[cur[r]].status = "active" /\ cell[cur[r]].live # None
          => acct[cur[r]].exp <= cell[cur[r]].live.exp
    BY <1>1 DEF EarlyInv, MirrorNotLate
  <1>4. CASE Skip(r)
    BY <1>1, <1>3, <1>4, SettlePunctual DEF Skip
  <1>5. CASE Expire(r)
    BY <1>2, <1>5, SettlePunctual DEF Expire
  <1> QED
    BY <1>4, <1>5

LEMMA FailPunctual ==
    ASSUME SweepInv, EarlyInv, NEW r \in Runners, Fail(r), UNCHANGED <<cell, now>>
    PROVE  Punctual(r)
  <1>1. pc'[r] = "idle" /\ acct' = acct
    BY DEF Fail, SweepInv, TypeOK
  <1>2. Early(r)'
    BY <1>1 DEF Early
  <1> QED
    BY <1>1, <1>2, UnmovedPunctual

LEMMA ReadPunctual ==
    ASSUME SweepInv, EarlyInv, NEW r \in Runners, Read(r)
    PROVE  Punctual(r)
  <1>0. /\ TypeOK /\ RunnersTyped /\ Processing(r) /\ cur[r] \in Accounts /\ pc[r] = "read"
        /\ acct[cur[r]] \in Row /\ acct[cur[r]].status = "active" /\ UNCHANGED <<cell, now>>
        /\ Early(r) /\ MirrorNotLate
    BY TwoHalves DEF SweepInv, EarlyInv, Holds, Read, Processing, others, TablesTyped
  <1>1. ASSUME ReadCode(CellFor(r), now) = "ok"
        PROVE  /\ CellFor(r) = cell[cur[r]] /\ cell[cur[r]].live \in Bundle
               /\ cell[cur[r]].live # None
    BY <1>0, <1>1, CellForTyped DEF ReadCode, Cell
  <1>2. ASSUME ReadCode(CellFor(r), now) = "ok",
               Settle(r, [acct[cur[r]] EXCEPT !.exp = CellFor(r).live.exp])
        PROVE  Punctual(r)
    <2>1. CellFor(r).live.exp = cell[cur[r]].live.exp /\ CellFor(r).live.exp \in Nat
      BY <1>1, <1>2 DEF Bundle
    <2>2. /\ [acct[cur[r]] EXCEPT !.exp = CellFor(r).live.exp] \in Row
          /\ [acct[cur[r]] EXCEPT !.exp = CellFor(r).live.exp].exp <= cell[cur[r]].live.exp
      BY <1>0, <2>1 DEF Row
    <2> QED
      BY <1>0, <1>2, <2>2, SettlePunctual
  <1>3. ASSUME ReadCode(CellFor(r), now) = "ok", r \in Jobs \/ CellFor(r).live.exp < now + Window,
               Step(r, "exchange")
        PROVE  Punctual(r)
    <2>1. acct[cur[r]].exp \in Nat /\ now + Window \in Nat
      BY <1>0, SweepAssumption DEF Row, TypeOK
    <2>2. acct[cur[r]].exp <= cell[cur[r]].live.exp /\ cell[cur[r]].live.exp \in Nat
      BY <1>0, <1>1, <1>3 DEF MirrorNotLate, Bundle
    <2>4. acct[cur[r]].exp < now + Window
      <3>1. CASE r \in Jobs
        BY <1>0, <3>1 DEF Early
      <3>2. CASE CellFor(r).live.exp < now + Window
        BY <1>1, <1>3, <2>1, <2>2, <3>2
      <3> QED
        BY <1>3, <3>1, <3>2
    <2>5. pc'[r] = "exchange" /\ cur' = cur /\ acct' = acct
      BY <1>0, <1>3 DEF Step, RunnersTyped
    <2>6. Early(r)'
      BY <1>0, <2>4, <2>5 DEF Early
    <2> QED
      BY <1>0, <2>5, <2>6, UnmovedPunctual
  <1>4. \/ Skip(r) \/ Expire(r)
        \/ /\ ReadCode(CellFor(r), now) = "ok"
           /\ \/ Settle(r, [acct[cur[r]] EXCEPT !.exp = CellFor(r).live.exp])
              \/ (r \in Jobs \/ CellFor(r).live.exp < now + Window) /\ Step(r, "exchange")
    BY DEF Read
  <1> QED
    BY <1>0, <1>2, <1>3, <1>4, SkipPunctual

LEMMA ExchangePunctual ==
    ASSUME OutlivesWindow, SweepInv, EarlyInv, NEW r \in Runners, Exchange(r)
    PROVE  Punctual(r)
  <1>0. /\ TypeOK /\ RunnersTyped /\ Processing(r) /\ cur[r] \in Accounts /\ pc[r] = "exchange"
        /\ acct[cur[r]] \in Row /\ UNCHANGED <<cell, now>> /\ Early(r)
    BY TwoHalves DEF SweepInv, EarlyInv, Holds, Exchange, Processing, TablesTyped
  <1>1. ASSUME Step(r, "rotate"),
               got' = [got EXCEPT ![r] = [exp |-> now + Life, token |-> Successor(cur[r], got[r].token)]]
        PROVE  Punctual(r)
    <2>1. acct[cur[r]].exp \in Nat /\ now \in Nat /\ Window \in Nat /\ Life \in Nat
      BY <1>0, SweepAssumption DEF Row, TypeOK
    <2>2. acct[cur[r]].exp <= now + Life
      BY <1>0, <2>1 DEF Early, OutlivesWindow
    <2>3. pc'[r] = "rotate" /\ cur' = cur /\ acct' = acct /\ got'[r].exp = now + Life
      BY <1>0, <1>1 DEF Step, RunnersTyped
    <2>4. Early(r)'
      BY <2>2, <2>3 DEF Early
    <2> QED
      BY <1>0, <2>3, <2>4, UnmovedPunctual
  <1>2. \/ Skip(r) \/ Expire(r)
        \/ /\ Step(r, "rotate")
           /\ got' = [got EXCEPT ![r] = [exp |-> now + Life, token |-> Successor(cur[r], got[r].token)]]
    BY DEF Exchange
  <1> QED
    BY <1>0, <1>1, <1>2, SkipPunctual

LEMMA RotatePunctual ==
    ASSUME SweepInv, EarlyInv, NEW r \in Runners, Rotate(r)
    PROVE  Punctual(r)
  <1>0. /\ TypeOK /\ RunnersTyped /\ TablesTyped /\ Processing(r) /\ cur[r] \in Accounts
        /\ lock[cur[r]] = r /\ pc[r] = "rotate" /\ got[r] \in Bundle /\ now' = now
        /\ Early(r) /\ MirrorNotLate
    BY TwoHalves DEF SweepInv, EarlyInv, Holds, Rotate, Processing
  <1>1. ASSUME cell' = [cell EXCEPT ![cur[r]] = Holding(got[r])], UNCHANGED got, Step(r, "mirror")
        PROVE  Punctual(r)
    <2>1. /\ cell'[cur[r]].live = got[r] /\ \A a \in Accounts \ {cur[r]} : cell'[a] = cell[a]
      BY <1>0, <1>1 DEF TablesTyped, Holding
    <2>2. pc'[r] = "mirror" /\ cur' = cur /\ acct' = acct /\ got' = got
      BY <1>0, <1>1 DEF Step, RunnersTyped
    <2>3. acct[cur[r]].exp <= got[r].exp
      BY <1>0 DEF Early
    <2>4. MirrorNotLate'
      BY <1>0, <2>1, <2>2, <2>3 DEF MirrorNotLate
    <2>5. Early(r)'
      BY <2>1, <2>2, <2>3 DEF Early
    <2> QED
      BY <1>0, <2>1, <2>4, <2>5 DEF Punctual, CellsStay
  <1>2. \/ /\ cell' = [cell EXCEPT ![cur[r]] = Holding(got[r])] /\ UNCHANGED got
           /\ Step(r, "mirror")
        \/ (Skip(r) \/ Expire(r) \/ Fail(r)) /\ UNCHANGED cell
    BY DEF Rotate
  <1> QED
    BY <1>0, <1>1, <1>2, SkipPunctual, FailPunctual

LEMMA MirrorPunctual ==
    ASSUME SweepInv, EarlyInv, NEW r \in Runners, Mirror(r)
    PROVE  Punctual(r)
  <1>0. /\ Processing(r) /\ cur[r] \in Accounts /\ acct[cur[r]] \in Row
        /\ got[r] \in Bundle /\ UNCHANGED <<cell, now>> /\ cell[cur[r]].live \in {None, got[r]}
    BY TwoHalves DEF SweepInv, EarlyInv, Early, Holds, Mirror, Processing, others, TablesTyped
  <1>1. got[r].exp \in Nat
    BY <1>0 DEF Bundle
  <1>2. /\ [acct[cur[r]] EXCEPT !.exp = got[r].exp] \in Row
        /\ [acct[cur[r]] EXCEPT !.exp = got[r].exp].exp <= got[r].exp
    BY <1>0, <1>1 DEF Row
  <1> QED
    BY <1>0, <1>2, SettlePunctual DEF Mirror

LEMMA ClaimPunctual ==
    ASSUME SweepInv, EarlyInv, NEW r \in Runners, Claim(r) \/ EndRun(r) \/ EnsureClaim(r)
    PROVE  Punctual(r)
  <1>0. RunnersTyped /\ UNCHANGED <<acct, cell, now>> /\ Early(r)
    BY TwoHalves DEF SweepInv, EarlyInv, Claim, EndRun, EnsureClaim, others
  <1>1. CASE Claim(r)
    <2>1. PICK a \in Accounts : Claimable(r, a) /\ cur' = [cur EXCEPT ![r] = a]
      BY <1>1 DEF Claim
    <2>2. pc'[r] = "read" /\ cur'[r] = a
      BY <1>0, <1>1, <2>1 DEF Claim, RunnersTyped
    <2>3. Early(r)'
      BY <1>0, <2>1, <2>2 DEF Early, Claimable, Due
    <2> QED
      BY <1>0, <2>3, UnmovedPunctual
  <1>2. CASE EndRun(r)
    <2>1. pc'[r] = "idle"
      BY <1>0, <1>2 DEF EndRun, RunnersTyped
    <2> QED
      BY <1>0, <2>1, UnmovedPunctual DEF Early
  <1>3. CASE EnsureClaim(r)
    <2>1. pc'[r] \in {"read", "claim"} /\ r \notin Jobs
      BY <1>0, <1>3, SweepAssumption DEF EnsureClaim, RunnersTyped, Early
    <2> QED
      BY <1>0, <2>1, UnmovedPunctual DEF Early
  <1> QED
    BY <1>1, <1>2, <1>3

LEMMA StartPunctual ==
    ASSUME SweepInv, EarlyInv, NEW r \in Runners, NEW p \in {"claim", "ensure"},
           pc' = [pc EXCEPT ![r] = p], p = "ensure" => r \in Services, UNCHANGED <<acct, cell, now>>
    PROVE  Punctual(r)
  <1>1. pc'[r] = p
    BY DEF SweepInv, TypeOK
  <1> QED
    BY <1>1, UnmovedPunctual DEF Early

LEMMA ByRunnerPunctual ==
    ASSUME OutlivesWindow, SweepInv, EarlyInv, NEW r \in Runners, ByRunner(r)
    PROVE  Punctual(r)
  <1>1. ASSUME NEW co \in Companies, StartRun(r, co) PROVE Punctual(r)
    BY <1>1, StartPunctual DEF StartRun, others
  <1>2. ASSUME NEW a \in Accounts, NEW co \in Companies, EnsureFresh(r, a, co) PROVE Punctual(r)
    BY <1>2, StartPunctual DEF EnsureFresh, others
  <1>3. ASSUME Crash(r) PROVE Punctual(r)
    BY <1>3, FailPunctual DEF Crash
  <1> QED
    BY <1>1, <1>2, <1>3, ClaimPunctual, ReadPunctual, ExchangePunctual, RotatePunctual, MirrorPunctual
    DEF ByRunner, Working

LEMMA AroundPunctual ==
    ASSUME SweepInv, EarlyInv, Around
    PROVE  MirrorNotLate' /\ CellsStay(None) /\ now' \in Nat /\ now <= now'
  <1>0. TablesTyped /\ MirrorNotLate /\ now \in Nat
    BY TwoHalves, SweepAssumption DEF SweepInv, EarlyInv, TablesTyped
  <1>1. ASSUME NEW a \in Accounts, NEW co \in Companies, DisconnectRevoke(a, co)
        PROVE  MirrorNotLate' /\ CellsStay(None) /\ now' = now
    <2>1. /\ cell'[a] = cell[a] \/ cell'[a].live = None
          /\ \A b \in Accounts \ {a} : cell'[b] = cell[b]
      BY <1>0, <1>1 DEF DisconnectRevoke, Revoked, TablesTyped, Cell
    <2>2. acct' = acct /\ now' = now
      BY <1>1 DEF DisconnectRevoke
    <2> QED
      BY <1>0, <2>1, <2>2 DEF MirrorNotLate, CellsStay
  <1>2. ASSUME NEW a \in Accounts, DisconnectClose(a)
        PROVE  MirrorNotLate' /\ CellsStay(None) /\ now' = now
    <2>1. /\ acct'[a] = acct[a] \/ acct'[a].status = "revoked"
          /\ \A b \in Accounts \ {a} : acct'[b] = acct[b]
      BY <1>0, <1>2 DEF DisconnectClose, TablesTyped, Row
    <2>2. cell' = cell /\ now' = now
      BY <1>2 DEF DisconnectClose
    <2> QED
      BY <1>0, <2>1, <2>2 DEF MirrorNotLate, CellsStay
  <1>3. ASSUME UNCHANGED <<acct, cell>> PROVE MirrorNotLate' /\ CellsStay(None)
    BY <1>0, <1>3 DEF MirrorNotLate, CellsStay
  <1>4. ASSUME NEW a \in Accounts, GrantDies(a)
        PROVE  MirrorNotLate' /\ CellsStay(None) /\ now' = now
    BY <1>3, <1>4 DEF GrantDies
  <1>5. CASE Tick \/ UNCHANGED vars
    <2>1. UNCHANGED <<acct, cell>> /\ (now' = now + 1 \/ now' = now)
      BY <1>5 DEF Tick, vars
    <2> QED
      BY <1>0, <1>3, <2>1
  <1> QED
    BY <1>0, <1>1, <1>2, <1>4, <1>5 DEF Around

LEMMA EarlyNext ==
    ASSUME OutlivesWindow, SweepInv, EarlyInv, [Next]_vars
    PROVE  EarlyInv'
  <1>1. ASSUME NEW r \in Runners, ByRunner(r) PROVE EarlyInv'
    <2>1. Good(r) /\ Punctual(r)
      BY <1>1, ByRunnerGood, ByRunnerPunctual
    <2>2. OthersStay(r) /\ CellsStay(r) /\ Early(r)' /\ MirrorNotLate'
      BY <2>1 DEF Good, Punctual
    <2>3. now' \in Nat /\ now <= now'
      BY <2>1 DEF Punctual, SweepInv, TypeOK
    <2>4. \A q \in Runners \ {r} : Early(q)'
      BY <2>2, <2>3, StillEarly
    <2> QED
      BY <2>2, <2>4 DEF EarlyInv
  <1>2. ASSUME Around PROVE EarlyInv'
    <2>1. OthersStay(None) /\ MirrorNotLate' /\ CellsStay(None) /\ now' \in Nat /\ now <= now'
      BY <1>2, AroundGood, AroundPunctual
    <2>2. \A q \in Runners \ {None} : Early(q)'
      BY <2>1, StillEarly
    <2> QED
      BY <2>1, <2>2, SweepAssumption DEF EarlyInv
  <1> QED
    BY <1>1, <1>2, WhoseStep

\* When a refreshed token lives at least as long as the refresh window, no failure or
\* crash between the rotation and the mirror leaves an active account scheduled later
\* than its credential expires.
THEOREM MirrorErrsEarly == ASSUME OutlivesWindow PROVE Spec => []MirrorNotLate
  <1>1. Init => EarlyInv
    <2> SUFFICES ASSUME Init PROVE EarlyInv
      OBVIOUS
    <2>1. PICK e \in [Accounts -> FirstExpiry], t \in [Accounts -> {0, 1}] :
            /\ acct = [a \in Accounts |-> [status |-> "active", exp |-> e[a]]]
            /\ cell = [a \in Accounts |-> Holding([exp |-> e[a], token |-> t[a]])]
      BY DEF Init
    <2>2. ASSUME NEW a \in Accounts PROVE acct[a].exp <= cell[a].live.exp
      <3>1. acct[a].exp = e[a] /\ cell[a].live.exp = e[a]
        BY <2>1 DEF Holding
      <3>2. e[a] \in FirstExpiry
        OBVIOUS
      <3>3. FirstExpiry \subseteq Nat
        BY SweepAssumption
      <3>4. e[a] \in Nat
        BY <3>2, <3>3
      <3>5. \A n \in Nat : n <= n
        OBVIOUS
      <3> QED
        BY <3>1, <3>4, <3>5
    <2>3. \A r \in Runners : pc[r] = "idle"
      BY DEF Init
    <2> QED
      BY <2>2, <2>3 DEF EarlyInv, MirrorNotLate, Early
  <1>2. SweepInv /\ EarlyInv /\ [Next]_vars => EarlyInv'
    BY EarlyNext
  <1>3. EarlyInv => MirrorNotLate
    BY DEF EarlyInv
  <1> QED
    BY <1>1, <1>2, <1>3, SweepInvariant, PTL DEF Spec
=============================================================================
