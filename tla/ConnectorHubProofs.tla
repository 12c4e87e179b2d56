------------------------- MODULE ConnectorHubProofs -------------------------
(***************************************************************************)
(* Proofs about the connector hub, for any sets of connectors, keys, event *)
(* ids and workers and any number of aborts.                               *)
(*                                                                         *)
(* The invariant has two halves.  Ledger speaks of the tables alone;       *)
(* InFlight says what each request may rely on between two of its awaits.  *)
(* The link between them is TableStep: whatever a request does, the tables *)
(* change in one of five ways or not at all.                               *)
(***************************************************************************)
EXTENDS ConnectorHubProps, TLAPS

\* Nothing was staged for a row that does not exist.
Unborn == \A i \in EventIds \ Live : staged[i] = NoneStaged

Ledger == OneRowPerAction /\ OutboxMatchesRow /\ RowDetail /\ Unborn

FullRequest == [conn : Connectors, key : Keys, ext : ExternalIds]
AnswerOK(a) == (a.ref # None) <=> (a.out = "mapped")

\* What worker w knows at its place.
Knows(w) ==
    /\ pc[w] \in {"claim", "reread", "map", "mark"} => req[w] \in FullRequest
    /\ pc[w] \in {"map", "mark"} => cur[w] \in Live /\ rows[cur[w]].status = "received"
    /\ pc[w] = "publish" =>
         /\ cur[w] \in Live
         /\ staged[cur[w]][ans[w].out] > 0
         /\ rows[cur[w]].status # "received"
         /\ ans[w].out \in {"mapped", "ignored"} =>
              rows[cur[w]].status = ans[w].out /\ rows[cur[w]].ref = ans[w].ref
    /\ pc[w] = "retrymark" => cur[w] \in Live /\ rows[cur[w]].status # "received"
    /\ pc[w] = "retrypublish" => cur[w] \in Live /\ staged[cur[w]]["mapped"] > 0
    /\ \A i \in todo[w] : i \in Live /\ rows[i].status # "received"
    /\ AnswerOK(ans[w])

InFlight == \A w \in Workers : Knows(w)

\* What callers and subscribers were told.
Told == AnswersStand /\ PublishedWasStaged /\ \A t \in told : t.id \in Live

\* The target's bookkeeping: a record per key, made for an action with that key.
TargetOnce ==
    /\ \A e \in effect : e.key = e.act[2]
    /\ \A a \in Actions : applied[a] = IF \E e \in effect : e.act = a THEN 1 ELSE 0

HubInv == TypeOK /\ Ledger /\ InFlight /\ MarkHitsItsRow /\ Told /\ TargetOnce

-----------------------------------------------------------------------------
(* The ways the tables change.                                             *)

Born(i, r) ==
    /\ i \notin Live
    /\ r.status = "received" /\ r.ref = None /\ r.err = FALSE
    /\ \A j \in Live : ~(rows[j].conn = r.conn /\ rows[j].key = r.key)
    /\ rows' = [rows EXCEPT ![i] = r]
    /\ staged' = staged

Settles(i, a) ==
    /\ i \in Live /\ rows[i].status = "received"
    /\ AnswerOK(a)
    /\ rows' = [rows EXCEPT ![i].status = a.out, ![i].ref = a.ref, ![i].err = (a.out # "mapped")]
    /\ staged' = [staged EXCEPT ![i][a.out] = @ + 1]

Recovers(i, r) ==
    /\ i \in Live /\ rows[i].status = "failed"
    /\ r # None
    /\ rows' = [rows EXCEPT ![i].status = "mapped", ![i].ref = r, ![i].err = FALSE]
    /\ staged' = [staged EXCEPT ![i]["mapped"] = @ + 1]

Dismisses(i) ==
    /\ i \in Live /\ rows[i].status = "failed"
    /\ rows' = [rows EXCEPT ![i].status = "ignored", ![i].err = TRUE]
    /\ staged' = staged

Refreshes(i) ==
    /\ i \in Live /\ rows[i].status = "failed"
    /\ rows' = [rows EXCEPT ![i].err = TRUE]
    /\ staged' = staged

TableStep ==
    \/ rows' = rows /\ staged' = staged
    \/ \E i \in EventIds :
         \/ \E r \in Row : Born(i, r)
         \/ \E a \in Answer : Settles(i, a)
         \/ \E r \in Actions : Recovers(i, r)
         \/ Dismisses(i)
         \/ Refreshes(i)

\* A row that exists and is not None is a record of the table.
LEMMA LiveRow ==
    ASSUME TypeOK, NEW i \in Live
    PROVE  i \in EventIds /\ rows[i] \in Row
  BY DEF TypeOK, Live

LEMMA RowIsNotNone == None \notin Row
  BY HubAssumption DEF Row, Statuses, Actions

\* The tables keep their type through every kind of change.
LEMMA TablesTyped ==
    ASSUME TypeOK, TableStep
    PROVE  /\ rows' \in [EventIds -> Row \cup {None}]
           /\ staged' \in [EventIds -> [Kinds -> Nat]]
  <1>1. CASE rows' = rows /\ staged' = staged
    BY <1>1 DEF TypeOK
  <1>2. ASSUME NEW i \in EventIds, NEW r \in Row, Born(i, r)
        PROVE  /\ rows' \in [EventIds -> Row \cup {None}]
               /\ staged' \in [EventIds -> [Kinds -> Nat]]
    BY <1>2 DEF TypeOK, Born
  <1>3. ASSUME NEW i \in EventIds, NEW a \in Answer, Settles(i, a)
        PROVE  /\ rows' \in [EventIds -> Row \cup {None}]
               /\ staged' \in [EventIds -> [Kinds -> Nat]]
    <2>1. rows[i] \in Row
      BY <1>3, LiveRow DEF Settles
    <2>2. rows'[i] \in Row
      BY <1>3, <2>1 DEF Settles, TypeOK, Row, Answer, Kinds, Statuses
    <2> QED
      BY <1>3, <2>2 DEF Settles, TypeOK, Answer, Kinds
  <1>4. ASSUME NEW i \in EventIds, NEW r \in Actions, Recovers(i, r)
        PROVE  /\ rows' \in [EventIds -> Row \cup {None}]
               /\ staged' \in [EventIds -> [Kinds -> Nat]]
    <2>1. rows[i] \in Row
      BY <1>4, LiveRow DEF Recovers
    <2>2. rows'[i] \in Row
      BY <1>4, <2>1 DEF Recovers, TypeOK, Row, Statuses
    <2> QED
      BY <1>4, <2>2 DEF Recovers, TypeOK, Kinds
  <1>5. ASSUME NEW i \in EventIds, Dismisses(i) \/ Refreshes(i)
        PROVE  /\ rows' \in [EventIds -> Row \cup {None}]
               /\ staged' \in [EventIds -> [Kinds -> Nat]]
    <2>1. rows[i] \in Row
      BY <1>5, LiveRow DEF Dismisses, Refreshes
    <2>2. CASE Dismisses(i)
      BY <2>1, <2>2 DEF Dismisses, TypeOK, Row, Statuses
    <2>3. CASE Refreshes(i)
      BY <2>1, <2>3 DEF Refreshes, TypeOK, Row, Statuses
    <2> QED
      BY <1>5, <2>2, <2>3
  <1> QED
    BY <1>1, <1>2, <1>3, <1>4, <1>5 DEF TableStep

\* What no change of the tables does to a row.
LEMMA TablesKeep ==
    ASSUME TypeOK, TableStep, NEW j \in EventIds, j \in Live
    PROVE  /\ j \in Live'
           /\ rows'[j].conn = rows[j].conn /\ rows'[j].key = rows[j].key
           /\ rows[j].status # "received" => rows'[j].status # "received"
           /\ rows[j].status \in {"mapped", "ignored"} => rows'[j] = rows[j]
           /\ \A k \in Kinds : staged'[j][k] >= staged[j][k]
  <1>0. rows[j] \in Row /\ staged[j] \in [Kinds -> Nat]
    BY LiveRow DEF TypeOK
  <1>1. CASE rows' = rows /\ staged' = staged
    BY <1>0, <1>1 DEF Live
  <1>2. ASSUME NEW i \in EventIds, NEW r \in Row, Born(i, r)
        PROVE  rows'[j] = rows[j] /\ staged'[j] = staged[j]
    BY <1>2 DEF Born, TypeOK
  <1>3. ASSUME NEW i \in EventIds, NEW a \in Answer, Settles(i, a)
        PROVE  /\ rows'[j].conn = rows[j].conn /\ rows'[j].key = rows[j].key
               /\ rows'[j] \in Row
               /\ rows[j].status # "received" => rows'[j] = rows[j]
               /\ \A k \in Kinds : staged'[j][k] >= staged[j][k]
    <2>1. rows'[j] \in Row /\ rows'[j].conn = rows[j].conn /\ rows'[j].key = rows[j].key
      BY <1>0, <1>3 DEF Settles, TypeOK, Row, Answer, Kinds, Statuses
    <2>2. rows[j].status # "received" => rows'[j] = rows[j]
      BY <1>0, <1>3 DEF Settles, TypeOK
    <2>3. \A k \in Kinds : staged'[j][k] >= staged[j][k]
      BY <1>0, <1>3 DEF Settles, TypeOK, Answer
    <2> QED
      BY <2>1, <2>2, <2>3
  <1>4. ASSUME NEW i \in EventIds, NEW r \in Actions, Recovers(i, r)
        PROVE  /\ rows'[j].conn = rows[j].conn /\ rows'[j].key = rows[j].key
               /\ rows'[j] \in Row
               /\ rows[j].status # "received" => rows'[j].status # "received"
               /\ rows[j].status # "failed" => rows'[j] = rows[j]
               /\ \A k \in Kinds : staged'[j][k] >= staged[j][k]
    <2>1. rows'[j] \in Row /\ rows'[j].conn = rows[j].conn /\ rows'[j].key = rows[j].key
          /\ (rows[j].status # "received" => rows'[j].status # "received")
      BY <1>0, <1>4 DEF Recovers, TypeOK, Row, Statuses
    <2>2. rows[j].status # "failed" => rows'[j] = rows[j]
      BY <1>0, <1>4 DEF Recovers, TypeOK
    <2>3. \A k \in Kinds : staged'[j][k] >= staged[j][k]
      BY <1>0, <1>4 DEF Recovers, TypeOK, Kinds
    <2> QED
      BY <2>1, <2>2, <2>3
  <1>5. ASSUME NEW i \in EventIds, Dismisses(i) \/ Refreshes(i)
        PROVE  /\ rows'[j].conn = rows[j].conn /\ rows'[j].key = rows[j].key
               /\ rows'[j] \in Row
               /\ rows[j].status # "received" => rows'[j].status # "received"
               /\ rows[j].status # "failed" => rows'[j] = rows[j]
               /\ staged'[j] = staged[j]
    <2>1. CASE Dismisses(i)
      BY <1>0, <2>1 DEF Dismisses, TypeOK, Row, Statuses
    <2>2. CASE Refreshes(i)
      BY <1>0, <2>2 DEF Refreshes, TypeOK, Row, Statuses
    <2> QED
      BY <1>5, <2>1, <2>2
  <1>6. rows'[j] \in Row => j \in Live'
    BY RowIsNotNone DEF Live
  <1> QED
    BY <1>0, <1>1, <1>2, <1>3, <1>4, <1>5, <1>6 DEF TableStep

-----------------------------------------------------------------------------
(* The ledger half of the invariant.                                       *)

\* Facts about one row, which is all that Ledger says but for the uniqueness.
RowOutbox(i) ==
    /\ rows[i].status = "received" => staged[i] = NoneStaged
    /\ staged[i]["mapped"] = IF rows[i].status = "mapped" THEN 1 ELSE 0
    /\ rows[i].status = "failed" => staged[i]["failed"] = 1
    /\ staged[i]["failed"] <= 1
    /\ staged[i]["ignored"] <= 1
    /\ staged[i]["ignored"] = 1 => rows[i].status = "ignored"
RowColumns(i) ==
    /\ (rows[i].ref # None) <=> (rows[i].status = "mapped")
    /\ rows[i].err <=> (rows[i].status \in {"failed", "ignored"})

\* The row a change of the tables is about satisfies Ledger again.
LEMMA ChangedRow ==
    ASSUME TypeOK, Ledger, NEW i \in EventIds,
           \/ \E r \in Row : Born(i, r)
           \/ \E a \in Answer : Settles(i, a)
           \/ \E r \in Actions : Recovers(i, r)
           \/ Dismisses(i)
           \/ Refreshes(i)
    PROVE  RowOutbox(i)' /\ RowColumns(i)'
  <1>0. rows \in [EventIds -> Row \cup {None}] /\ staged \in [EventIds -> [Kinds -> Nat]]
    BY DEF TypeOK
  <1>1. ASSUME NEW r \in Row, Born(i, r)
        PROVE  RowOutbox(i)' /\ RowColumns(i)'
    <2>1. rows'[i] = r /\ staged'[i] = NoneStaged
      BY <1>0, <1>1 DEF Born, Ledger, Unborn
    <2> QED
      BY <1>1, <2>1 DEF Born, RowOutbox, RowColumns, NoneStaged, Kinds
  <1>2. ASSUME NEW a \in Answer, Settles(i, a)
        PROVE  RowOutbox(i)' /\ RowColumns(i)'
    <2>0. rows[i] \in Row /\ staged[i] = NoneStaged
      BY <1>2, LiveRow DEF Settles, Ledger, OutboxMatchesRow
    <2>1. /\ rows'[i].status = a.out /\ rows'[i].ref = a.ref
          /\ rows'[i].err = (a.out # "mapped")
      BY <1>0, <1>2, <2>0 DEF Settles, Row
    <2>2. a.out \in Kinds
      BY DEF Answer
    <2>3. \A k \in Kinds : staged'[i][k] = IF k = a.out THEN 1 ELSE 0
      <3>1. \A k \in Kinds : staged'[i][k] = IF k = a.out THEN staged[i][k] + 1 ELSE staged[i][k]
        BY <1>0, <1>2, <2>2 DEF Settles
      <3> QED
        BY <2>0, <3>1 DEF NoneStaged
    <2>4. RowOutbox(i)'
      BY <2>1, <2>2, <2>3 DEF RowOutbox, NoneStaged, Kinds
    <2>5. RowColumns(i)'
      BY <1>2, <2>1, <2>2 DEF RowColumns, Settles, AnswerOK, Kinds
    <2> QED
      BY <2>4, <2>5
  <1>3. ASSUME NEW r \in Actions, Recovers(i, r)
        PROVE  RowOutbox(i)' /\ RowColumns(i)'
    <2>0. rows[i] \in Row /\ RowOutbox(i)
      BY <1>3, LiveRow DEF Recovers, Ledger, OutboxMatchesRow, RowOutbox
    <2>1. rows'[i].status = "mapped" /\ rows'[i].ref = r /\ rows'[i].err = FALSE
      BY <1>0, <1>3, <2>0 DEF Recovers, Row
    <2>2. /\ staged'[i]["mapped"] = staged[i]["mapped"] + 1
          /\ staged'[i]["failed"] = staged[i]["failed"]
          /\ staged'[i]["ignored"] = staged[i]["ignored"]
      BY <1>0, <1>3 DEF Recovers, Kinds
    <2>3. /\ staged[i]["mapped"] = 0 /\ staged[i]["failed"] = 1
          /\ staged[i]["ignored"] = 0
      <3>1. staged[i]["ignored"] \in Nat
        BY <1>0 DEF Kinds
      <3>2. rows[i].status = "failed"
        BY <1>3 DEF Recovers
      <3> QED
        BY <2>0, <3>1, <3>2 DEF RowOutbox
    <2>4. RowOutbox(i)'
      BY <2>1, <2>2, <2>3 DEF RowOutbox
    <2> QED
      BY <1>3, <2>1, <2>4 DEF RowColumns, Recovers
  <1>4. CASE Dismisses(i)
    <2>0. rows[i] \in Row /\ RowOutbox(i) /\ RowColumns(i)
      BY <1>4, LiveRow DEF Dismisses, Ledger, OutboxMatchesRow, RowOutbox, RowDetail, RowColumns
    <2>1. /\ rows'[i].status = "ignored" /\ rows'[i].err = TRUE
          /\ rows'[i].ref = rows[i].ref /\ staged'[i] = staged[i]
      BY <1>0, <1>4, <2>0 DEF Dismisses, Row
    <2> QED
      BY <1>0, <1>4, <2>0, <2>1 DEF Dismisses, RowOutbox, RowColumns, Kinds
  <1>5. CASE Refreshes(i)
    <2>0. rows[i] \in Row /\ RowOutbox(i) /\ RowColumns(i)
      BY <1>5, LiveRow DEF Refreshes, Ledger, OutboxMatchesRow, RowOutbox, RowDetail, RowColumns
    <2>1. /\ rows'[i].status = "failed" /\ rows'[i].err = TRUE
          /\ rows'[i].ref = rows[i].ref /\ staged'[i] = staged[i]
      BY <1>0, <1>5, <2>0 DEF Refreshes, Row
    <2> QED
      BY <1>0, <1>5, <2>0, <2>1 DEF Refreshes, RowOutbox, RowColumns, Kinds
  <1> QED
    BY <1>1, <1>2, <1>3, <1>4, <1>5

\* Every other row is as it was.
LEMMA OtherRow ==
    ASSUME TypeOK, NEW i \in EventIds, NEW j \in EventIds, i # j,
           \/ \E r \in Row : Born(i, r)
           \/ \E a \in Answer : Settles(i, a)
           \/ \E r \in Actions : Recovers(i, r)
           \/ Dismisses(i)
           \/ Refreshes(i)
    PROVE  rows'[j] = rows[j] /\ staged'[j] = staged[j]
  BY DEF TypeOK, Born, Settles, Recovers, Dismisses, Refreshes

LEMMA LedgerStep ==
    ASSUME TypeOK, Ledger, TableStep
    PROVE  Ledger'
  <1>1. CASE rows' = rows /\ staged' = staged
    BY <1>1 DEF Ledger, OneRowPerAction, OutboxMatchesRow, RowDetail, Unborn, Live, ActionOf
  <1>2. ASSUME NEW i \in EventIds,
               \/ \E r \in Row : Born(i, r)
               \/ \E a \in Answer : Settles(i, a)
               \/ \E r \in Actions : Recovers(i, r)
               \/ Dismisses(i)
               \/ Refreshes(i)
        PROVE  Ledger'
    <2>1. \A j \in EventIds \ {i} : rows'[j] = rows[j] /\ staged'[j] = staged[j]
      BY <1>2, OtherRow
    <2>2. RowOutbox(i)' /\ RowColumns(i)'
      BY <1>2, ChangedRow
    <2>3. \A j \in Live : RowOutbox(j) /\ RowColumns(j)
      BY DEF Ledger, OutboxMatchesRow, RowDetail, RowOutbox, RowColumns
    <2>4. \A j \in EventIds \ {i} : j \in Live <=> j \in Live'
      BY <2>1 DEF Live
    <2>5. \A j \in Live' : (RowOutbox(j) /\ RowColumns(j))'
      <3> SUFFICES ASSUME NEW j \in Live' PROVE (RowOutbox(j) /\ RowColumns(j))'
        OBVIOUS
      <3>1. CASE j = i
        BY <2>2, <3>1
      <3>2. CASE j # i
        BY <2>1, <2>3, <2>4, <3>2 DEF RowOutbox, RowColumns, Live
      <3> QED
        BY <3>1, <3>2
    <2>6. OutboxMatchesRow' /\ RowDetail'
      BY <2>5 DEF OutboxMatchesRow, RowDetail, RowOutbox, RowColumns
    <2>7. OneRowPerAction'
      <3>1. ASSUME NEW r \in Row, Born(i, r)
            PROVE  OneRowPerAction'
        <4>1. rows'[i] = r
          BY <3>1 DEF Born, TypeOK
        <4> QED
          BY <2>1, <2>4, <3>1, <4>1 DEF OneRowPerAction, ActionOf, Ledger, Born, Live
      <3>2. CASE ~\E r \in Row : Born(i, r)
        <4>1. i \in Live /\ TableStep
          BY <1>2, <3>2 DEF Settles, Recovers, Dismisses, Refreshes
        <4>2. \A j \in Live' : /\ j \in Live
                               /\ rows'[j].conn = rows[j].conn
                               /\ rows'[j].key = rows[j].key
          BY <2>1, <2>4, <4>1, TablesKeep DEF Live
        <4> QED
          BY <4>2 DEF OneRowPerAction, ActionOf, Ledger
      <3> QED
        BY <3>1, <3>2
    <2>8. Unborn'
      <3>1. ASSUME NEW r \in Row, Born(i, r)
            PROVE  i \in Live'
        BY <3>1, RowIsNotNone DEF Born, TypeOK, Live
      <3>2. ASSUME ~\E r \in Row : Born(i, r)
            PROVE  i \in Live'
        <4>1. i \in Live
          BY <1>2, <3>2 DEF Settles, Recovers, Dismisses, Refreshes
        <4> QED
          BY <4>1, TablesKeep
      <3>3. i \in Live'
        BY <3>1, <3>2
      <3> QED
        BY <2>1, <2>4, <3>3 DEF Unborn, Ledger
    <2> QED
      BY <2>6, <2>7, <2>8 DEF Ledger
  <1> QED
    BY <1>1, <1>2 DEF TableStep

-----------------------------------------------------------------------------
(* The target.                                                             *)

LEMMA ActionIsNotNone == None \notin Actions
  BY HubAssumption DEF Actions

\* A call of the target keeps its bookkeeping and hands the worker an answer
\* whose reference is there exactly when it is a mapping.
LEMMA TargetStep ==
    ASSUME TypeOK, TargetOnce, NEW w \in Workers, NEW a \in Actions, TargetMap(w, a)
    PROVE  /\ TargetOnce'
           /\ \A e \in effect' : e.act \in Actions
           /\ applied' \in [Actions -> Nat]
           /\ \E b \in Answer : AnswerOK(b) /\ ans' = [ans EXCEPT ![w] = b]
  <1> DEFINE key == a[2]
  <1>1. IdempotencyKey(w, a[2]) = key
    BY DEF IdempotencyKey
  <1>2. ASSUME TargetApply(key, a)
        PROVE  /\ TargetOnce'
               /\ \A e \in effect' : e.act \in Actions
               /\ applied' \in [Actions -> Nat]
    <2>1. CASE \E e \in effect : e.key = key
      BY <1>2, <2>1 DEF TargetApply, target, TypeOK, TargetOnce
    <2>2. CASE ~ \E e \in effect : e.key = key
      <3>1. /\ effect' = effect \cup {[key |-> key, act |-> a]}
            /\ applied' = [applied EXCEPT ![a] = @ + 1]
        BY <1>2, <2>2 DEF TargetApply
      <3>2. ~ \E e \in effect : e.act = a
        BY <2>2 DEF TargetOnce
      <3>3. \A e \in effect' : e.key = e.act[2] /\ e.act \in Actions
        BY <3>1 DEF TargetOnce, TypeOK
      <3>4. applied[a] = 0
        BY <3>2 DEF TargetOnce
      <3>5. applied' \in [Actions -> Nat]
        BY <3>1 DEF TypeOK
      <3>6. \A b \in Actions : applied'[b] = IF \E e \in effect' : e.act = b THEN 1 ELSE 0
        <4> SUFFICES ASSUME NEW b \in Actions
                     PROVE  applied'[b] = IF \E e \in effect' : e.act = b THEN 1 ELSE 0
          OBVIOUS
        <4>1. CASE b = a
          <5>1. applied'[a] = 1
            BY <3>1, <3>4 DEF TypeOK
          <5>2. [key |-> key, act |-> a] \in effect' /\ [key |-> key, act |-> a].act = a
            BY <3>1
          <5>3. \E e \in effect' : e.act = a
            BY <5>2
          <5> QED
            BY <4>1, <5>1, <5>3
        <4>2. CASE b # a
          <5>1. applied'[b] = applied[b]
            BY <3>1, <4>2 DEF TypeOK
          <5>2. (\E e \in effect' : e.act = b) <=> (\E e \in effect : e.act = b)
            BY <3>1, <4>2
          <5> QED
            BY <5>1, <5>2 DEF TargetOnce
        <4> QED
          BY <4>1, <4>2
      <3> QED
        BY <3>3, <3>5, <3>6 DEF TargetOnce
    <2> QED
      BY <2>1, <2>2
  <1>3. ASSUME UNCHANGED target
        PROVE  /\ TargetOnce'
               /\ \A e \in effect' : e.act \in Actions
               /\ applied' \in [Actions -> Nat]
    BY <1>3 DEF target, TypeOK, TargetOnce
  <1>4. CASE /\ TargetApply(key, a)
             /\ \E e \in effect' : /\ e.key = key
                                   /\ ans' = [ans EXCEPT ![w] = [out |-> "mapped", ref |-> e.act]]
    <2>1. PICK e \in effect' : ans' = [ans EXCEPT ![w] = [out |-> "mapped", ref |-> e.act]]
      BY <1>4
    <2>2. [out |-> "mapped", ref |-> e.act] \in Answer /\ AnswerOK([out |-> "mapped", ref |-> e.act])
      BY <1>2, <1>4, ActionIsNotNone DEF Answer, AnswerOK, Kinds
    <2> QED
      BY <1>2, <1>4, <2>1, <2>2
  <1>5. CASE UNCHANGED target /\ ans' = [ans EXCEPT ![w] = [out |-> "ignored", ref |-> None]]
    <2>1. [out |-> "ignored", ref |-> None] \in Answer /\ AnswerOK([out |-> "ignored", ref |-> None])
      BY DEF Answer, AnswerOK, Kinds
    <2> QED
      BY <1>3, <1>5, <2>1
  <1>6. CASE /\ TargetApply(key, a) \/ UNCHANGED target
             /\ ans' = [ans EXCEPT ![w] = [out |-> "failed", ref |-> None]]
    <2>1. [out |-> "failed", ref |-> None] \in Answer /\ AnswerOK([out |-> "failed", ref |-> None])
      BY DEF Answer, AnswerOK, Kinds
    <2> QED
      BY <1>2, <1>3, <1>6, <2>1
  <1> QED
    BY <1>1, <1>4, <1>5, <1>6 DEF TargetMap

-----------------------------------------------------------------------------
(* What a step of one worker leaves to the others, and what it knows after. *)

Others(w) ==
    \A v \in Workers \ {w} :
        /\ pc'[v] = pc[v] /\ req'[v] = req[v] /\ cur'[v] = cur[v]
        /\ todo'[v] = todo[v] /\ ans'[v] = ans[v]

\* The row another worker is about to mark is not touched.
LeavesClaims(w) ==
    \A v \in Workers \ {w} : pc[v] \in {"map", "mark"} => rows'[cur[v]] = rows[cur[v]]

\* A worker comes to own a row only by making it.
OwnsByMaking(w) ==
    pc'[w] \in {"map", "mark"} =>
        \/ pc[w] \in {"map", "mark"} /\ cur'[w] = cur[w]
        \/ cur'[w] \notin Live

\* What is told and published is on the tables.
TellsTruth ==
    /\ \/ told' = told
       \/ \E t \in [id : EventIds, status : Statuses, ref : Actions \cup {None}] :
            /\ told' = told \cup {t}
            /\ t.id \in Live'
            /\ t.status \in {"mapped", "ignored"} =>
                 rows'[t.id].status = t.status /\ rows'[t.id].ref = t.ref
    /\ \/ published' = published
       \/ \E i \in EventIds, k \in Kinds :
            published' = published \cup {<<i, k>>} /\ staged'[i][k] > 0

LocalsTyped ==
    /\ pc \in [Workers -> Places]
    /\ req \in [Workers -> Request \cup {None}]
    /\ cur \in [Workers -> EventIds \cup {None}]
    /\ todo \in [Workers -> SUBSET EventIds]
    /\ ans \in [Workers -> Answer]

TargetTyped ==
    /\ \A e \in effect : e.act \in Actions
    /\ applied \in [Actions -> Nat]

GoodStep(w) ==
    /\ TableStep
    /\ LocalsTyped' /\ TargetTyped' /\ TargetOnce'
    /\ Knows(w)' /\ Others(w) /\ LeavesClaims(w) /\ OwnsByMaking(w) /\ TellsTruth

LEMMA TypeParts == TypeOK => LocalsTyped /\ TargetTyped
  BY DEF TypeOK, LocalsTyped, TargetTyped

LEMMA NoAnswerTyped == NoAnswer \in Answer /\ AnswerOK(NoAnswer)
  BY DEF NoAnswer, Answer, Kinds, AnswerOK

\* A worker that returns knows nothing and leaves the others alone.
LEMMA ReturnStep ==
    ASSUME LocalsTyped, NEW w \in Workers, Return(w)
    PROVE  LocalsTyped' /\ Knows(w)' /\ Others(w) /\ OwnsByMaking(w)
  <1>1. LocalsTyped'
    BY NoAnswerTyped DEF Return, Goto, LocalsTyped, Places
  <1>2. pc'[w] = "idle" /\ todo'[w] = {} /\ ans'[w] = NoAnswer
    BY DEF Return, Goto, LocalsTyped
  <1>3. Knows(w)'
    BY <1>2, NoAnswerTyped DEF Knows
  <1>4. Others(w)
    BY DEF Return, Goto, LocalsTyped, Others
  <1>5. OwnsByMaking(w)
    BY <1>2 DEF OwnsByMaking
  <1> QED
    BY <1>1, <1>3, <1>4, <1>5

\* A retry that goes on with its list still knows that its rows had failed.
LEMMA ResumeStep ==
    ASSUME TypeOK, TableStep, NEW w \in Workers, Knows(w), Resume(w)
    PROVE  LocalsTyped' /\ Knows(w)' /\ Others(w) /\ OwnsByMaking(w)
  <1>0. LocalsTyped
    BY TypeParts
  <1>1. LocalsTyped'
    BY <1>0, NoAnswerTyped DEF Resume, Goto, LocalsTyped, Places
  <1>2. pc'[w] = "retry" /\ todo'[w] = todo[w] /\ ans'[w] = NoAnswer
    BY <1>0 DEF Resume, Goto, LocalsTyped
  <1>3. \A i \in todo[w] : i \in EventIds /\ i \in Live /\ rows[i].status # "received"
    BY <1>0 DEF LocalsTyped, Knows
  <1>4. \A i \in todo'[w] : i \in Live' /\ rows'[i].status # "received"
    BY <1>2, <1>3, TablesKeep
  <1>5. Knows(w)'
    BY <1>2, <1>4, NoAnswerTyped DEF Knows
  <1>6. Others(w)
    BY <1>0 DEF Resume, Goto, LocalsTyped, Others
  <1>7. OwnsByMaking(w)
    BY <1>2 DEF OwnsByMaking
  <1> QED
    BY <1>1, <1>5, <1>6, <1>7

\* What another worker knows survives a step that leaves its claim alone.
LEMMA StillKnows ==
    ASSUME TypeOK, TableStep, NEW w \in Workers, NEW v \in Workers \ {w},
           Knows(v), Others(w), LeavesClaims(w)
    PROVE  Knows(v)'
  <1>0. LocalsTyped
    BY TypeParts
  <1>1. /\ pc'[v] = pc[v] /\ req'[v] = req[v] /\ cur'[v] = cur[v]
        /\ todo'[v] = todo[v] /\ ans'[v] = ans[v]
    BY DEF Others
  <1>2. /\ cur[v] \in EventIds \cup {None} /\ ans[v].out \in Kinds
        /\ todo[v] \subseteq EventIds
    BY <1>0 DEF LocalsTyped, Answer
  <1>3. \A i \in Live : /\ i \in EventIds /\ i \in Live'
                        /\ rows[i].status # "received" => rows'[i].status # "received"
                        /\ rows[i].status \in {"mapped", "ignored"} => rows'[i] = rows[i]
                        /\ \A k \in Kinds : staged'[i][k] >= staged[i][k]
    BY TablesKeep DEF Live
  <1>4. pc[v] \in {"map", "mark"} => cur[v] \in Live' /\ rows'[cur[v]].status = "received"
    BY <1>3 DEF LeavesClaims, Knows
  <1>5. ASSUME pc[v] = "publish"
        PROVE  /\ cur[v] \in Live'
               /\ staged'[cur[v]][ans[v].out] > 0
               /\ rows'[cur[v]].status # "received"
               /\ ans[v].out \in {"mapped", "ignored"} =>
                    rows'[cur[v]].status = ans[v].out /\ rows'[cur[v]].ref = ans[v].ref
    <2>1. /\ cur[v] \in Live /\ staged[cur[v]][ans[v].out] > 0
          /\ rows[cur[v]].status # "received"
          /\ ans[v].out \in {"mapped", "ignored"} =>
               rows[cur[v]].status = ans[v].out /\ rows[cur[v]].ref = ans[v].ref
      BY <1>5 DEF Knows
    <2>2. staged[cur[v]][ans[v].out] \in Nat /\ staged'[cur[v]][ans[v].out] \in Nat
      BY <1>2, <1>3, <2>1, TablesTyped DEF TypeOK
    <2>3. staged'[cur[v]][ans[v].out] >= staged[cur[v]][ans[v].out]
      BY <1>2, <1>3, <2>1
    <2>4. staged'[cur[v]][ans[v].out] > 0
      BY <2>1, <2>2, <2>3
    <2> QED
      BY <1>3, <2>1, <2>4
  <1>6. ASSUME pc[v] = "retrypublish"
        PROVE  cur[v] \in Live' /\ staged'[cur[v]]["mapped"] > 0
    <2>1. cur[v] \in Live /\ staged[cur[v]]["mapped"] > 0
      BY <1>6 DEF Knows
    <2>2. staged[cur[v]]["mapped"] \in Nat /\ staged'[cur[v]]["mapped"] \in Nat
      BY <1>3, <2>1, TablesTyped DEF TypeOK, Kinds
    <2>3. staged'[cur[v]]["mapped"] >= staged[cur[v]]["mapped"]
      BY <1>3, <2>1 DEF Kinds
    <2> QED
      BY <1>3, <2>1, <2>2, <2>3
  <1>7. pc[v] = "retrymark" => cur[v] \in Live' /\ rows'[cur[v]].status # "received"
    BY <1>3 DEF Knows
  <1>8. \A i \in todo[v] : i \in Live' /\ rows'[i].status # "received"
    BY <1>3 DEF Knows
  <1>9. /\ pc[v] \in {"claim", "reread", "map", "mark"} => req[v] \in FullRequest
        /\ AnswerOK(ans[v])
    BY DEF Knows
  <1> QED
    BY <1>1, <1>4, <1>5, <1>6, <1>7, <1>8, <1>9 DEF Knows

-----------------------------------------------------------------------------
(* One lemma per action: the step is good.                                 *)

\* Steps that leave the tables alone.
LEMMA QuietTables ==
    ASSUME rows' = rows, staged' = staged, NEW w \in Workers
    PROVE  TableStep /\ LeavesClaims(w) /\ Live' = Live
  BY DEF TableStep, LeavesClaims, Live

LEMMA QuietTarget ==
    ASSUME TargetTyped, TargetOnce, UNCHANGED target
    PROVE  TargetTyped' /\ TargetOnce'
  BY DEF TargetTyped, TargetOnce, target

LEMMA QuietTelling ==
    ASSUME told' = told, published' = published
    PROVE  TellsTruth
  BY DEF TellsTruth

LEMMA GateGood ==
    ASSUME HubInv, NEW w \in Workers, NEW c \in Connectors, NEW k \in Keys,
           NEW x \in ExternalIds, ReceiveGate(w, c, k, x)
    PROVE  GoodStep(w)
  <1>0. LocalsTyped /\ TargetTyped /\ TargetOnce /\ Knows(w)
    BY TypeParts DEF HubInv, InFlight
  <1>1. TableStep /\ LeavesClaims(w) /\ Live' = Live
    BY QuietTables DEF ReceiveGate, tables
  <1>2. TargetTyped' /\ TargetOnce' /\ TellsTruth
    BY <1>0, QuietTarget, QuietTelling DEF ReceiveGate
  <1>3. /\ pc'[w] = "claim" /\ req'[w] = [conn |-> c, key |-> k, ext |-> x]
        /\ todo'[w] = todo[w] /\ ans'[w] = ans[w] /\ rows' = rows
    BY <1>0 DEF ReceiveGate, Goto, LocalsTyped, tables
  <1>4. LocalsTyped'
    BY <1>0 DEF ReceiveGate, Goto, LocalsTyped, Places, Request
  <1>5. Knows(w)'
    BY <1>0, <1>1, <1>3 DEF Knows, FullRequest
  <1>6. Others(w)
    BY <1>0 DEF ReceiveGate, Goto, LocalsTyped, Others
  <1> QED
    BY <1>1, <1>2, <1>3, <1>4, <1>5, <1>6 DEF GoodStep, OwnsByMaking

LEMMA ClaimGood ==
    ASSUME HubInv, NEW w \in Workers, ReceiveClaim(w)
    PROVE  GoodStep(w)
  <1>0. LocalsTyped /\ TargetTyped /\ TargetOnce /\ Knows(w) /\ TypeOK
    BY TypeParts DEF HubInv, InFlight
  <1>1. TargetTyped' /\ TargetOnce' /\ TellsTruth
    BY <1>0, QuietTarget, QuietTelling DEF ReceiveClaim
  <1>2. Others(w)
    BY <1>0 DEF ReceiveClaim, Goto, LocalsTyped, Others
  <1>3. req[w] \in FullRequest /\ req'[w] = req[w] /\ todo'[w] = todo[w] /\ ans'[w] = ans[w]
    BY <1>0 DEF ReceiveClaim, Knows
  <1>4. CASE \E i \in Live : SameSlot(rows[i], req[w])
    <2>1. TableStep /\ LeavesClaims(w) /\ Live' = Live
      BY <1>4, QuietTables DEF ReceiveClaim
    <2>2. pc'[w] = "reread" /\ rows' = rows /\ LocalsTyped'
      BY <1>0, <1>4 DEF ReceiveClaim, Goto, LocalsTyped, Places
    <2>3. Knows(w)'
      BY <1>0, <1>3, <2>1, <2>2 DEF Knows
    <2> QED
      BY <1>1, <1>2, <2>1, <2>2, <2>3 DEF GoodStep, OwnsByMaking
  <1>5. CASE ~ \E i \in Live : SameSlot(rows[i], req[w])
    <2> DEFINE r == [conn |-> req[w].conn, key |-> req[w].key, ext |-> req[w].ext,
                     status |-> "received", ref |-> None, err |-> FALSE]
    <2>1. PICK i \in EventIds \ Live :
            /\ rows' = [rows EXCEPT ![i] = r]
            /\ cur' = [cur EXCEPT ![w] = i]
            /\ pc' = [pc EXCEPT ![w] = "map"]
      BY <1>5 DEF ReceiveClaim, Goto
    <2>2. r \in Row
      BY <1>3 DEF FullRequest, Row, Statuses
    <2>3. Born(i, r)
      BY <1>5, <2>1 DEF Born, ReceiveClaim, SameSlot
    <2>4. TableStep
      BY <2>2, <2>3 DEF TableStep
    <2>5. LocalsTyped'
      BY <1>0, <2>1 DEF ReceiveClaim, LocalsTyped, Places
    <2>6. LeavesClaims(w)
      <3>1. \A v \in Workers : pc[v] \in {"map", "mark"} => cur[v] \in Live
        BY DEF HubInv, InFlight, Knows
      <3> QED
        BY <1>0, <2>1, <3>1 DEF LeavesClaims, Live, TypeOK
    <2>7. pc'[w] = "map" /\ cur'[w] = i /\ rows'[i] = r
      BY <1>0, <2>1 DEF LocalsTyped, TypeOK
    <2>8. i \in Live'
      BY <2>2, <2>7, RowIsNotNone DEF Live
    <2>9. \A j \in todo'[w] : j \in Live' /\ rows'[j].status # "received"
      <3>1. \A j \in todo[w] : j \in EventIds /\ j \in Live /\ rows[j].status # "received"
        BY <1>0 DEF LocalsTyped, Knows
      <3> QED
        BY <1>0, <1>3, <2>4, <3>1, TablesKeep
    <2>10. Knows(w)'
      BY <1>0, <1>3, <2>7, <2>8, <2>9 DEF Knows
    <2>11. OwnsByMaking(w)
      BY <2>1, <2>7 DEF OwnsByMaking
    <2> QED
      BY <1>1, <1>2, <2>4, <2>5, <2>6, <2>10, <2>11 DEF GoodStep
  <1> QED
    BY <1>4, <1>5

LEMMA RereadGood ==
    ASSUME HubInv, NEW w \in Workers, ReceiveReread(w)
    PROVE  GoodStep(w)
  <1>0. LocalsTyped /\ TargetTyped /\ TargetOnce /\ TypeOK
    BY TypeParts DEF HubInv
  <1>1. TableStep /\ LeavesClaims(w) /\ Live' = Live /\ rows' = rows
    BY QuietTables DEF ReceiveReread, tables
  <1>2. TargetTyped' /\ TargetOnce'
    BY <1>0, QuietTarget DEF ReceiveReread
  <1>3. LocalsTyped' /\ Knows(w)' /\ Others(w) /\ OwnsByMaking(w)
    BY <1>0, ReturnStep DEF ReceiveReread
  <1>4. TellsTruth
    <2>1. PICK i \in Live :
            told' = told \cup {[id |-> i, status |-> rows[i].status, ref |-> rows[i].ref]}
      BY DEF ReceiveReread
    <2>2. i \in EventIds /\ rows[i] \in Row
      BY <1>0, <2>1, LiveRow
    <2>3. [id |-> i, status |-> rows[i].status, ref |-> rows[i].ref]
            \in [id : EventIds, status : Statuses, ref : Actions \cup {None}]
      BY <2>2 DEF Row
    <2>4. published' = published
      BY DEF ReceiveReread
    <2> QED
      BY <1>1, <2>1, <2>3, <2>4 DEF TellsTruth
  <1> QED
    BY <1>1, <1>2, <1>3, <1>4 DEF GoodStep

LEMMA MapGood ==
    ASSUME HubInv, NEW w \in Workers, ReceiveMap(w)
    PROVE  GoodStep(w)
  <1>0. LocalsTyped /\ TypeOK /\ TargetOnce /\ Knows(w)
    BY TypeParts DEF HubInv, InFlight
  <1>1. TableStep /\ LeavesClaims(w) /\ Live' = Live /\ rows' = rows /\ staged' = staged
    BY QuietTables DEF ReceiveMap, tables
  <1>2. req[w] \in FullRequest /\ pc[w] = "map" /\ cur[w] \in Live
        /\ rows[cur[w]].status = "received"
    BY <1>0 DEF ReceiveMap, Knows
  <1>3. <<req[w].conn, req[w].key>> \in Actions
    BY <1>2 DEF FullRequest, Actions
  <1>4. /\ TargetOnce' /\ TargetTyped'
        /\ \E b \in Answer : AnswerOK(b) /\ ans' = [ans EXCEPT ![w] = b]
    BY <1>0, <1>3, TargetStep DEF ReceiveMap, TargetTyped
  <1>5. PICK b \in Answer : AnswerOK(b) /\ ans' = [ans EXCEPT ![w] = b]
    BY <1>4
  <1>6. LocalsTyped'
    BY <1>0, <1>5 DEF ReceiveMap, Goto, LocalsTyped, Places
  <1>7. /\ pc'[w] = "mark" /\ req'[w] = req[w] /\ cur'[w] = cur[w]
        /\ todo'[w] = todo[w] /\ ans'[w] = b
    BY <1>0, <1>5 DEF ReceiveMap, Goto, LocalsTyped
  <1>8. Knows(w)'
    BY <1>0, <1>1, <1>2, <1>5, <1>7 DEF Knows
  <1>9. Others(w)
    BY <1>0, <1>5 DEF ReceiveMap, Goto, LocalsTyped, Others
  <1>10. OwnsByMaking(w)
    BY <1>2, <1>7 DEF OwnsByMaking
  <1>11. TellsTruth
    BY QuietTelling DEF ReceiveMap
  <1> QED
    BY <1>1, <1>4, <1>6, <1>8, <1>9, <1>10, <1>11 DEF GoodStep

LEMMA MarkGood ==
    ASSUME HubInv, NEW w \in Workers, ReceiveMark(w)
    PROVE  GoodStep(w)
  <1> DEFINE i == cur[w]
             a == ans[w]
  <1>0. LocalsTyped /\ TargetTyped /\ TargetOnce /\ TypeOK /\ Knows(w)
    BY TypeParts DEF HubInv, InFlight
  <1>1. TargetTyped' /\ TargetOnce' /\ TellsTruth
    BY <1>0, QuietTarget, QuietTelling DEF ReceiveMark
  <1>2. i \in Live /\ rows[i].status = "received" /\ a \in Answer /\ AnswerOK(a) /\ i \in EventIds
    BY <1>0 DEF ReceiveMark, Knows, LocalsTyped, Live
  <1>3. Settles(i, a)
    BY <1>2 DEF Settles, ReceiveMark, MarkReceived
  <1>4. TableStep
    BY <1>2, <1>3 DEF TableStep
  <1>5. LocalsTyped' /\ Others(w)
    BY <1>0 DEF ReceiveMark, Goto, LocalsTyped, Places, Others
  <1>6. /\ pc'[w] = "publish" /\ cur'[w] = i /\ ans'[w] = a /\ todo'[w] = todo[w]
    BY <1>0 DEF ReceiveMark, Goto, LocalsTyped
  <1>7. rows[i] \in Row
    BY <1>0, <1>2, LiveRow
  <1>8. rows'[i].status = a.out /\ rows'[i].ref = a.ref
    BY <1>0, <1>2, <1>3, <1>7 DEF Settles, TypeOK, Row
  <1>9. a.out \in Kinds
    BY <1>2 DEF Answer
  <1>10. staged'[i][a.out] = staged[i][a.out] + 1 /\ staged[i][a.out] \in Nat
    BY <1>0, <1>2, <1>3, <1>9 DEF Settles, TypeOK
  <1>11. i \in Live'
    BY <1>0, <1>2, <1>4, TablesKeep
  <1>12. \A j \in todo'[w] : j \in Live' /\ rows'[j].status # "received"
    <2>1. \A j \in todo[w] : j \in EventIds /\ j \in Live /\ rows[j].status # "received"
      BY <1>0 DEF LocalsTyped, Knows
    <2> QED
      BY <1>0, <1>4, <1>6, <2>1, TablesKeep
  <1>13. Knows(w)'
    <2>1. staged'[i][a.out] > 0 /\ rows'[i].status # "received"
      BY <1>8, <1>9, <1>10 DEF Kinds
    <2> QED
      BY <1>2, <1>6, <1>8, <1>11, <1>12, <2>1 DEF Knows
  <1>14. LeavesClaims(w)
    <2>1. \A v \in Workers \ {w} :
             pc[v] \in {"map", "mark"} => cur[v] # i /\ cur[v] \in EventIds
      BY DEF HubInv, MarkHitsItsRow, ReceiveMark, Live
    <2>2. \A j \in EventIds \ {i} : rows'[j] = rows[j]
      BY <1>0, <1>3 DEF Settles, TypeOK
    <2> QED
      BY <2>1, <2>2 DEF LeavesClaims
  <1>15. OwnsByMaking(w)
    BY <1>6 DEF OwnsByMaking
  <1> QED
    BY <1>1, <1>4, <1>5, <1>13, <1>14, <1>15 DEF GoodStep

LEMMA PublishGood ==
    ASSUME HubInv, NEW w \in Workers, ReceivePublish(w)
    PROVE  GoodStep(w)
  <1>0. LocalsTyped /\ TargetTyped /\ TargetOnce /\ TypeOK /\ Knows(w)
    BY TypeParts DEF HubInv, InFlight
  <1>1. TableStep /\ LeavesClaims(w) /\ Live' = Live /\ rows' = rows /\ staged' = staged
    BY QuietTables DEF ReceivePublish, tables
  <1>2. TargetTyped' /\ TargetOnce'
    BY <1>0, QuietTarget DEF ReceivePublish
  <1>3. LocalsTyped' /\ Knows(w)' /\ Others(w) /\ OwnsByMaking(w)
    BY <1>0, ReturnStep DEF ReceivePublish
  <1>4. TellsTruth
    <2>1. /\ cur[w] \in Live /\ cur[w] \in EventIds
          /\ ans[w].out \in Kinds /\ ans[w].ref \in Actions \cup {None}
          /\ staged[cur[w]][ans[w].out] > 0
          /\ ans[w].out \in {"mapped", "ignored"} =>
               rows[cur[w]].status = ans[w].out /\ rows[cur[w]].ref = ans[w].ref
      BY <1>0 DEF ReceivePublish, Knows, LocalsTyped, Answer, Live
    <2>2. [id |-> cur[w], status |-> ans[w].out, ref |-> ans[w].ref]
            \in [id : EventIds, status : Statuses, ref : Actions \cup {None}]
      BY <2>1 DEF Kinds, Statuses
    <2>3. \E i \in EventIds, k \in Kinds :
             published' = published \cup {<<i, k>>} /\ staged'[i][k] > 0
      BY <1>1, <2>1 DEF ReceivePublish
    <2>4. told' = told \cup {[id |-> cur[w], status |-> ans[w].out, ref |-> ans[w].ref]}
      BY DEF ReceivePublish
    <2> QED
      BY <1>1, <2>1, <2>2, <2>3, <2>4 DEF TellsTruth
  <1> QED
    BY <1>1, <1>2, <1>3, <1>4 DEF GoodStep

LEMMA RetryGateGood ==
    ASSUME HubInv, NEW w \in Workers, NEW c \in Connectors, RetryGate(w, c)
    PROVE  GoodStep(w)
  <1>0. LocalsTyped /\ TargetTyped /\ TargetOnce /\ Knows(w)
    BY TypeParts DEF HubInv, InFlight
  <1>1. TableStep /\ LeavesClaims(w) /\ Live' = Live /\ rows' = rows
    BY QuietTables DEF RetryGate, tables
  <1>2. TargetTyped' /\ TargetOnce' /\ TellsTruth
    BY <1>0, QuietTarget, QuietTelling DEF RetryGate
  <1>3. pc'[w] = "list" /\ todo'[w] = todo[w] /\ ans'[w] = ans[w]
    BY <1>0 DEF RetryGate, Goto, LocalsTyped
  <1>4. LocalsTyped' /\ Others(w)
    BY <1>0 DEF RetryGate, Goto, LocalsTyped, Places, Request, Others
  <1>5. Knows(w)'
    BY <1>0, <1>1, <1>3 DEF Knows
  <1> QED
    BY <1>1, <1>2, <1>3, <1>4, <1>5 DEF GoodStep, OwnsByMaking

LEMMA ListGood ==
    ASSUME HubInv, NEW w \in Workers, RetryList(w)
    PROVE  GoodStep(w)
  <1>0. LocalsTyped /\ TargetTyped /\ TargetOnce /\ Knows(w)
    BY TypeParts DEF HubInv, InFlight
  <1>1. TableStep /\ LeavesClaims(w) /\ Live' = Live /\ rows' = rows
    BY QuietTables DEF RetryList, tables
  <1>2. TargetTyped' /\ TargetOnce' /\ TellsTruth
    BY <1>0, QuietTarget, QuietTelling DEF RetryList
  <1>3. pc'[w] = "retry" /\ todo'[w] = Failures(req[w].conn) /\ ans'[w] = ans[w]
    BY <1>0 DEF RetryList, Goto, LocalsTyped
  <1>4. Failures(req[w].conn) \subseteq EventIds
    BY DEF Failures, Live
  <1>5. LocalsTyped' /\ Others(w)
    BY <1>0, <1>4 DEF RetryList, Goto, LocalsTyped, Places, Others
  <1>6. \A i \in Failures(req[w].conn) : i \in Live /\ rows[i].status # "received"
    BY DEF Failures
  <1>7. Knows(w)'
    BY <1>0, <1>1, <1>3, <1>6 DEF Knows
  <1> QED
    BY <1>1, <1>2, <1>3, <1>5, <1>7 DEF GoodStep, OwnsByMaking

LEMMA RetryMapGood ==
    ASSUME HubInv, NEW w \in Workers, RetryMap(w)
    PROVE  GoodStep(w)
  <1>0. LocalsTyped /\ TypeOK /\ TargetOnce /\ Knows(w)
    BY TypeParts DEF HubInv, InFlight
  <1>1. TableStep /\ LeavesClaims(w) /\ Live' = Live /\ rows' = rows /\ staged' = staged
    BY QuietTables DEF RetryMap, tables
  <1>2. PICK i \in todo[w] : /\ cur' = [cur EXCEPT ![w] = i]
                             /\ todo' = [todo EXCEPT ![w] = @ \ {i}]
                             /\ TargetMap(w, ActionOf(i))
    BY DEF RetryMap
  <1>3. i \in Live /\ i \in EventIds /\ rows[i].status # "received"
    BY <1>0 DEF Knows, Live
  <1>4. ActionOf(i) \in Actions
    BY <1>0, <1>3, LiveRow DEF ActionOf, Row, Actions
  <1>5. /\ TargetOnce' /\ TargetTyped'
        /\ \E b \in Answer : AnswerOK(b) /\ ans' = [ans EXCEPT ![w] = b]
    BY <1>0, <1>2, <1>4, TargetStep DEF TargetTyped
  <1>6. PICK b \in Answer : AnswerOK(b) /\ ans' = [ans EXCEPT ![w] = b]
    BY <1>5
  <1>7. LocalsTyped' /\ Others(w)
    BY <1>0, <1>2, <1>3, <1>6 DEF RetryMap, Goto, LocalsTyped, Places, Others
  <1>8. /\ pc'[w] = "retrymark" /\ cur'[w] = i /\ ans'[w] = b
        /\ todo'[w] \subseteq todo[w]
    BY <1>0, <1>2, <1>6 DEF RetryMap, Goto, LocalsTyped
  <1>9. Knows(w)'
    BY <1>0, <1>1, <1>3, <1>6, <1>8 DEF Knows
  <1>10. TellsTruth
    BY QuietTelling DEF RetryMap
  <1> QED
    BY <1>1, <1>5, <1>7, <1>8, <1>9, <1>10 DEF GoodStep, OwnsByMaking

LEMMA DoneGood ==
    ASSUME HubInv, NEW w \in Workers, RetryDone(w) \/ Abort(w)
    PROVE  GoodStep(w)
  <1>0. LocalsTyped /\ TargetTyped /\ TargetOnce
    BY TypeParts DEF HubInv
  <1>1. TableStep /\ LeavesClaims(w)
    BY QuietTables DEF RetryDone, Abort, tables
  <1>2. TargetTyped' /\ TargetOnce' /\ TellsTruth
    BY <1>0, QuietTarget, QuietTelling DEF RetryDone, Abort
  <1>3. LocalsTyped' /\ Knows(w)' /\ Others(w) /\ OwnsByMaking(w)
    BY <1>0, ReturnStep DEF RetryDone, Abort
  <1> QED
    BY <1>1, <1>2, <1>3 DEF GoodStep

\* A retry touches no row that is still received.
LEMMA FailedIsNotClaimed ==
    ASSUME HubInv, NEW w \in Workers, NEW i \in EventIds, rows[i].status = "failed",
           \A j \in EventIds \ {i} : rows'[j] = rows[j]
    PROVE  LeavesClaims(w)
  <1>1. \A v \in Workers : pc[v] \in {"map", "mark"} =>
           cur[v] \in Live /\ cur[v] \in EventIds /\ rows[cur[v]].status = "received"
    BY DEF HubInv, InFlight, Knows, Live
  <1> QED
    BY <1>1 DEF LeavesClaims

LEMMA RetryMarkGood ==
    ASSUME HubInv, NEW w \in Workers,
           RetryMarkMapped(w) \/ RetryMarkIgnored(w) \/ RetryMarkFailed(w)
    PROVE  GoodStep(w)
  <1> DEFINE i == cur[w]
  <1>0. LocalsTyped /\ TargetTyped /\ TargetOnce /\ TypeOK /\ Knows(w)
    BY TypeParts DEF HubInv, InFlight
  <1>1. i \in Live /\ i \in EventIds /\ ans[w] \in Answer /\ AnswerOK(ans[w])
    BY <1>0 DEF RetryMarkMapped, RetryMarkIgnored, RetryMarkFailed, Knows, LocalsTyped, Live
  <1>2. TargetTyped' /\ TargetOnce' /\ TellsTruth
    BY <1>0, QuietTarget, QuietTelling DEF RetryMarkMapped, RetryMarkIgnored, RetryMarkFailed
  <1>3. ASSUME rows' = rows, staged' = staged, Resume(w)
        PROVE  GoodStep(w)
    <2>1. TableStep /\ LeavesClaims(w)
      BY <1>3, QuietTables
    <2>2. LocalsTyped' /\ Knows(w)' /\ Others(w) /\ OwnsByMaking(w)
      BY <1>0, <1>3, <2>1, ResumeStep
    <2> QED
      BY <1>2, <2>1, <2>2 DEF GoodStep
  <1>4. CASE ~StillFailed(i)
    BY <1>3, <1>4 DEF RetryMarkMapped, RetryMarkIgnored, RetryMarkFailed, tables
  <1>5. CASE StillFailed(i) /\ RetryMarkMapped(w)
    <2>1. ans[w].ref \in Actions /\ ans[w].ref # None
      BY <1>1, <1>5 DEF RetryMarkMapped, Answer, AnswerOK
    <2>2. Recovers(i, ans[w].ref)
      BY <1>1, <1>5, <2>1 DEF RetryMarkMapped, StillFailed, Recovers
    <2>3. TableStep
      BY <1>1, <2>1, <2>2 DEF TableStep
    <2>4. LeavesClaims(w)
      <3>1. \A j \in EventIds \ {i} : rows'[j] = rows[j]
        BY <1>0, <2>2 DEF Recovers, TypeOK
      <3> QED
        BY <1>1, <1>5, <3>1, FailedIsNotClaimed DEF StillFailed
    <2>5. LocalsTyped' /\ Others(w)
      BY <1>0, <1>5 DEF RetryMarkMapped, Goto, LocalsTyped, Places, Others
    <2>6. /\ pc'[w] = "retrypublish" /\ cur'[w] = i /\ todo'[w] = todo[w] /\ ans'[w] = ans[w]
      BY <1>0, <1>5 DEF RetryMarkMapped, Goto, LocalsTyped
    <2>7. i \in Live'
      BY <1>0, <1>1, <2>3, TablesKeep
    <2>8. \A j \in todo'[w] : j \in Live' /\ rows'[j].status # "received"
      <3>1. \A j \in todo[w] : j \in EventIds /\ j \in Live /\ rows[j].status # "received"
        BY <1>0 DEF LocalsTyped, Knows
      <3> QED
        BY <1>0, <2>3, <2>6, <3>1, TablesKeep
    <2>9. staged'[i]["mapped"] > 0
      <3>1. staged'[i]["mapped"] = staged[i]["mapped"] + 1 /\ staged[i]["mapped"] \in Nat
        BY <1>0, <1>1, <2>2 DEF Recovers, TypeOK, Kinds
      <3> QED
        BY <3>1
    <2>10. Knows(w)' /\ OwnsByMaking(w)
      BY <1>1, <2>6, <2>7, <2>8, <2>9 DEF Knows, OwnsByMaking
    <2> QED
      BY <1>2, <2>3, <2>4, <2>5, <2>10 DEF GoodStep
  <1>6. ASSUME Dismisses(i) \/ Refreshes(i), Resume(w)
        PROVE  GoodStep(w)
    <2>1. TableStep
      BY <1>1, <1>6 DEF TableStep
    <2>2. rows[i].status = "failed" /\ \A j \in EventIds \ {i} : rows'[j] = rows[j]
      BY <1>0, <1>6 DEF Dismisses, Refreshes, TypeOK
    <2>3. LeavesClaims(w)
      BY <1>1, <2>2, FailedIsNotClaimed
    <2>4. LocalsTyped' /\ Knows(w)' /\ Others(w) /\ OwnsByMaking(w)
      BY <1>0, <1>6, <2>1, ResumeStep
    <2> QED
      BY <1>2, <2>1, <2>3, <2>4 DEF GoodStep
  <1>7. CASE StillFailed(i) /\ RetryMarkIgnored(w)
    <2>1. Dismisses(i) /\ Resume(w)
      BY <1>1, <1>7 DEF RetryMarkIgnored, StillFailed, Dismisses
    <2> QED
      BY <1>6, <2>1
  <1>8. CASE StillFailed(i) /\ RetryMarkFailed(w)
    <2>1. Refreshes(i) /\ Resume(w)
      BY <1>1, <1>8 DEF RetryMarkFailed, StillFailed, Refreshes
    <2> QED
      BY <1>6, <2>1
  <1> QED
    BY <1>4, <1>5, <1>7, <1>8

LEMMA RetryPublishGood ==
    ASSUME HubInv, NEW w \in Workers, RetryPublish(w)
    PROVE  GoodStep(w)
  <1>0. LocalsTyped /\ TargetTyped /\ TargetOnce /\ TypeOK /\ Knows(w)
    BY TypeParts DEF HubInv, InFlight
  <1>1. TableStep /\ LeavesClaims(w) /\ rows' = rows /\ staged' = staged
    BY QuietTables DEF RetryPublish, tables
  <1>2. TargetTyped' /\ TargetOnce'
    BY <1>0, QuietTarget DEF RetryPublish
  <1>3. LocalsTyped' /\ Knows(w)' /\ Others(w) /\ OwnsByMaking(w)
    BY <1>0, <1>1, ResumeStep DEF RetryPublish
  <1>4. TellsTruth
    <2>1. cur[w] \in EventIds /\ staged'[cur[w]]["mapped"] > 0
      BY <1>0, <1>1 DEF RetryPublish, Knows, Live
    <2> QED
      BY <2>1 DEF RetryPublish, TellsTruth, Kinds
  <1> QED
    BY <1>1, <1>2, <1>3, <1>4 DEF GoodStep

-----------------------------------------------------------------------------
(* The invariant.                                                          *)

LEMMA HubInit == Init => HubInv
  <1> SUFFICES ASSUME Init PROVE HubInv
    OBVIOUS
  <1>1. Live = {}
    BY DEF Init, Live
  <1>2. TypeOK
    BY HubAssumption, NoAnswerTyped DEF Init, TypeOK, ConnectorRow, Places, NoneStaged
  <1>3. Ledger
    BY <1>1 DEF Init, Ledger, OneRowPerAction, OutboxMatchesRow, RowDetail, Unborn
  <1>4. InFlight /\ MarkHitsItsRow
    BY NoAnswerTyped DEF Init, InFlight, Knows, MarkHitsItsRow
  <1>5. Told /\ TargetOnce
    BY DEF Init, Told, AnswersStand, PublishedWasStaged, TargetOnce
  <1> QED
    BY <1>2, <1>3, <1>4, <1>5 DEF HubInv

\* A good step of a worker keeps the invariant.
LEMMA GoodStepKeeps ==
    ASSUME HubInv, NEW w \in Workers, GoodStep(w),
           conn' \in [Connectors -> ConnectorRow], aborts' \in 0..MaxAborts
    PROVE  HubInv'
  <1>0. TypeOK /\ Ledger /\ TableStep /\ Knows(w)' /\ Others(w) /\ LeavesClaims(w)
        /\ OwnsByMaking(w) /\ TellsTruth /\ InFlight
    BY DEF HubInv, GoodStep
  <1>1. TypeOK'
    <2>1. /\ rows' \in [EventIds -> Row \cup {None}]
          /\ staged' \in [EventIds -> [Kinds -> Nat]]
      BY <1>0, TablesTyped
    <2>2. told' \subseteq [id : EventIds, status : Statuses, ref : Actions \cup {None}]
      BY <1>0 DEF TypeOK, TellsTruth
    <2>3. published' \subseteq EventIds \X Kinds
      BY <1>0 DEF TypeOK, TellsTruth
    <2> QED
      BY <2>1, <2>2, <2>3 DEF GoodStep, TypeOK, LocalsTyped, TargetTyped
  <1>2. Ledger'
    BY <1>0, LedgerStep
  <1>3. InFlight'
    <2>1. \A v \in Workers \ {w} : Knows(v)'
      BY <1>0, StillKnows DEF InFlight
    <2> QED
      BY <1>0, <2>1 DEF InFlight
  <1>4. MarkHitsItsRow'
    <2>1. \A v \in Workers : pc'[v] \in {"map", "mark"} =>
             cur'[v] \in Live' /\ rows'[cur'[v]].status = "received"
      BY <1>3 DEF InFlight, Knows
    <2>2. ASSUME NEW u \in Workers, NEW v \in Workers \ {u},
                 pc'[u] \in {"map", "mark"}, pc'[v] \in {"map", "mark"}
          PROVE  cur'[u] # cur'[v]
      <3>1. \A x \in Workers \ {w} : pc'[x] = pc[x] /\ cur'[x] = cur[x]
        BY <1>0 DEF Others
      <3>2. \A x \in Workers : pc[x] \in {"map", "mark"} => cur[x] \in Live
        BY <1>0 DEF InFlight, Knows
      <3>3. \A x \in Workers, y \in Workers : x # y /\ pc[x] \in {"map", "mark"}
               /\ pc[y] \in {"map", "mark"} => cur[x] # cur[y]
        BY DEF HubInv, MarkHitsItsRow
      <3>4. pc'[w] \in {"map", "mark"} =>
               (pc[w] \in {"map", "mark"} /\ cur'[w] = cur[w]) \/ cur'[w] \notin Live
        BY <1>0 DEF OwnsByMaking
      <3>5. CASE u = w
        BY <2>2, <3>1, <3>2, <3>3, <3>4, <3>5
      <3>6. CASE v = w
        BY <2>2, <3>1, <3>2, <3>3, <3>4, <3>6
      <3>7. CASE u # w /\ v # w
        BY <2>2, <3>1, <3>3, <3>7
      <3> QED
        BY <3>5, <3>6, <3>7
    <2> QED
      BY <2>1, <2>2 DEF MarkHitsItsRow
  <1>5. Told'
    <2>0. Told
      BY DEF HubInv
    <2>1. \A t \in told : /\ t.id \in Live'
                          /\ t.status \in {"mapped", "ignored"} =>
                               rows'[t.id].status = t.status /\ rows'[t.id].ref = t.ref
      <3> SUFFICES ASSUME NEW t \in told
                   PROVE  /\ t.id \in Live'
                          /\ t.status \in {"mapped", "ignored"} =>
                               rows'[t.id].status = t.status /\ rows'[t.id].ref = t.ref
        OBVIOUS
      <3>1. t.id \in Live /\ t.id \in EventIds
        BY <2>0 DEF Told, Live
      <3>2. t.id \in Live' /\ (rows[t.id].status \in {"mapped", "ignored"} => rows'[t.id] = rows[t.id])
        BY <1>0, <3>1, TablesKeep
      <3> QED
        BY <2>0, <3>2 DEF Told, AnswersStand
    <2>2. AnswersStand' /\ \A t \in told' : t.id \in Live'
      BY <1>0, <2>1 DEF TellsTruth, AnswersStand
    <2>3. \A p \in published : staged'[p[1]][p[2]] > 0
      <3> SUFFICES ASSUME NEW p \in published PROVE staged'[p[1]][p[2]] > 0
        OBVIOUS
      <3>1. p[1] \in EventIds /\ p[2] \in Kinds /\ staged[p[1]][p[2]] > 0
        BY <1>0, <2>0 DEF TypeOK, Told, PublishedWasStaged
      <3>2. p[1] \in Live
        BY <1>0, <3>1 DEF Ledger, Unborn, NoneStaged
      <3>3. staged'[p[1]][p[2]] >= staged[p[1]][p[2]]
        BY <1>0, <3>1, <3>2, TablesKeep
      <3>4. staged[p[1]][p[2]] \in Nat /\ staged'[p[1]][p[2]] \in Nat
        BY <1>0, <1>1, <3>1 DEF TypeOK
      <3> QED
        BY <3>1, <3>3, <3>4
    <2>4. PublishedWasStaged'
      BY <1>0, <2>3 DEF TellsTruth, PublishedWasStaged
    <2> QED
      BY <2>2, <2>4 DEF Told
  <1>6. TargetOnce'
    BY DEF GoodStep
  <1> QED
    BY <1>1, <1>2, <1>3, <1>4, <1>5, <1>6 DEF HubInv

\* The connector rows are nobody's business but the gates'.
LEMMA ConnectorsKeep ==
    ASSUME HubInv, UNCHANGED hub, conn' \in [Connectors -> ConnectorRow]
    PROVE  HubInv'
  <1>1. TypeOK'
    BY DEF hub, HubInv, TypeOK
  <1>2. Ledger' /\ MarkHitsItsRow' /\ Told' /\ TargetOnce'
    BY DEF hub, HubInv, Ledger, OneRowPerAction, OutboxMatchesRow, RowDetail, Unborn, Live,
           ActionOf, MarkHitsItsRow, Told, AnswersStand, PublishedWasStaged, TargetOnce
  <1>3. InFlight'
    BY DEF hub, HubInv, InFlight, Knows, Live
  <1> QED
    BY <1>1, <1>2, <1>3 DEF HubInv

LEMMA AdminKeeps ==
    ASSUME HubInv, NEW c \in Connectors, Admin(c)
    PROVE  HubInv'
  <1>1. UNCHANGED hub
    BY DEF Admin, RegisterConnector, SetConnectorStatus, SetConnectorDeleted
  <1>2. conn' \in [Connectors -> ConnectorRow]
    <2>0. conn \in [Connectors -> ConnectorRow]
      BY DEF HubInv, TypeOK
    <2>1. CASE RegisterConnector(c)
      BY <2>0, <2>1 DEF RegisterConnector, ConnectorRow
    <2>2. ASSUME NEW s \in {"active", "inactive"}, SetConnectorStatus(c, s)
          PROVE  conn' \in [Connectors -> ConnectorRow]
      BY <2>0, <2>2 DEF SetConnectorStatus, ConnectorRow
    <2>3. CASE SetConnectorDeleted(c)
      BY <2>0, <2>3 DEF SetConnectorDeleted, ConnectorRow
    <2> QED
      BY <2>1, <2>2, <2>3 DEF Admin
  <1> QED
    BY <1>1, <1>2, ConnectorsKeep

\* A step of Next is an operator's, or a good step of one worker.
LEMMA HubStep ==
    ASSUME HubInv, [Next]_vars
    PROVE  HubInv' /\ TableStep
  <1>0. conn \in [Connectors -> ConnectorRow] /\ aborts \in 0..MaxAborts /\ MaxAborts \in Nat
    BY HubAssumption DEF HubInv, TypeOK
  <1>1. ASSUME NEW c \in Connectors, Admin(c)
        PROVE  HubInv' /\ TableStep
    <2>1. rows' = rows /\ staged' = staged
      BY <1>1 DEF Admin, RegisterConnector, SetConnectorStatus, SetConnectorDeleted, hub
    <2> QED
      BY <1>1, <2>1, AdminKeeps DEF TableStep
  <1>2. ASSUME NEW w \in Workers, GoodStep(w),
               conn' = conn, aborts' \in 0..MaxAborts
        PROVE  HubInv' /\ TableStep
    BY <1>0, <1>2, GoodStepKeeps DEF GoodStep
  <1>3. ASSUME NEW w \in Workers, NEW c \in Connectors, NEW k \in Keys, NEW x \in ExternalIds,
               ReceiveGate(w, c, k, x)
        PROVE  HubInv' /\ TableStep
    BY <1>0, <1>2, <1>3, GateGood DEF ReceiveGate
  <1>4. ASSUME NEW w \in Workers, NEW c \in Connectors, RetryGate(w, c)
        PROVE  HubInv' /\ TableStep
    BY <1>0, <1>2, <1>4, RetryGateGood DEF RetryGate
  <1>5. ASSUME NEW w \in Workers, ReceiveStep(w)
        PROVE  HubInv' /\ TableStep
    <2>1. GoodStep(w)
      BY <1>5, ClaimGood, RereadGood, MapGood, MarkGood, PublishGood DEF ReceiveStep
    <2>2. conn' = conn /\ aborts' = aborts
      BY <1>5 DEF ReceiveStep, ReceiveClaim, ReceiveReread, ReceiveMap, ReceiveMark, ReceivePublish
    <2> QED
      BY <1>0, <1>2, <2>1, <2>2
  <1>6. ASSUME NEW w \in Workers, RetryStep(w)
        PROVE  HubInv' /\ TableStep
    <2>1. GoodStep(w)
      BY <1>6, ListGood, RetryMapGood, DoneGood, RetryMarkGood, RetryPublishGood DEF RetryStep
    <2>2. conn' = conn /\ aborts' = aborts
      BY <1>6 DEF RetryStep, RetryList, RetryMap, RetryDone, RetryMarkMapped, RetryMarkIgnored,
                  RetryMarkFailed, RetryPublish
    <2> QED
      BY <1>0, <1>2, <2>1, <2>2
  <1>7. ASSUME NEW w \in Workers, Abort(w)
        PROVE  HubInv' /\ TableStep
    <2>1. conn' = conn /\ aborts' \in 0..MaxAborts
      BY <1>0, <1>7 DEF Abort
    <2> QED
      BY <1>2, <1>7, <2>1, DoneGood
  <1>8. CASE UNCHANGED vars
    <2>1. UNCHANGED hub /\ conn' = conn
      BY <1>8 DEF vars, hub
    <2>2. TableStep
      BY <2>1 DEF hub, TableStep
    <2> QED
      BY <1>0, <2>1, <2>2, ConnectorsKeep
  <1> QED
    BY <1>1, <1>3, <1>4, <1>5, <1>6, <1>7, <1>8 DEF Next

\* HubInv is an invariant of the hub.
THEOREM HubInvariant == Spec => []HubInv
  <1>1. HubInv /\ [Next]_vars => HubInv'
    BY HubStep
  <1> QED
    BY HubInit, <1>1, PTL DEF Spec

-----------------------------------------------------------------------------
(* What it gives.                                                          *)

\* Every variable of the hub keeps its type: in particular no request marks a
\* row that does not exist or works with an answer it was not given.
THEOREM HubTyped == Spec => []TypeOK
  <1>1. HubInv => TypeOK
    BY DEF HubInv
  <1> QED
    BY HubInvariant, <1>1, PTL

\* The claim of receive_event makes at most one row per business action.
THEOREM HubDedup == Spec => []OneRowPerAction
  <1>1. HubInv => OneRowPerAction
    BY DEF HubInv, Ledger
  <1> QED
    BY HubInvariant, <1>1, PTL

\* Outbox and row agree: the transactions of receive_event and retry_failed
\* stage exactly what they change, for any number of concurrent requests.
THEOREM HubOutbox == Spec => []OutboxMatchesRow
  <1>1. HubInv => OutboxMatchesRow
    BY DEF HubInv, Ledger
  <1> QED
    BY HubInvariant, <1>1, PTL

\* The UPDATEs of receive_event, whose row count is not looked at, hit the row
\* the request claimed.
THEOREM HubMarks == Spec => []MarkHitsItsRow
  <1>1. HubInv => MarkHitsItsRow
    BY DEF HubInv
  <1> QED
    BY HubInvariant, <1>1, PTL

\* What a caller of receive_event was told stands.
THEOREM HubAnswers == Spec => []AnswersStand
  <1>1. HubInv => AnswersStand
    BY DEF HubInv, Told
  <1> QED
    BY HubInvariant, <1>1, PTL

\* The sink is given nothing that the outbox does not hold.
THEOREM HubPublishes == Spec => []PublishedWasStaged
  <1>1. HubInv => PublishedWasStaged
    BY DEF HubInv, Told
  <1> QED
    BY HubInvariant, <1>1, PTL

\* The reference and error columns agree with the status.
THEOREM HubColumns == Spec => []RowDetail
  <1>1. HubInv => RowDetail
    BY DEF HubInv, Ledger
  <1> QED
    BY HubInvariant, <1>1, PTL

\* The target behind the port acts at most once per business action.
THEOREM HubAppliesOnce == Spec => []AppliedAtMostOnce
  <1>1. HubInv => AppliedAtMostOnce
    BY DEF HubInv, TargetOnce, AppliedAtMostOnce
  <1> QED
    BY HubInvariant, <1>1, PTL

\* No step changes a settled row.
THEOREM HubSettledIsFinal == Spec => SettledIsFinal
  <1>1. HubInv /\ [Next]_vars =>
          [\A i \in Live : rows[i].status \in {"mapped", "ignored"} => rows'[i] = rows[i]]_vars
    <2> SUFFICES ASSUME HubInv, [Next]_vars, NEW i \in Live,
                        rows[i].status \in {"mapped", "ignored"}
                 PROVE  rows'[i] = rows[i]
      OBVIOUS
    <2>1. TypeOK /\ TableStep /\ i \in EventIds
      BY HubStep DEF HubInv, Live
    <2> QED
      BY <2>1, TablesKeep
  <1> QED
    BY HubInvariant, <1>1, PTL DEF Spec, SettledIsFinal

-----------------------------------------------------------------------------
(* The hub implements EventLifecycle.                                      *)

\* The row of an action is the one that the mapping chooses.
LEMMA OwnRow ==
    ASSUME OneRowPerAction, OneRowPerAction'
    PROVE  \A a : /\ \A i \in Live : ActionOf(i) = a =>
                        StatusOf(a) = rows[i].status /\ AnnouncedOf(a) = staged[i]
                  /\ \A i \in Live' : ActionOf(i)' = a =>
                        StatusOf(a)' = rows'[i].status /\ AnnouncedOf(a)' = staged'[i]
  <1> SUFFICES ASSUME NEW a
               PROVE  /\ \A i \in Live : ActionOf(i) = a =>
                           StatusOf(a) = rows[i].status /\ AnnouncedOf(a) = staged[i]
                      /\ \A i \in Live' : ActionOf(i)' = a =>
                           StatusOf(a)' = rows'[i].status /\ AnnouncedOf(a)' = staged'[i]
    OBVIOUS
  <1>1. ASSUME NEW i \in Live, ActionOf(i) = a
        PROVE  (CHOOSE j \in Live : ActionOf(j) = a) = i
    BY <1>1 DEF OneRowPerAction
  <1>2. ASSUME NEW i \in Live', ActionOf(i)' = a
        PROVE  (CHOOSE j \in Live' : ActionOf(j)' = a) = i
    BY <1>2 DEF OneRowPerAction
  <1>3. ASSUME NEW i \in Live, ActionOf(i) = a
        PROVE  StatusOf(a) = rows[i].status /\ AnnouncedOf(a) = staged[i]
    BY <1>1, <1>3 DEF StatusOf, AnnouncedOf
  <1>4. ASSUME NEW i \in Live', ActionOf(i)' = a
        PROVE  StatusOf(a)' = rows'[i].status /\ AnnouncedOf(a)' = staged'[i]
    BY <1>2, <1>4 DEF StatusOf, AnnouncedOf
  <1> QED
    BY <1>3, <1>4

\* A change of the row i shows in its own action only.
LEMMA OtherAction ==
    ASSUME OneRowPerAction, OneRowPerAction', NEW i \in EventIds,
           \A j \in EventIds \ {i} : rows'[j] = rows[j] /\ staged'[j] = staged[j],
           NEW a, i \in Live => ActionOf(i) # a, i \in Live' => ActionOf(i)' # a
    PROVE  StatusOf(a)' = StatusOf(a) /\ AnnouncedOf(a)' = AnnouncedOf(a)
  <1>1. \A j \in EventIds \ {i} : (j \in Live' <=> j \in Live) /\ ActionOf(j)' = ActionOf(j)
    BY DEF Live, ActionOf
  <1>2. \A j : (j \in Live /\ ActionOf(j) = a) <=> (j \in Live' /\ ActionOf(j)' = a)
    BY <1>1 DEF Live
  <1>3. CASE \E j \in Live : ActionOf(j) = a
    <2>1. PICK j \in Live : ActionOf(j) = a
      BY <1>3
    <2>2. j \in Live' /\ ActionOf(j)' = a /\ j \in EventIds \ {i}
      BY <1>2, <2>1 DEF Live
    <2>4. StatusOf(a) = rows[j].status /\ AnnouncedOf(a) = staged[j]
      BY <2>1, OwnRow
    <2>5. StatusOf(a)' = rows'[j].status /\ AnnouncedOf(a)' = staged'[j]
      BY <2>2, OwnRow
    <2> QED
      BY <2>2, <2>4, <2>5
  <1>4. CASE ~ \E j \in Live : ActionOf(j) = a
    BY <1>2, <1>4 DEF StatusOf, AnnouncedOf
  <1> QED
    BY <1>3, <1>4

StatusMap == [a \in Actions |-> StatusOf(a)]
AnnouncedMap == [a \in Actions |-> AnnouncedOf(a)]

\* How a change of row i, whose action is a before and after it, shows in the lifecycle.
LEMMA MapStep ==
    ASSUME OneRowPerAction, OneRowPerAction', NEW i \in EventIds, NEW a \in Actions,
           \A j \in EventIds \ {i} : rows'[j] = rows[j] /\ staged'[j] = staged[j],
           i \in Live => ActionOf(i) = a, i \in Live', ActionOf(i)' = a
    PROVE  /\ StatusMap' = [StatusMap EXCEPT ![a] = rows'[i].status]
           /\ AnnouncedMap' = [AnnouncedMap EXCEPT ![a] = staged'[i]]
           /\ i \in Live => StatusMap[a] = rows[i].status /\ AnnouncedMap[a] = staged[i]
  <1>2. StatusOf(a)' = rows'[i].status /\ AnnouncedOf(a)' = staged'[i]
    BY OwnRow
  <1>3. \A b \in Actions \ {a} : StatusOf(b)' = StatusOf(b) /\ AnnouncedOf(b)' = AnnouncedOf(b)
    BY OtherAction
  <1>4. i \in Live => StatusOf(a) = rows[i].status /\ AnnouncedOf(a) = staged[i]
    BY OwnRow
  <1>5. StatusMap' = [StatusMap EXCEPT ![a] = rows'[i].status]
    BY <1>2, <1>3 DEF StatusMap
  <1>6. AnnouncedMap' = [AnnouncedMap EXCEPT ![a] = staged'[i]]
    BY <1>2, <1>3 DEF AnnouncedMap
  <1> QED
    BY <1>4, <1>5, <1>6 DEF StatusMap, AnnouncedMap

LEMMA LifecycleStep ==
    ASSUME TypeOK, Ledger, Ledger', TypeOK', TableStep
    PROVE  [Lifecycle!LNext]_<<StatusMap, AnnouncedMap>>
  <1>0. /\ OneRowPerAction /\ OneRowPerAction'
        /\ rows \in [EventIds -> Row \cup {None}] /\ staged \in [EventIds -> [Kinds -> Nat]]
    BY DEF Ledger, TypeOK
  <1>1. CASE rows' = rows /\ staged' = staged
    BY <1>1 DEF StatusMap, AnnouncedMap, StatusOf, AnnouncedOf, Live, ActionOf
  <1>2. ASSUME NEW i \in EventIds, NEW r \in Row, Born(i, r) PROVE Lifecycle!LNext
    <2> DEFINE a == <<r.conn, r.key>>
    <2>1. a \in Actions
      BY DEF Row, Actions
    <2>2. /\ rows'[i] = r /\ i \notin Live /\ staged' = staged /\ staged[i] = NoneStaged
          /\ \A j \in EventIds \ {i} : rows'[j] = rows[j] /\ staged'[j] = staged[j]
      BY <1>0, <1>2 DEF Born, Ledger, Unborn
    <2>3. i \in Live' /\ ActionOf(i)' = a
      BY <2>2, RowIsNotNone DEF Live, ActionOf
    <2>4. /\ StatusMap' = [StatusMap EXCEPT ![a] = rows'[i].status]
          /\ AnnouncedMap' = [AnnouncedMap EXCEPT ![a] = staged'[i]]
          /\ i \in Live => StatusMap[a] = rows[i].status /\ AnnouncedMap[a] = staged[i]
      BY <1>0, <2>1, <2>2, <2>3, MapStep
    <2>5. ~ \E j \in Live : ActionOf(j) = a
      BY <1>2 DEF Born, ActionOf
    <2>6. StatusMap[a] = "unseen" /\ AnnouncedMap[a] = NoneStaged
      BY <2>1, <2>5 DEF StatusMap, AnnouncedMap, StatusOf, AnnouncedOf
    <2>7. StatusMap' = [StatusMap EXCEPT ![a] = "received"]
      BY <1>2, <2>2, <2>4 DEF Born
    <2>8. AnnouncedMap' = AnnouncedMap
      BY <2>1, <2>2, <2>4, <2>6 DEF AnnouncedMap
    <2>9. Lifecycle!Receive(a)
      BY <2>6, <2>7, <2>8 DEF Lifecycle!Receive, StatusMap, AnnouncedMap
    <2> QED
      BY <2>1, <2>9 DEF Lifecycle!LNext
  <1>3. ASSUME NEW i \in EventIds, i \in Live, TableStep,
               \A j \in EventIds \ {i} : rows'[j] = rows[j] /\ staged'[j] = staged[j]
        PROVE  /\ ActionOf(i) \in Actions
               /\ StatusMap' = [StatusMap EXCEPT ![ActionOf(i)] = rows'[i].status]
               /\ AnnouncedMap' = [AnnouncedMap EXCEPT ![ActionOf(i)] = staged'[i]]
               /\ StatusMap[ActionOf(i)] = rows[i].status /\ AnnouncedMap[ActionOf(i)] = staged[i]
    <2>1. ActionOf(i) \in Actions
      BY <1>3, LiveRow DEF ActionOf, Row, Actions
    <2>2. i \in Live' /\ ActionOf(i)' = ActionOf(i)
      BY <1>3, TablesKeep DEF ActionOf
    <2>3. /\ StatusMap' = [StatusMap EXCEPT ![ActionOf(i)] = rows'[i].status]
          /\ AnnouncedMap' = [AnnouncedMap EXCEPT ![ActionOf(i)] = staged'[i]]
          /\ i \in Live => StatusMap[ActionOf(i)] = rows[i].status /\ AnnouncedMap[ActionOf(i)] = staged[i]
      BY <1>0, <1>3, <2>1, <2>2, MapStep
    <2> QED
      BY <1>3, <2>1, <2>3
  <1>4. ASSUME NEW i \in EventIds, NEW b \in Answer, Settles(i, b) PROVE Lifecycle!LNext
    <2>1. /\ ActionOf(i) \in Actions
          /\ StatusMap' = [StatusMap EXCEPT ![ActionOf(i)] = rows'[i].status]
          /\ AnnouncedMap' = [AnnouncedMap EXCEPT ![ActionOf(i)] = staged'[i]]
          /\ StatusMap[ActionOf(i)] = rows[i].status /\ AnnouncedMap[ActionOf(i)] = staged[i]
      BY <1>0, <1>3, <1>4 DEF Settles
    <2>2. rows[i] \in Row /\ b.out \in Kinds
      BY <1>4, LiveRow DEF Settles, Answer
    <2>3. rows'[i].status = b.out /\ rows[i].status = "received"
      BY <1>0, <1>4, <2>2 DEF Settles, Row
    <2>4. staged'[i] = [staged[i] EXCEPT ![b.out] = @ + 1]
      BY <1>0, <1>4 DEF Settles
    <2>5. Lifecycle!Settle(ActionOf(i), b.out)
      BY <2>1, <2>3, <2>4 DEF Lifecycle!Settle, Lifecycle!Become, StatusMap, AnnouncedMap
    <2> QED
      BY <2>1, <2>2, <2>5 DEF Lifecycle!LNext
  <1>5. ASSUME NEW i \in EventIds, NEW r \in Actions, Recovers(i, r) PROVE Lifecycle!LNext
    <2>1. /\ ActionOf(i) \in Actions
          /\ StatusMap' = [StatusMap EXCEPT ![ActionOf(i)] = rows'[i].status]
          /\ AnnouncedMap' = [AnnouncedMap EXCEPT ![ActionOf(i)] = staged'[i]]
          /\ StatusMap[ActionOf(i)] = rows[i].status /\ AnnouncedMap[ActionOf(i)] = staged[i]
      BY <1>0, <1>3, <1>5 DEF Recovers
    <2>2. rows[i] \in Row
      BY <1>5, LiveRow DEF Recovers
    <2>3. rows'[i].status = "mapped" /\ rows[i].status = "failed"
      BY <1>0, <1>5, <2>2 DEF Recovers, Row
    <2>4. staged'[i] = [staged[i] EXCEPT !["mapped"] = @ + 1]
      BY <1>0, <1>5 DEF Recovers
    <2>5. Lifecycle!Recover(ActionOf(i))
      BY <2>1, <2>3, <2>4 DEF Lifecycle!Recover, Lifecycle!Become, StatusMap, AnnouncedMap
    <2> QED
      BY <2>1, <2>5 DEF Lifecycle!LNext
  <1>6. ASSUME NEW i \in EventIds, Dismisses(i) \/ Refreshes(i)
        PROVE  [Lifecycle!LNext]_<<StatusMap, AnnouncedMap>>
    <2>1. /\ ActionOf(i) \in Actions
          /\ StatusMap' = [StatusMap EXCEPT ![ActionOf(i)] = rows'[i].status]
          /\ AnnouncedMap' = [AnnouncedMap EXCEPT ![ActionOf(i)] = staged'[i]]
          /\ StatusMap[ActionOf(i)] = rows[i].status /\ AnnouncedMap[ActionOf(i)] = staged[i]
      BY <1>0, <1>3, <1>6 DEF Dismisses, Refreshes
    <2>2. rows[i] \in Row /\ rows[i].status = "failed" /\ staged' = staged
      BY <1>6, LiveRow DEF Dismisses, Refreshes
    <2>3. AnnouncedMap' = AnnouncedMap
      BY <2>1, <2>2 DEF AnnouncedMap
    <2>4. CASE Dismisses(i)
      <3>1. rows'[i].status = "ignored"
        BY <1>0, <2>2, <2>4 DEF Dismisses, Row
      <3>2. Lifecycle!Dismiss(ActionOf(i))
        BY <2>1, <2>2, <2>3, <3>1 DEF Lifecycle!Dismiss, StatusMap, AnnouncedMap
      <3> QED
        BY <2>1, <3>2 DEF Lifecycle!LNext
    <2>5. CASE Refreshes(i)
      <3>1. rows'[i].status = "failed"
        BY <1>0, <2>2, <2>5 DEF Refreshes, Row
      <3>2. StatusMap' = StatusMap
        BY <2>1, <2>2, <3>1 DEF StatusMap
      <3> QED
        BY <2>3, <3>2
    <2> QED
      BY <1>6, <2>4, <2>5
  <1> QED
    BY <1>1, <1>2, <1>4, <1>5, <1>6 DEF TableStep

\* Whatever the requests, retries and crashes, each business action goes through the
\* promised lifecycle and each change of its status is announced with it.
THEOREM HubFollowsLifecycle == Spec => ImplementsLifecycle
  <1>1. Init => Lifecycle!LInit
    BY DEF Init, Lifecycle!LInit, StatusOf, AnnouncedOf, Live, NoneStaged
  <1>2. HubInv /\ [Next]_vars => [Lifecycle!LNext]_<<StatusMap, AnnouncedMap>>
    <2> SUFFICES ASSUME HubInv, [Next]_vars PROVE [Lifecycle!LNext]_<<StatusMap, AnnouncedMap>>
      OBVIOUS
    <2>1. TypeOK /\ Ledger /\ TypeOK' /\ Ledger' /\ TableStep
      BY HubStep DEF HubInv
    <2> QED
      BY <2>1, LifecycleStep
  <1> QED
    BY <1>1, <1>2, HubInvariant, PTL
    DEF Spec, ImplementsLifecycle, Lifecycle!LSpec, StatusMap, AnnouncedMap

-----------------------------------------------------------------------------
(* What a mapped row refers to.                                            *)

\* The record of a mapped row was made under the row's own business key.
MappedUnderItsKey ==
    \A i \in Live : rows[i].status = "mapped" => rows[i].ref[2] = rows[i].key

\* A request works on the row of its own key, and an answer is for the row at hand.
Fits(w) ==
    /\ pc[w] \in {"map", "mark"} => rows[cur[w]].key = req[w].key
    /\ pc[w] \in {"mark", "retrymark"} /\ ans[w].out = "mapped" =>
         ans[w].ref[2] = rows[cur[w]].key

KeyInv == HubInv /\ MappedUnderItsKey /\ \A w \in Workers : Fits(w)

\* A step of w maps no row but the one at hand, and with the answer at hand.
MapsAsAnswered(w) ==
    \A i \in EventIds :
        \/ rows'[i] = rows[i]
        \/ rows'[i].status # "mapped"
        \/ /\ i = cur[w] /\ i \in Live /\ rows'[i].key = rows[i].key
           /\ pc[w] \in {"mark", "retrymark"}
           /\ ans[w].out = "mapped" /\ rows'[i].ref = ans[w].ref

\* What the proof needs of a step of worker w.
FitStep(w) == MapsAsAnswered(w) /\ Fits(w)'

\* The record the target answers with bears the key it was asked for.
LEMMA TargetKey ==
    ASSUME TypeOK, TargetOnce, NEW w \in Workers, NEW a \in Actions, TargetMap(w, a)
    PROVE  ans'[w].out = "mapped" => ans'[w].ref[2] = a[2]
  <1>0. ans \in [Workers -> Answer]
    BY DEF TypeOK
  <1>1. \A e \in effect' : e.key = e.act[2]
    BY TargetStep DEF TargetOnce
  <1>2. ASSUME NEW e \in effect', e.key = a[2],
               ans' = [ans EXCEPT ![w] = [out |-> "mapped", ref |-> e.act]]
        PROVE  ans'[w].ref[2] = a[2]
    BY <1>0, <1>1, <1>2
  <1>3. ASSUME \/ ans' = [ans EXCEPT ![w] = [out |-> "ignored", ref |-> None]]
               \/ ans' = [ans EXCEPT ![w] = [out |-> "failed", ref |-> None]]
        PROVE  ans'[w].out # "mapped"
    BY <1>0, <1>3
  <1> QED
    BY <1>2, <1>3 DEF TargetMap, IdempotencyKey

\* Steps that leave the rows alone and end where nothing is at hand.
LEMMA QuietFits ==
    ASSUME NEW w \in Workers, rows' = rows, pc'[w] \notin {"map", "mark", "retrymark"}
    PROVE  FitStep(w)
  BY DEF FitStep, MapsAsAnswered, Fits

LEMMA ClaimFits ==
    ASSUME HubInv, NEW w \in Workers, ReceiveClaim(w)
    PROVE  FitStep(w)
  <1>0. LocalsTyped /\ TypeOK /\ rows \in [EventIds -> Row \cup {None}]
    BY TypeParts DEF HubInv, TypeOK
  <1>1. CASE \E i \in Live : SameSlot(rows[i], req[w])
    <2>1. rows' = rows /\ pc'[w] = "reread"
      BY <1>0, <1>1 DEF ReceiveClaim, Goto, LocalsTyped
    <2> QED
      BY <2>1, QuietFits
  <1>2. CASE ~ \E i \in Live : SameSlot(rows[i], req[w])
    <2> DEFINE r == [conn |-> req[w].conn, key |-> req[w].key, ext |-> req[w].ext,
                     status |-> "received", ref |-> None, err |-> FALSE]
    <2>1. PICK i \in EventIds \ Live :
            /\ rows' = [rows EXCEPT ![i] = r]
            /\ cur' = [cur EXCEPT ![w] = i]
            /\ pc' = [pc EXCEPT ![w] = "map"]
      BY <1>2 DEF ReceiveClaim, Goto
    <2>2. pc'[w] = "map" /\ cur'[w] = i /\ req'[w] = req[w] /\ rows'[i] = r
      BY <1>0, <2>1 DEF LocalsTyped, ReceiveClaim
    <2>3. Fits(w)'
      BY <2>2 DEF Fits
    <2>4. MapsAsAnswered(w)
      BY <1>0, <2>1, <2>2 DEF MapsAsAnswered
    <2> QED
      BY <2>3, <2>4 DEF FitStep
  <1> QED
    BY <1>1, <1>2

LEMMA MapFits ==
    ASSUME HubInv, NEW w \in Workers, Fits(w), ReceiveMap(w)
    PROVE  FitStep(w)
  <1>0. LocalsTyped /\ TypeOK /\ TargetOnce /\ Knows(w)
    BY TypeParts DEF HubInv, InFlight
  <1>1. <<req[w].conn, req[w].key>> \in Actions
    BY <1>0 DEF ReceiveMap, Knows, FullRequest, Actions
  <1>2. ans'[w].out = "mapped" => ans'[w].ref[2] = req[w].key
    <2>1. ans'[w].out = "mapped" => ans'[w].ref[2] = <<req[w].conn, req[w].key>>[2]
      BY <1>0, <1>1, TargetKey DEF ReceiveMap
    <2> QED
      BY <2>1
  <1>3. pc'[w] = "mark" /\ cur'[w] = cur[w] /\ req'[w] = req[w] /\ rows' = rows
    BY <1>0 DEF ReceiveMap, Goto, LocalsTyped, tables
  <1>4. rows[cur[w]].key = req[w].key
    BY DEF ReceiveMap, Fits
  <1> QED
    BY <1>2, <1>3, <1>4 DEF FitStep, MapsAsAnswered, Fits

LEMMA RetryMapFits ==
    ASSUME HubInv, NEW w \in Workers, RetryMap(w)
    PROVE  FitStep(w)
  <1>0. LocalsTyped /\ TypeOK /\ TargetOnce /\ Knows(w)
    BY TypeParts DEF HubInv, InFlight
  <1>1. PICK i \in todo[w] : cur' = [cur EXCEPT ![w] = i] /\ TargetMap(w, ActionOf(i))
    BY DEF RetryMap
  <1>2. i \in Live
    BY <1>0 DEF Knows
  <1>3. ActionOf(i) \in Actions
    BY <1>0, <1>2, LiveRow DEF ActionOf, Row, Actions
  <1>4. ans'[w].out = "mapped" => ans'[w].ref[2] = rows[i].key
    <2>1. ans'[w].out = "mapped" => ans'[w].ref[2] = ActionOf(i)[2]
      BY <1>0, <1>1, <1>3, TargetKey
    <2> QED
      BY <2>1 DEF ActionOf
  <1>5. pc'[w] = "retrymark" /\ cur'[w] = i /\ rows' = rows
    BY <1>0, <1>1 DEF RetryMap, Goto, LocalsTyped, tables
  <1> QED
    BY <1>4, <1>5 DEF FitStep, MapsAsAnswered, Fits

LEMMA MarkFits ==
    ASSUME HubInv, NEW w \in Workers, ReceiveMark(w)
    PROVE  FitStep(w)
  <1>0. LocalsTyped /\ TypeOK /\ Knows(w) /\ rows \in [EventIds -> Row \cup {None}]
    BY TypeParts DEF HubInv, InFlight, TypeOK
  <1>1. pc[w] = "mark" /\ pc'[w] = "publish" /\ cur[w] \in Live /\ cur[w] \in EventIds
    BY <1>0 DEF ReceiveMark, Goto, LocalsTyped, Knows, Live
  <1>2. rows[cur[w]] \in Row /\ rows[cur[w]].status = "received"
    BY <1>0, <1>1, LiveRow DEF Knows
  <1>3. rows' = [rows EXCEPT ![cur[w]].status = ans[w].out, ![cur[w]].ref = ans[w].ref,
                             ![cur[w]].err = (ans[w].out # "mapped")]
    BY <1>2 DEF ReceiveMark, MarkReceived
  <1>4. /\ rows'[cur[w]].status = ans[w].out /\ rows'[cur[w]].ref = ans[w].ref
        /\ rows'[cur[w]].key = rows[cur[w]].key
    BY <1>0, <1>1, <1>2, <1>3 DEF Row
  <1>5. \A i \in EventIds \ {cur[w]} : rows'[i] = rows[i]
    BY <1>0, <1>3
  <1>6. MapsAsAnswered(w)
    BY <1>1, <1>4, <1>5 DEF MapsAsAnswered
  <1> QED
    BY <1>1, <1>6 DEF FitStep, Fits

LEMMA RetryMarkFits ==
    ASSUME HubInv, NEW w \in Workers,
           RetryMarkMapped(w) \/ RetryMarkIgnored(w) \/ RetryMarkFailed(w)
    PROVE  FitStep(w)
  <1> DEFINE i == cur[w]
  <1>0. LocalsTyped /\ TypeOK /\ Knows(w) /\ rows \in [EventIds -> Row \cup {None}]
    BY TypeParts DEF HubInv, InFlight, TypeOK
  <1>1. pc[w] = "retrymark" /\ i \in Live /\ i \in EventIds
    BY <1>0 DEF RetryMarkMapped, RetryMarkIgnored, RetryMarkFailed, Knows, Live
  <1>2. pc'[w] \in {"retry", "retrypublish"}
    BY <1>0 DEF RetryMarkMapped, RetryMarkIgnored, RetryMarkFailed, Resume, Goto, LocalsTyped
  <1>3. rows[i] \in Row
    BY <1>0, <1>1, LiveRow
  <1>4. CASE ~StillFailed(i)
    <2>1. rows' = rows
      BY <1>4 DEF RetryMarkMapped, RetryMarkIgnored, RetryMarkFailed, tables
    <2> QED
      BY <1>2, <2>1, QuietFits
  <1>5. CASE StillFailed(i) /\ RetryMarkMapped(w)
    <2>1. rows' = [rows EXCEPT ![i].status = "mapped", ![i].ref = ans[w].ref, ![i].err = FALSE]
          /\ ans[w].out = "mapped"
      BY <1>5 DEF RetryMarkMapped
    <2>2. rows'[i].ref = ans[w].ref /\ rows'[i].key = rows[i].key
      BY <1>0, <1>1, <1>3, <2>1 DEF Row
    <2>3. \A j \in EventIds \ {i} : rows'[j] = rows[j]
      BY <1>0, <2>1
    <2>4. MapsAsAnswered(w)
      BY <1>1, <2>1, <2>2, <2>3 DEF MapsAsAnswered
    <2> QED
      BY <1>2, <2>4 DEF FitStep, Fits
  <1>6. CASE StillFailed(i) /\ (RetryMarkIgnored(w) \/ RetryMarkFailed(w))
    <2>1. \/ rows' = [rows EXCEPT ![i].status = "ignored", ![i].err = TRUE]
          \/ rows' = [rows EXCEPT ![i].err = TRUE]
      BY <1>6 DEF RetryMarkIgnored, RetryMarkFailed
    <2>2. rows'[i].status # "mapped"
      BY <1>0, <1>1, <1>3, <1>6, <2>1 DEF Row, StillFailed
    <2>3. \A j \in EventIds \ {i} : rows'[j] = rows[j]
      BY <1>0, <2>1
    <2>4. MapsAsAnswered(w)
      BY <2>2, <2>3 DEF MapsAsAnswered
    <2> QED
      BY <1>2, <2>4 DEF FitStep, Fits
  <1> QED
    BY <1>4, <1>5, <1>6

\* The other steps only move the worker to a place where nothing is at hand.
LEMMA RestFits ==
    ASSUME HubInv, NEW w \in Workers,
           \/ \E c \in Connectors, k \in Keys, x \in ExternalIds : ReceiveGate(w, c, k, x)
           \/ \E c \in Connectors : RetryGate(w, c)
           \/ ReceiveReread(w) \/ ReceivePublish(w) \/ RetryList(w) \/ RetryDone(w)
           \/ RetryPublish(w) \/ Abort(w)
    PROVE  FitStep(w)
  <1>0. LocalsTyped
    BY TypeParts DEF HubInv
  <1>1. rows' = rows
    BY DEF ReceiveGate, RetryGate, ReceiveReread, ReceivePublish, RetryList, RetryDone,
           RetryPublish, Abort, tables
  <1>2. pc'[w] \in {"claim", "list", "idle", "retry"}
    BY <1>0 DEF ReceiveGate, RetryGate, ReceiveReread, ReceivePublish, RetryList, RetryDone,
                RetryPublish, Abort, Return, Resume, Goto, LocalsTyped
  <1> QED
    BY <1>1, <1>2, QuietFits

\* A step that is good and fits keeps the keys together.
LEMMA FitStepKeeps ==
    ASSUME KeyInv, NEW w \in Workers, GoodStep(w), FitStep(w)
    PROVE  MappedUnderItsKey' /\ \A v \in Workers : Fits(v)'
  <1>0. TypeOK /\ TableStep /\ Fits(w)
    BY DEF KeyInv, HubInv, GoodStep
  <1>1. ASSUME NEW v \in Workers \ {w}
        PROVE  Fits(v)'
    <2>1. /\ pc'[v] = pc[v] /\ req'[v] = req[v] /\ cur'[v] = cur[v] /\ ans'[v] = ans[v]
      BY DEF GoodStep, Others
    <2>2. Fits(v) /\ Knows(v)
      BY DEF KeyInv, HubInv, InFlight
    <2>3. pc[v] \in {"map", "mark", "retrymark"} => cur[v] \in Live /\ cur[v] \in EventIds
      BY <2>2 DEF Knows, Live
    <2>4. pc[v] \in {"map", "mark", "retrymark"} => rows'[cur[v]].key = rows[cur[v]].key
      BY <1>0, <2>3, TablesKeep
    <2> QED
      BY <2>1, <2>2, <2>4 DEF Fits
  <1>2. Fits(w)'
    BY DEF FitStep
  <1>3. ASSUME NEW i \in Live', rows'[i].status = "mapped"
        PROVE  rows'[i].ref[2] = rows'[i].key
    <2>1. i \in EventIds
      BY DEF Live
    <2>2. CASE rows'[i] = rows[i]
      BY <1>3, <2>2 DEF KeyInv, MappedUnderItsKey, Live
    <2>3. CASE rows'[i] # rows[i]
      <3>1. /\ i = cur[w] /\ rows'[i].key = rows[i].key /\ pc[w] \in {"mark", "retrymark"}
            /\ ans[w].out = "mapped" /\ rows'[i].ref = ans[w].ref
        BY <1>3, <2>1, <2>3 DEF FitStep, MapsAsAnswered
      <3> QED
        BY <1>0, <3>1 DEF Fits
    <2> QED
      BY <2>2, <2>3
  <1> QED
    BY <1>1, <1>2, <1>3 DEF MappedUnderItsKey

LEMMA KeyStep ==
    ASSUME KeyInv, [Next]_vars
    PROVE  KeyInv'
  <1>0. HubInv /\ HubInv' /\ \A w \in Workers : Fits(w)
    BY HubStep DEF KeyInv
  <1>1. ASSUME rows' = rows, pc' = pc, req' = req, cur' = cur, ans' = ans
        PROVE  KeyInv'
    BY <1>0, <1>1 DEF KeyInv, MappedUnderItsKey, Fits, Live
  <1>2. ASSUME NEW c \in Connectors, Admin(c)
        PROVE  KeyInv'
    BY <1>1, <1>2 DEF Admin, RegisterConnector, SetConnectorStatus, SetConnectorDeleted, hub
  <1>3. CASE UNCHANGED vars
    BY <1>1, <1>3 DEF vars
  <1>4. ASSUME NEW w \in Workers, GoodStep(w), FitStep(w)
        PROVE  KeyInv'
    BY <1>0, <1>4, FitStepKeeps DEF KeyInv
  <1>5. ASSUME NEW w \in Workers, NEW c \in Connectors, NEW k \in Keys, NEW x \in ExternalIds,
               ReceiveGate(w, c, k, x)
        PROVE  KeyInv'
    BY <1>0, <1>4, <1>5, GateGood, RestFits
  <1>6. ASSUME NEW w \in Workers, NEW c \in Connectors, RetryGate(w, c)
        PROVE  KeyInv'
    BY <1>0, <1>4, <1>6, RetryGateGood, RestFits
  <1>7. ASSUME NEW w \in Workers, ReceiveStep(w)
        PROVE  KeyInv'
    <2>1. GoodStep(w)
      BY <1>0, <1>7, ClaimGood, RereadGood, MapGood, MarkGood, PublishGood DEF ReceiveStep
    <2>2. FitStep(w)
      BY <1>0, <1>7, ClaimFits, MapFits, MarkFits, RestFits DEF ReceiveStep
    <2> QED
      BY <1>4, <2>1, <2>2
  <1>8. ASSUME NEW w \in Workers, RetryStep(w)
        PROVE  KeyInv'
    <2>1. GoodStep(w)
      BY <1>0, <1>8, ListGood, RetryMapGood, DoneGood, RetryMarkGood, RetryPublishGood
      DEF RetryStep
    <2>2. FitStep(w)
      BY <1>0, <1>8, RetryMapFits, RetryMarkFits, RestFits DEF RetryStep
    <2> QED
      BY <1>4, <2>1, <2>2
  <1>9. ASSUME NEW w \in Workers, Abort(w)
        PROVE  KeyInv'
    BY <1>0, <1>4, <1>9, DoneGood, RestFits
  <1> QED
    BY <1>2, <1>3, <1>5, <1>6, <1>7, <1>8, <1>9 DEF Next

\* Whatever delivery or retry mapped it, a row refers to a record that the target made
\* under the row's own business key, for any number of connectors.
THEOREM HubRefersToItsKey == Spec => []MappedUnderItsKey
  <1>1. Init => HubInv
    BY HubInit
  <1>2. Init => KeyInv
    BY <1>1 DEF Init, KeyInv, MappedUnderItsKey, Fits, Live
  <1>3. KeyInv /\ [Next]_vars => KeyInv'
    BY KeyStep
  <1>4. KeyInv => MappedUnderItsKey
    BY DEF KeyInv
  <1> QED
    BY <1>2, <1>3, <1>4, PTL DEF Spec

\* A deployment with a single connector.
OneConnector == \A c, d \in Connectors : c = d

\* With one connector the record is the one made for the row's own business action.
\* Two connectors that use the same key share the record, as MapRequest's idempotency
\* key is the business key alone.
THEOREM HubRefersToItsRecord ==
    ASSUME OneConnector
    PROVE  Spec => []MappedToItsOwnRecord
  <1>1. HubInv /\ MappedUnderItsKey => MappedToItsOwnRecord
    <2> SUFFICES ASSUME HubInv, MappedUnderItsKey, NEW i \in Live, rows[i].status = "mapped"
                 PROVE  rows[i].ref = ActionOf(i)
      BY DEF MappedToItsOwnRecord
    <2>1. rows[i] \in Row /\ rows[i].ref # None
      BY LiveRow DEF HubInv, Ledger, RowDetail
    <2>2. rows[i].ref \in Connectors \X Keys /\ rows[i].conn \in Connectors
      BY <2>1 DEF Row, Actions
    <2>3. rows[i].ref[1] = rows[i].conn
      BY <2>2 DEF OneConnector
    <2>4. rows[i].ref[2] = rows[i].key
      BY DEF MappedUnderItsKey
    <2> QED
      BY <2>2, <2>3, <2>4 DEF ActionOf
  <1> QED
    BY <1>1, HubInvariant, HubRefersToItsKey, PTL
=============================================================================
