-------------------------- MODULE GuardedHubProofs --------------------------
(***************************************************************************)
(* Proofs about the hub behind its HTTP surface, for any number of         *)
(* connectors, events and requests, and any number of edits.               *)
(*                                                                         *)
(* GuardedInv holds on every surface: it asks of the events only what the  *)
(* unique index and the foreign key keep, and of a request in flight only  *)
(* what an operator cannot take from it.  On the production surfaces       *)
(* nobody else writes an event, and there the whole invariant of the hub,  *)
(* HubInv, holds as well; the lifecycle follows from it.                   *)
(***************************************************************************)
EXTENDS GuardedHubProps, ConnectorHubProofs

\* What a request keeps of what it read, even when its row is edited or purged.
Ready(w) ==
    /\ pc[w] \in {"claim", "reread", "map", "mark"} => req[w] \in FullRequest
    /\ pc[w] \in {"map", "mark", "publish", "retrymark", "retrypublish"} => cur[w] \in EventIds

\* The work list goes with what was read for it.
ListIs(w, l) ==
    /\ todo[w] \subseteq DOMAIN l
    /\ DOMAIN l \subseteq EventIds
    /\ \A i \in DOMAIN l : l[i] \in Actions
Lists == DOMAIN listed = Workers /\ \A w \in Workers : ListIs(w, listed[w])

RecordsTyped ==
    /\ staged \in [EventIds -> [Kinds -> Nat]]
    /\ published \subseteq EventIds \X Kinds
    /\ told \subseteq [id : EventIds, status : Statuses, ref : Actions \cup {None}]

GuardedInv ==
    /\ TypeOK
    /\ surface \in {"readonly", "guarded", "all"}
    /\ trash \subseteq Live
    /\ gone \subseteq Connectors \cup EventIds
    /\ edits \in 0..MaxEdits
    /\ OneRowPerSlot /\ EventsKeepTheirConnector /\ TargetOnce
    /\ (\A w \in Workers : Ready(w))
    /\ Lists

\* On the production surfaces the list says what the rows still say.
ListsAreCurrent == \A w \in Workers : \A i \in todo[w] : listed[w][i] = ActionOf(i)
ProductionInv == production => HubInv /\ ListsAreCurrent

-----------------------------------------------------------------------------
(* The events table.                                                       *)

\* A statement stores a row that the unique index and the foreign key allow.
Stores(i, r) ==
    /\ rows' = [rows EXCEPT ![i] = r]
    /\ SlotFree(i, r) /\ Known(r.conn)

RowsStep == rows' = rows \/ \E i \in EventIds, r \in Row : Stores(i, r)

LEMMA RowsStepKeeps ==
    ASSUME TypeOK, OneRowPerSlot, EventsKeepTheirConnector, RowsStep, conn' = conn
    PROVE  /\ rows' \in [EventIds -> Row \cup {None}]
           /\ Live \subseteq Live'
           /\ OneRowPerSlot' /\ EventsKeepTheirConnector'
  <1>1. CASE rows' = rows
    BY <1>1 DEF TypeOK, Live, OneRowPerSlot, ActionOf, EventsKeepTheirConnector, Known
  <1>2. ASSUME NEW i \in EventIds, NEW r \in Row, Stores(i, r)
        PROVE  /\ rows' \in [EventIds -> Row \cup {None}]
               /\ Live \subseteq Live'
               /\ OneRowPerSlot' /\ EventsKeepTheirConnector'
    <2>1. /\ rows' \in [EventIds -> Row \cup {None}]
          /\ rows'[i] = r /\ \A j \in EventIds \ {i} : rows'[j] = rows[j]
      BY <1>2 DEF TypeOK, Stores
    <2>2. i \in Live' /\ \A j \in EventIds \ {i} : j \in Live <=> j \in Live'
      BY <2>1, RowIsNotNone DEF Live
    <2>3. Live \subseteq Live'
      BY <2>2 DEF Live
    <2>4. \A j \in Live' \ {i} : ActionOf(j)' = ActionOf(j) /\ ActionOf(j)' # ActionOf(i)'
      BY <1>2, <2>1, <2>2 DEF ActionOf, Stores, SlotFree, SameSlot, Live
    <2>5. OneRowPerSlot'
      BY <2>2, <2>4 DEF OneRowPerSlot, Live
    <2>6. EventsKeepTheirConnector'
      BY <1>2, <2>1, <2>2 DEF EventsKeepTheirConnector, Known, Stores, Live
    <2> QED
      BY <2>1, <2>3, <2>5, <2>6
  <1> QED
    BY <1>1, <1>2 DEF RowsStep

\* An update that leaves a row's connector and key alone stays in its slot.
LEMMA SameSlotStores ==
    ASSUME TypeOK, OneRowPerSlot, EventsKeepTheirConnector, NEW i \in Live, NEW r \in Row,
           r.conn = rows[i].conn, r.key = rows[i].key, rows' = [rows EXCEPT ![i] = r]
    PROVE  RowsStep
  <1>1. SlotFree(i, r)
    BY DEF SlotFree, SameSlot, OneRowPerSlot, ActionOf
  <1>2. Known(r.conn)
    BY DEF EventsKeepTheirConnector
  <1>3. i \in EventIds
    BY DEF Live
  <1> QED
    BY <1>1, <1>2, <1>3 DEF RowsStep, Stores

-----------------------------------------------------------------------------
(* The steps of a request, on any surface.                                 *)

Safe(w) ==
    /\ conn' = conn /\ aborts' = aborts /\ RowsStep
    /\ RecordsTyped' /\ LocalsTyped' /\ TargetTyped' /\ TargetOnce'
    /\ Ready(w)' /\ Others(w)

\* The work list only shrinks, and is empty when the request is over.
Shrinks(w) == todo'[w] \subseteq todo[w] /\ (pc'[w] = "idle" => todo'[w] = {})

LEMMA InvParts ==
    ASSUME GuardedInv
    PROVE  /\ TypeOK /\ LocalsTyped /\ TargetTyped /\ TargetOnce /\ RecordsTyped
           /\ OneRowPerSlot /\ EventsKeepTheirConnector /\ Lists
           /\ \A w \in Workers : Ready(w)
  BY TypeParts DEF GuardedInv, TypeOK, RecordsTyped

LEMMA Quiet ==
    ASSUME GuardedInv
    PROVE  /\ UNCHANGED tables => RowsStep
           /\ UNCHANGED <<staged, published, told>> => RecordsTyped'
           /\ UNCHANGED target => TargetTyped' /\ TargetOnce'
  <1>1. UNCHANGED tables => RowsStep
    BY DEF tables, RowsStep
  <1>2. UNCHANGED <<staged, published, told>> => RecordsTyped'
    BY InvParts DEF RecordsTyped
  <1>3. UNCHANGED target => TargetTyped' /\ TargetOnce'
    BY InvParts, QuietTarget
  <1> QED
    BY <1>1, <1>2, <1>3

LEMMA ReturnSafe ==
    ASSUME LocalsTyped, NEW w \in Workers, Return(w)
    PROVE  LocalsTyped' /\ Others(w) /\ Ready(w)' /\ Shrinks(w)
  <1>1. LocalsTyped' /\ Others(w)
    BY ReturnStep
  <1>2. pc'[w] = "idle" /\ todo'[w] = {}
    BY DEF Return, Goto, LocalsTyped
  <1> QED
    BY <1>1, <1>2 DEF Ready, Shrinks

LEMMA ResumeSafe ==
    ASSUME LocalsTyped, NEW w \in Workers, Resume(w)
    PROVE  LocalsTyped' /\ Others(w) /\ Ready(w)' /\ Shrinks(w)
  <1>1. LocalsTyped'
    BY NoAnswerTyped DEF Resume, Goto, LocalsTyped, Places
  <1>2. pc'[w] = "retry" /\ todo'[w] = todo[w]
    BY DEF Resume, Goto, LocalsTyped
  <1>3. Others(w)
    BY DEF Resume, Goto, LocalsTyped, Others
  <1> QED
    BY <1>1, <1>2, <1>3 DEF Ready, Shrinks

LEMMA GateSafe ==
    ASSUME GuardedInv, NEW w \in Workers, NEW c \in Connectors, NEW k \in Keys,
           NEW x \in ExternalIds, ReceiveGate(w, c, k, x)
    PROVE  Safe(w) /\ Shrinks(w)
  <1>0. LocalsTyped
    BY InvParts
  <1>1. conn' = conn /\ aborts' = aborts /\ RowsStep /\ RecordsTyped' /\ TargetTyped' /\ TargetOnce'
    BY Quiet DEF ReceiveGate, tables
  <1>2. /\ pc'[w] = "claim" /\ req'[w] = [conn |-> c, key |-> k, ext |-> x]
        /\ todo'[w] = todo[w]
    BY <1>0 DEF ReceiveGate, Goto, LocalsTyped
  <1>3. LocalsTyped' /\ Others(w)
    BY <1>0 DEF ReceiveGate, Goto, LocalsTyped, Places, Request, Others
  <1>4. Ready(w)' /\ Shrinks(w)
    BY <1>2 DEF Ready, FullRequest, Shrinks
  <1> QED
    BY <1>1, <1>3, <1>4 DEF Safe

LEMMA RetryGateSafe ==
    ASSUME GuardedInv, NEW w \in Workers, NEW c \in Connectors, RetryGate(w, c)
    PROVE  Safe(w) /\ Shrinks(w)
  <1>0. LocalsTyped
    BY InvParts
  <1>1. conn' = conn /\ aborts' = aborts /\ RowsStep /\ RecordsTyped' /\ TargetTyped' /\ TargetOnce'
    BY Quiet DEF RetryGate, tables
  <1>2. pc'[w] = "list" /\ todo'[w] = todo[w]
    BY <1>0 DEF RetryGate, Goto, LocalsTyped
  <1>3. LocalsTyped' /\ Others(w)
    BY <1>0 DEF RetryGate, Goto, LocalsTyped, Places, Request, Others
  <1>4. Ready(w)' /\ Shrinks(w)
    BY <1>2 DEF Ready, Shrinks
  <1> QED
    BY <1>1, <1>3, <1>4 DEF Safe

LEMMA RefusedSafe ==
    ASSUME GuardedInv, NEW w \in Workers, Refused(w)
    PROVE  Safe(w) /\ Shrinks(w)
  <1>1. conn' = conn /\ aborts' = aborts /\ RowsStep /\ RecordsTyped' /\ TargetTyped' /\ TargetOnce'
    BY Quiet DEF Refused, tables
  <1>2. LocalsTyped' /\ Others(w) /\ Ready(w)' /\ Shrinks(w)
    BY InvParts, ReturnSafe DEF Refused
  <1> QED
    BY <1>1, <1>2 DEF Safe

LEMMA DoneSafe ==
    ASSUME GuardedInv, NEW w \in Workers, RetryDone(w)
    PROVE  Safe(w) /\ Shrinks(w)
  <1>1. conn' = conn /\ aborts' = aborts /\ RowsStep /\ RecordsTyped' /\ TargetTyped' /\ TargetOnce'
    BY Quiet DEF RetryDone, tables
  <1>2. LocalsTyped' /\ Others(w) /\ Ready(w)' /\ Shrinks(w)
    BY InvParts, ReturnSafe DEF RetryDone
  <1> QED
    BY <1>1, <1>2 DEF Safe

LEMMA ClaimSafe ==
    ASSUME GuardedInv, NEW w \in Workers, ReceiveClaim(w), Known(req[w].conn)
    PROVE  Safe(w) /\ Shrinks(w)
  <1>0. LocalsTyped /\ TypeOK /\ req[w] \in FullRequest
    BY InvParts DEF Ready, ReceiveClaim
  <1>1. conn' = conn /\ aborts' = aborts /\ RecordsTyped' /\ TargetTyped' /\ TargetOnce'
    BY Quiet DEF ReceiveClaim
  <1>2. Others(w) /\ req'[w] = req[w] /\ todo'[w] = todo[w]
    BY <1>0 DEF ReceiveClaim, Goto, LocalsTyped, Others
  <1>3. CASE \E i \in Live : SameSlot(rows[i], req[w])
    <2>1. RowsStep
      BY <1>3 DEF ReceiveClaim, RowsStep
    <2>2. pc'[w] = "reread" /\ LocalsTyped'
      BY <1>0, <1>3 DEF ReceiveClaim, Goto, LocalsTyped, Places
    <2>3. Ready(w)' /\ Shrinks(w)
      BY <1>0, <1>2, <2>2 DEF Ready, Shrinks
    <2> QED
      BY <1>1, <1>2, <2>1, <2>2, <2>3 DEF Safe
  <1>4. CASE ~ \E i \in Live : SameSlot(rows[i], req[w])
    <2> DEFINE r == [conn |-> req[w].conn, key |-> req[w].key, ext |-> req[w].ext,
                     status |-> "received", ref |-> None, err |-> FALSE]
    <2>1. PICK i \in EventIds \ Live :
            /\ rows' = [rows EXCEPT ![i] = r]
            /\ cur' = [cur EXCEPT ![w] = i]
            /\ pc' = [pc EXCEPT ![w] = "map"]
      BY <1>4 DEF ReceiveClaim, Goto
    <2>2. r \in Row
      BY <1>0 DEF FullRequest, Row, Statuses
    <2>3. Stores(i, r)
      BY <1>4, <2>1 DEF Stores, SlotFree, SameSlot
    <2>4. RowsStep
      BY <2>2, <2>3 DEF RowsStep
    <2>5. LocalsTyped'
      BY <1>0, <2>1 DEF ReceiveClaim, LocalsTyped, Places
    <2>6. pc'[w] = "map" /\ cur'[w] = i
      BY <1>0, <2>1 DEF LocalsTyped
    <2>7. Ready(w)' /\ Shrinks(w)
      BY <1>0, <1>2, <2>6 DEF Ready, Shrinks
    <2> QED
      BY <1>1, <1>2, <2>4, <2>5, <2>7 DEF Safe
  <1> QED
    BY <1>3, <1>4

LEMMA RereadSafe ==
    ASSUME GuardedInv, NEW w \in Workers, ReceiveReread(w)
    PROVE  Safe(w) /\ Shrinks(w)
  <1>1. conn' = conn /\ aborts' = aborts /\ RowsStep /\ TargetTyped' /\ TargetOnce'
    BY Quiet DEF ReceiveReread, tables
  <1>2. LocalsTyped' /\ Others(w) /\ Ready(w)' /\ Shrinks(w)
    BY InvParts, ReturnSafe DEF ReceiveReread
  <1>3. RecordsTyped'
    <2>1. PICK i \in Live :
            told' = told \cup {[id |-> i, status |-> rows[i].status, ref |-> rows[i].ref]}
      BY DEF ReceiveReread
    <2>2. i \in EventIds /\ rows[i] \in Row
      BY <2>1, InvParts, LiveRow
    <2>3. [id |-> i, status |-> rows[i].status, ref |-> rows[i].ref]
            \in [id : EventIds, status : Statuses, ref : Actions \cup {None}]
      BY <2>2 DEF Row
    <2> QED
      BY <2>1, <2>3, InvParts DEF RecordsTyped, ReceiveReread, tables
  <1> QED
    BY <1>1, <1>2, <1>3 DEF Safe

LEMMA MapSafe ==
    ASSUME GuardedInv, NEW w \in Workers, ReceiveMap(w)
    PROVE  Safe(w) /\ Shrinks(w)
  <1>0. LocalsTyped /\ TypeOK /\ TargetOnce /\ req[w] \in FullRequest /\ cur[w] \in EventIds
    BY InvParts DEF Ready, ReceiveMap
  <1>1. conn' = conn /\ aborts' = aborts /\ RowsStep /\ RecordsTyped'
    BY Quiet DEF ReceiveMap, tables
  <1>2. <<req[w].conn, req[w].key>> \in Actions
    BY <1>0 DEF FullRequest, Actions
  <1>3. /\ TargetOnce' /\ TargetTyped'
        /\ \E b \in Answer : AnswerOK(b) /\ ans' = [ans EXCEPT ![w] = b]
    BY <1>0, <1>2, TargetStep DEF ReceiveMap, TargetTyped
  <1>4. PICK b \in Answer : ans' = [ans EXCEPT ![w] = b]
    BY <1>3
  <1>5. LocalsTyped' /\ Others(w)
    BY <1>0, <1>4 DEF ReceiveMap, Goto, LocalsTyped, Places, Others
  <1>6. pc'[w] = "mark" /\ req'[w] = req[w] /\ cur'[w] = cur[w] /\ todo'[w] = todo[w]
    BY <1>0 DEF ReceiveMap, Goto, LocalsTyped
  <1>7. Ready(w)' /\ Shrinks(w)
    BY <1>0, <1>6 DEF Ready, Shrinks
  <1> QED
    BY <1>1, <1>3, <1>5, <1>7 DEF Safe

LEMMA MarkSafe ==
    ASSUME GuardedInv, NEW w \in Workers,
           MarkGone(w) \/ (cur[w] \in Live /\ ReceiveMark(w))
    PROVE  Safe(w) /\ Shrinks(w)
  <1> DEFINE i == cur[w]
             a == ans[w]
  <1>0. /\ LocalsTyped /\ TypeOK /\ i \in EventIds
        /\ a \in Answer /\ a.out \in Kinds
        /\ OneRowPerSlot /\ EventsKeepTheirConnector
    BY InvParts DEF Ready, MarkGone, ReceiveMark, LocalsTyped, Answer
  <1>1. conn' = conn /\ aborts' = aborts /\ TargetTyped' /\ TargetOnce'
    BY Quiet DEF MarkGone, ReceiveMark
  <1>2. LocalsTyped' /\ Others(w)
    BY <1>0 DEF MarkGone, ReceiveMark, Goto, LocalsTyped, Places, Others
  <1>3. pc'[w] = "publish" /\ cur'[w] = i /\ todo'[w] = todo[w]
    BY <1>0 DEF MarkGone, ReceiveMark, Goto, LocalsTyped
  <1>4. Ready(w)' /\ Shrinks(w)
    BY <1>0, <1>3 DEF Ready, Shrinks
  <1>5. RecordsTyped'
    <2>1. staged' = [staged EXCEPT ![i][a.out] = @ + 1] /\ published' = published /\ told' = told
      BY DEF MarkGone, ReceiveMark
    <2> QED
      BY <1>0, <2>1, InvParts DEF RecordsTyped
  <1>6. RowsStep
    <2>1. CASE rows' = rows
      BY <2>1 DEF RowsStep
    <2>2. CASE rows' # rows
      <3>1. /\ i \in Live /\ rows[i].status = "received"
            /\ rows' = [rows EXCEPT ![i].status = a.out, ![i].ref = a.ref,
                                    ![i].err = (a.out # "mapped")]
        BY <2>2 DEF MarkGone, ReceiveMark, MarkReceived
      <3>2. rows[i] \in Row
        BY <1>0, <3>1, LiveRow
      <3> DEFINE r == [rows[i] EXCEPT !.status = a.out, !.ref = a.ref, !.err = (a.out # "mapped")]
      <3>3. r \in Row /\ r.conn = rows[i].conn /\ r.key = rows[i].key
        BY <1>0, <3>2 DEF Row, Answer, Kinds, Statuses
      <3>4. rows' = [rows EXCEPT ![i] = r]
        BY <1>0, <3>1 DEF TypeOK
      <3> HIDE DEF r
      <3> QED
        BY <1>0, <3>1, <3>3, <3>4, SameSlotStores
    <2> QED
      BY <2>1, <2>2
  <1> QED
    BY <1>1, <1>2, <1>4, <1>5, <1>6 DEF Safe

LEMMA PublishSafe ==
    ASSUME GuardedInv, NEW w \in Workers, ReceivePublish(w)
    PROVE  Safe(w) /\ Shrinks(w)
  <1>1. conn' = conn /\ aborts' = aborts /\ RowsStep /\ TargetTyped' /\ TargetOnce'
    BY Quiet DEF ReceivePublish, tables
  <1>2. LocalsTyped' /\ Others(w) /\ Ready(w)' /\ Shrinks(w)
    BY InvParts, ReturnSafe DEF ReceivePublish
  <1>3. RecordsTyped'
    <2>1. cur[w] \in EventIds /\ ans[w].out \in Kinds /\ ans[w].ref \in Actions \cup {None}
      BY InvParts DEF ReceivePublish, Ready, LocalsTyped, Answer
    <2>2. [id |-> cur[w], status |-> ans[w].out, ref |-> ans[w].ref]
            \in [id : EventIds, status : Statuses, ref : Actions \cup {None}]
      BY <2>1 DEF Kinds, Statuses
    <2>3. /\ published' = published \cup {<<cur[w], ans[w].out>>} /\ staged' = staged
          /\ told' = told \cup {[id |-> cur[w], status |-> ans[w].out, ref |-> ans[w].ref]}
      BY DEF ReceivePublish, tables
    <2> QED
      BY <2>1, <2>2, <2>3, InvParts DEF RecordsTyped
  <1> QED
    BY <1>1, <1>2, <1>3 DEF Safe

LEMMA RetryMapSafe ==
    ASSUME GuardedInv, NEW w \in Workers, GuardedRetryMap(w)
    PROVE  Safe(w) /\ Shrinks(w)
  <1>0. LocalsTyped /\ TypeOK /\ TargetOnce /\ ListIs(w, listed[w])
    BY InvParts DEF Lists
  <1>1. conn' = conn /\ aborts' = aborts /\ RowsStep /\ RecordsTyped'
    BY Quiet DEF GuardedRetryMap, tables
  <1>2. PICK i \in todo[w] : /\ cur' = [cur EXCEPT ![w] = i]
                             /\ todo' = [todo EXCEPT ![w] = @ \ {i}]
                             /\ TargetMap(w, listed[w][i])
    BY DEF GuardedRetryMap
  <1>3. i \in EventIds /\ listed[w][i] \in Actions
    BY <1>0 DEF ListIs
  <1>4. /\ TargetOnce' /\ TargetTyped'
        /\ \E b \in Answer : AnswerOK(b) /\ ans' = [ans EXCEPT ![w] = b]
    BY <1>0, <1>2, <1>3, TargetStep DEF TargetTyped
  <1>5. PICK b \in Answer : ans' = [ans EXCEPT ![w] = b]
    BY <1>4
  <1>6. LocalsTyped' /\ Others(w)
    BY <1>0, <1>2, <1>3, <1>5 DEF GuardedRetryMap, Goto, LocalsTyped, Places, Others
  <1>7. pc'[w] = "retrymark" /\ cur'[w] = i /\ todo'[w] \subseteq todo[w]
    BY <1>0, <1>2 DEF GuardedRetryMap, Goto, LocalsTyped
  <1>8. Ready(w)' /\ Shrinks(w)
    BY <1>3, <1>7 DEF Ready, Shrinks
  <1> QED
    BY <1>1, <1>4, <1>6, <1>8 DEF Safe

LEMMA RetryPublishSafe ==
    ASSUME GuardedInv, NEW w \in Workers, RetryPublish(w)
    PROVE  Safe(w) /\ Shrinks(w)
  <1>1. conn' = conn /\ aborts' = aborts /\ RowsStep /\ TargetTyped' /\ TargetOnce'
    BY Quiet DEF RetryPublish, tables
  <1>2. LocalsTyped' /\ Others(w) /\ Ready(w)' /\ Shrinks(w)
    BY InvParts, ResumeSafe DEF RetryPublish
  <1>3. RecordsTyped'
    BY InvParts DEF Ready, RecordsTyped, RetryPublish, tables, Kinds
  <1> QED
    BY <1>1, <1>2, <1>3 DEF Safe

\* The UPDATEs of the retry change status, reference and error of one row.
LEMMA RetryMarkSafe ==
    ASSUME GuardedInv, NEW w \in Workers, cur[w] \in Live,
           RetryMarkMapped(w) \/ RetryMarkIgnored(w) \/ RetryMarkFailed(w)
    PROVE  Safe(w) /\ Shrinks(w)
  <1> DEFINE i == cur[w]
  <1>0. /\ LocalsTyped /\ TypeOK /\ i \in EventIds /\ rows[i] \in Row
        /\ ans[w].ref \in Actions \cup {None}
        /\ OneRowPerSlot /\ EventsKeepTheirConnector
    BY InvParts, LiveRow DEF LocalsTyped, Answer, Live
  <1>1. conn' = conn /\ aborts' = aborts /\ TargetTyped' /\ TargetOnce'
    BY Quiet DEF RetryMarkMapped, RetryMarkIgnored, RetryMarkFailed
  <1>2. ASSUME UNCHANGED <<staged, published, told>>, RowsStep, Resume(w)
        PROVE  Safe(w) /\ Shrinks(w)
    <2>1. LocalsTyped' /\ Others(w) /\ Ready(w)' /\ Shrinks(w)
      BY <1>0, <1>2, ResumeSafe
    <2>2. RecordsTyped'
      BY <1>2, Quiet
    <2> QED
      BY <1>1, <1>2, <2>1, <2>2 DEF Safe
  <1>3. ASSUME NEW r \in Row, r.conn = rows[i].conn, r.key = rows[i].key,
               rows' = [rows EXCEPT ![i] = r]
        PROVE  RowsStep
    BY <1>0, <1>3, SameSlotStores
  <1>4. CASE ~StillFailed(i)
    <2>1. UNCHANGED <<staged, published, told>> /\ rows' = rows /\ Resume(w)
      BY <1>4 DEF RetryMarkMapped, RetryMarkIgnored, RetryMarkFailed, tables
    <2> QED
      BY <1>2, <2>1 DEF RowsStep
  <1>5. CASE StillFailed(i) /\ RetryMarkMapped(w)
    <2> DEFINE r == [rows[i] EXCEPT !.status = "mapped", !.ref = ans[w].ref, !.err = FALSE]
    <2>1. rows' = [rows EXCEPT ![i] = r]
      BY <1>0, <1>5 DEF RetryMarkMapped, TypeOK
    <2>2. r \in Row /\ r.conn = rows[i].conn /\ r.key = rows[i].key
      BY <1>0 DEF Row, Statuses
    <2>3. RowsStep
      <3> HIDE DEF r
      <3> QED
        BY <1>3, <2>1, <2>2
    <2>4. LocalsTyped' /\ Others(w)
      BY <1>0, <1>5 DEF RetryMarkMapped, Goto, LocalsTyped, Places, Others
    <2>5. pc'[w] = "retrypublish" /\ cur'[w] = i /\ todo'[w] = todo[w]
      BY <1>0, <1>5 DEF RetryMarkMapped, Goto, LocalsTyped
    <2>6. Ready(w)' /\ Shrinks(w)
      BY <1>0, <2>5 DEF Ready, Shrinks
    <2>7. RecordsTyped'
      <3>1. staged' = [staged EXCEPT ![i]["mapped"] = @ + 1] /\ published' = published /\ told' = told
        BY <1>5 DEF RetryMarkMapped
      <3> QED
        BY <1>0, <3>1, InvParts DEF RecordsTyped, Kinds
    <2> QED
      BY <1>1, <2>3, <2>4, <2>6, <2>7 DEF Safe
  <1>6. CASE StillFailed(i) /\ RetryMarkIgnored(w)
    <2> DEFINE r == [rows[i] EXCEPT !.status = "ignored", !.err = TRUE]
    <2>1. rows' = [rows EXCEPT ![i] = r] /\ Resume(w) /\ UNCHANGED <<staged, published, told>>
      BY <1>0, <1>6 DEF RetryMarkIgnored, TypeOK
    <2>2. r \in Row /\ r.conn = rows[i].conn /\ r.key = rows[i].key
      BY <1>0 DEF Row, Statuses
    <2> HIDE DEF r
    <2> QED
      BY <1>2, <1>3, <2>1, <2>2
  <1>7. CASE StillFailed(i) /\ RetryMarkFailed(w)
    <2> DEFINE r == [rows[i] EXCEPT !.err = TRUE]
    <2>1. rows' = [rows EXCEPT ![i] = r] /\ Resume(w) /\ UNCHANGED <<staged, published, told>>
      BY <1>0, <1>7 DEF RetryMarkFailed, TypeOK
    <2>2. r \in Row /\ r.conn = rows[i].conn /\ r.key = rows[i].key
      BY <1>0 DEF Row
    <2> HIDE DEF r
    <2> QED
      BY <1>2, <1>3, <2>1, <2>2
  <1> QED
    BY <1>4, <1>5, <1>6, <1>7

\* An event that was purged while the target was asked about it.
LEMMA RetryGoneSafe ==
    ASSUME GuardedInv, NEW w \in Workers, Resume(w),
           UNCHANGED <<conn, tables, published, target, told, aborts>>
    PROVE  Safe(w) /\ Shrinks(w)
  <1>1. conn' = conn /\ aborts' = aborts /\ RowsStep /\ RecordsTyped' /\ TargetTyped' /\ TargetOnce'
    BY Quiet DEF tables
  <1>2. LocalsTyped' /\ Others(w) /\ Ready(w)' /\ Shrinks(w)
    BY InvParts, ResumeSafe
  <1> QED
    BY <1>1, <1>2 DEF Safe

LEMMA ListSafe ==
    ASSUME GuardedInv, NEW w \in Workers, GuardedList(w)
    PROVE  Safe(w) /\ Lists'
  <1> DEFINE l == [i \in todo'[w] |-> ActionOf(i)]
  <1>0. LocalsTyped /\ TypeOK /\ Lists
    BY InvParts
  <1>1. conn' = conn /\ aborts' = aborts /\ RowsStep /\ RecordsTyped' /\ TargetTyped' /\ TargetOnce'
    BY Quiet DEF GuardedList, RetryList, tables
  <1>2. Failures(req[w].conn) \subseteq Live
    BY DEF Failures
  <1>3. pc'[w] = "retry" /\ todo'[w] = Failures(req[w].conn)
    BY <1>0 DEF GuardedList, RetryList, Goto, LocalsTyped
  <1>4. LocalsTyped' /\ Others(w)
    BY <1>0, <1>2 DEF GuardedList, RetryList, Goto, LocalsTyped, Places, Others, Live
  <1>5. Ready(w)'
    BY <1>3 DEF Ready
  <1>6. /\ DOMAIN listed' = Workers /\ listed'[w] = l
        /\ \A v \in Workers \ {w} : listed'[v] = listed[v]
    BY <1>0 DEF GuardedList, Lists
  <1>7. todo'[w] \subseteq DOMAIN l /\ DOMAIN l \subseteq EventIds
        /\ \A i \in DOMAIN l : l[i] \in Actions
    <2>1. \A i \in todo'[w] : i \in Live /\ i \in EventIds
      BY <1>2, <1>3 DEF Live
    <2>2. \A i \in todo'[w] : ActionOf(i) \in Actions
      BY <1>0, <2>1, LiveRow DEF ActionOf, Row, Actions
    <2>3. DOMAIN l = todo'[w] /\ \A i \in todo'[w] : l[i] = ActionOf(i)
      OBVIOUS
    <2> HIDE DEF l
    <2> QED
      BY <2>1, <2>2, <2>3
  <1> HIDE DEF l
  <1>8. Lists'
    <2>1. \A v \in Workers \ {w} : todo'[v] = todo[v]
      BY <1>4 DEF Others
    <2> QED
      BY <1>0, <1>6, <1>7, <2>1 DEF Lists, ListIs
  <1> QED
    BY <1>1, <1>4, <1>5, <1>8 DEF Safe

\* A step that keeps or forgets its list.
LEMMA UnlistedKeeps ==
    ASSUME GuardedInv, NEW w \in Workers, Others(w), Shrinks(w), Unlisted(w)
    PROVE  Lists'
  <1>0. Lists
    BY InvParts
  <1>1. /\ DOMAIN listed' = Workers
        /\ listed'[w] = IF pc'[w] = "idle" THEN <<>> ELSE listed[w]
        /\ \A v \in Workers \ {w} : listed'[v] = listed[v]
    BY <1>0 DEF Unlisted, Lists
  <1>2. ListIs(w, listed[w])'
    <2>1. CASE pc'[w] = "idle"
      <3>1. todo'[w] = {} /\ listed'[w] = <<>>
        BY <1>1, <2>1 DEF Shrinks
      <3>2. \A i : i \notin DOMAIN <<>>
        OBVIOUS
      <3> QED
        BY <3>1, <3>2 DEF ListIs
    <2>2. CASE pc'[w] # "idle"
      BY <1>0, <1>1, <2>2 DEF Shrinks, Lists, ListIs
    <2> QED
      BY <2>1, <2>2
  <1>3. \A v \in Workers \ {w} : todo'[v] = todo[v]
    BY DEF Others
  <1> QED
    BY <1>0, <1>1, <1>2, <1>3 DEF Lists, ListIs

\* A safe step of a request keeps the invariant of the surfaces.
LEMMA SafeKeeps ==
    ASSUME GuardedInv, NEW w \in Workers, Safe(w), Lists', UNCHANGED quiet
    PROVE  GuardedInv'
  <1>0. TypeOK /\ OneRowPerSlot /\ EventsKeepTheirConnector /\ \A v \in Workers : Ready(v)
    BY InvParts
  <1>1. /\ rows' \in [EventIds -> Row \cup {None}] /\ Live \subseteq Live'
        /\ OneRowPerSlot' /\ EventsKeepTheirConnector'
    BY <1>0, RowsStepKeeps DEF Safe
  <1>2. TypeOK'
    BY <1>0, <1>1 DEF Safe, TypeOK, RecordsTyped, LocalsTyped, TargetTyped
  <1>3. \A v \in Workers : Ready(v)'
    BY <1>0 DEF Safe, Others, Ready
  <1>4. /\ surface' = surface /\ trash' = trash /\ gone' = gone /\ edits' = edits
    BY DEF quiet
  <1> QED
    BY <1>1, <1>2, <1>3, <1>4 DEF GuardedInv, Safe

LEMMA ReceiveKeeps ==
    ASSUME GuardedInv, NEW w \in Workers, GuardedReceive(w)
    PROVE  GuardedInv'
  <1>1. Safe(w) /\ Shrinks(w)
    <2>1. ASSUME NEW c \in Connectors, NEW k \in Keys, NEW x \in ExternalIds,
                 ReceiveGate(w, c, k, x)
          PROVE  Safe(w) /\ Shrinks(w)
      BY <2>1, GateSafe
    <2>2. CASE GuardedClaim(w)
      BY <2>2, ClaimSafe, RefusedSafe DEF GuardedClaim
    <2>3. CASE GuardedReread(w)
      BY <2>3, RereadSafe, RefusedSafe DEF GuardedReread
    <2>4. CASE ReceiveMap(w)
      BY <2>4, MapSafe
    <2>5. CASE GuardedMark(w)
      BY <2>5, MarkSafe, RefusedSafe DEF GuardedMark
    <2>6. CASE ReceivePublish(w)
      BY <2>6, PublishSafe
    <2> QED
      BY <2>1, <2>2, <2>3, <2>4, <2>5, <2>6 DEF GuardedReceive
  <1>2. Unlisted(w) /\ UNCHANGED quiet
    BY DEF GuardedReceive
  <1>3. Lists'
    BY <1>1, <1>2, UnlistedKeeps DEF Safe
  <1> QED
    BY <1>1, <1>2, <1>3, SafeKeeps

LEMMA RetryKeeps ==
    ASSUME GuardedInv, NEW w \in Workers, GuardedRetry(w)
    PROVE  GuardedInv'
  <1>1. CASE GuardedList(w)
    BY <1>1, ListSafe, SafeKeeps DEF GuardedRetry
  <1>2. ASSUME Unlisted(w),
               \/ \E c \in Connectors : RetryGate(w, c)
               \/ GuardedRetryMap(w) \/ RetryDone(w) \/ GuardedRetryMark(w) \/ RetryPublish(w)
        PROVE  GuardedInv'
    <2>1. Safe(w) /\ Shrinks(w)
      <3>1. ASSUME NEW c \in Connectors, RetryGate(w, c)
            PROVE  Safe(w) /\ Shrinks(w)
        BY <3>1, RetryGateSafe
      <3>2. CASE GuardedRetryMark(w)
        BY <3>2, RetryMarkSafe, RetryGoneSafe, RefusedSafe DEF GuardedRetryMark
      <3> QED
        BY <1>2, <3>1, <3>2, RetryMapSafe, DoneSafe, RetryPublishSafe
    <2>2. Lists'
      BY <1>2, <2>1, UnlistedKeeps DEF Safe
    <2> QED
      BY <2>1, <2>2, SafeKeeps DEF GuardedRetry
  <1> QED
    BY <1>1, <1>2 DEF GuardedRetry

-----------------------------------------------------------------------------
(* The operators' steps, on any surface.                                   *)

\* A change of the connectors that leaves every event its own.
LEMMA ConnectorStep ==
    ASSUME GuardedInv, UNCHANGED hub, UNCHANGED <<surface, trash, listed, edits>>,
           conn' \in [Connectors -> ConnectorRow],
           \A i \in Live : conn'[rows[i].conn].status # "absent",
           gone' \subseteq Connectors \cup EventIds
    PROVE  GuardedInv'
  <1>1. TypeOK'
    BY InvParts DEF hub, TypeOK
  <1>2. OneRowPerSlot' /\ TargetOnce' /\ Lists' /\ trash' \subseteq Live'
    BY DEF GuardedInv, hub, OneRowPerSlot, ActionOf, Live, TargetOnce, Lists, ListIs
  <1>3. EventsKeepTheirConnector'
    BY DEF hub, EventsKeepTheirConnector, Known, Live
  <1>4. \A w \in Workers : Ready(w)'
    BY DEF GuardedInv, hub, Ready
  <1> QED
    BY <1>1, <1>2, <1>3, <1>4 DEF GuardedInv

\* A change of the events that leaves the requests alone.
LEMMA EventStep ==
    ASSUME GuardedInv, UNCHANGED others, UNCHANGED staged,
           rows' \in [EventIds -> Row \cup {None}], OneRowPerSlot', EventsKeepTheirConnector',
           trash' \subseteq Live', gone' \subseteq Connectors \cup EventIds,
           edits' \in 0..MaxEdits
    PROVE  GuardedInv'
  <1>1. TypeOK'
    BY InvParts DEF others, TypeOK
  <1>2. TargetOnce' /\ Lists' /\ \A w \in Workers : Ready(w)'
    BY DEF GuardedInv, others, TargetOnce, Lists, ListIs, Ready
  <1> QED
    BY <1>1, <1>2 DEF GuardedInv, others

LEMMA RegisterKeeps ==
    ASSUME GuardedInv, NEW c \in Connectors, GuardedRegister(c)
    PROVE  GuardedInv'
  <1>0. conn \in [Connectors -> ConnectorRow] /\ \A i \in Live : Known(rows[i].conn)
    BY InvParts DEF TypeOK, EventsKeepTheirConnector
  <1>1. UNCHANGED hub /\ conn' = [conn EXCEPT ![c].status = "active"] /\ UNCHANGED <<quiet, listed>>
    BY DEF GuardedRegister, RegisterConnector
  <1>2. conn' \in [Connectors -> ConnectorRow]
        /\ \A i \in Live : conn'[rows[i].conn].status # "absent"
    BY <1>0, <1>1 DEF Known, ConnectorRow
  <1> QED
    BY <1>1, <1>2, ConnectorStep DEF quiet, GuardedInv

LEMMA CreateConnectorsKeep ==
    ASSUME GuardedInv, NEW C \in SUBSET Connectors, CreateConnectors(C)
    PROVE  GuardedInv'
  <1>0. conn \in [Connectors -> ConnectorRow] /\ \A i \in Live : Known(rows[i].conn)
    BY InvParts DEF TypeOK, EventsKeepTheirConnector
  <1>1. PICK s \in ConnectorStatuses :
           conn' = [c \in Connectors |->
                       IF c \in C THEN [status |-> s, deleted |-> FALSE] ELSE conn[c]]
    BY DEF CreateConnectors
  <1>3. conn' \in [Connectors -> ConnectorRow]
        /\ \A c \in Connectors : Known(c) => conn'[c].status # "absent"
    BY <1>0, <1>1 DEF ConnectorStatuses, ConnectorRow, Known
  <1>4. \A i \in Live : rows[i].conn \in Connectors
    BY InvParts, LiveRow DEF Row
  <1> QED
    BY <1>0, <1>3, <1>4, ConnectorStep DEF CreateConnectors, unedited, GuardedInv

LEMMA UpdateConnectorKeeps ==
    ASSUME GuardedInv, NEW c \in Connectors, UpdateConnector(c)
    PROVE  GuardedInv'
  <1>0. /\ conn \in [Connectors -> ConnectorRow] /\ \A i \in Live : Known(rows[i].conn)
        /\ conn[c] \in ConnectorRow /\ Known(c)
    BY InvParts DEF TypeOK, EventsKeepTheirConnector, UpdateConnector
  <1>1. PICK del \in {conn[c].deleted, FALSE},
             r \in {ApplyUpdateConnector(conn[c], [status |-> s]) : s \in ConnectorStatuses}
                     \cup {ApplyPatchConnector(conn[c], p) : p \in ConnectorPatches} :
           conn' = [conn EXCEPT ![c] = [r EXCEPT !.deleted = del]]
    BY DEF UpdateConnector
  <1>3. r \in ConnectorRow /\ r.status # "absent"
    <2>1. ASSUME NEW s \in ConnectorStatuses
          PROVE  LET q == [conn[c] EXCEPT !.status = s] IN q \in ConnectorRow /\ q.status # "absent"
      BY <1>0 DEF ConnectorStatuses, ConnectorRow
    <2>2. CASE r \in {ApplyUpdateConnector(conn[c], [status |-> s]) : s \in ConnectorStatuses}
      BY <2>1, <2>2 DEF ApplyUpdateConnector
    <2>3. CASE r \in {ApplyPatchConnector(conn[c], p) : p \in ConnectorPatches}
      <3>1. PICK p \in ConnectorPatches : r = ApplyPatchConnector(conn[c], p)
        BY <2>3
      <3> QED
        BY <1>0, <2>1, <3>1 DEF ApplyPatchConnector, Known
    <2> QED
      BY <2>2, <2>3
  <1>4. del \in BOOLEAN
    BY <1>0 DEF ConnectorRow
  <1>5. [r EXCEPT !.deleted = del] \in ConnectorRow /\ [r EXCEPT !.deleted = del].status # "absent"
    BY <1>3, <1>4 DEF ConnectorRow
  <1>6. conn' \in [Connectors -> ConnectorRow]
        /\ \A d \in Connectors : Known(d) => conn'[d].status # "absent"
    <2> DEFINE q == [r EXCEPT !.deleted = del]
    <2>1. q \in ConnectorRow /\ q.status # "absent" /\ conn' = [conn EXCEPT ![c] = q]
      BY <1>1, <1>5
    <2> HIDE DEF q
    <2> QED
      BY <1>0, <2>1 DEF Known
  <1>7. \A i \in Live : rows[i].conn \in Connectors
    BY InvParts, LiveRow DEF Row
  <1> QED
    BY <1>0, <1>6, <1>7, ConnectorStep DEF UpdateConnector, unedited, GuardedInv

LEMMA TrashConnectorKeeps ==
    ASSUME GuardedInv, NEW c \in Connectors, TrashConnector(c)
    PROVE  GuardedInv'
  <1>0. conn \in [Connectors -> ConnectorRow] /\ \A i \in Live : Known(rows[i].conn)
    BY InvParts DEF TypeOK, EventsKeepTheirConnector
  <1>1. UNCHANGED hub /\ conn' = [conn EXCEPT ![c].deleted = ~@]
        /\ UNCHANGED <<unedited, gone>>
    BY DEF TrashConnector, SetConnectorDeleted
  <1>2. conn' \in [Connectors -> ConnectorRow]
    BY <1>0, <1>1 DEF ConnectorRow
  <1>3. \A d \in Connectors : conn'[d].status = conn[d].status
    BY <1>0, <1>1 DEF ConnectorRow
  <1>4. \A i \in Live : rows[i].conn \in Connectors
    BY InvParts, LiveRow DEF Row
  <1>5. \A i \in Live : conn'[rows[i].conn].status # "absent"
    BY <1>0, <1>3, <1>4 DEF Known
  <1> QED
    BY <1>1, <1>2, <1>5, ConnectorStep DEF unedited, GuardedInv

LEMMA PurgeConnectorsKeep ==
    ASSUME GuardedInv, NEW C \in SUBSET Connectors, PurgeConnectors(C)
    PROVE  GuardedInv'
  <1>0. conn \in [Connectors -> ConnectorRow] /\ \A i \in Live : Known(rows[i].conn)
    BY InvParts DEF TypeOK, EventsKeepTheirConnector
  <1>1. /\ UNCHANGED hub /\ UNCHANGED unedited /\ gone' = gone \cup C
        /\ conn' = [c \in Connectors |->
                      IF c \in C THEN [status |-> "absent", deleted |-> FALSE] ELSE conn[c]]
        /\ \A c \in C : Unreferenced(c)
    BY DEF PurgeConnectors
  <1>2. conn' \in [Connectors -> ConnectorRow]
    BY <1>0, <1>1 DEF ConnectorRow
  <1>3. \A i \in Live : rows[i].conn \in Connectors /\ rows[i].conn \notin C
    BY <1>1, InvParts, LiveRow DEF Row, Unreferenced
  <1>4. \A i \in Live : conn'[rows[i].conn].status # "absent"
    BY <1>0, <1>1, <1>3 DEF Known
  <1> QED
    BY <1>1, <1>2, <1>4, ConnectorStep DEF unedited, GuardedInv

\* An event is stored only as the constraints and the rules allow.
LEMMA StoreKeeps ==
    ASSUME GuardedInv, NEW i \in EventIds, NEW r \in Row, StoreEvent(i, r),
           UNCHANGED <<others, staged, trash, gone>>, Edit
    PROVE  GuardedInv'
  <1>0. TypeOK /\ OneRowPerSlot /\ EventsKeepTheirConnector
    BY InvParts
  <1>4. RowsStep
    BY DEF StoreEvent, RowsStep, Stores
  <1>5. /\ rows' \in [EventIds -> Row \cup {None}] /\ Live \subseteq Live'
        /\ OneRowPerSlot' /\ EventsKeepTheirConnector'
    BY <1>0, <1>4, RowsStepKeeps DEF others
  <1>6. edits' \in 0..MaxEdits
    BY GuardedAssumption DEF Edit, GuardedInv, GuardedAssumption
  <1> QED
    BY <1>5, <1>6, EventStep DEF GuardedInv

LEMMA CreateEventKeeps ==
    ASSUME GuardedInv, NEW i \in EventIds, CreateEvent(i)
    PROVE  GuardedInv'
  <1>1. PICK form \in EventForms : StoreEvent(i, NewEvent(form))
    BY DEF CreateEvent
  <1>2. NewEvent(form) \in Row
    BY DEF NewEvent, EventForms
  <1> QED
    BY <1>1, <1>2, StoreKeeps DEF CreateEvent

LEMMA UpdateEventKeeps ==
    ASSUME GuardedInv, NEW i \in EventIds, UpdateEvent(i)
    PROVE  GuardedInv'
  <1>1. i \in EventIds /\ rows[i] \in Row
    BY InvParts, LiveRow DEF UpdateEvent
  <1>2. ASSUME NEW form \in EventForms
        PROVE  ApplyUpdateEvent(rows[i], form) \in Row
    BY <1>1 DEF ApplyUpdateEvent, EventForms, Row
  <1>3. ASSUME NEW p \in EventPatches
        PROVE  ApplyPatchEvent(rows[i], p) \in Row
    <2>1. \A s \in Statuses : [rows[i] EXCEPT !.status = s] \in Row
      BY <1>1 DEF Row
    <2>2. \A k \in Keys : [rows[i] EXCEPT !.key = k] \in Row
      BY <1>1 DEF Row
    <2>3. \A c \in Connectors : [rows[i] EXCEPT !.conn = c] \in Row
      BY <1>1 DEF Row
    <2>4. /\ "business_key" \in DOMAIN p => p["business_key"] \in Keys
          /\ "connector_id" \in DOMAIN p => p["connector_id"] \in Connectors
      BY DEF EventPatches
    <2> QED
      BY <1>1, <2>1, <2>2, <2>3, <2>4 DEF ApplyPatchEvent
  <1> QED
    BY <1>1, <1>2, <1>3, StoreKeeps DEF UpdateEvent

LEMMA TrashEventKeeps ==
    ASSUME GuardedInv, NEW i \in EventIds, TrashEvent(i)
    PROVE  GuardedInv'
  <1>1. /\ UNCHANGED others /\ rows' = rows /\ staged' = staged
        /\ gone' = gone /\ edits' = edits
    BY DEF TrashEvent, tables
  <1>2. Live' = Live /\ trash' \subseteq Live'
    BY <1>1 DEF TrashEvent, GuardedInv, Live
  <1>3. /\ rows' \in [EventIds -> Row \cup {None}]
        /\ OneRowPerSlot' /\ EventsKeepTheirConnector'
    BY <1>1, InvParts, RowsStepKeeps DEF RowsStep, others
  <1> QED
    BY <1>1, <1>2, <1>3, EventStep DEF GuardedInv

LEMMA PurgeEventsKeep ==
    ASSUME GuardedInv, NEW I \in SUBSET EventIds, PurgeEvents(I)
    PROVE  GuardedInv'
  <1>0. TypeOK /\ OneRowPerSlot /\ EventsKeepTheirConnector
    BY InvParts
  <1>1. /\ UNCHANGED others /\ staged' = staged
        /\ rows' = [i \in EventIds |-> IF i \in I THEN None ELSE rows[i]]
        /\ trash' = trash \ I /\ gone' = gone \cup I
    BY DEF PurgeEvents
  <1>2. Live' = Live \ I /\ \A i \in Live' : rows'[i] = rows[i]
    BY <1>1 DEF Live
  <1>3. rows' \in [EventIds -> Row \cup {None}]
    BY <1>0, <1>1 DEF TypeOK
  <1>4. OneRowPerSlot'
    BY <1>0, <1>2 DEF OneRowPerSlot, ActionOf
  <1>5. EventsKeepTheirConnector'
    BY <1>0, <1>1, <1>2 DEF EventsKeepTheirConnector, Known, others
  <1>6. edits' \in 0..MaxEdits
    BY GuardedAssumption DEF PurgeEvents, Edit, GuardedInv, GuardedAssumption
  <1> QED
    BY <1>1, <1>2, <1>3, <1>4, <1>5, <1>6, EventStep DEF GuardedInv

LEMMA StillKeeps ==
    ASSUME GuardedInv, UNCHANGED guarded
    PROVE  GuardedInv'
  <1>1. UNCHANGED hub /\ conn' = conn /\ UNCHANGED <<surface, trash, gone, listed, edits>>
    BY DEF guarded, vars, hub
  <1> QED
    BY <1>1, InvParts, ConnectorStep DEF TypeOK, EventsKeepTheirConnector, Known, GuardedInv

LEMMA GuardedInitial == GuardedInit => GuardedInv
  <1> SUFFICES ASSUME GuardedInit PROVE GuardedInv
    OBVIOUS
  <1>1. HubInv
    BY HubInit DEF GuardedInit
  <1>2. Live = {} /\ \A w \in Workers : pc[w] = "idle" /\ todo[w] = {}
    BY DEF GuardedInit, Init, Live
  <1>3. Lists
    <2>1. DOMAIN <<>> = {}
      OBVIOUS
    <2> QED
      BY <1>2, <2>1 DEF GuardedInit, Lists, ListIs
  <1>4. edits \in 0..MaxEdits
    BY GuardedAssumption DEF GuardedInit, GuardedAssumption
  <1> QED
    BY <1>1, <1>2, <1>3, <1>4
       DEF GuardedInit, GuardedInv, HubInv, OneRowPerSlot, EventsKeepTheirConnector, Ready

LEMMA GuardedStep ==
    ASSUME GuardedInv, [GuardedNext]_guarded
    PROVE  GuardedInv'
  <1>1. CASE Read
    BY <1>1, StillKeeps DEF Read, guarded, quiet
  <1>2. CASE ConnectorCrud
    BY <1>2, CreateConnectorsKeep, PurgeConnectorsKeep, UpdateConnectorKeeps, TrashConnectorKeeps
       DEF ConnectorCrud
  <1>3. CASE EventCrud
    BY <1>3, CreateEventKeeps, UpdateEventKeeps, TrashEventKeeps, PurgeEventsKeep DEF EventCrud
  <1> QED
    BY <1>1, <1>2, <1>3, ReceiveKeeps, RetryKeeps, RegisterKeeps, StillKeeps DEF GuardedNext

-----------------------------------------------------------------------------
(* What holds on every surface.                                            *)

\* Whatever operators create, edit, trash and purge next to the requests in flight, the
\* tables keep their constraints and every request what it needs.
THEOREM GuardedInvariant == GuardedSpec => []GuardedInv
  <1>1. GuardedInv /\ [GuardedNext]_guarded => GuardedInv'
    BY GuardedStep
  <1> QED
    BY GuardedInitial, <1>1, PTL DEF GuardedSpec

\* Type correctness: the trash holds rows, a work list known events and their actions.
THEOREM GuardedTyped == GuardedSpec => []GuardedTypeOK
  <1>1. GuardedInv => GuardedTypeOK
    BY DEF GuardedInv, GuardedTypeOK, Lists, ListIs
  <1> QED
    BY GuardedInvariant, <1>1, PTL

\* The unique index counts trashed events: a business action has one row.
THEOREM GuardedDedup == GuardedSpec => []OneRowPerSlot
  <1>1. GuardedInv => OneRowPerSlot
    BY DEF GuardedInv
  <1> QED
    BY GuardedInvariant, <1>1, PTL

\* The foreign key and the claim's own INSERT leave no event without its connector.
THEOREM GuardedReferences == GuardedSpec => []EventsKeepTheirConnector
  <1>1. GuardedInv => EventsKeepTheirConnector
    BY DEF GuardedInv
  <1> QED
    BY GuardedInvariant, <1>1, PTL

\* The target applies an action once, although the row that remembered it was purged and
\* the event delivered again.
THEOREM GuardedAppliesOnce == GuardedSpec => []AppliedOnceDespitePurge
  <1>1. GuardedInv => AppliedOnceDespitePurge
    BY DEF GuardedInv, TargetOnce, AppliedOnceDespitePurge
  <1> QED
    BY GuardedInvariant, <1>1, PTL

-----------------------------------------------------------------------------
(* The production surfaces: nobody but the hub writes an event.            *)

\* What a step does there: the invariant of the hub holds on, the tables change in one
\* of the hub's ways, and the lists stay those of the rows.
ProductionStep == HubInv' /\ TableStep /\ ListsAreCurrent'

LEMMA NoEventWrites ==
    ASSUME GuardedInv, production
    PROVE  EventWrites = {}
  BY DEF GuardedInv, production, EventWrites, Routes, GuardedRoutes, ReadonlyRoutes

LEMMA RefusedGood ==
    ASSUME HubInv, NEW w \in Workers, Refused(w)
    PROVE  GoodStep(w)
  <1>0. LocalsTyped /\ TargetTyped /\ TargetOnce
    BY TypeParts DEF HubInv
  <1>1. TableStep /\ LeavesClaims(w)
    BY QuietTables DEF Refused, tables
  <1>2. TargetTyped' /\ TargetOnce' /\ TellsTruth
    BY <1>0, QuietTarget, QuietTelling DEF Refused
  <1>3. LocalsTyped' /\ Knows(w)' /\ Others(w) /\ OwnsByMaking(w)
    BY <1>0, ReturnStep DEF Refused
  <1> QED
    BY <1>1, <1>2, <1>3 DEF GoodStep

\* A list that was current still is: no step of the hub moves a row to another slot.
LEMMA ListsStayCurrent ==
    ASSUME GuardedInv, HubInv, ListsAreCurrent, TableStep, NEW w \in Workers,
           Others(w), Shrinks(w), Unlisted(w)
    PROVE  ListsAreCurrent'
  <1>1. \A v \in Workers : todo'[v] \subseteq todo[v]
    BY DEF Others, Shrinks
  <1>2. \A v \in Workers : \A i \in todo'[v] : listed'[v] = listed[v]
    BY DEF Unlisted, Shrinks, GuardedInv, Lists
  <1>3. \A v \in Workers : \A i \in todo[v] : i \in Live /\ i \in EventIds
    BY DEF HubInv, InFlight, Knows, Live
  <1>4. \A v \in Workers : \A i \in todo[v] : ActionOf(i)' = ActionOf(i)
    BY <1>3, TablesKeep DEF HubInv, ActionOf
  <1> QED
    BY <1>1, <1>2, <1>4 DEF ListsAreCurrent

LEMMA ProductionReceive ==
    ASSUME GuardedInv, HubInv, NEW w \in Workers, GuardedReceive(w)
    PROVE  GoodStep(w) /\ Safe(w) /\ Shrinks(w)
  <1>1. ASSUME NEW c \in Connectors, NEW k \in Keys, NEW x \in ExternalIds,
               ReceiveGate(w, c, k, x)
        PROVE  GoodStep(w) /\ Safe(w) /\ Shrinks(w)
    BY <1>1, GateGood, GateSafe
  <1>2. CASE GuardedClaim(w)
    BY <1>2, ClaimGood, ClaimSafe, RefusedGood, RefusedSafe DEF GuardedClaim
  <1>3. CASE GuardedReread(w)
    BY <1>3, RereadGood, RereadSafe, RefusedGood, RefusedSafe DEF GuardedReread
  <1>4. CASE ReceiveMap(w)
    BY <1>4, MapGood, MapSafe
  <1>5. CASE GuardedMark(w)
    <2>1. cur[w] \in Live
      BY <1>5 DEF GuardedMark, HubInv, InFlight, Knows
    <2> QED
      BY <1>5, <2>1, MarkGood, MarkSafe, RefusedGood, RefusedSafe DEF GuardedMark
  <1>6. CASE ReceivePublish(w)
    BY <1>6, PublishGood, PublishSafe
  <1> QED
    BY <1>1, <1>2, <1>3, <1>4, <1>5, <1>6 DEF GuardedReceive

\* What the retry sends is what its row says.
LEMMA ListedIsRow ==
    ASSUME ListsAreCurrent, NEW w \in Workers, GuardedRetryMap(w)
    PROVE  RetryMap(w)
  BY DEF ListsAreCurrent, GuardedRetryMap, RetryMap

LEMMA ProductionRetry ==
    ASSUME GuardedInv, HubInv, ListsAreCurrent, NEW w \in Workers,
           \/ \E c \in Connectors : RetryGate(w, c)
           \/ GuardedRetryMap(w) \/ RetryDone(w) \/ GuardedRetryMark(w) \/ RetryPublish(w)
    PROVE  GoodStep(w) /\ Safe(w) /\ Shrinks(w)
  <1>1. ASSUME NEW c \in Connectors, RetryGate(w, c)
        PROVE  GoodStep(w) /\ Safe(w) /\ Shrinks(w)
    BY <1>1, RetryGateGood, RetryGateSafe
  <1>2. CASE GuardedRetryMap(w)
    BY <1>2, ListedIsRow, RetryMapGood, RetryMapSafe
  <1>3. CASE GuardedRetryMark(w)
    <2>1. cur[w] \in Live
      BY <1>3 DEF GuardedRetryMark, HubInv, InFlight, Knows
    <2> QED
      BY <1>3, <2>1, RetryMarkGood, RetryMarkSafe, RefusedGood, RefusedSafe DEF GuardedRetryMark
  <1> QED
    BY <1>1, <1>2, <1>3, DoneGood, DoneSafe, RetryPublishGood, RetryPublishSafe

LEMMA ProductionList ==
    ASSUME GuardedInv, HubInv, ListsAreCurrent, NEW w \in Workers, GuardedList(w)
    PROVE  GoodStep(w) /\ ListsAreCurrent'
  <1>0. LocalsTyped /\ DOMAIN listed = Workers
    BY InvParts DEF Lists
  <1>1. GoodStep(w)
    BY ListGood DEF GuardedList
  <1>2. rows' = rows
    BY DEF GuardedList, RetryList, tables
  <1>3. listed' = [listed EXCEPT ![w] = [i \in todo'[w] |-> ActionOf(i)]]
    BY DEF GuardedList
  <1>4. \A v \in Workers \ {w} : todo'[v] = todo[v] /\ listed'[v] = listed[v]
    BY <1>0, <1>1, <1>3 DEF GoodStep, Others
  <1>5. \A i \in todo'[w] : listed'[w][i] = ActionOf(i)
    BY <1>0, <1>3
  <1>6. \A i : ActionOf(i)' = ActionOf(i)
    BY <1>2 DEF ActionOf
  <1> QED
    BY <1>1, <1>4, <1>5, <1>6 DEF ListsAreCurrent

\* A step of an operator touches the connectors only.
LEMMA ProductionAdmin ==
    ASSUME GuardedInv, HubInv, ListsAreCurrent, UNCHANGED hub, listed' = listed,
           conn' \in [Connectors -> ConnectorRow]
    PROVE  ProductionStep
  <1>1. HubInv'
    BY ConnectorsKeep
  <1>2. TableStep
    BY DEF hub, TableStep
  <1>3. ListsAreCurrent'
    BY DEF hub, ListsAreCurrent, ActionOf
  <1> QED
    BY <1>1, <1>2, <1>3 DEF ProductionStep

LEMMA ProductionKeeps ==
    ASSUME GuardedInv, production, HubInv, ListsAreCurrent, [GuardedNext]_guarded
    PROVE  ProductionStep
  <1>0. conn \in [Connectors -> ConnectorRow] /\ aborts \in 0..MaxAborts
    BY InvParts DEF TypeOK
  <1>1. ASSUME NEW w \in Workers, GoodStep(w), Safe(w), ListsAreCurrent'
        PROVE  ProductionStep
    <2>1. HubInv'
      BY <1>0, <1>1, GoodStepKeeps DEF Safe
    <2> QED
      BY <1>1, <2>1 DEF ProductionStep, GoodStep
  <1>2. ASSUME NEW w \in Workers, GuardedReceive(w)
        PROVE  ProductionStep
    <2>1. GoodStep(w) /\ Safe(w) /\ Shrinks(w)
      BY <1>2, ProductionReceive
    <2>2. ListsAreCurrent'
      BY <1>2, <2>1, ListsStayCurrent DEF GuardedReceive, GoodStep
    <2> QED
      BY <1>1, <2>1, <2>2
  <1>3. ASSUME NEW w \in Workers, GuardedRetry(w)
        PROVE  ProductionStep
    <2>1. CASE GuardedList(w)
      BY <1>1, <2>1, ProductionList, ListSafe
    <2>2. CASE ~GuardedList(w)
      <3>1. GoodStep(w) /\ Safe(w) /\ Shrinks(w) /\ Unlisted(w)
        BY <1>3, <2>2, ProductionRetry DEF GuardedRetry
      <3>2. ListsAreCurrent'
        BY <3>1, ListsStayCurrent DEF GoodStep
      <3> QED
        BY <1>1, <3>1, <3>2
    <2> QED
      BY <2>1, <2>2
  <1>4. \/ UNCHANGED guarded \/ Read \/ ConnectorCrud \/ \E c \in Connectors : GuardedRegister(c)
        => ProductionStep
    <2> SUFFICES ASSUME \/ UNCHANGED guarded \/ Read \/ ConnectorCrud
                        \/ \E c \in Connectors : GuardedRegister(c)
                 PROVE  ProductionStep
      OBVIOUS
    <2>1. UNCHANGED hub /\ listed' = listed
      BY DEF guarded, vars, hub, quiet, Read, ConnectorCrud, CreateConnectors, PurgeConnectors,
             UpdateConnector, TrashConnector, SetConnectorDeleted, unedited, GuardedRegister,
             RegisterConnector
    <2>2. conn' \in [Connectors -> ConnectorRow]
      <3>1. GuardedInv'
        BY GuardedStep DEF GuardedNext
      <3> QED
        BY <3>1 DEF GuardedInv, TypeOK
    <2> QED
      BY <2>1, <2>2, ProductionAdmin
  <1>5. ~EventCrud
    BY NoEventWrites DEF EventCrud, CreateEvent, UpdateEvent, TrashEvent, PurgeEvents
  <1> QED
    BY <1>2, <1>3, <1>4, <1>5 DEF GuardedNext

\* The surface is chosen once.
LEMMA SurfaceStays ==
    ASSUME [GuardedNext]_guarded
    PROVE  surface' = surface
  BY DEF GuardedNext, guarded, GuardedReceive, GuardedRetry, quiet, GuardedRegister, Read,
         ConnectorCrud, CreateConnectors, PurgeConnectors, UpdateConnector, TrashConnector, unedited,
         EventCrud, CreateEvent, UpdateEvent, TrashEvent, PurgeEvents, others

\* On the production surfaces the invariant of the hub survives all that operators do.
THEOREM ProductionInvariant == GuardedSpec => []ProductionInv
  <1>1. GuardedInit => ProductionInv
    BY HubInit DEF GuardedInit, Init, ProductionInv, ListsAreCurrent
  <1>2. GuardedInv /\ ProductionInv /\ [GuardedNext]_guarded => ProductionInv'
    <2> SUFFICES ASSUME GuardedInv, ProductionInv, [GuardedNext]_guarded, production'
                 PROVE  HubInv' /\ ListsAreCurrent'
      BY DEF ProductionInv
    <2>1. production
      BY SurfaceStays DEF production
    <2> QED
      BY <2>1, ProductionKeeps DEF ProductionInv, ProductionStep
  <1> QED
    BY <1>1, <1>2, GuardedInvariant, PTL DEF GuardedSpec

-----------------------------------------------------------------------------
(* The lifecycle on the production surfaces.                               *)

PromisedStatus == [a \in Actions |-> IF Seen(a) THEN rows[RowOf(a)].status ELSE "unseen"]
PromisedAnnounced == [a \in Actions |-> IF Seen(a) THEN staged[RowOf(a)] ELSE NoneStaged]

\* A step of the lifecycle, from statuses s and announcements n to sn and nn.
LifecycleMove(s, n, sn, nn) ==
    \E a \in Actions :
       \/ s[a] = "unseen" /\ sn = [s EXCEPT ![a] = "received"] /\ nn = n
       \/ /\ s[a] = "failed" /\ sn = [s EXCEPT ![a] = "mapped"]
          /\ nn = [n EXCEPT ![a]["mapped"] = @ + 1]
       \/ s[a] = "failed" /\ sn = [s EXCEPT ![a] = "ignored"] /\ nn = n
       \/ \E k \in Kinds : /\ s[a] = "received" /\ sn = [s EXCEPT ![a] = k]
                           /\ nn = [n EXCEPT ![a][k] = @ + 1]

LEMMA HubMoves ==
    ASSUME Lifecycle!LNext
    PROVE  LifecycleMove(StatusMap, AnnouncedMap, StatusMap', AnnouncedMap')
  BY DEF LifecycleMove, StatusMap, AnnouncedMap, Lifecycle!LNext, Lifecycle!Receive,
         Lifecycle!Recover, Lifecycle!Dismiss, Lifecycle!Settle, Lifecycle!Become

LEMMA PromisedMoves ==
    ASSUME LifecycleMove(PromisedStatus, PromisedAnnounced, PromisedStatus', PromisedAnnounced')
    PROVE  Promised!LNext
  BY DEF LifecycleMove, PromisedStatus, PromisedAnnounced, Promised!LNext, Promised!Receive,
         Promised!Recover, Promised!Dismiss, Promised!Settle, Promised!Become

LEMMA MapsAgree ==
    ASSUME production
    PROVE  PromisedStatus = StatusMap /\ PromisedAnnounced = AnnouncedMap
  BY DEF PromisedStatus, PromisedAnnounced, StatusMap, AnnouncedMap, StatusOf, AnnouncedOf, Seen,
         RowOf

LEMMA NextMapsAgree ==
    ASSUME production'
    PROVE  PromisedStatus' = StatusMap' /\ PromisedAnnounced' = AnnouncedMap'
  BY DEF PromisedStatus, PromisedAnnounced, StatusMap, AnnouncedMap, StatusOf, AnnouncedOf, Seen,
         RowOf

\* On the full surface the lifecycle claims nothing.
LEMMA NothingSeen ==
    ASSUME ~production, ~production'
    PROVE  UNCHANGED <<PromisedStatus, PromisedAnnounced>>
  BY DEF PromisedStatus, PromisedAnnounced, Seen

\* guarded_routes lets no caller bypass the state machine of the hub: whatever operators do to
\* the connectors, every business action goes through the promised lifecycle.
THEOREM GuardedFollowsLifecycle == GuardedSpec => GuardedLifecycle
  <1>1. GuardedInit => Promised!LInit
    BY DEF GuardedInit, Init, Promised!LInit, Seen, Live, NoneStaged
  <1>2. GuardedInv /\ ProductionInv /\ [GuardedNext]_guarded
          => [Promised!LNext]_<<PromisedStatus, PromisedAnnounced>>
    <2> SUFFICES ASSUME GuardedInv, ProductionInv, [GuardedNext]_guarded
                 PROVE  [Promised!LNext]_<<PromisedStatus, PromisedAnnounced>>
      OBVIOUS
    <2>1. production' = production
      BY SurfaceStays DEF production
    <2>2. CASE production
      <3>1. HubInv /\ HubInv' /\ TableStep
        BY <2>2, ProductionKeeps DEF ProductionInv, ProductionStep
      <3>2. [Lifecycle!LNext]_<<StatusMap, AnnouncedMap>>
        BY <3>1, LifecycleStep DEF HubInv
      <3>3. /\ PromisedStatus = StatusMap /\ PromisedAnnounced = AnnouncedMap
            /\ PromisedStatus' = StatusMap' /\ PromisedAnnounced' = AnnouncedMap'
        BY <2>1, <2>2, MapsAgree, NextMapsAgree
      <3>4. CASE Lifecycle!LNext
        BY <3>3, <3>4, HubMoves, PromisedMoves
      <3> QED
        BY <3>2, <3>3, <3>4
    <2>3. CASE ~production
      BY <2>1, <2>3, NothingSeen
    <2> QED
      BY <2>2, <2>3
  <1> QED
    BY <1>1, <1>2, GuardedInvariant, ProductionInvariant, PTL
    DEF GuardedSpec, GuardedLifecycle, Promised!LSpec, PromisedStatus, PromisedAnnounced
=============================================================================
