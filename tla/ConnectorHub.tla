---------------------------- MODULE ConnectorHub ----------------------------
(***************************************************************************)
(* The connector hub: IntegrationsWriteService (register_connector,        *)
(* receive_event, failures, retry_failed) over the integration_connectors  *)
(* and integration_events tables, the module's outbox, the in-process      *)
(* event sink and the TargetPort of the module a connector feeds.          *)
(*                                                                         *)
(* A worker is one request in flight.  Every await of the code is a place  *)
(* where another worker may run, or where this one may stop: a statement   *)
(* is one step, a transaction (status update + outbox stage) is one step,  *)
(* and the call of the target is one step.  A call that is refused before  *)
(* it writes anything (a blank external_id or business_key, an unknown or  *)
(* inactive connector) leaves the state as it was and is not a step.       *)
(***************************************************************************)
EXTENDS Naturals, FiniteSets

CONSTANTS
    Connectors,   \* ids register_connector can hand out
    Keys,         \* business keys: order or transaction ref + terminal state
    ExternalIds,  \* notification ids of the provider; several per business key
    EventIds,     \* ids of integration_events rows; bounds the rows ever made
    Workers,      \* requests in flight
    MaxAborts,    \* how many requests may stop half way (bounds Abort)
    None          \* NULL: no row, no reference, no request

ASSUME HubAssumption ==
    /\ MaxAborts \in Nat
    /\ None \notin [conn : Connectors, key : Keys, ext : ExternalIds,
                    status : {"received", "mapped", "ignored", "failed"},
                    ref : (Connectors \X Keys) \cup {None}, err : BOOLEAN]
    /\ None \notin EventIds
    /\ None \notin Connectors \X Keys

VARIABLES
    conn,       \* the connectors table
    rows,       \* the events table
    staged,     \* the outbox: how many records of each kind per event
    published,  \* what the in-process sink was given
    effect,     \* the target's records: the idempotency key and the action it was made for
    applied,    \* how often the target carried each business action out
    told,       \* the answers receive_event gave its callers
    pc, req, cur, todo, ans,  \* per worker: place, inbound event, row, work list, target's answer
    aborts

vars == <<conn, rows, staged, published, effect, applied, told,
          pc, req, cur, todo, ans, aborts>>
tables == <<rows, staged>>
target == <<effect, applied>>

\* A business action: what one provider means to happen once.
Actions == Connectors \X Keys

Statuses == {"received", "mapped", "ignored", "failed"}
\* IntegrationEventMapped, IntegrationEventIgnored, IntegrationEventFailed.
Kinds == {"mapped", "ignored", "failed"}

Row == [conn : Connectors, key : Keys, ext : ExternalIds, status : Statuses,
        ref : Actions \cup {None}, err : BOOLEAN]

ConnectorRow == [status : {"absent", "active", "inactive"}, deleted : BOOLEAN]

Places == {"idle", "claim", "reread", "map", "mark", "publish",
           "list", "retry", "retrymark", "retrypublish"}

Request == [conn : Connectors, key : Keys \cup {None}, ext : ExternalIds \cup {None}]
Answer  == [out : Kinds, ref : Actions \cup {None}]

Live == {i \in EventIds : rows[i] # None}
ActionOf(i) == <<rows[i].conn, rows[i].key>>
NoneStaged == [k \in Kinds |-> 0]
NoAnswer == [out |-> "failed", ref |-> None]

TypeOK ==
    /\ conn \in [Connectors -> ConnectorRow]
    /\ rows \in [EventIds -> Row \cup {None}]
    /\ staged \in [EventIds -> [Kinds -> Nat]]
    /\ published \subseteq EventIds \X Kinds
    /\ \A e \in effect : e.act \in Actions
    /\ applied \in [Actions -> Nat]
    /\ told \subseteq [id : EventIds, status : Statuses, ref : Actions \cup {None}]
    /\ pc \in [Workers -> Places]
    /\ req \in [Workers -> Request \cup {None}]
    /\ cur \in [Workers -> EventIds \cup {None}]
    /\ todo \in [Workers -> SUBSET EventIds]
    /\ ans \in [Workers -> Answer]
    /\ aborts \in 0..MaxAborts

Init ==
    /\ conn = [c \in Connectors |-> [status |-> "absent", deleted |-> FALSE]]
    /\ rows = [i \in EventIds |-> None]
    /\ staged = [i \in EventIds |-> NoneStaged]
    /\ published = {} /\ effect = {} /\ told = {}
    /\ applied = [a \in Actions |-> 0]
    /\ pc = [w \in Workers |-> "idle"]
    /\ req = [w \in Workers |-> None]
    /\ cur = [w \in Workers |-> None]
    /\ todo = [w \in Workers |-> {}]
    /\ ans = [w \in Workers |-> NoAnswer]
    /\ aborts = 0

-----------------------------------------------------------------------------
(* The connector rows: registration, and the admin CRUD of guarded_routes. *)

hub == <<rows, staged, published, effect, applied, told, pc, req, cur, todo, ans, aborts>>

\* register_connector: a fresh id, inserted active.
RegisterConnector(c) ==
    /\ conn[c].status = "absent"
    /\ conn' = [conn EXCEPT ![c].status = "active"]
    /\ UNCHANGED hub

\* The operator's switch: the generic update of the status column.
SetConnectorStatus(c, s) ==
    /\ conn[c].status \notin {"absent", s}
    /\ ~conn[c].deleted
    /\ conn' = [conn EXCEPT ![c].status = s]
    /\ UNCHANGED hub

\* The generic soft delete and restore: metadata.deleted_at.
SetConnectorDeleted(c) ==
    /\ conn[c].status # "absent"
    /\ conn' = [conn EXCEPT ![c].deleted = ~@]
    /\ UNCHANGED hub

-----------------------------------------------------------------------------
(* The target module behind the port.  It carries an action out once per   *)
(* idempotency key and answers with the record it made the first time.     *)

Goto(w, p) == pc' = [pc EXCEPT ![w] = p]
Return(w) ==
    /\ Goto(w, "idle")
    /\ req' = [req EXCEPT ![w] = None]
    /\ cur' = [cur EXCEPT ![w] = None]
    /\ todo' = [todo EXCEPT ![w] = {}]
    /\ ans' = [ans EXCEPT ![w] = NoAnswer]
\* The next turn of retry_failed's loop.
Resume(w) ==
    /\ Goto(w, "retry")
    /\ cur' = [cur EXCEPT ![w] = None]
    /\ ans' = [ans EXCEPT ![w] = NoAnswer]
    /\ UNCHANGED <<req, todo>>

\* Mutation: a key of the delivery attempt, not of the business action.
AttemptKey(w, k) == <<w, k>>
\* Mutations: the id of the event's row; the connector.
RowKey(w, k) == IF pc[w] = "map" THEN cur[w] ELSE cur'[w]
ConnectorKey(w, k) == req[w].conn

\* What MapRequest carries as idempotency_key: the business key of the event.
IdempotencyKey(w, k) == k

TargetApply(key, a) ==
    IF \E e \in effect : e.key = key
    THEN UNCHANGED target
    ELSE /\ effect' = effect \cup {[key |-> key, act |-> a]}
         /\ applied' = [applied EXCEPT ![a] = @ + 1]

\* mapper.map for action a.  An error answer says nothing of whether the target
\* acted: the reply may have been lost after it did.
TargetMap(w, a) ==
    LET key == IdempotencyKey(w, a[2])
    IN \/ /\ TargetApply(key, a)
          /\ \E e \in effect' : /\ e.key = key
                                /\ ans' = [ans EXCEPT ![w] = [out |-> "mapped", ref |-> e.act]]
       \/ /\ ~ \E e \in effect : e.key = key
          /\ UNCHANGED target
          /\ ans' = [ans EXCEPT ![w] = [out |-> "ignored", ref |-> None]]
       \/ /\ TargetApply(key, a) \/ UNCHANGED target
          /\ ans' = [ans EXCEPT ![w] = [out |-> "failed", ref |-> None]]

-----------------------------------------------------------------------------
(* receive_event                                                           *)

\* Mutation: the gate forgets the status.
OpenUnlessDeleted(c) == conn[c].status # "absent" /\ ~conn[c].deleted

\* fetch_gate: the connector exists, is not deleted and is active.
Open(c) == conn[c].status = "active" /\ ~conn[c].deleted

ReceiveGate(w, c, k, x) ==
    /\ pc[w] = "idle"
    /\ Open(c)
    /\ req' = [req EXCEPT ![w] = [conn |-> c, key |-> k, ext |-> x]]
    /\ Goto(w, "claim")
    /\ UNCHANGED <<conn, tables, published, target, told, cur, todo, ans, aborts>>

\* Mutation: dedup on the notification id, as a provider's retries suggest.
SameNotification(r, q) == r.conn = q.conn /\ r.ext = q.ext

\* The unique index the claim's ON CONFLICT names.
SameSlot(r, q) == r.conn = q.conn /\ r.key = q.key

\* Mutation: the claim is an upsert that returns the id of the row it hit.
ClaimUpsert(w) ==
    /\ pc[w] = "claim"
    /\ \E i \in EventIds :
         /\ IF \E j \in Live : SameSlot(rows[j], req[w])
            THEN i \in Live /\ SameSlot(rows[i], req[w]) /\ UNCHANGED rows
            ELSE /\ i \notin Live
                 /\ rows' = [rows EXCEPT ![i] =
                               [conn |-> req[w].conn, key |-> req[w].key, ext |-> req[w].ext,
                                status |-> "received", ref |-> None, err |-> FALSE]]
         /\ cur' = [cur EXCEPT ![w] = i]
    /\ Goto(w, "map")
    /\ UNCHANGED <<conn, staged, published, target, told, req, todo, ans, aborts>>

\* claim_event: INSERT ... ON CONFLICT DO NOTHING RETURNING id.
ReceiveClaim(w) ==
    /\ pc[w] = "claim"
    /\ IF \E i \in Live : SameSlot(rows[i], req[w])
       THEN /\ Goto(w, "reread")
            /\ UNCHANGED <<rows, cur>>
       ELSE \E i \in EventIds \ Live :
            /\ rows' = [rows EXCEPT ![i] =
                          [conn |-> req[w].conn, key |-> req[w].key, ext |-> req[w].ext,
                           status |-> "received", ref |-> None, err |-> FALSE]]
            /\ cur' = [cur EXCEPT ![w] = i]
            /\ Goto(w, "map")
    /\ UNCHANGED <<conn, staged, published, target, told, req, todo, ans, aborts>>

\* fetch_by_business_key: the answer of a duplicate is the row as it is by now.
ReceiveReread(w) ==
    /\ pc[w] = "reread"
    /\ \E i \in Live :
         /\ SameSlot(rows[i], req[w])
         /\ told' = told \cup {[id |-> i, status |-> rows[i].status, ref |-> rows[i].ref]}
    /\ Return(w)
    /\ UNCHANGED <<conn, tables, published, target, aborts>>

ReceiveMap(w) ==
    /\ pc[w] = "map"
    /\ TargetMap(w, <<req[w].conn, req[w].key>>)
    /\ Goto(w, "mark")
    /\ UNCHANGED <<conn, tables, published, told, req, cur, todo, aborts>>

\* Mutations: the two ids of mark_mapped bound in the wrong order; an ignored
\* event is announced but its row is not marked.
MarkSwappedIds(i, a) ==
    IF rows[i].status = "received"
    THEN [rows EXCEPT ![i].status = a.out, ![i].ref = i, ![i].err = (a.out # "mapped")]
    ELSE rows
MarkForgetsIgnored(i, a) ==
    IF rows[i].status = "received" /\ a.out # "ignored"
    THEN [rows EXCEPT ![i].status = a.out, ![i].ref = a.ref, ![i].err = (a.out # "mapped")]
    ELSE rows

\* mark_mapped / mark_ignored / mark_failed: the row of id i as the UPDATE
\* ... WHERE id = i AND status = 'received' leaves it; no row is no error.
MarkReceived(i, a) ==
    IF rows[i].status = "received"
    THEN [rows EXCEPT ![i].status = a.out, ![i].ref = a.ref, ![i].err = (a.out # "mapped")]
    ELSE rows

\* Mutation: the lifecycle event is published but never staged.
MarkWithoutStage(w) ==
    /\ pc[w] = "mark"
    /\ rows' = MarkReceived(cur[w], ans[w])
    /\ Goto(w, "publish")
    /\ UNCHANGED <<conn, staged, published, target, told, req, cur, todo, ans, aborts>>

\* The transaction: status update and staged lifecycle event, then commit.
ReceiveMark(w) ==
    /\ pc[w] = "mark"
    /\ rows' = MarkReceived(cur[w], ans[w])
    /\ staged' = [staged EXCEPT ![cur[w]][ans[w].out] = @ + 1]
    /\ Goto(w, "publish")
    /\ UNCHANGED <<conn, published, target, told, req, cur, todo, ans, aborts>>

\* events.publish, then the outcome is returned to the caller.
ReceivePublish(w) ==
    /\ pc[w] = "publish"
    /\ published' = published \cup {<<cur[w], ans[w].out>>}
    /\ told' = told \cup {[id |-> cur[w], status |-> ans[w].out, ref |-> ans[w].ref]}
    /\ Return(w)
    /\ UNCHANGED <<conn, tables, target, aborts>>

-----------------------------------------------------------------------------
(* retry_failed                                                            *)

\* fetch_for_retry: the row exists; neither its status nor deleted_at is read.
Known(c) == conn[c].status # "absent"

RetryGate(w, c) ==
    /\ pc[w] = "idle"
    /\ Known(c)
    /\ req' = [req EXCEPT ![w] = [conn |-> c, key |-> None, ext |-> None]]
    /\ Goto(w, "list")
    /\ UNCHANGED <<conn, tables, published, target, told, cur, todo, ans, aborts>>

\* fetch_failed: the rows failures() reports and retry_failed works through.
Failures(c) == {i \in Live : rows[i].conn = c /\ rows[i].status = "failed"}

RetryList(w) ==
    /\ pc[w] = "list"
    /\ todo' = [todo EXCEPT ![w] = Failures(req[w].conn)]
    /\ Goto(w, "retry")
    /\ UNCHANGED <<conn, tables, published, target, told, req, cur, ans, aborts>>

\* Mutation: a row leaves the work list only by being mapped.
RetryUntilMapped(w) ==
    /\ pc[w] = "retry"
    /\ \E i \in todo[w] :
         /\ cur' = [cur EXCEPT ![w] = i]
         /\ TargetMap(w, ActionOf(i))
         /\ todo' = [todo EXCEPT ![w] = IF ans'[w].out = "mapped" THEN @ \ {i} ELSE @]
    /\ Goto(w, "retrymark")
    /\ UNCHANGED <<conn, tables, published, told, req, aborts>>

\* The next row of the list (their order does not matter here) goes to the target.
RetryMap(w) ==
    /\ pc[w] = "retry"
    /\ \E i \in todo[w] :
         /\ cur' = [cur EXCEPT ![w] = i]
         /\ todo' = [todo EXCEPT ![w] = @ \ {i}]
         /\ TargetMap(w, ActionOf(i))
    /\ Goto(w, "retrymark")
    /\ UNCHANGED <<conn, tables, published, told, req, aborts>>

\* The list is worked through: the number of newly mapped events is returned.
RetryDone(w) ==
    /\ pc[w] = "retry"
    /\ todo[w] = {}
    /\ Return(w)
    /\ UNCHANGED <<conn, tables, published, target, told, aborts>>

\* Mutation: the UPDATEs of the retry name the row by its id alone.
ById(i) == rows[i].status # "received"

\* The guard of retry_mark_mapped, retry_mark_ignored and set_error_detail.
StillFailed(i) == rows[i].status = "failed"

\* Mutation: the event is published whether or not the transition happened.
RetryPublishesAnyway(w) ==
    LET i == cur[w] IN
    /\ pc[w] = "retrymark"
    /\ ans[w].out = "mapped"
    /\ IF StillFailed(i)
       THEN /\ rows' = [rows EXCEPT ![i].status = "mapped", ![i].ref = ans[w].ref,
                                    ![i].err = FALSE]
            /\ staged' = [staged EXCEPT ![i]["mapped"] = @ + 1]
       ELSE UNCHANGED tables
    /\ Goto(w, "retrypublish")
    /\ UNCHANGED <<conn, published, target, told, req, cur, todo, ans, aborts>>

\* Mapped: the transition and its event commit together, or nothing does.
RetryMarkMapped(w) ==
    LET i == cur[w] IN
    /\ pc[w] = "retrymark"
    /\ ans[w].out = "mapped"
    /\ IF StillFailed(i)
       THEN /\ rows' = [rows EXCEPT ![i].status = "mapped", ![i].ref = ans[w].ref,
                                    ![i].err = FALSE]
            /\ staged' = [staged EXCEPT ![i]["mapped"] = @ + 1]
            /\ Goto(w, "retrypublish")
            /\ UNCHANGED <<req, cur, todo, ans>>
       ELSE UNCHANGED tables /\ Resume(w)
    /\ UNCHANGED <<conn, published, target, told, aborts>>

\* Ignored: a plain UPDATE; nothing is staged and nothing is published.
RetryMarkIgnored(w) ==
    LET i == cur[w] IN
    /\ pc[w] = "retrymark"
    /\ ans[w].out = "ignored"
    /\ rows' = IF StillFailed(i)
               THEN [rows EXCEPT ![i].status = "ignored", ![i].err = TRUE]
               ELSE rows
    /\ Resume(w)
    /\ UNCHANGED <<conn, staged, published, target, told, aborts>>

\* Mutation: the error text is written whatever became of the row.
RetryFailedById(w) ==
    LET i == cur[w] IN
    /\ pc[w] = "retrymark"
    /\ ans[w].out = "failed"
    /\ rows' = [rows EXCEPT ![i].err = TRUE]
    /\ Resume(w)
    /\ UNCHANGED <<conn, staged, published, target, told, aborts>>

\* Rejected again: the error text is refreshed, the row stays failed.
RetryMarkFailed(w) ==
    LET i == cur[w] IN
    /\ pc[w] = "retrymark"
    /\ ans[w].out = "failed"
    /\ rows' = IF StillFailed(i) THEN [rows EXCEPT ![i].err = TRUE] ELSE rows
    /\ Resume(w)
    /\ UNCHANGED <<conn, staged, published, target, told, aborts>>

RetryPublish(w) ==
    /\ pc[w] = "retrypublish"
    /\ published' = published \cup {<<cur[w], "mapped">>}
    /\ Resume(w)
    /\ UNCHANGED <<conn, tables, target, told, aborts>>

-----------------------------------------------------------------------------

\* The process dies, or a statement fails and `?` returns: the request is gone,
\* what it committed stays, nothing picks it up again.
Abort(w) ==
    /\ pc[w] # "idle"
    /\ aborts < MaxAborts
    /\ aborts' = aborts + 1
    /\ Return(w)
    /\ UNCHANGED <<conn, tables, published, target, told>>

ReceiveStep(w) ==
    \/ ReceiveClaim(w) \/ ReceiveReread(w) \/ ReceiveMap(w)
    \/ ReceiveMark(w) \/ ReceivePublish(w)

RetryStep(w) ==
    \/ RetryList(w) \/ RetryMap(w) \/ RetryDone(w) \/ RetryMarkMapped(w)
    \/ RetryMarkIgnored(w) \/ RetryMarkFailed(w) \/ RetryPublish(w)

Admin(c) ==
    \/ RegisterConnector(c)
    \/ \E s \in {"active", "inactive"} : SetConnectorStatus(c, s)
    \/ SetConnectorDeleted(c)

Next ==
    \/ \E c \in Connectors : Admin(c)
    \/ \E w \in Workers, c \in Connectors, k \in Keys, x \in ExternalIds :
         ReceiveGate(w, c, k, x)
    \/ \E w \in Workers, c \in Connectors : RetryGate(w, c)
    \/ \E w \in Workers : ReceiveStep(w) \/ RetryStep(w) \/ Abort(w)

Spec == Init /\ [][Next]_vars

\* A request that is running goes on; nobody is obliged to send one.
Fairness == \A w \in Workers : WF_vars(ReceiveStep(w) \/ RetryStep(w))
FairSpec == Spec /\ Fairness
=============================================================================
