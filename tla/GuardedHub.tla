----------------------------- MODULE GuardedHub -----------------------------
(***************************************************************************)
(* The connector hub behind the module's HTTP surface: the generic CRUD of *)
(* connectors and events (routes, forms, row rules, soft delete, restore   *)
(* and purge) next to the requests of ConnectorHub, on one database with   *)
(* its unique index, its foreign key and its CHECK constraints.  The texts *)
(* of a row are not compared with the lengths those take: a form refused   *)
(* for its texts changes nothing, and what the hub itself binds may fit.   *)
(*                                                                         *)
(* The generic service itself is backbone_core's.  It loads a row, applies *)
(* the caller's form and stores it; the two statements are not one, so     *)
(* what it stores may be older than the row it lands on.  An update that   *)
(* may write any form to any row contains that case, and is one step.      *)
(* Upsert is a create or an update, and the accounts' CRUD is mounted by   *)
(* no router.  Requests stop here where a statement is refused; processes  *)
(* that die are ConnectorHub's (Abort).                                    *)
(***************************************************************************)
EXTENDS ConnectorHub

CONSTANT MaxEdits   \* bounds the event writes of the CRUD surface

ASSUME GuardedAssumption == MaxEdits \in Nat

VARIABLES
    surface,   \* the router the host mounts
    trash,     \* soft-deleted events; their rows keep slot and status
    gone,      \* purged ids of connectors and events: a UUID is not used again
    listed,    \* per worker: the work list as fetch_failed returned it
    edits

guarded == <<vars, surface, trash, gone, listed, edits>>

GuardedTypeOK ==
    /\ TypeOK
    /\ surface \in {"readonly", "guarded", "all"}
    /\ trash \subseteq Live
    /\ gone \subseteq Connectors \cup EventIds
    /\ \A w \in Workers : /\ DOMAIN listed[w] \subseteq EventIds
                          /\ \A i \in DOMAIN listed[w] : listed[w][i] \in Actions
    /\ edits \in 0..MaxEdits

GuardedInit ==
    /\ Init
    /\ surface \in {"readonly", "guarded", "all"}
    /\ trash = {} /\ gone = {}
    /\ listed = [w \in Workers |-> <<>>]
    /\ edits = 0

-----------------------------------------------------------------------------
(* The routers.                                                            *)

AllCrudRoutes  == [connector |-> {"read", "write"}, event |-> {"read", "write"}]
ReadonlyRoutes == [connector |-> {"read"}, event |-> {"read"}]

\* Mutation: the events' write routes are mounted with the rest.
GuardedWithWrites == AllCrudRoutes

GuardedRoutes  == [connector |-> {"read", "write"}, event |-> {"read"}]

Routes == CASE surface = "all" -> AllCrudRoutes
            [] surface = "guarded" -> GuardedRoutes
            [] surface = "readonly" -> ReadonlyRoutes

\* The endpoints of the two groups; only the write group changes a row.
ConnectorWrites == IF "write" \in Routes.connector
                   THEN {"create", "bulk", "upsert", "update", "patch", "soft_delete",
                         "restore", "purge", "empty"}
                   ELSE {}
EventWrites == IF "write" \in Routes.event
               THEN {"create", "bulk", "upsert", "update", "patch", "soft_delete",
                     "restore", "purge", "empty"}
               ELSE {}

-----------------------------------------------------------------------------
(* The texts of an event.                                                  *)

\* What the ck_integration_events_* constraints may say of the texts a statement
\* binds: a provider, and a target's reason, write as much as they like.
ChecksPass == BOOLEAN

-----------------------------------------------------------------------------
(* The connectors' CRUD.                                                   *)

ConnectorStatuses == {"active", "inactive"}
unedited == <<surface, trash, listed, edits>>

\* A patch: fields by name, some unknown, some with a value of the wrong type.
ConnectorPatches == {<<>>} \cup [{"status"} -> ConnectorStatuses \cup {"garbage"}]
                           \cup [{"deleted"} -> BOOLEAN]

ApplyUpdateConnector(r, form) == [r EXCEPT !.status = form.status]
ApplyPatchConnector(r, p) ==
    IF "status" \in DOMAIN p /\ p["status"] \in ConnectorStatuses
    THEN [r EXCEPT !.status = p["status"]]
    ELSE r

\* Create and bulk create: fresh ids, the status the form names.  A form that the row
\* rules or a CHECK refuses changes nothing, here and below, and is no step.
CreateConnectors(C) ==
    /\ "bulk" \in ConnectorWrites
    /\ C # {} /\ C \cap gone = {}
    /\ \A c \in C : ~Known(c)
    /\ \E s \in ConnectorStatuses :
         conn' = [c \in Connectors |->
                     IF c \in C THEN [status |-> s, deleted |-> FALSE] ELSE conn[c]]
    /\ UNCHANGED <<hub, unedited, gone>>

\* PUT and PATCH.  The row may have been trashed since it was loaded; whether the
\* loaded deleted_at is then stored again is the library's choice.
UpdateConnector(c) ==
    /\ "update" \in ConnectorWrites
    /\ Known(c)
    /\ \E del \in {conn[c].deleted, FALSE},
          r \in {ApplyUpdateConnector(conn[c], [status |-> s]) : s \in ConnectorStatuses}
                  \cup {ApplyPatchConnector(conn[c], p) : p \in ConnectorPatches} :
         conn' = [conn EXCEPT ![c] = [r EXCEPT !.deleted = del]]
    /\ UNCHANGED <<hub, unedited, gone>>

\* DELETE and restore.
TrashConnector(c) ==
    /\ "soft_delete" \in ConnectorWrites
    /\ SetConnectorDeleted(c)
    /\ UNCHANGED <<unedited, gone>>

\* Mutation: trashed events do not count as references.
UnreferencedByActive(c) == \A i \in Live \ trash : rows[i].conn # c

\* fk_integration_events_connector_id: any row refers, trashed or not.
Unreferenced(c) == \A i \in Live : rows[i].conn # c

\* Permanent delete of a trashed connector, or of the whole trash at once.
PurgeConnectors(C) ==
    /\ "purge" \in ConnectorWrites
    /\ C # {}
    /\ C = {c \in Connectors : Known(c) /\ conn[c].deleted} \/ Cardinality(C) = 1
    /\ \A c \in C : Known(c) /\ conn[c].deleted /\ Unreferenced(c)
    /\ conn' = [c \in Connectors |->
                   IF c \in C THEN [status |-> "absent", deleted |-> FALSE] ELSE conn[c]]
    /\ gone' = gone \cup C
    /\ UNCHANGED <<hub, unedited>>

-----------------------------------------------------------------------------
(* The events' CRUD, mounted by all_crud_routes only.                      *)

others == <<conn, published, effect, applied, told, pc, req, cur, todo, ans, aborts,
            surface, listed>>

Edit ==
    /\ edits < MaxEdits
    /\ edits' = edits + 1

\* Every column is the caller's; the reference and error columns, which no step
\* reads, take one value each.
EventForms == {f \in Row : f.ref = None /\ ~f.err}
EventPatches ==
    [{"status"} -> Statuses \cup {"garbage"}] \cup [{"business_key"} -> Keys]
      \cup [{"connector_id"} -> Connectors] \cup [{"metadata"} -> {"garbage"}]

NewEvent(form) == form
ApplyUpdateEvent(r, form) ==
    [r EXCEPT !.conn = form.conn, !.key = form.key, !.ext = form.ext,
              !.status = form.status, !.ref = form.ref, !.err = form.err]

\* A known field takes a value of its type; anything else is passed over.
ApplyPatchEvent(r, p) ==
    CASE "status" \in DOMAIN p /\ p["status"] \in Statuses -> [r EXCEPT !.status = p["status"]]
      [] "business_key" \in DOMAIN p -> [r EXCEPT !.key = p["business_key"]]
      [] "connector_id" \in DOMAIN p -> [r EXCEPT !.conn = p["connector_id"]]
      [] OTHER -> r

\* Mutation: the unique index leaves trashed rows out.
SlotFreeOfActive(i, r) == \A j \in Live \ ({i} \cup trash) : ~SameSlot(rows[j], r)

\* idx_integration_events_connector_id_business_key, trashed rows included.
SlotFree(i, r) == \A j \in Live \ {i} : ~SameSlot(rows[j], r)

\* A row the index or the foreign key refuses is not stored.
StoreEvent(i, r) ==
    /\ SlotFree(i, r) /\ Known(r.conn)
    /\ rows' = [rows EXCEPT ![i] = r]

CreateEvent(i) ==
    /\ "create" \in EventWrites /\ Edit
    /\ i \in EventIds \ (Live \cup gone)
    /\ \E form \in EventForms : StoreEvent(i, NewEvent(form))
    /\ UNCHANGED <<others, staged, trash, gone>>

UpdateEvent(i) ==
    /\ "update" \in EventWrites /\ Edit
    /\ i \in Live
    /\ \/ \E form \in EventForms : StoreEvent(i, ApplyUpdateEvent(rows[i], form))
       \/ \E p \in EventPatches : StoreEvent(i, ApplyPatchEvent(rows[i], p))
    /\ UNCHANGED <<others, staged, trash, gone>>

\* DELETE and restore.
TrashEvent(i) ==
    /\ "soft_delete" \in EventWrites
    /\ i \in Live
    /\ trash' = IF i \in trash THEN trash \ {i} ELSE trash \cup {i}
    /\ UNCHANGED <<others, tables, gone, edits>>

\* Permanent delete of one trashed event or of all; the outbox keeps its records.
PurgeEvents(I) ==
    /\ "purge" \in EventWrites /\ Edit
    /\ I # {} /\ I \subseteq trash
    /\ I = trash \/ Cardinality(I) = 1
    /\ rows' = [i \in EventIds |-> IF i \in I THEN None ELSE rows[i]]
    /\ trash' = trash \ I
    /\ gone' = gone \cup I
    /\ UNCHANGED <<others, staged>>

-----------------------------------------------------------------------------
(* The hub's requests over the same tables.  A statement that a constraint *)
(* refuses is an error that `?` returns: the request ends where it is.     *)

quiet == <<surface, trash, gone, edits>>
Unlisted(w) == listed' = [listed EXCEPT ![w] = IF pc'[w] = "idle" THEN <<>> ELSE @]

Refused(w) ==
    /\ Return(w)
    /\ UNCHANGED <<conn, tables, published, target, told, aborts>>

\* register_connector; a provider that is blank or too long is refused and no step.
GuardedRegister(c) ==
    /\ c \notin gone
    /\ RegisterConnector(c)
    /\ UNCHANGED <<quiet, listed>>

\* claim_event: the connector may be purged by now, and what the provider sent may
\* not fit its column.
GuardedClaim(w) ==
    /\ pc[w] = "claim"
    /\ \E fits \in ChecksPass :
         IF fits /\ Known(req[w].conn)
         THEN ReceiveClaim(w) /\ \A i \in gone \cap EventIds : rows'[i] = None
         ELSE Refused(w)

\* fetch_one: without a row the duplicate's answer is an error.
GuardedReread(w) ==
    /\ pc[w] = "reread"
    /\ IF \E i \in Live : SameSlot(rows[i], req[w]) THEN ReceiveReread(w) ELSE Refused(w)

\* The mark of an event that was purged changes no row; its announcement is staged
\* all the same.
MarkGone(w) ==
    /\ pc[w] = "mark" /\ cur[w] \notin Live
    /\ staged' = [staged EXCEPT ![cur[w]][ans[w].out] = @ + 1]
    /\ Goto(w, "publish")
    /\ UNCHANGED <<conn, rows, published, target, told, req, cur, todo, ans, aborts>>

\* The target's reason (or reference type) is bound as it came; a text that does
\* not fit fails the CHECK of a row the UPDATE hits.
GuardedMark(w) ==
    /\ pc[w] = "mark"
    /\ IF cur[w] \notin Live THEN MarkGone(w)
       ELSE \E fits \in ChecksPass :
              IF fits \/ rows[cur[w]].status # "received"
              THEN ReceiveMark(w)
              ELSE Refused(w)

GuardedList(w) ==
    /\ RetryList(w)
    /\ listed' = [listed EXCEPT ![w] = [i \in todo'[w] |-> ActionOf(i)]]

\* The retry sends what it listed, whatever the row says by now.
GuardedRetryMap(w) ==
    /\ pc[w] = "retry"
    /\ \E i \in todo[w] :
         /\ cur' = [cur EXCEPT ![w] = i]
         /\ todo' = [todo EXCEPT ![w] = @ \ {i}]
         /\ TargetMap(w, listed[w][i])
    /\ Goto(w, "retrymark")
    /\ UNCHANGED <<conn, tables, published, told, req, aborts>>

\* The retry's UPDATEs, with the same texts: an error ends the run, not the row.
GuardedRetryMark(w) ==
    /\ pc[w] = "retrymark"
    /\ IF cur[w] \notin Live
       THEN Resume(w) /\ UNCHANGED <<conn, tables, published, target, told, aborts>>
       ELSE \E fits \in ChecksPass :
              IF fits \/ ~StillFailed(cur[w])
              THEN RetryMarkMapped(w) \/ RetryMarkIgnored(w) \/ RetryMarkFailed(w)
              ELSE Refused(w)

-----------------------------------------------------------------------------

GuardedReceive(w) ==
    /\ \/ \E c \in Connectors, k \in Keys, x \in ExternalIds : ReceiveGate(w, c, k, x)
       \/ GuardedClaim(w) \/ GuardedReread(w) \/ ReceiveMap(w) \/ GuardedMark(w)
       \/ ReceivePublish(w)
    /\ Unlisted(w) /\ UNCHANGED quiet

GuardedRetry(w) ==
    /\ \/ GuardedList(w)
       \/ /\ \/ \E c \in Connectors : RetryGate(w, c)
             \/ GuardedRetryMap(w) \/ RetryDone(w) \/ GuardedRetryMark(w) \/ RetryPublish(w)
          /\ Unlisted(w)
    /\ UNCHANGED quiet

\* A GET changes nothing.
Read ==
    /\ "read" \in Routes.connector \cap Routes.event
    /\ UNCHANGED <<vars, quiet, listed>>

ConnectorCrud ==
    \/ \E C \in SUBSET Connectors : CreateConnectors(C) \/ PurgeConnectors(C)
    \/ \E c \in Connectors : UpdateConnector(c) \/ TrashConnector(c)

EventCrud ==
    \/ \E i \in EventIds : CreateEvent(i) \/ UpdateEvent(i) \/ TrashEvent(i)
    \/ \E I \in SUBSET EventIds : PurgeEvents(I)

GuardedNext ==
    \/ \E w \in Workers : GuardedReceive(w) \/ GuardedRetry(w)
    \/ \E c \in Connectors : GuardedRegister(c)
    \/ Read \/ ConnectorCrud \/ EventCrud

GuardedSpec == GuardedInit /\ [][GuardedNext]_guarded
=============================================================================
