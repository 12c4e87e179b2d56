--------------------------- MODULE GuardedHubProps ---------------------------
(***************************************************************************)
(* What must hold of the hub behind its HTTP surface, by surface.          *)
(***************************************************************************)
EXTENDS GuardedHub

production == surface # "all"

\* Whatever is created, renamed, trashed or purged through any surface, a business
\* action has one row: the unique index counts soft-deleted events as well.
OneRowPerSlot == \A i, j \in Live : ActionOf(i) = ActionOf(j) => i = j

\* The second layer of the dedup: even after an operator purged the ledger row and
\* the provider delivered the event again, the target applies the action once.
AppliedOnceDespitePurge == \A a \in Actions : applied[a] <= 1

\* No event outlives its connector: neither a purge that races an inbound event
\* between gate and claim nor an emptied trash leaves a row without its connector.
EventsKeepTheirConnector == \A i \in Live : Known(rows[i].conn)

\* guarded_routes: "a caller cannot bypass the dedup/map state machine through this
\* surface".  On the production surfaces the events follow the hub's lifecycle
\* whatever operators do to the connectors; on the full surface nothing is claimed.
RowOf(a) == CHOOSE i \in Live : ActionOf(i) = a
Seen(a) == production /\ \E i \in Live : ActionOf(i) = a
Promised == INSTANCE EventLifecycle
    WITH status <- [a \in Actions |-> IF Seen(a) THEN rows[RowOf(a)].status ELSE "unseen"],
         announced <- [a \in Actions |-> IF Seen(a) THEN staged[RowOf(a)] ELSE NoneStaged]
GuardedLifecycle == Promised!LSpec

-----------------------------------------------------------------------------
(* What the documents say and the code does not do.                        *)

\* FSD, failure recovery: the report shows "which provider events didn't book (and
\* why)".  An event nobody is working on any more has settled: what the target
\* said of it is on its row.
AnsweredIsSettled ==
    \A i \in Live : production /\ rows[i].status = "received" =>
       \E w \in Workers : cur[w] = i
=============================================================================
