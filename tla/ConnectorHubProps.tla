-------------------------- MODULE ConnectorHubProps --------------------------
(***************************************************************************)
(* What must hold of the connector hub, and the mutations of the code that *)
(* each statement would catch.                                             *)
(***************************************************************************)
EXTENDS ConnectorHub

\* Two notifications of one business action never make two rows, however many
\* requests race past the gate: the claim of receive_event is the dedup.
OneRowPerAction ==
    \A i, j \in Live : ActionOf(i) = ActionOf(j) => i = j

\* The target carries a business action out at most once, through every
\* redelivery, lost answer, abort and concurrent retry of the same failed row.
AppliedAtMostOnce == \A a \in Actions : applied[a] <= 1

\* The outbox tells the story of the row: nothing is staged for a row that is
\* only received, a mapped row has exactly one IntegrationEventMapped and any
\* other row none, a failed row exactly one IntegrationEventFailed.
OutboxMatchesRow ==
    \A i \in Live :
       /\ rows[i].status = "received" => staged[i] = NoneStaged
       /\ staged[i]["mapped"] = IF rows[i].status = "mapped" THEN 1 ELSE 0
       /\ rows[i].status = "failed" => staged[i]["failed"] = 1
       /\ staged[i]["failed"] <= 1
       /\ staged[i]["ignored"] <= 1
       /\ staged[i]["ignored"] = 1 => rows[i].status = "ignored"

\* mark_mapped, mark_ignored and mark_failed do not look at how many rows they
\* changed: a request between its claim and its mark owns the only row it can
\* hit, which is still 'received', and no other request is marking it.
MarkHitsItsRow ==
    \A w \in Workers : pc[w] \in {"map", "mark"} =>
       /\ cur[w] \in Live
       /\ rows[cur[w]].status = "received"
       /\ \A v \in Workers \ {w} : pc[v] \in {"map", "mark"} => cur[v] # cur[w]

\* The in-process sink only ever sees what the outbox holds: a publish follows
\* the commit, so losing it loses nothing and no subscriber acts on a rollback.
PublishedWasStaged ==
    \A p \in published : staged[p[1]][p[2]] > 0

\* What a caller of receive_event was told of a settled event (first delivery or
\* duplicate) is still what the ledger says.
AnswersStand ==
    \A t \in told : t.status \in {"mapped", "ignored"} =>
       rows[t.id].status = t.status /\ rows[t.id].ref = t.ref

\* The columns agree with the status: a mapped row carries its reference and no
\* error, a failed or ignored one carries its reason and no reference.
RowDetail ==
    \A i \in Live :
       /\ (rows[i].ref # None) <=> (rows[i].status = "mapped")
       /\ rows[i].err <=> (rows[i].status \in {"failed", "ignored"})

\* No step of any request changes a row that is mapped or ignored: a retry that
\* read it as failed and answers late finds its guard closed.
SettledIsFinal ==
    [][\A i \in Live : rows[i].status \in {"mapped", "ignored"} => rows'[i] = rows[i]]_vars

\* A received event settles: the request that claimed it marks it.  Only a request
\* that died half way may leave an event received for good (see Abort).
ReceivedSettles ==
    \A i \in EventIds :
       LET waiting == i \in Live /\ rows[i].status = "received"
       IN waiting ~> (~waiting \/ aborts > 0)

\* Every request returns; in particular a retry run over rows that keep failing
\* ends instead of trying them again.
RequestsReturn == \A w \in Workers : (pc[w] # "idle") ~> (pc[w] = "idle")

\* The hub implements the lifecycle promised of each business action.
StatusOf(a) ==
    IF \E i \in Live : ActionOf(i) = a
    THEN rows[CHOOSE i \in Live : ActionOf(i) = a].status
    ELSE "unseen"
AnnouncedOf(a) ==
    IF \E i \in Live : ActionOf(i) = a
    THEN staged[CHOOSE i \in Live : ActionOf(i) = a]
    ELSE NoneStaged
Lifecycle == INSTANCE EventLifecycle
               WITH status <- [a \in Actions |-> StatusOf(a)],
                    announced <- [a \in Actions |-> AnnouncedOf(a)]
ImplementsLifecycle == Lifecycle!LSpec

\* A mapped row refers to the record made for its own business action, never to
\* that of another key, whichever request, delivery or retry mapped it.  Within one
\* connector: two connectors that use the same business key share the target's
\* record, since the idempotency key is the business key alone.
MappedToItsOwnRecord ==
    \A i \in Live : rows[i].status = "mapped" => rows[i].ref = ActionOf(i)

\* The gate is read once per request: events admitted before the connector was
\* switched off or deleted still go through, and after them none.
Receiving(w, c) ==
    /\ pc[w] \in {"claim", "reread", "map", "mark", "publish"}
    /\ req[w].conn = c
Closed(c) == conn[c].status # "active" \/ conn[c].deleted
ClosedFallsSilent ==
    \A c \in Connectors : <>[]Closed(c) => <>[](\A w \in Workers : ~Receiving(w, c))

-----------------------------------------------------------------------------
(* What the documents say of it, and the code does not do.  (That a mapped *)
(* row has a record of its own, above, is said of several connectors too.) *)

\* "ignored (no internal action needed, e.g. a "pending" notification) +
\* IntegrationEventIgnored [...] The lifecycle event is staged in the same tx as the
\* status update" (BRD, BR-3): no row is ignored without its announcement.
IgnoredIsAnnounced ==
    \A i \in Live : rows[i].status = "ignored" => staged[i]["ignored"] = 1

\* "Only an active connector processes events." (BRD, BR-1): once a connector stays
\* closed and the requests that slipped through are done, no more events of it go to
\* the target, in a retry as little as in a delivery.
Sending(w, c) == pc[w] \in {"map", "mark", "retrymark"} /\ req[w].conn = c
ClosedProcessesNothing ==
    \A c \in Connectors : <>[]Closed(c) => <>[](\A w \in Workers : ~Sending(w, c))
=============================================================================
