# backbone-integrations in TLA+

The integrations module receives notifications of external providers, dedups
them, hands each to the module it is meant for and keeps a ledger of the result;
and it connects mail and calendar accounts through OAuth and refreshes their
credentials before they expire. These modules model both halves as the code has
them, check them with TLC on small instances and prove their safety with TLAPS
for instances of any size.

Paths below are relative to the repository.

## 1. The system

| Component | Code | State | Operations |
|---|---|---|---|
| Connector hub | `src/application/service/integrations_write_service.rs`, the two repositories under `src/infrastructure/persistence/` | `integration_connectors`, `integration_events`, the outbox | `register_connector`, `receive_event`, `failures`, `retry_failed` |
| Connector admin | `src/lib.ext.rs` (`guarded_routes`), the generated CRUD of connectors | status and `deleted_at` of connectors | create, bulk create, update, patch, upsert, soft delete, restore, purge, empty trash |
| Event CRUD | `src/lib.rs` (`all_crud_routes`), the generated CRUD of events | `integration_events` | the same on events; not mounted by the production routers |
| Row rules and constraints | `integration_connector_service.rs`, `integration_event_service.rs`; `migrations/20260911*` | none | guard a form before it is stored; CHECK, unique index and foreign key behind it |
| Outbox and event sink | `integrations_events.rs`, `stage` of the write service | outbox records; none in the sink | stage in the transaction, publish after it |
| Target port | `integrations_ports.rs` | none here; the target's own records | `map` with an idempotency key |
| OAuth flow | `integrations_oauth.rs` | `integration_accounts` | `authorize`, `callback_page`, `complete`, `disconnect`, `status` |
| State signer, PKCE, nonce | `integrations_oauth.rs` | the signed state (at the client), `pkce_verifier` (on the row) | mint, verify |
| Identity gauntlet | `integrations_oauth.rs` | none | audience, nonce and e-mail match |
| Credential store port | `integrations_oauth_ports.rs` | one credential per (company, provider, account_ref), elsewhere | `issue`, `read_token`, `rotate`, `revoke` |
| Refresh | `src/infrastructure/jobs/refresh_oauth_credentials.rs`; `refresh_due` and `ensure_fresh` of the flow | the account rows, row locks | claim, read, exchange, rotate, mirror, expire |
| Endpoint guard, transport | `src/infrastructure/http/endpoint_guard.rs` | provider registry | validate, resolve, exchange, fetch identity |
| OAuth HTTP surface | `src/presentation/http/oauth_handler.rs` | none | permission, parsing, error mapping |
| Other generated code, wiring, seeders | `src/domain`, `src/presentation/dto`, `src/exports`, `src/seeders`, `src/lib.rs` | none of its own | |

How they interact. A webhook handler calls `receive_event`, which reads the
connector, claims a row (`INSERT ... ON CONFLICT DO NOTHING`), calls the target,
and marks the row and stages the outbox record in one transaction; then it
publishes. `retry_failed` reads the failed rows once and takes each to the target
again. The OAuth flow writes two places that have no common transaction: the
credential store through its port, and the account row. The refresh job and the
service's own refresh claim account rows with `FOR UPDATE SKIP LOCKED`, and hold
the lock across the provider's and the store's calls.

What is hard. Requests interleave at every await; a request may die between any
two; the target's or the provider's answer may be lost after it acted; the claim,
the list of failed rows and the `pending` check are all older than the write they
lead to; the batch, the due window and the schedule must fit each other. Operators
edit, trash and purge connectors (and, on the full surface, events) between the
steps of a request, and a text the target or the provider sent may not fit the
column it is bound to.

What makes each part correct:

- hub: one row per business action whatever is delivered how often; the action
  carried out at most once; row, outbox, sink and the answers given to callers
  tell one story; settled rows stay settled; received rows settle;
- administration: no edit, trash or purge breaks dedup or leaves an event without
  its connector; the production routers cannot bypass the hub's state machine; a
  connector that stays closed falls silent;
- OAuth flow: one account per scope; an authorization completes at most once; an
  active account has its credential in the store; a disconnected one is closed
  and its credential dead; final states are final;
- request and gauntlet: only the permitted caller reaches rows, provider or
  store, and only a bundle whose subject was proven is stored;
- endpoint guard: a faulty configuration gives no service, at build time and not
  later; codes, tokens and
  client secrets go to hosts of their provider only, at public addresses;
- refresh: no two runners on one account; a disconnect is not undone; the mirror
  never runs late; nobody is sent to reconnect who could have been refreshed;
  accounts that cannot be served do not starve those that can.

## 2. The modules

| Module | What it is |
|---|---|
| `ConnectorHub` | the hub, its admin switches and the target behind the port |
| `EventLifecycle` | abstract: what the hub promises of one business action |
| `ConnectorHubProps` | the hub's properties and the refinement of `EventLifecycle` |
| `ConnectorHubProofs` | theorems about the hub, the refinement among them |
| `GuardedHub` | the hub behind the module's routers: CRUD of connectors and events, the database's constraints; extends `ConnectorHub` |
| `GuardedHubProps` | its properties by router, and a second refinement of `EventLifecycle` |
| `GuardedHubProofs` | theorems about the hub behind its routers; builds on `ConnectorHubProofs` |
| `CredentialStore` | operators for one cell of the store: the port's verbs and codes |
| `OAuthFlow` | authorize, complete and disconnect over accounts and store |
| `AccountLifecycle` | abstract: the life of an account |
| `OAuthFlowProps` | the flow's properties and the refinement of `AccountLifecycle` |
| `OAuthFlowProofs` | theorems about the flow: overlapping calls, the refinement, calls that do not overlap |
| `OauthRequest` | one request on the OAuth surface: auth layer, permission, body, gauntlet, HTTP answer; with its properties |
| `OauthRequestProofs` | theorems about a request |
| `EndpointGuard` | configuration, endpoint rules, resolution check and outbound call; with its properties |
| `EndpointGuardProofs` | theorems about the outbound call, and lemmas about zones and addresses |
| `RefreshSweep` | the job, `refresh_due` and `ensure_fresh` over accounts, store, provider |
| `RefreshSweepProps` | its properties |
| `RefreshSweepProofs` | theorems about locks, final states, revocation and the mirror |
| `RefreshScheduleProofs` | theorems about the schedule: no false expiry |
| `MCConnectorHub`, `MCGuardedHub`, `MCOAuthFlow`, `MCRefreshSweep`, `MCOauthRequest`, `MCEndpointGuard` | symmetry sets and definitions for the configurations |

Definitions marked "Mutation" are not part of the specifications: each is a
plausible bug in the definition that follows it, used to see that a property
notices it (`PROJECT.json`, "mutants").

### ConnectorHub

A *worker* is one request in flight; `pc` says which await it is at, `req`, `cur`,
`todo` and `ans` are its local variables. `conn` and `rows` are the tables,
`staged` the outbox (records per event and kind), `published` what the sink got.
`effect` and `applied` belong to the target: its records by idempotency key, and
how often it carried each business action out. `told` collects what callers were
answered.

`receive_event` is `ReceiveGate`, `ReceiveClaim`, (`ReceiveReread` for a
duplicate, or) `ReceiveMap`, `ReceiveMark`, `ReceivePublish`. The mark is one step
because UPDATE and stage share a transaction; like the code, it stages without
looking at how many rows the UPDATE changed. `retry_failed` is `RetryGate`,
`RetryList`, then per row `RetryMap` and one of `RetryMarkMapped`,
`RetryMarkIgnored`, `RetryMarkFailed`, with `RetryPublish` after a mapping.
`Abort` is a process that dies or a statement whose error `?` returns. Calls
refused before their first write are not steps: they change nothing.

Business keys, ids and references are model values. The reference the target
returns is the action its record was made for, which is what
`MappedToItsOwnRecord` needs to tell records apart. The target is external: the
model gives it the contract the port states (once per key), and lets every answer
be lost after it acted. It answers Ignored only for a key it has no record of.

### GuardedHub

The same tables under the routers of `lib.rs` and `lib.ext.rs`. `surface` is the
router the host mounts, chosen once: `readonly_routes`, `guarded_routes` or
`all_crud_routes`; `ConnectorWrites` and `EventWrites` are what it lets through.
`trash` holds the soft-deleted events (a connector's flag is `conn[c].deleted`),
`gone` the purged ids, which are UUIDs and not used again, `listed` the rows a retry
read, so that it sends what it listed even when the row has been edited since.

The generic service is the framework's and external. It loads a row, applies the
form, asks the row rules and stores; since load and store are two statements, the
store may overwrite something newer. The model's update may write any form to any
row in one step, which contains every such result. The unique index (`SlotFree`) and
the foreign key (`Known`, `Unreferenced`) are the database's; the texts of the row
rules and of the CHECK constraints are abstracted: a text passes or it does not
(`ChecksPass`), and a form that does not pass changes nothing. Whether the two texts
agree, limit for limit, is a question about the texts and not asked here. Upsert is a
create or an update, and a bulk create of events several creates.

The hub's requests are those of `ConnectorHub` with what the constraints can do to
them: `GuardedClaim` is refused when the connector has been purged since the gate or
a column does not take the provider's text, `GuardedMark` and `GuardedRetryMark`
when `error_detail` or `mapped_ref_type` does not take the target's, and a purged
event's mark hits nothing (`MarkGone`). A refusal is an error that `?` returns
(`Refused`): the request, or the whole retry run, ends there.

### OAuthFlow

A *call* is one request; each statement and each port call is a step. A scope is
(provider, account_ref). `authorize` is a transaction of two statements:
`AuthorizeDelete` sees the scope's rows and locks them (`Locked`: other writers of
these rows wait), `AuthorizeInsert` inserts and commits. With `UniqueScope` the
deployment's decorator declares the scope unique, and an insert next to a row the
DELETE did not see fails; without it nothing does, as in the module's own
migrations. `complete` is `CompleteVerify`, `CompleteReadVerifier`,
`CompleteExchange` (which may refuse: provider before the code is spent, missing
`expires_in` and gauntlet after it),
`CompleteCarry`, `CompleteIssue`, `CompleteRotate`, `CompleteActivate`;
`disconnect` is `DisconnectFetch`, `DisconnectRevoke`, `DisconnectClose`.
`Fail` is a statement the database fails: the caller is answered `Db`, a refusal like
any other; `Abort` is a process that dies, and nobody is answered. `SweepExpire`
stands for what the refresh may do to a row. A signed state cannot be forged, so it is its account's
`minted` expiry. All providers of the registry use PKCE.

`accounts`, `minted`, `store` and `now` are state of the system; `storedFor`,
`completed`, `disconnected`, `wrote` and `spent` are history for the properties.

### RefreshSweep

A *runner* is a run of the job (`Jobs`) or of the service's `refresh_due` and
`ensure_fresh` (`Services`). `lock` holds the row locks; a claimed account is
`Read`, `Exchange`d, `Rotate`d and `Mirror`ed, and every way out commits or rolls
back and releases the lock (`Settle`, `Skip`, `Expire`, `Fail`). Where the two
variants differ the action says `r \in Jobs` or `r \in Services`: the order of
the configuration check, the stale-mirror shortcut, the exclusion of attempted
accounts, and what a failed rotation does. `ensure_fresh` claims by id after a
read of its own.

The provider is external: `grant` is the refresh token it accepts, replaced on use
for `Rotating` accounts. A lost request or answer is a `Glitch`; an account in
`Flaky` has a provider that may answer an error at any time, one in `Unconfigured`
a provider the deployment has no usable configuration for. The store knows an
account only under the company that connected it (`CellFor`); the claim has no
company predicate, as in the code, and a disconnect under another company closes
the row without reaching the credential (`DisconnectRevoke`). The runs have one
company: what is claimed is claimed for a deployment whose callers name the right
one (section 3 says what a second one does).

`Tick` respects the schedule: a run of each job is over at most `Interval` after
the run before it began. This is the assumption under which timeliness is
claimed; `Crash`ed and failed runs do not count as runs.

### OauthRequest

`stage` walks one request through `require_principal`, the handler's permission,
`parse_form_complete` or the JSON body, and the service to the status of
`IntoResponse for OauthError`. What other requests do to the rows meanwhile is a
nondeterministic outcome of each statement; `OAuthFlow` has the rows. `complete`
is taken apart at the gauntlet: the claims of the identity endpoint and of the
id_token are any combination of ours, ours in another case, somebody else's and
missing, `DecodeIdToken` gives up at a missing audience, `MergeClaim` compares
without regard to case, and the comparison with the client id and the nonce is
exact. The properties do not look through these operators: `ReadsOf` is what the two
sources themselves say. `touched` records what the request has written or called. A form body is a
sequence of pairs, of which only the key, the presence of `=` and emptiness are
kept; percent decoding cannot make a value empty that was not.

### EndpointGuard

`config` is what a deployment configures: overrides per provider and key, where the
provider may be any name (`ConfigKeys`), registered or not, the source of the signing key, the public base, the clients, and whether the builder
was given a configuration and a store at all. `BuildModule` and `Build` end in a
service, in none, or in a refusal. An outbound call is `Begin` (`endpoints_for`),
`Revalidate` (against the transport's own registry, which may lack the provider),
`Resolve`, `Send` and `Answer`. Between `Resolve` and `Send` the name may be
pointed elsewhere (`DnsMoves`): the client looks it up again, and the code keeps
nothing of the first answer. A host is the sequence of its labels, an address its
first 16 bits and what is special about the rest, so that the masks of
`ipv4_is_public` and `ipv6_is_public` are the arithmetic of the code.
`PublicUnlessMoved` compares them with the ranges written as intervals, the broadcast
address among them, and `SecretsStayHome` asks who owns the host, not what the allowlist says.

## 3. The runs

Two workers of TLC check each in less than five minutes.

| Run | What it asks | Bounds | Result |
|---|---|---|---|
| `hub_safety` | dedup, ledger, outbox, answers, records | 2 requests, 2 business keys, 2 notification ids, 2 rows, 1 abort | holds, 2.5 million states |
| `hub_live` | settling, returning, closed connectors, refinement of `EventLifecycle` | 2 requests, 1 key, 2 notification ids, 1 abort | holds |
| `hub_guarded` | the hub behind each router while operators edit, trash and purge | 1 request, 2 connectors, 1 key, 2 rows, 1 event write (trash and restore unbounded) | holds, 744 thousand states |
| `hub_long_reason` | does every answered event settle? | 1 request, 1 connector, 1 key | violated |
| `oauth_safety` | overlapping calls with a unique index; no verifier outlives its authorization; refinement of `AccountLifecycle` | 2 calls, 1 scope, 2 authorizations, 1 abort or failed statement, time 0..2 | holds, 560 thousand states |
| `oauth_serial` | calls that do not overlap, without the index | 1 call, 3 authorizations, 2 aborts or failed statements, time 0..3 | holds, 892 thousand states |
| `oauth_revoked_live` | is a revoked account's credential dead? | 2 calls | violated |
| `oauth_request` | who may touch what, and what the gauntlet lets through | every principal and verb, bodies of up to 3 pairs of 6 kinds, every combination of claims | holds |
| `endpoint_guard` | where outbound calls can end up, and when a bad endpoint is refused | 2 registered providers and 1 other, up to 2 overrides of 15 URLs, 26 answers of the resolver, one change of DNS per call | holds, 5.9 million states |
| `sweep_safety` | claims, final states, mirror | job, service and disconnects on 1 account, 1 glitch, 1 crash, withdrawn consent | holds |
| `sweep_timely` | false expiry, and service to every due account when the batch binds | 1 job, 3 accounts, one of them stuck, batch 2, interval 2, window 5 | holds, 1.65 million states |
| `sweep_gap` | false expiry when the interval exceeds the window | 1 job, 1 account | violated |

`TypeOK` is checked and proved for the hub. In the flow, the refresh and the hub behind
its routers it is proved (`Typed`, `SweepTyped`, `GuardedTyped`), and the runs are spent
on the other properties; in the request and the endpoint guard it declares the ranges
of the variables, of which `RequestInv` and `GuardInv` prove what they need.

Why the bounds are enough. Every race of the hub is between two requests on one
row; the second key gives the retry a list in which rows differ in age. Two row
ids are enough for dedup to fail. Behind the routers what races is an operator and
one request: two connectors let an event be moved from one to the other while
either is purged, and one event write between any two steps of the request contains
the edit that invalidates what the request knows; two rows are one purged and one
claimed anew. `GuardedHub` has no crash, since `ConnectorHub` has them. In the OAuth flow what races is one scope's row
and cell: two calls, and a second authorization to replace the first; the serial
run needs a third for a cell left over from two earlier ones. The refresh locks
one row at a time, so two runners and one account contain its races, and a second
account is needed only for the batch: three accounts, one of them stuck and all due
in one run, are the smallest case in which a batch of two leaves somebody out. A form body needs three pairs for a repeated
key beside the other one. The URLs have one fault for each rule and a host on each
side of the allowlist; two overrides put a good and a bad one side by side. The
addresses are the first and last of each masked range and their neighbours. Times are in units that keep the order
of window, interval, lifetime and expiry; `MaxTime` lets an account be refreshed
and come due again. Symmetry is used where every property of the run is an
invariant or an action property, over sets no definition tells apart. `hub_guarded`
also leaves out of a state's identity (VIEW `Unheard`) what callers were told and
what was published: no step and no property of that run reads either.

Deadlock is checked in all runs but `endpoint_guard`, where a configuration that was
refused, or none at all, is the end: a state without a step would be everyone
waiting for everyone. In `hub_guarded` a GET is always possible, so there the check
says nothing.

Fairness. `hub_live` assumes that a running request goes on (weak fairness of its
steps): tokio polls it until it ends. Nobody is obliged to send one. `Abort` stays
possible, so `ReceivedSettles` says what a crash may cost: nothing resumes a row
whose request died, since redelivery finds a duplicate and `retry_failed` looks
for failed rows only. `sweep_timely` assumes for `HealthyServed` that the schedule keeps starting runs
(`schema/hooks/index.hook.yaml`, every 15 minutes) and that a run goes on. There is
no fairness on lost answers, the provider, users or the clock.

### What the violated runs show

1. `hub_long_reason`: the target's message is bound to `error_detail` as it came,
   inside the transaction that marks the row and stages the event. The column takes
   1000 characters; a longer message fails the transaction and the row stays
   `received`: a redelivery is a duplicate, and the failure report and the retry
   look for `failed`. (The reference type of a mapped event, 60 characters, does
   the same.)
2. `oauth_revoked_live`: `complete` passes its check, `disconnect` revokes,
   `complete` stores, `disconnect` closes the row. The account is revoked, its
   credential live. Calls that do not overlap never end there (`oauth_serial`).
   `MirrorIsStore`, too, is claimed for calls that do not overlap: of two completions
   of one authorization the store keeps the bundle of the last, the row the expiry of
   the first.
3. `sweep_gap`: the window defaults to 600 s, the schedule is 15 minutes. A
   credential that expires in the gap is never due while it can still be read, and
   an unreadable one expires the account although its refresh token is good. With a
   window longer than the interval this does not happen (`sweep_timely`).

### What the documents say and the models refute

These statements are definitions of the modules (sections "What the documents say"),
or properties of a run that need the run's limits. TLC refutes each; none is an
INVARIANT or a PROPERTY of a run here. To see the trace, make the change named to a
copy of the configuration named, with the definition as the only property.

| Definition | Configuration and change | What happens |
|---|---|---|
| `RejectionWritesNothing` | `oauth_revoked_live`, property | A re-authorization replaces the pending row while its completion is in flight. The completion issues or rotates and then finds no row to activate: it is refused, and the credential of the scope is its own. With `MaxAborts = 1` a failing activation (`Fail`) does the same without any overlap. `integrations_oauth.rs:131`: "Every rejection path leaves ZERO writes". `RefusalLeavesStore` is what a single request keeps until it reaches the store. |
| `VerifierSingleUse` | `oauth_revoked_live`, property, one call | The exchange spends code and verifier, the gauntlet refuses, the row keeps the verifier; the next completion sends it again. `integrations_oauth.rs:230`: "consumed by exactly one exchange, then cleared". `VerifierOnlyWhilePending` holds: no verifier outlives the pending status. |
| `RefreshTokenKept` | `oauth_revoked_live`, property, one call, `MaxTime = 2`, `StateTTL = 2` | The credential has run out, so that `read_token` fails, the provider sends no refresh token, and the rotation replaces a credential that had one. `integrations_oauth.rs:678`: "carry the prior one forward". |
| `ReadsAgree` | `oauth_request`, invariant, `MaxPairs = 1` | An id_token without an audience is dropped whole (`DecodeIdToken`); the nonce it names, another authorization's, is not compared with the identity endpoint's. `integrations_oauth.rs:1101`: "Sources, cross-checked when both exist". |
| `OverridesInForce` | `endpoint_guard`, invariant | Overrides are a map over any string, and `build` resolves the registry's providers. An override under a mistyped key is neither validated nor used nor refused. `endpoint_guard.rs:15`: "every endpoint override arriving from configuration passes" validation. `NoLateRefusal` holds: what is used has been refused at build time or not at all. |
| `IgnoredIsAnnounced` | `hub_safety`, invariant, one of each constant | `retry_failed` answers Ignored with a plain UPDATE, without outbox record and publish. `docs/BRD.md:24`: "staged in the same tx as the status update". `EventLifecycle` has it as `Dismiss`, the one silent change of status, so that the two refinements say nothing against it. |
| `ClosedProcessesNothing` | `hub_live`, property, one of each constant | `RetryGate` asks for the connector's existence only, and the row goes to the target. `docs/BRD.md:10`: "Only an **active** connector processes events." `ClosedFallsSilent` speaks of inbound events. |
| `MappedToItsOwnRecord` | `hub_safety`, invariant, two connectors, one key | The idempotency key is the business key alone; the two connectors meet at the target, and the second event is mapped to the first one's record. `docs/PRD.md:32`: dedup is "per connector". |
| `NoFalseExpiry` | `sweep_timely`, `Spec`, one account, `Rotating = {a1}`, `Unconfigured = {}`, `Glitches = 1` | The provider has replaced the refresh token and its answer is lost, or cannot be stored for want of an `expires_in`, or the store cannot be reached. The account is left due, and the next tick presents the old token. `refresh_oauth_credentials.rs:113`: "Left due; next tick retries". |
| `NoFalseExpiry` | the same, `Glitches = 0`, `Companies = {c1, c2}` | The claim has no company predicate; the store of the company that was named answers `not_found`, which expires the account. A disconnect under the wrong company tolerates the same answer: the row is revoked, the credential live. |
| `HealthyServed` | `sweep_timely`, two accounts, `Rotating = {}`, `Batch = 1` | Accounts that are skipped in every run stay the oldest; as many of them as the batch holds keep every other account from being claimed by the job. `refresh_oauth_credentials.rs:93`: "Not a loss: unclaimed accounts are still due, so the next tick [...] picks them up". |

Doubtful cases that the models contain and no property is about:

- `refresh_due` claims the account it has just rolled back again, until its batch
  is used up; the job remembers what it attempted (`Claimable`).
- a state that expires while the user is at the provider leaves its pending row and
  verifier until the scope is authorized again or disconnected.
- of two overlapping retries of a row, Ignored may be written before the other's
  Mapped, whose reference is then dropped: the row is ignored and the target has a
  record (`RetryMarkIgnored`, `RetryMarkMapped`). No document says which should win.
- a row whose UPDATE the database refuses ends the retry run with an error, and the
  rows behind it are not tried (`GuardedRetryMark`).
- the guard's lookup and the client's are two (`DnsMoves`): a name that moves between
  them leads anywhere, and `PublicUnlessMoved` claims nothing for it.
- the comment above `receive_event` speaks of dedup on `(connector, external_id)`;
  the index and the code use the business key.

## 4. The proofs

Every theorem holds for any values of the constants that the named `ASSUME` of its
module allows (bounds are natural numbers, `None` is none of the values it stands
beside), and for the extra hypotheses its statement names. Each invariant that a
passing run checks is the subject of a theorem, and so are the action properties and
the three refinements. A property is seldom inductive by itself; each proof module
begins with the strengthening it uses, which TLC checked on small instances first.

### The hub (`ConnectorHubProofs`)

| Theorem | States |
|---|---|
| `HubInvariant` | `Spec => []HubInv`, the inductive invariant |
| `HubTyped`, `HubDedup`, `HubOutbox`, `HubMarks`, `HubPublishes`, `HubAnswers`, `HubColumns`, `HubAppliesOnce` | the invariants of `hub_safety` |
| `HubSettledIsFinal` | the action property `SettledIsFinal` |
| `HubFollowsLifecycle` | the hub implements `EventLifecycle` |
| `HubRefersToItsKey`, `HubRefersToItsRecord` | the record a mapped row refers to |

That a mark hits its row needs that nobody else settles a received row; that the
outbox matches needs that the marking worker's row is still received; that a
published event was staged needs what a worker between commit and publish knows.
`HubInv` adds `InFlight`: for each place of a worker, what it may rely on, and
`TargetOnce`, which ties the target's records to their keys and counts.

The argument goes through `TableStep`. Whatever a request does, the two tables
change in one of five ways (a row is born, settles, recovers, is dismissed, has
its error refreshed) or not at all. `LedgerStep` shows that such a change keeps
the invariants of the tables, without regard to who made it; `StillKnows` that it
keeps what every *other* worker relies on; one lemma per action (`GateGood`,
`ClaimGood`, ...) that the action is such a change and leaves its own worker
knowing what its next place needs. `LifecycleStep` maps each of the five ways to a
step of `EventLifecycle` or a stutter: this is where one row per action is needed,
since the status of an action is that of *its* row.

With any number of connectors a mapped row refers to a record made under the row's
business key (`HubRefersToItsKey`). That the record was made for the row's own
action needs one connector (`OneConnector`), because the idempotency key names none;
with two it is not so (section 3).

### The hub behind its routers (`GuardedHubProofs`)

On the full surface operators edit and purge events, and `HubInv` is false there by
design. `GuardedInv` keeps what the database and the requests guarantee nevertheless:
one row per slot, the foreign key, the target's records, and of a request in flight
only what an operator cannot take from it (`Ready`, `Lists`). From it follow
`GuardedDedup`, `GuardedReferences`, `GuardedAppliesOnce` (the
invariants of `hub_guarded`) and `GuardedTyped`. On `guarded_routes` and `readonly_routes` there are no event
writes (`NoEventWrites`), and `ProductionInvariant` shows that the whole `HubInv`
holds there next to any administration of the connectors and any refused statement.
Its proof reuses the action lemmas of the hub; what is new is that a retry's list is
still that of the rows (`ListsAreCurrent`). `GuardedFollowsLifecycle` concludes that
no caller of these routers bypasses the lifecycle.

### The OAuth flow (`OAuthFlowProofs`)

`FlowInv` is `TypeOK`, a `Ledger` of the tables (a row has a signed state, a pending
account was not completed, and the four properties) and, per call, what it may rely
on between two awaits however many others run (`Holds`): very little, since its row
may be replaced, completed or closed by others. Again the steps change the rows in few ways
(`RowStep`: untouched, inserted, activated, closed or expired), and
the ledger is argued over those. `CompletesOnce`, `StoredBeforeActive`,
`DisconnectCloses` and `VerifierGoes` follow for any number of overlapping calls;
`ReplacesInScope` under the hypothesis `UniqueScope`, which is the unique index that
only the deployment's decorator provides. `AccountsFollowLifecycle` is the refinement
of `AccountLifecycle`.

`RevokedIsDeadWhenSerial` and `MirrorIsStoreWhenSerial` assume `OneAtATime`, that no
two calls overlap: without it they are false, and `oauth_revoked_live` shows the first
counterexample.
`SerialInv` states what overlap would take away: that what a call read still holds
after its awaits.

### The refresh (`RefreshSweepProofs`, `RefreshScheduleProofs`)

The argument about locks: a runner between claim and commit holds the lock of its row, the
row is active, and a runner that holds a lock is processing that row (`Holds`). A step
of one runner leaves the locked rows of the others alone (`OthersStay`), so what they
hold stays true (`StillHolds`). `RunnersApart` and `StatusIsFinal` follow without
hypotheses: the job's UPDATEs need no guard on the status.

- `RevocationLasts` assumes `OwnCompany`: disconnects name the company whose store
  holds the credential. With another company the row is revoked and the credential
  lives, which section 3 lists.
- `MirrorErrsEarly` assumes `OutlivesWindow` (`Window <= Life`). With a shorter life
  a refreshed token can expire before the mirror that a lost rotation left behind.
- `NoExpiryIsFalse` assumes `OnSchedule`: only the job refreshes, nothing is lost in
  transit and nobody dies, the batch holds all accounts, `Interval < Window <= Life`,
  first tokens outlive an interval, and with more than one replica of the job a token
  outlives two intervals. `sweep_timely` has a smaller batch, in whose place it has a
  window longer than two intervals; `sweep_gap` drops
  `Interval < Window` and fails. The last condition is there because a run passes over
  a row that another replica holds, and that replica may have exchanged its token most
  of an interval ago: with window and life 3 and interval 2, two replicas can expire
  an account that was refreshed three units before, each having held the row while the
  other's run went by. It is sufficient, not sharp. `ScheduleInv` says for each
  replica that what its last run passed is good for more than an interval from that run's
  start, and that the provider accepts the refresh token in the store or in the hand
  of the runner that is rotating it.

### A request (`OauthRequestProofs`) and the outbound call (`EndpointGuardProofs`)

`RequestInv` is indexed by the stage: what has been checked to get there, and what has
not been touched yet. The lemmas about the gauntlet carry `IdentityComesFirst`: two
reads of a claim that merge to ours contain nothing else (`MergedReads`), an id_token
with an audience is read as it is (`TokenReads`), and the exact and the case-insensitive comparisons admit only ours (`AudienceProves`,
`EmailProves`). `PermissionComesFirst` and `RefusalIsClean` follow from the stages;
the bodies may have any length.

`SecretsStayAtHome` needs that an endpoint which passes the rules lies in a zone of its
provider. `ValidZone` proves it for hosts of any length, from the definition of the suffix
match over reversed labels (`SuffixZone`). `PublicIsAllowed` proves that the masks
of `ip_is_public` let no address of the private intervals through, for every 16-bit
prefix; the runs have the ends of each range only. `GuardInv` then says which checks
each place of a call has behind it, for any overrides and resolver answers.
`RefusalIsNotLate` follows: what is revalidated before a call has passed the same rules
at build time (`PastRevalidation`).

### What is only model-checked

- Liveness (`ReceivedSettles`, `RequestsReturn`, `ClosedFallsSilent`,
  `HealthyServed`): the prover handles neither fairness nor ENABLED.
- The violated properties, which are shown by a counterexample.

No result depends on induction over data, and no module declares a RECURSIVE operator.

## 5. What is not modelled

- The HTML pages of the callback and percent decoding; the composition's own
  additions to the provider registry.
- The signature of the state: assumed unforgeable.
- Contents of payloads, names, error texts, timestamps other than expiry.
- The relay that drains the outbox, the target modules, the provider and the
  credential store: external, modelled as far as this code relies on them.
- Of the generated code: getters, builders, response DTOs, list filters and paging,
  the CRUD of accounts (mounted by no router), the handlers' error enums (the
  generic handler answers without them), seeders, exports and wiring. None has a
  state another part depends on.
- The example skeleton of the code generator.
- Row-level tenancy (the ambient org scope): the decorator lives elsewhere.

## 6. Plan

Done: hub, lifecycle, the hub behind its routers, OAuth flow, refresh, requests and
gauntlet, endpoint guard; the proofs of section 4.

1. Proofs: type correctness of `OauthRequest` and `EndpointGuard`; `NoExpiryIsFalse`
   with the sharp bound for replicas, and with a batch smaller than the accounts; that
   the two abstract lifecycles imply what the runs check of single events and accounts.
2. Composition of flow and refresh over one store with two companies, so that a
   re-authorization during a refresh and the races above meet; composition of hub
   and a target that changes its mind.
