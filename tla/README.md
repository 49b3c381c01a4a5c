# Agnostic Market: TLA+ verification project

Agnostic Market is a voice and text commerce agent.  A call is a *session*: a
reasoning engine (a LangGraph graph with checkpoints), the caller's cart, orders
and identity, and, when the deployment is durable, a row in PostgreSQL that makes
exactly one worker the owner of the session and lets another process clean up
after a worker that died.  Around it are the deployment (migrations, tenants, a
reaper) and a workbench in which operators configure and try out a merchant.  This
directory models the parts whose correctness depends on the order of concurrent
steps, checks them with TLC on small instances and proves the central results with
TLAPS for every instance.

## Inventory

| Component (under `src/src/agnostic_market/`) | State | Operations | Interacts with | What is hard | Module |
|---|---|---|---|---|---|
| session registry, `durability/session_registry.py` | per session: row (lifecycle, lease owner, fence, expiries, close operation, namespace, revision, sealed payload), generation inventory, operation receipts | register, activate, renew, publish, begin / switch / record rotation, begin / claim / refresh / record / finalize close, purge | every other durable part, by transactions | delayed and repeated calls, stale clock readings, takeover of a close | `SessionRegistry` |
| checkpoint data plane, `durability/postgres_checkpoints.py` | checkpoint and manifest rows of each generation | put, put writes, get, list, delete | registry row (lock and fence) | joins a snapshot with a locked row | `DurableSession` |
| close and reaper, `durability/session_lifecycle.py` | claim of each closer | begin, inspect, finalize, sweep, purge | registry, data plane, caller context | lost acknowledgements, delayed closers, takeover, re-registration | `SessionClose`, `TenantSweep` |
| lease supervisor, `durability/session_lease.py` | renewal task, loss | start, renew, report loss, close | registry, caller context | deadlines measured on two clocks, uncertain renewals | `VoiceJob` |
| session state coordinator, `durability/session_state.py` | cart, recent orders, guest orders, revision, local receipts | commit of each mutation, discard | registry publish | lost acknowledgements, replay | `CartCheckout` |
| caller context, `session.py` | close flags, pending transition, takeovers | close, abandon, transition, complete, invalidate | engine, tracker, closer, supervisor | close racing authority loss and takeovers | `CallerContext`, `VoiceJob` |
| execution tracker and recovery, `agents/recovery.py` | running nodes and turns, callbacks | enter, leave, defer, recover | caller context, engine | cancelled effects that still run in a thread | `CallerContext` and the flows |
| engine, `agents/engine.py` | thread binding, turn lock, checkpoint | admit, route, resume, rotate, take over, restore | graph, saver, caller context | queued, repeated and cancelled turns; a rotation that fails half way | `TurnRouting` |
| turn graph and routing, `agents/frontline/`, `agents/routing.py` | reasoning state | dispatch, clarify, read back, read | flows, models | consent bound to what was read out | `TurnRouting` |
| flows, `agents/cart`, `agents/support`, `agents/identity` | typed requests, pending effects, challenges | fill, guard, read back, step up, effect, recover | commerce stores, models | values a model proposed, authority that lapses, failures after the effect | `RequestSlots`, `CartCheckout`, `SupportOrders`, `ProtectedActions` |
| commerce stores, `commerce/` | orders, cart, codes, identity | place, cancel, refund, return, verify | flows | idempotency, limits, code expiry | `OrderStore`, `Verification` |
| platform runtime and job, `durability/platform_runtime.py`, `voice/`, `scripts/voice_agent.py` | pool, session, stages, tasks | open, acquire, bind, supervise, retire, release | registry, closer, room | undoing a partial opening; four tasks that tear down | `VoiceJob` |
| schema migrations, `durability/migrations.py` | history, schema, lock | apply, gate | deployments | runners of two builds | `Migrations` |
| tenant lifecycle, `durability/tenant_lifecycle.py`, `scripts/session_reaper.py` | inventory revisions, drain evidence | deploy, sweep, observe | registry rows, jobs | evidence older than the decision, rows that never clean up | `TenantSweep` |
| management, `management/` | drafts, versions, active pointer, receipts, audit | save, import, validate, preview, publish, retire, roll back | sqlite, configuration tree | reads outside the transaction, replays, another build | `Management` |
| simulator, `management/simulation.py` | table of sessions | start, turn, reset, close, shut down | engine | a session that goes away while a request waits for it | `Simulation` |

What makes each correct: a session has one owner at a time, and a change of owner
is visible to whoever was overtaken; nothing is written once a close was begun;
a closed session keeps nothing; the durable revision is explained by receipts;
the caller's local picture is the durable one or is discarded; a close always
ends; a turn acts once and an effect follows a yes to its own readback; every value
of an effect is the caller's; money moves once per confirmed intent; what is
published was shown.  `PROJECT.json` lists the hazards with the lines at which they
bite, and the properties that cover them.

## Modules

`SessionRegistry` holds the tables of one (tenant, logical session) and one
action per transaction of `PostgresSessionRegistry`.  A transaction locks the
session row first and is atomic; what is not atomic is time: the clock reading a
transaction decides with is up to `Skew` ticks older than its commit, but not
older than the last update of the row.  Expiries are countdowns.  Any authority
ever granted may be presented at any time, so delayed, repeated and abandoned
calls need no further machinery.

| Action | Code |
|---|---|
| `RegisterAndAcquire`, `Activate`, `Renew`, `Publish` | `register_and_acquire`, `activate`, `renew`, `publish` |
| `BeginCheckpointRotation`, `SwitchCheckpointGeneration`, `RecordCheckpointDeletion` | the rotation calls of the same name |
| `TakeCloseLease`, used by `BeginClose`, `ClaimExpired`, `RefreshClose` | `_take_close_lease` and its three callers |
| `RecordCloseCheckpointDeletion`, `FinalizeClose`, `PurgeClosedTombstones` | the calls of the same name |
| `RegistryTick` | `clock_timestamp()` moving on |

`DurableSession` extends it with the fenced saver: `BeginOperation` takes the
snapshot of the generation columns, `CommitOperation` re-validates the session
columns under the row lock and writes, `RollbackOperation` is a refusal, time-out
or cancellation, `CloseDelete` the delete of a closer.  `Spec` is the abstract
specification of everything the durable tables promise to arbitrary clients.

`SessionClose` extends that with the clients that close a session: the bound
closer of a lease holder (`begin_close`, `checkpoint_has_pending_interrupt`,
`finalize_close` and their retries by `aclose_session`) and reapers
(`reap_expired`).  Each is a sequential program whose `pc` names its next call; a
call is answered, loses its acknowledgement or fails.  A bound closer's operation is
named after it, one a reaper draws with `uuid4` after the registration it was drawn
for; `carried` is history: the operations a later registration was closed under.  The
property `ImplementsDurableSession` says that this protocol implements `Spec`.

`CallerContext` is the end of a call inside one worker, independent of the
database: the context's flags and locks (`session.py`), the execution tracker
(`agents/recovery.py`), turns as far as they are admitted, cancelled and taken
over (`agents/engine.py`) and the three parties that end a call
(`voice/pipeline.py`).  An action is what happens between two awaits or inside a
thread lock.

| Actions | Code |
|---|---|
| `StartTurn`, `RefuseTurn`, `RunTurn`, `EndStream`, `SettleTurn`, `CancelTurn` | `turn_span`, `_stream_admitted_turn`, `_afinalize_stream_transition` |
| `PickUpNode`, `EnterNode`, `NodeWrites`, `LeaveNode` | `wrap`, `_node_span`, `run_sync_effect` |
| `TakeOver`, `FinishTakeover`, `DeferLastResort`, `StartRecovery`, `FinishRecovery` | `_take_over_cancelled_stream`, `_adefer_last_resort_until_idle`, under `cancellation_takeover_lease` |
| `EnterClose`, `TakeCloseLock` ... `CompleteClose` | `aclose_session`, and `aabandon_session` for the parties in `abandons` |
| `JoinSupervisor`, `LatchLoss`, `RetireTransport` | `VoiceLoop.aclose`, `retire_voice_transport` |

A worker thread takes a synchronous node from its queue (`PickUpNode`) a moment
before the node enters the tracker (`EnterNode`).  A turn cancelled in between unwinds
without it, and the node comes later as a *stray* (`Strays`).  The tracker's docstring
promises `QuietOnceQuiescent`, which a stray breaks (run `call_dispatch`); what the code
keeps, with every interleaving of the gap, is `QuietButForStrays`, `RecoveryRunsAlone`
and `ClosedHoldsNothing`, each of which excepts strays and nothing else.

`Verification` is the store of one-time codes and the provider behind it
(`commerce/verification.py`).  The two are changed in one step only when the wait
between them is not cut short; what remains of an attempt budget or of a proof
belongs to the provider, what a challenge was for to the store.

`ProtectedActions` extends it with everything a caller may do only with proof of
who they are, node by node: binding or switching an account, changing an address or
the contact, a refund to a new instrument, and next to it a refund to the original
one, which needs consent alone.  `at` is the node that runs or waits for the
caller; two things run beside it, time and the worker thread of a refund.

| Actions | Code |
|---|---|
| `Begin` | `_pending_for`, `_mint_profile_change`, `_mint_refund` |
| `RiskCheck`, `Dispatch`, `Collect`, `RouteAfterCollect` | the step-up nodes of `agents/support/_stepup.py` |
| `Confirm`, `Answer`, `Reread` | `confirm_node`, `profile_confirm_node`, `_readback_reply`, `_areread_detoured_readback` |
| `PlaceProfile`, `PlaceRefund`, `IssueRefund`, `RefundReturns`, `Finish` | `profile_place_node`, `place_node` around `run_sync_effect`, `issue_refund`, the two finishers |
| `Apply`, `Rotate` | `apply_node` with `transition_principal`; `_arotate_pending_transition` |
| `FailNode`, `AbandonRefund`, `TakeOver`, `TakeOverTimesOut` | the node error handlers; `_take_over_cancelled_stream` |
| `Recover`, `RecoveryFails` | `recover` with `reconcile_effect` and `reconcile_principal_transition`; the recovery terminalizer |

A node that awaits several times has one disjunct for each await it can be cut
short at.  `earned`, `misses` and `told` are history: whose code verified a
challenge, how many wrong ones were counted, and what the caller was told.

`OrderStore` is the part of `commerce/orders.py` that moves money: refunds paid,
refunds promised on returns, and voids.  One store serves all sessions of a tenant
and each of its methods holds one lock, so a call is one step: `Commit` when it
returns a record, the original one under a key seen before, `Refused` when it raises.
An intent, a request and an order, stands for the idempotency key minted for it.

`SupportOrders` extends it with the flows of `agents/support/flow.py` in several
sessions at once.  `at[s]` with the family of the pending record names the node that
runs or waits in session `s`; `thread[s]` is the effect in a worker thread, which goes
on when its turn is cancelled.

| Actions | Code |
|---|---|
| `AskRefund`, `AskReturn`, `AskCancel`, `AskCancelAll`, `Resolve` | the ends of `capability_entry_node` that mint a pending record; `resolve_node` |
| `RefundGuardrail`, `ReturnGuardrail`, `CancelGuardrail` | `guardrail_node` with its tiers, `return_guardrail_node`, `cancel_guardrail_node`, and the routers after them |
| `StepUp` | the step-up chain, of which only the end is kept |
| `Confirm`, `Answer`, `Reread`, `Lapse` | the three confirm nodes, `_areread_detoured_readback`, `pending_ttl_seconds` |
| `Place`, `RunEffect`, `EffectReturns`, `Finish` | `place_node`, `return_place_node`, `cancel_void_node` around `run_sync_effect`; the three finishers |
| `FailNode`, `AbandonEffect`, `TakeOver`, `TakeOverTimesOut` | the recovery policies of the nodes in `agents/frontline/graph.py`; `_take_over_cancelled_stream` |
| `ReconcileEffect`, `RecoveryFails` | `reconcile_effect` with `abort_remainder`; the recovery terminalizer |

A guardrail reads the store several times and is one step here: what another session
writes between two of its reads has the same effect as if written after the last,
because no tier looks again at what an earlier one relied on.  `asked`, `consented`
and `told` are history.

`CartCheckout` is the cart and its checkout on workers that fail.  It follows one
session through four copies of the truth that move at different moments: `row` and
`ops`, the durable row and the receipts of its operations; `local`, the
coordinator's projection; `graph` and `saved`, the
state of the turn graph and its last durable checkpoint, each with the revision it saw;
and `placed`, the orders of the store behind `OrderPort`.  A request is frozen under its
key when it is minted; `step` says how far the running node is, `thread` that
`place_cart` runs, `detour` that a readback waits for a question to be answered.

| Actions | Code |
|---|---|
| `RequestMutation`, `RequestPlacement`, `RequestRead`, `Answer` | the ends of the cart's `capability_entry_node`, a read, `mutation_confirm_node`, `confirm_node`, `_readback_reply` |
| `Guardrail`, `StartPlacing`, `PlaceCart`, `PlacingReturns`, `Ack` | `guardrail_node`, `place_node` around `run_sync_effect`, `place_cart`, `finish_placement`, `ack_node` |
| `Publish`, `StaleRevision`, `Acknowledge` | `_commit` of the coordinator, with `publish` of the registry reduced to its revision and receipts |
| `NodeRaises`, `CancelTurn`, `CancelAnswer`, `Quiesced`, `ResumeSeeded` | the error handlers; `_take_over_cancelled_stream`, `_classify_cancelled_checkpoint`, `_aseed_stream_recovery` |
| `Recover` (`ReviewCart`, `ReconcilePlacement`, `AbortRequest`) | `recover`, `reconcile_effect` |
| `Persist`, `Crash` | external: LangGraph's checkpoint writes, the death of a worker |
| `RestoreCurrent`, `RestoreAhead`, `RefuseRestore` | `build_application_session`, `aprepare_current_restore`, `aprepare_session_ahead_recovery`, `reconcile_checkpoint_revision` |

Two things about the outside are assumed there.  Nothing in `src/` asks LangGraph to
wait for its checkpoint before the next node runs, so `saved` may trail `graph` inside
a turn and catches up before the next.  And the order store outlives a worker, as a
system of record does; the store in `src/` is a fixture in memory.  `told` and `consent`
are history.

`VoiceJob` is the job around the call, with the registry's transactions: what
`scripts/voice_agent.py` opens, acquires and binds stage by stage, the lease
supervisor, and the four tasks that may tear the call down at the same time (the
entrypoint's cleanup, the supervisor's retirement, the close hook, the shutdown).

| Actions | Code |
|---|---|
| `Qualify`, `OpenPlatform`, `Admit`, `Acquire`, `BindFails`, `Build`, `Supervise`, `StartSession`, `StartupFails` | `_run_entrypoint`, `DurablePlatformResources.open`, `acquire_fresh_session`, `VoiceJobAdmission.complete`, `build_voice_loop` |
| `RenewCommits`, `RenewAnswered`, `RenewFails`, `Wake`, `ReportLoss`, `AskStop` | `SessionLeaseSupervisor` |
| `ReapFires`, `ShutdownFires`, `RoomLeft`, `Enter` ... `Complete`, `Abandon` | `_attach_thread_reaper`, `register_shutdown`, `retire_voice_transport`, `aclose_session`, `aabandon_session` |
| `DirectClose`, `Release`, `Sweep`, `Purge` | `_raise_after_durable_startup_cleanup`, `DurablePlatformResources.aclose`, the reaper in one step |

`VoiceCall` puts the two sides of a call together.  They meet at the quiescence a
close waits for: `VoiceJob` lets it succeed or time out, `CallerContext` works out
why.  A behaviour follows one side, chosen at the start, so the states of the two
add up instead of multiplying; `Conversation` and `Workbench` are composed the same
way.  What is lost is a property that would need both sides in one state; none here
does.

`Migrations` is the schema and the runners that migrate it.  A runner sets up the
checkpoint library's tables step by step, each committed by itself (`BeginSetup`,
`SetUpVendor`, `RequireVendor`), opens its transaction with the bootstrap of the history
table (`Bootstrap`), and only then takes the advisory lock (`TakeLock`), reads the
installed history, compares it with its own build, applies what is missing and commits,
or fails and leaves nothing of its transaction.  Before the lock runners can make each
other fail: a set-up step the other recorded meanwhile or makes at the same time, or a
history table the other created and commits while this one waits to create it, leaves a
runner `overtaken`, and it is run again.

`TenantSweep` is the inventory of tenants, the jobs admitted against it, the rows of
their sessions in the order a sweep takes them, the reaper processes and the drain
evidence on which a tenant is removed.  There are two processes, one that serves cycle
after cycle and one that sweeps once and records evidence (`--once`); each loads the
inventory when it starts (`Start`) and keeps that list (`NextCycle` begins the same
tenants again).  `Deployment` composes them: the platform is operated once the schema
gate is open.

`PublicationHistory` is what the merchant repository promises: one growing history
of contents, at most one being served, one effect for each request id.  `Management`
is the code: each repository write is one `BEGIN IMMEDIATE` transaction and one
action, and each read the service makes before it, of the draft, the configuration
tree or the active version, is a step of its own whose result waits in `calls`.
Handlers race, operators repeat requests, the tree is edited on disk and the process
restarts, perhaps as a build with another contract.  `ImplementsPublicationHistory`
says that this implements the abstract history.

`Simulation` is the text simulator: requests find a session in the table, wait for
its lock and look again, while others reset or close it, start the same id, or the
application shuts down.  `Workbench` composes it with `Management`.

`TurnRouting` is the life of a caller's turn: delivery, turn lock, duplicate,
terminal or recovery payload, the answer to a question or the route of a new
request, then the graph one node per step until it rests or asks.

| Actions | Code |
|---|---|
| `Arrive`, `TakeLock`, `IgnoreDuplicate`, `RunReserved`, `Rotate`, `MissedThread`, `AskAgain`, `RunContinuation` | `stream_turn`, `_stream_admitted_turn`, `_arotate_pending_transition` |
| `Route`, `AnswerPlainly`, `AnswerRouted` (`Reread`, `SetAside`, `Declines`) | `_ordinary_turn_payload`, `_readback_reply`, `resolve_route`, the grammars of `_consent.py` |
| `Entry`, `Dispatch`, `NoAction`, `CartEntry`, `SupportEntry`, `Assemble`, `Apply`, `Ask`, `Hear`, `Effect`, ... | the nodes and routers of `build_frontline_graph` and the read flow |
| `EndStream`, `RereadReadback`, `Finish` | the end of `_stream_admitted_turn` |
| `NodeFails`, `Recover`, `CancelOutside`, `CancelStream`, `Restart` | error handlers, `recover`, `_take_over_cancelled_stream`, `aprepare_current_restore` |

The recognizer's proposal is any capability, none or a failure; a reply is "yes",
"no", a "no" that says more, or anything else.  `read`, `consent`, `declined`,
`done` and `acts` are history.

`RequestSlots` is what an owner does with such a turn: it fills a typed request slot
by slot from what a model proposes.  A proposed order, amount, profile value or new
destination is believed only if the code's readers find it in the caller's words.  For
the quantity of a cart change that depends on `policies.cart.quantity_source`, the
variable `quantitySource`, chosen at the start for good: under `this_request` a reader looks for it in the caller's
lines of this request, under `conversation`, the base configuration's, no reader runs
and the model's quantity stands (`Guarded`, `StatedQuantity`).  What a caller says is a
set of facts; what a model proposes is anything.  `FillCart`, `CartPropose`, `FillSupport`,
`SupportPropose` and the order reads follow the `capability_entry_node`s and
`read_flow.py`; `EnterIdentity`, `Bind` and `IdentityFails` are the detour through
the identity flow, `Delist` (external) a product that disappears.  `Conversation`
composes the two.

The theorems are in a module of their own for each composition: `DurableSessionProofs`
(with `SessionClose`), `CallerContextProofs` (with `VoiceCall` and `VoiceJob`),
`ProtectedActionsProofs`, `SupportOrdersProofs`, `CartCheckoutProofs`, `WorkbenchProofs`
(`Management` and `Simulation`), `DeploymentProofs` (`Migrations` and `TenantSweep`) and
`ConversationProofs` (`TurnRouting` and `RequestSlots`).  The modules whose names begin
with `MC` hold the instances.

## Runs

| Run | Instance | Shows |
|---|---|---|
| `session` | two registrations, two publications, a rotation, a close taken over, skew 1 | `SessionCoherent` (row, payload, generations, receipts, nothing kept when closed), `LapsedLeaseIsFinal`, `NoWriteAfterClose`, `FencedSuccession` |
| `close` | one holder with one rotation, its closer, a reaper, a fault | `CleanupSuffices`, `ImplementsDurableSession` (refinement) |
| `close_live` | two registrations, the first one's closer, a reaper, a fault, fairness | `ClosesOwnSession`, `EventuallyGone` |
| `call` | inside: two turns, three parties, with the dispatch gap; outside: one job, its closer, a reaper, three faults; fairness | `ClosesCleanly` (`QuietButForStrays`, `ClosedHoldsNothing`), `RecoveryRunsAlone`, `CloseReturns`; `SleeperHoldsLease`, `ReportsAreTrue`, `EverythingReleased` |
| `call_dispatch` | two turns, as in `call` | a violation of `QuietOnceQuiescent`: the first finding |
| `protected` | three customers, the caller reads the codes of two, three requests of any kind, two faults, fairness | `AuthorityEarned` (binding and effects, contact changes, attempts), `TruthTold`, `ExchangeIsAllOrNothing`, `AbandonedTurnSettles` |
| `orders` | two sessions, two orders being prepared and a delivered one, two requests, batches of two, a fault, fairness | `LedgersCoherent`, `ConsentNamed`, `TruthTold` (outcomes, whole batches, paid once), `ConfirmedSettles` |
| `orders_steer` | two sessions, one shipped order | a violation of `SteerKept`: the second finding |
| `cart` | one product, three requests, two faults of which two may be crashes, fairness | `RecordsAgree` (projection, checkpoint, row, store and words), `CartChangesAreConsented`, `YesIsAnswered` |
| `management` | one merchant, two handlers, three requests, two trees, two contracts; one simulation, two requests and the shutdown, two failures | `HistorySound`, `PublishedWasShown`, `CatalogImportKeepsTheRest`, `ImplementsPublicationHistory` (refinement); `TurnsRunInLiveSessions`, `SessionsAreOwned` |
| `deployment` | two runners of two builds on an empty database or one an earlier build left, two vendor steps, any number of failures; one tenant, two sessions of which one can never be finalized, batches of one, two reaper processes, five inventories, fairness | `HistoryTellsSchema`; `OnlyStraddlersAreLeftBehind`, `SweepReachesEveryRow` |
| `conversation` | three deliveries, twelve capabilities and one unknown, three faults; four turns of facts over two requests, both quantity sources | `ConsentFollowsReadback`, `DeclineStands`, `TurnActsOnce`; `EffectsAreGrounded`, `FixedSlotsStand`, `AnsweredQuestionsSuffice` |

A property that joins several parts is a conjunction of named definitions that stand
just above it.

### Findings

The first.  A turn is cancelled when a worker has taken its synchronous node and
has not reached `_enter_node`; the takeover and the close find the tracker idle, and
the node runs after the close has seen quiescence.  The window is short, and the
docstring of `NodeExecutionTracker` says there is none.

The second.  `guardrail_node` looks at the store, tells the caller that it can
arrange a return, and mints it; `return_guardrail_node` looks again.  Another session
that opens a return of the order in between, or the end of the return window, makes
the second node decline what the first offered, which two docstrings say cannot
happen.  Only the words are affected: the store's checks hold either way
(`LedgersCoherent`).

### Observations

What the models and the proofs showed on the way, where no line of the repository says
otherwise:

* A reaper keeps the operation id of the candidate it read
  (`session_lifecycle.py:476`), and `_take_close_lease` (`session_registry.py:1396`)
  accepts it for whatever registration the row has by then.  If the candidate's session
  was closed, purged and registered again in between and that lease expired too, the old
  operation closes the new registration, and a delayed closer of the old one, whose
  operation it is, may then work on it.  The generations are still deleted before the
  row is closed, but such a closer can meet `CLEANUP_INCOMPLETE`.  The proof of
  `CleanupSuffices` failed exactly there; the property now names the exception
  (`carried`), and `ClosesOwnSession` with it.
* An abandonment whose wait for quiescence times out raises without discarding the
  local authority, whereas a durable close in the same place disposes of it
  (`QuiescenceTimeout`); neither marks the context closed.
* The checkpoint of a yes is written while `place_cart` already runs, so a worker
  that dies there may leave an order in the store and a checkpoint that still waits
  for the answer.  The restored session reads the checkout back again; a caller who
  now says no has an order the session never recorded, and a later checkout of the
  same basket is not announced as a second one.
* The catalog import keeps the rest of the draft only because it is given the revision
  the operator was shown and saves over exactly that one.
* A sweep takes the first rows by expiry.  A row that was claimed goes behind the
  others, but rows that cannot even be claimed stay in front: as many of them as the
  batch is large stop the sweep of that tenant (hence the premise of
  `SweepReachesEveryRow`).
* A serving reaper sweeps the tenants it loaded at its start (`session_reaper.py:155-171`).
  A tenant admitted later, or admitted again after it was removed, is not swept until the
  process is restarted, however long its rows have expired (`Unlisted`, the last
  alternative of `SweepReachesEveryRow`).
* Two runners that start together on a database that was never set up can fail each other
  in the vendor's set-up or at the bootstrap of the history table, both of which precede
  the advisory lock (`migrations.py:744-754`).  Nothing wrong is recorded, and running the
  failed one again succeeds; on a database that is set up it cannot happen
  (`HistoryTellsSchema`).
* With the quantity source `conversation` the quantity a model proposes for a cart change
  goes into the readback without being looked for in the caller's words; only the yes to
  the readback vouches for it (`ConsentFollowsReadback`).
* Drain evidence counts rows.  A job admitted before the observation and registered
  after the removal is not in it: `OnlyStraddlersAreLeftBehind` says that nothing else
  can be left behind.
* A turn that arrives while the principal transition of a cancelled turn waits is
  carried over the rotation with its own id already consumed, and then ignored as a
  duplicate: the caller gets no answer to it.
* The question, its retry and the question for a person share one interrupt id, so a
  "yes" queued at the question for a person may answer the retried readback.
* A cancelled or failed turn that took no action clears the clarification budget.
* After an order is denied as not matching, the denied order stays fixed in the request
  that is kept.
* `close` and `reset` of a simulation look at the table and take the session out under
  two acquisitions of its lock; if the shutdown comes between them the request ends in
  a `KeyError`.  The session is closed by the shutdown all the same (`SessionsAreOwned`).
* A simulation whose close raises has already left the table and is not tried again.

## Bounds

In `session` two registrations let a delayed call of the first meet the row of
the second, two operations let a publication fall between the allocation and the switch
of a rotation, and a fence of 3 lets a close claim be taken over.  A lease of two ticks
in a retention of three lets a renewal meet the end of the retention.  The theorems of
`DurableSessionProofs` are for all sizes.

In `close` a claim lasts one tick, so a closer may lose it between any two of its calls,
and a fence of 3 lets closers follow one another.  In `close_live` a claim lasts three
ticks and the fence bound is never reached (`row.fence < MaxFence` is an invariant
there), so the bound removes no behaviour and cannot stop progress; with a shorter claim
two closers can chase each other until the bound.  Both use `Skew = 0`: stale clock
readings are `DurableSession`'s subject.  `WithoutClaims` is a view that drops the
history variable `claims`, which no closer reads.

In `call` two turns let one hold the turn lock while the other waits or has left a
detached effect or a stray behind; the theorems remove that bound.  On
the job's side a lease of three ticks with an interval and a request of two lets an
answer come so late that no interval is left, and three faults let startup, renewal and
teardown each fail once, or one of them three times.

In `protected` three requests are a binding, a contact change and a later effect that
must not rest on an earlier proof, or two bindings and an effect between or after them;
two faults let a recovery fail after the node it recovers.  Two readable customers and a
third let the caller switch between accounts that are theirs and try one that is not.
Codes, proofs and readbacks live one or two ticks, so each may lapse between any two
nodes.  In `orders` two requests, in two sessions, are the fewest that can spend a balance
twice or mix remedies.  Amounts of 1, 2 and 3 fall into the three tiers of the refund
guardrail for the delivered order, and 2 is all of an order being prepared, so it is
steered into a void.  Batches of two have one target done when the other fails, and a
batch of three is too large.  In `cart` three requests are a change, its checkout and a
question or a further change; a quantity of two is above the order-value cap and one
below it; two faults let a recovery fail, or a crash follow a lost acknowledgement.

In `management` three request ids are a publication, a retirement or rollback of it and
a second publication, or a replay against any of them; two handlers let each read lie
before the other's write; two trees and two contracts let both change under an approved
preview.  In the simulator one request waits while the other resets, closes or starts,
and the shutdown is a third party; three sessions are one, its replacement and one that
lost the race for the key.

In `deployment` one runner's build is a beginning of the other's, transactions abort
without a bound, and two vendor steps let a runner be overtaken at the first, between the
two or at the second.  On an empty database the bootstrap alone keeps the two apart; on
one an earlier build left, both have the same migration to apply and only the lock does.
Five inventories let a tenant be retired, removed, admitted again
and retired anew with the evidence of the first retirement still in the directory.  A
batch of one with one session that never cleans up is the smallest in which an unfair
order starves the other.

In `conversation` three deliveries are a question, a turn queued behind it and a
redelivery of either; three faults let a cancelled turn be followed by a failing
recovery or a restart.  A request has at most three slots and a budget of two re-asks
(the base configuration), so four turns are an opening and an answer to each question;
two requests are one and another that must not inherit its words.  A verified caller
starts with the cart `Bind` leaves, an empty one; with the quantity source
`this_request`, which only a cart change meets, the caller starts as a guest who has
placed nothing.

## Fairness

`FairCloseSpec`.  Time passes; a closer in the middle of its calls goes on (every call
has a time limit and ends in an answer or an exception); a reaper keeps sweeping, as
`OperationalSessionReaper.serve` does until it is stopped.  Nothing obliges a lease
holder to renew, publish or close.  A busy closer makes at least one call per tick,
except for `MaxFaults` longer delays: the configuration demands positive durations
(`dtos/platform.py:60`) but does not relate the lease duration to the time limit of a
call, so that a claim outlives a call is an assumption about the deployment.

`CallFairness` (`CallerContext`).  Turns, nodes and takeovers end (models, tools, database
calls and the wait for nodes have time limits; the graph has a recursion limit, hence the
strong fairness of `EndStream`), and the event loop runs every task that can go on.
Nothing obliges anybody to end the call, and no fairness is put on the time limit of a
close: `CloseReturns` does not rest on it.

`JobFairness` (`VoiceCall`).  Each task of the job runs when it can, awaits end by their
time limits, the reaper sweeps and time passes.  Nobody has to hang up.

`FairSpec` of `ProtectedActions`: only the engine's own steps, the takeover, its time-out
and the recovery.  The caller need not answer, the provider and the thread of a refund
need not end, and time need not pass.  `FairSpec` of `SupportOrders`: the engine's steps,
and the effect in its thread, a call of a store in memory under a lock.  `FairSpec` of
`CartCheckout`: a worker that is up goes on with its turn; a failed one need not be
replaced.

`DeploymentFairness`.  Runners run to their end and are run again when another overtook
them, a reaper serves cycle after cycle and is started again when it was stopped, an
admitted job registers or gives up within its time limit, leases lapse.  Nothing makes an
operator deploy, stop the reaper or ask for drain evidence.

`management` and `conversation` check safety only and state no fairness.  Deadlock is
checked in `session`, `close` and `close_live`; the other systems may really stop: a call
ends, automation hands over, a restore is refused, operators have no more requests.

## Proofs

Every theorem is for all values of the constants that satisfy the named assumptions of
the modules, and so for any number of sessions, turns, requests, faults and so on; the
bounds of the runs are constants like the others.  The assumptions say what the code's
own checks say (durations are positive, an interval is shorter than its lease, a build
lists a migration once), what the kinds of things are (totals are natural numbers,
orders are owned by customers or placed in the session), or that a name that stands for
nothing is not the name of something (`NoneAssumption`, `HolderAssumption`).  One result
has a hypothesis of its own: `AnswersAlwaysSuffice` needs `SlotReasks >= 2`, the value of
the base configuration.

**`DurableSessionProofs`.**  `TypeCorrect`, the safety invariants one by one and together
as `SessionAlwaysCoherent`, and the action properties `NoWriteOnceClosing`,
`SuccessionIsFenced` and `LapsedNeverRevives`.  The invariants are proved together as
`IInv`.  None is inductive alone: that the payload stays readable across a switch needs
the inventory to agree with the row, the receipts need the rotation's revision, and that
nothing is written after a close needs `SaverAnchored`: a saver operation under way
belongs to a granted registration and, if that one still holds the lease, its generation
exists.  There is one lemma per action, `StepIInv` combines them, and the action
properties follow from `IInv` and the shape of each step (`StepRowMove`).

For the close protocol, `ClosersImplementSession` is the refinement
`CloseSpec => Spec`: each call of a closer is a step of the registry made with an
authority that was granted, or changes nothing (`CallEffect`).  `ClosingStaysCoherent`
carries the invariants over.  `CleanupAlwaysSuffices` and `ClosersCloseTheirOwn` rest on
`CloseInv`: a closer that presents a claim was granted it (`Holds`), its operation
belongs to one registration whose close it began (`Placed`), and in the session of that
registration every generation that is not on its list any more is deleted and recorded
(`Works`, `Cleaned`, `Listed`).

**`CallerContextProofs`.**  `TypeCorrect`, `CloseIsQuiet`, `ClosedIsEmpty` and
`RecoveryIsAlone` of the caller context, and `CallClosesCleanly` and `CallRecoversAlone`
of the composed call.  The inductive invariant adds what the actors rely on: a close that
began has stopped admission (`CloseStopsAdmission`); a party that was woken, even if it
has not run since, found everything idle and it stays so, but for nodes the tracker was
never shown (`IdleStays` with `Unseen`, `QuietStays`); what was discarded comes back only
by a stray (`NothingKept`); a node outside its turn's stream is detached or a stray
(`NodesTracked`); a takeover is protected by
the turn lock and a deferred last resort by the terminal latch (`TakeoversAlone`).

For the job's side: `JobTypeCorrect`, `SleeperAlwaysHoldsLease` and `ReportsAlwaysTrue`,
from `JobInv`: nothing is torn down before the platform was opened, and there is a
supervisor only after a registration (`StagesInOrder`); what a renewal granted, less the
time since it was sent, is never more than what is left of the lease, however late its
answer (`LeaseKnown`); a task inside a close holds the context's lock and the context is
not closed yet (`HolderKnown`); a pool marked closed has drained, and only then is its
release reported as clean (`PoolKnown`).

**`ProtectedActionsProofs`.**  `ProtectedTypeCorrect`, `AuthorityAlwaysEarned`,
`TruthAlwaysTold` and `ExchangesAreAllOrNothing`.  Steps are first classified by what they
do to the codes (`CodeStep`), the binding (`BindingStep`) and the ledgers or the request
(`EffectMove`, `RequestMove`); each conjunct of `IInv` is then kept class by class.
`CodesKnown` says that a verified challenge was earned by its subject's customer, that a
proof is of a verified challenge and that nothing exists under an intent not yet minted;
`RequestKnown` ties a request to its node; `ThreadKnown` that the refund in a thread was
authorized when it was given to it, also after its turn is gone.

**`SupportOrdersProofs`.**  `TypeCorrect`, `MoneyIsBounded`, `RemediesAreExclusive`, the
two together as `LedgersAlwaysCoherent`, `EffectsAreConsented` and `TruthAlwaysTold`.  The ledgers need
`LedgerOK`: a refund leaves a positive paid amount, a promise is made by a return,
returns are of shipped orders and voids of unshipped ones; with it the store's own checks
keep the ledgers right whatever a flow believed when it called (`CommitKeepsLedger`).
For consent the invariant follows a session from the yes to the last effect
(`ConsentOK`): in the nodes after a yes everything the pending record names was read
back, and a thread is given nothing else.  `HasPending` ties the node to the record;
`Moves` is the shape all steps of a session share.

What callers are told rests on `TInv`.  A batch has every order it was asked for, with an
outcome or without, and its outcomes are true (`BatchKnown`); a receipt of an open request
is one of its outcomes or is of the target in hand (`ReceiptsKnown`, `CurrentKnown`), so
that a recovery which asks the ledger about that target alone may call the rest failed; a
thread works on the target in hand, or on a request of which the caller will hear nothing
(`ThreadKnown`), so that a late commit makes nothing false; and nothing was said of a
request that is open (`NumbersKnown`).  Every action is one of eight effects (`Effect`,
`StepEffect`), which share what they leave alone (`Shape`).  That the books add up
(`BooksKept`) needs that a sum over a set grows by the amount of a new element, whichever
element the fold takes first (`TotalAdds`); it is proved by induction on the size of the
set, the induction being over a set of sizes (`NatInductionBySet`), since the library's
own takes an operator.

**`CartCheckoutProofs`.**  `ProjectionFollowsRow` and `CheckpointIsExplained` need to know
how many commits fit between two checkpoints: `RInv` follows the revision through the
four copies (a living worker's graph has the revision of its projection,
`GraphKnowsLocal`) and says that every node on the way to a publication, recoveries
included, still has the checkpoint its turn began with (`CheckpointCurrent`), so that a
commit is over exactly that revision; a commit leaves those nodes, and the only way back
to them starts from a written checkpoint (`GraphMoves`).  `RecordsAlwaysAgree` and
`ChangesAreAlwaysConsented` need in addition what each node knows of its request
(`CInv`): that it is of the node's kind and agreed to after a yes, in the checkpoint too
(`Fits`, `Agreed`); that a checkout not yet committed is of the cart the worker knows
(`GraphKnown`), also one set aside for a question (`DetourKnown`); that a thread belongs
to the placement that runs or outlived the automation (`ThreadKnown`); that a checkpoint
of the row's revision says of its request what the row says (`SavedKnown`), which is what
a restored worker relies on; and that the receipts explain the session's orders
(`LedgerKnown`).

**`WorkbenchProofs`.**  Of the simulator, `TurnsAlwaysRunInLiveSessions` and
`SessionsAreAlwaysOwned`, from `SimulationInv`: a request past the wait for a lock has
it (`LocksHeld`), the table has open sessions, each under one key (`TableSound`), one
that was built and not installed is its builder's alone (`FreshIsPrivate`).  Of the
management service, `ManagementTypeCorrect`, `HistoryAlwaysSound`,
`PublishedWasAlwaysShown`, `CatalogImportsKeepTheRest` and the refinement
`RepositoryImplementsHistory`.  They rest on `CallsKnow`: what a call read before its
commit is still true of the draft if that still has the revision the call expects, and
what it means to publish was shown under the running contract.  That the audit tells the
history (`AuditExplainsState`) is stated by the positions of its records: the records of
draft writes are numbered up to the draft's revision in order, those of publications up to
the number of versions, and the last activation tells which version is active.

**`DeploymentProofs`.**  `HistoryAlwaysTellsSchema`, from `OneInside` (a runner past the
lock holds it), `WorkContinues` (what it read begins its build and its work continues it
there), `TableKnown` (one transaction at most has created the history table, and while it
is open nobody else is inside) and `SetUpKnown` (a runner that found the database set up
stays abreast of the vendor's steps and of the table, so nobody can overtake it); and `NoOtherRowIsLeftBehind`, from `EvidenceStands`: while a
tenant is still retiring in the inventory that a drain result binds, nobody new is let
in.

**`ConversationProofs`.**  Of `RequestSlots`, `EffectsAlwaysGrounded`,
`FixedSlotsAlwaysStand` and `AnswersAlwaysSuffice`, from `SlotsInv`: every filled slot of
the open request was said, offered or read (`RequestKnown`), as were the frozen ones
(`FrozenKnown`), and a question is only ever asked about something missing.  Of
`TurnRouting`, `RoutingTypeCorrect`, `ConsentAlwaysFollows`, `DeclinesAlwaysStand` and
`TurnsAlwaysActOnce`, from `RoutingInv`: what the automation state looks like at each place
of the graph (`Fits`), which delivery holds the lock and asked the question that is open
(`LockKnown`, `QuestionKnown`), that an effect node is reached only with a key the caller
agreed to and that a pending effect which was declined or done is being finished or out of
reach of every step (`EffectKnown`, `Doomed`), that a readback set aside for a question is
of something neither declined nor done (`DetourKnown`), and how often a message acted so
far (`ActsKnown`).

Model-checked only: liveness (`EventuallyGone`, `CloseReturns`, `EverythingReleased`,
`AbandonedTurnSettles`, `ConfirmedSettles`, `YesIsAnswered`, `SweepReachesEveryRow`), which
is out of the prover's reach.  Every invariant and every other action property that a
passing run checks is also a theorem.

## Not modelled

`PROJECT.json` gives the reason for each part that is left out as a whole.  Within the
modelled parts:

* words: prompts, spoken lines, summaries and the offers of products, except the offer
  that lets a bare assent stand for a product;
* in `ProtectedActions` the choice of the order a request is about, the guardrails and the
  amounts (they are in `RequestSlots` and `SupportOrders`); in `SupportOrders` the codes of
  the step-up;
* in `TurnRouting` the redelivery of a route that was checkpointed and never run
  (`engine.py:1178-1211`), the last-resort branches for an unfinished checkpoint that
  cannot be read, and a restart while a principal transition is outstanding;
* in `TurnRouting` the second run of the confirm node when a question is asked again
  (`AskAgain`, `engine.py:1689, 1796`): the question is put as it stood, and a failure of
  that run or the expiry of the request in it is left out;
* in `Deployment` the check of the connected role, its search path and privileges
  (`require_platform_application_role`), which changes nothing;
* in `Migrations` the statements inside one vendor step, and a database whose vendor
  tables are ahead of the pinned version (`RequireVendor` may refuse for any reason);
* in `RequestSlots` branches of the typed requests that no code produces
  (`CartItemQuery`, `CartItemChoices`, `FocusedOrderTarget` for refunds and returns,
  `CancellableOrderScope`), and guest orders of a caller who is already bound at the
  start.  The destination "original" needs no mention by the caller, the reader of amounts
  is taken to find only what was said, and order reads have no question budget, as in the
  code;
* the steps of one durable close in `VoiceJob` and `TenantSweep` (they are
  `SessionClose`'s);
* in `Management` more than one merchant or draft, and timestamps;
* the cipher, the media pipeline, LangGraph and the language models, which are external
  and appear by what the code relies on.
