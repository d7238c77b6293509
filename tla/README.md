# Verification of OpenBREC RF in TLA+

TLA+ specifications of the runtime of OpenBREC RF, TLC configurations that
check them on small instances, and proofs of their safety properties for
every instance. The reference is the code: every operator names its idea after the
function it models, and `PROJECT.json` ("map") gives the lines.

## The system

A client posts an observation of a sensor to the HTTP API (`apps/api`), which
wraps it in a canonical event and publishes it over MQTT. Fusion workers
(`apps/fusion-worker`) take events from their broker sessions, store the unit
in the disposition store, record the observation in the fusion store, fuse it
with the evidence of its time and zone, store the result and publish a notice.
Around this runtime the repository has libraries with state of their own
(keys, the SQLite vault, message trust, energy), functions of what has arrived
in some order (SOS histories, federation, beacons, RF lines, replays, the
simulator), and the commands that verify all of it, whose gates judge documents
and files that people edit meanwhile.

| Component | State | Operations | Interacts with |
|---|---|---|---|
| HTTP API, `MqttPublisher` | `_connected`, the client's outgoing messages | `ingest`, `publish`, connect and disconnect callbacks | broker; client (202, 422, 500, 503) |
| Broker (external) | a session with a queue per subscription, `max_queued_messages` | deliver, PUBACK, drop | API, workers |
| Fusion worker | two database connections, the message under way | `on_connect`, `on_message` = `process_event` | broker, both stores |
| Fusion rules | none | `fuse_observations`, `_result_id` | worker |
| Fusion store | tables `observations`, `fusion_results` | `record_observation`, `observations_in_window`, `record_fusion_result` | worker |
| Disposition store | `ingress_units`, four destination tables, `audit_events`, the connection's transaction | `ingest`, `reconcile`, `close` | worker, key registry |
| Key registry | entries, `active_key_id`, `epoch`; envelopes outside | `rotate`, `revoke`, `zeroize`, `export_recovery`, `recover`, start | disposition store, custodian |
| SQLite vault | the same tables, ciphertexts, audit | `ingest`, `access_vault`, `delete_vault`, `reconcile` | key |
| Message trust | `TrustState`: message ids, nonces, sequences; the local revocation cache | `protect_message`, `verify_message` | devices, bearers |
| Energy | a budget; state, boot id and timeline of each domain | one event at a time | terminal |
| SOS histories, terminal | the events that have arrived | `reduce_sos`, `_project`, the specification's `_reduce_sos` | devices, operators |
| Federation | the events a hub has received | `_reconcile` | cells, hubs |
| Beacons | observations of a case, the log of authorizations, what a capture left | `classify_fusion_case`, `_valid_authorization`, `run_retention_fault` | people, fusion rules |
| RF sensing | files of lines, active sources, windows | five campaigns, each replayed in several orders | fusion rules |
| Simulator | enabled faults | `run_scenario` | console |
| Replay | a recorded bundle, an event log | `AdapterReplayRunner.run`, `CoreReplayRunner.run` | semantic validation |
| Transport comparison | a workload | `load_workload`, the comparison | its author |
| Integrated campaign | scenario files, a frozen hash | `run_integrated_gate` | the gates of the components |
| Contract assets | schemas, catalog, baseline, generated trees | `sync_generated_assets`, the contract gates | authors of schemas |
| P1A assets | an authorization register, manifest files | `run_asset_intake`, `run_asset_gate` | people who file evidence |
| Governance | policies, matrices, shortlists, residuals | the gates of `p0_exit`, `p1a_readiness`, `open_spec`, `open_spec_exit` | people who edit them |
| Verification commands | checkout, docker, secrets, evidence directory | `all`, `p0-all`, every gate | all of the above |

What is hard: two workers between each other's statements, each of which
commits by itself; callbacks that swallow errors; at-least-once delivery and
handlers that time out; sessions that vanish with their connection; implicit
transactions; keys that are rotated, revoked and recovered in any order; rows
that are read in one transaction and judged in another; results that must not
depend on an order of arrival; two judgements of one thing written twice; files
that are edited, and commands that are killed, between two steps. Every hazard is listed in `PROJECT.json` at its line with the properties about it.

## What each part must get right

- Pipeline: a unit enters the log once; a notice speaks only of what is
  committed; two observations that meet are fused together by somebody; what
  is acknowledged is stored; what is answered is not taken back.
- Disposition store: one disposition for each unit, whole commits, nothing
  returned that can still vanish, calls that end.
- Key registry: one key encrypts; nothing older than the custodian's minimum
  comes back; evidence stays readable.
- Message trust: no replay, no nonce used twice, nothing accepted late, and
  no refusal without a cause.
- Energy: never a better state than the sample, no flapping, life safety loads
  last, a budget that does not contradict itself.
- Vault: whole dispositions; no plaintext without an audit event of its own,
  no read and no deletion of one evidence at one time.
- SOS histories, federation, RF lines, replays: what they publish does not
  depend on the order of arrival beyond what the code says; two programs that
  reduce one history agree; rival claims stay visible.
- Beacons, simulator: authority comes from people who gave it; a fault more
  never raises what a zone claims.
- Verification: a manifest counts as passed only what its receipts back, nothing
  started is left behind unsaid, a sync leaves whole trees, a campaign that
  passed can be believed of what nobody touched since, and two judgements of one
  set of evidence agree about it.

## Modules

| Module | Models |
|---|---|
| `Fusion` | the rules of `openbrec/fusion.py` and the evidence query |
| `FusionLedger` | what the runtime promises about its durable state: four growing collections |
| `FusionPipeline` | API, broker, workers, stores and their faults; extends `Fusion`, implements `FusionLedger` |
| `DispositionStore` | `openbrec/postgres_disposition.py` over PostgreSQL transactions |
| `KeyRegistry` | `openbrec/keyring.py`, its envelopes, the custodian's minimum epoch |
| `MessageTrust` | `protect_message` and `verify_message` of `openbrec/messaging.py` |
| `Energy` | `openbrec/energy.py`: budget, state machine, replay of one domain |
| `DispositionLog` | what both disposition stores promise: one disposition for each unit, whole and for good |
| `EvidenceVault` | `openbrec/disposition.py` over SQLite; implements `DispositionLog`, as `DispositionStore` does |
| `SosHistory` | `reduce_sos` of `openbrec/messaging.py`, its copy in `openbrec/open_spec_messaging.py`, and `openbrec/terminal.py` |
| `Federation` | `_reconcile` of `openbrec/federation.py` over what has arrived |
| `BeaconCampaign` | cases, captures and retention of `openbrec/beacons.py` |
| `RfSensing` | the campaigns of `openbrec/rf_sensing.py`, over the rules of `Fusion` |
| `Simulator` | `openbrec/simulator.py` under faults |
| `Replay` | `openbrec/replay.py` with `openbrec/semantic.py` |
| `VerificationGates` | `openbrec/verify/cli.py`: commands, receipts, manifests, the compose stack |
| `ContractAssets` | `openbrec/contracts.py`: the sync of the generated trees and its gates |
| `Transports` | `openbrec/transports.py`: the workload and the comparison |
| `IntegratedCampaign` | `openbrec/integrated.py` |
| `AssetIntake` | `openbrec/p1a_assets.py`: intake and gate |
| `Governance` | the document gates: `p0_exit.py`, `p1a_readiness.py`, `open_spec.py`, `open_spec_exit.py` |
| `Records` | composes the vault and the six modules of what is computed of records |
| `Gates` | composes the commands and the five judgements over documents |
| `FusionPipelineProofs`, `DispositionStoreProofs`, `KeyRegistryProofs`, `MessageTrustProofs`, `EnergyProofs`, `VerificationGatesProofs` | the theorems about the module of that name |
| `RecordsProofs`, `GatesProofs` | the theorems about the vault and the other components of `Records`, and about those of `Gates` |
| `MC*` | instances for TLC: the values of the constants |

Operators called "Seeded fault" in a comment are no part of a specification:
each is a plausible bug of the definition that follows it, and `PROJECT.json`
("mutants") says which property finds it.

### The pipeline

A request is named by its position in `requests`, and so is the MQTT message
that carries it. One action is one step of one process that others can observe:

| Action | Code |
|---|---|
| `RejectRequest`, `RefuseRequest`, `PublishRequest`, `PublishTimeout` | the outcomes of the `ingest` handler of `app.py` |
| `Transmit`, `Puback`, `ApiLinkLoss`, `ApiLinkUp`, `ApiCrash` | the paho client of the API and its broker |
| `Subscribe`, `Deliver` | `on_connect`, and the call of `on_message` |
| `Ingest`, `Record`, `Query`, `RecordResult`, `Notify` | the statements of `process_event`, each of which commits |
| `DropOnCollision`, `DropOnDeadConnection` | the `except` clause of `on_message` |
| `StorageFailure`, `WorkerLinkLoss`, `WorkerCrash`, `BrokerRestart` | faults |

An observation is a record of the fields the rules read. The bytes of events,
JSON and schemas are left out; that an event is a function of its observation
is what makes `WriteUnit` idempotent in the model as it is in the code. The
events the API publishes are always valid, so every unit goes to
`accepted_event_log`; other destinations are the subject of `DispositionStore`.

`MeetingPairIsFused` is the property this design most depends on: two workers
record their observations and look for evidence without a common transaction.
Because each row is committed before its worker looks, the later look finds
both. It needs both observations within the `LIMIT` (`Untruncated`).
`pipeline_storage` has a `LIMIT` of one, so that most looks are cut off: types,
ids and the ledger do not need whole evidence.

### The disposition store

The database is a set of rows with keys; each client has a connection, its
pending rows and the flag `nested` for a connection that is inside an implicit
transaction. `Begin`, `InsertUnit` or `FindUnit`, `Place`, `Return` are the
statements of `ingest`; `Abort` is its exceptions; `ReconcileUnits`,
`CountTable`, `Report` the five SELECTs of `reconcile`. An INSERT waits for
another transaction that holds its key, and a cycle of waits has a victim. A
break-glass call without actor and reason raises before its transaction and is
no action: it changes nothing the store keeps.

### The key registry

Cryptography is abstracted: an envelope is the registry it was exported from.
The custodian's minimum epoch is a variable that follows rotations later, when
`Persist` happens. The operator never reuses a key id (`NeverUsed`), as the
custody procedure demands; the code checks only the keys its registry holds.

### Message trust

A message is a record of the fields that `verify_message` compares; it is
named by its position among those sent. `Protect` is `protect_message`; `Boot`
gives a device another boot identifier and sequence 0, and only the devices in
`Forgetful` may take one used before: the code takes the identifier from its
caller. `Verify` hands the receiver any message that was ever sent, any number
of times and in any order, intact or spoiled: bearers that lose, duplicate,
delay and corrupt need no actions of their own. A spoiled copy fails the
signature or the tag. Key and scenario mismatches that a sender of the code
cannot produce are left out. `Restart` empties `TrustState`.

### Energy

States of charge and their uncertainty are percentages, energies are integers,
and fractions are compared after multiplying them out, so that `Sufficient`
and `Runtime` (which rounds down) are exact. `Event` is one turn of the loop
of `run_energy_scenario`; `Fail` is the `float(None)` of a sample in a domain
that started without one, which ends the replay of all domains. Domains do not
interact, so one is modelled, chosen from `Domain`.

### The vault

`EvidenceVault` has clients with one connection each to one file. `Ingest` is a
whole transaction: plain INSERTs, so a repeated unit, bytes that are in the
vault at another offset, or a seal event that is in the audit already raise and
leave the file alone. `access_vault` and `delete_vault` read the row first and
decide in a transaction of its own: `Select` is the read, `Read`, `DenyRead`,
`Delete`, `DenyDelete` and `Abandon` what comes of it, and another client may
act in between. An audit event's id is made of its content, so an event that is
there already makes the INSERT raise (`Audited`); `EveryReadIsAudited` rests on
this. Encryption is the flag `sealed`, times are integers beside one retention.

`DispositionLog` is the promise the two stores share, and each is shown to
implement it under its own mapping (`StoreKeepsLog`, `VaultKeepsLog`): the
PostgreSQL store from committed rows, whatever transactions are open, and the
SQLite store although it reads and deletes what it stored.

### What is computed of records

`SosHistory`, `Federation`, `BeaconCampaign`, `RfSensing`, `Simulator` and
`Replay` have one shape: the state is what has arrived (events, lines,
observations, faults), an action is the arrival of one more, and the code's
function is an operator over the state. Order, repetition and gaps are thus the
behaviours, and the properties relate the function's value now to its value in
another order, for another reader, or one arrival later.

- `SosHistory`: an event has a type, a time of its device, the ids of its
  causes and whether its actor may accept. `reduce_sos` replays the events in a
  stable order of their times (`Precedes`) and raises at the first it refuses, so
  it returns exactly when none is refused after all that come before it
  (`Reduces`): a loop whose state is the set of what it has taken needs no more.
  `SpecReduce` is the specification's copy of it, which breaks ties by id
  (`SpecOrder`) and skips what it refuses, so it stays a loop, as a recursive
  function over the sorted events. `Terminal` looks at types only. `OnlyTiesMatter`
  and `SpecAgrees` say, over every order of arrival (`Arrivals`), how far these may
  differ; `OnlyACauseHeals` says what an event that comes late can make good.
- `Federation`: an event is an id, a body and what it claims; ids with several
  bodies are set aside. `ClaimsStayVisible` says that of two claims on one offer
  a hub either shows a conflict or has set one aside as a variant, unless
  `_reconcile` raises.
- `BeaconCampaign`: `CaptureHasAuthority` is stated over the whole log, the code
  looks at the last active break-glass and the set of active grants.
- `RfSensing`: the verdict on each kind of line, what is emitted under which id,
  what a case fuses (through `Fusion`), and `Deterministic`: the projections
  agree in all orders a campaign tries (the rotations of its file, every other
  one reversed). `PassedIsOrderFree` says that for four lines or more, all
  different, those few orders stand for all; that they do not for shorter files
  or repeated lines is one of the departures below.
- `Simulator`: `ConfidenceOnlyDegrades` is an action property, over every
  switching of a fault on or off.
- `Replay`: `ReplayIsOrderFree` replays every permutation of a log, with any
  line repeated.

### The verification commands and what they judge

`VerificationGates` runs `all` and `p0-all` at once on one checkout: each gate
is a process that ends well, with errors or with an exception (`Outcomes`),
which some branches of `main` catch and others do not (`bare`, `guarded`). The
gates of the runtime go through `Prepare`, `Build`, `Up`, `Smoke` and `Down` of
one docker. Receipts are written, validated (`Integrity`), and copied over what
an earlier campaign published, one file at a time; `Edit` changes the checkout
and `Kill` ends a command anywhere. The manifest of `all` names no commit: the
`sha` of the model's manifest records, for the property, the one the campaign
started on.

`ContractAssets` builds one tree after the other (`BuildTree`, since the
generators read the schema files for themselves), then gives every file
operation of the sync an action (`Keep`, `RemoveTree`, `CopyTree`) and lets it be
interrupted anywhere; schemas, catalog and baseline are edited at any time.
`SyncIsWhole` asks for no edit of a schema since the sync began.

`IntegratedCampaign` does not read files but what a gate makes of one
(`Answers`): a summary, errors, a degraded domain. The frozen hash is of the
summaries, and a summary does not cover its file: `_malicious_outcome` hashes the
hostile cases of a workload and none of its traffic, energy leaves out the order
of events and the hash its scenario expects. An `Edit` therefore gives every gate of the file
any answer, the frozen summary included. `PassStands` says what is left: the
campaign vouches for the files that nobody wrote since it was loaded (`touched`), as
they stand. That it ran on the frozen files is false (`PassRanOnFrozen`).

`Transports`, `AssetIntake` and `Governance` are judgements over documents that
somebody edits record by record; a field a validator compares only with a
literal is one flag. `SosLeadsWherePassed` compares the loader's priority of SOS
with the queue's head, `ReadyLacksOnlyLinks` the intake's readiness with the
gate's acceptance. The gates of `Governance` compare documents with constants of
their own and hardly with one another, so no property of the passing runs is
about them; a shortlist may name categories that nobody governs (`Name`). What
their independence allows is among the departures below.

## Runs

| Run | Question | Bounds |
|---|---|---|
| `pipeline_safety` | acceptance, rows, notices, pairs and acknowledgements with lost links and worker crashes | two workers, one late; two requests of three observations, two of which share an id; one fault; queues of two; `LIMIT` 2 |
| `pipeline_storage` | the inductive invariant, identities and the refinement of the ledger with broken storage, API crash, broker restart | two workers; two requests of four observations, usable and not, one with an empty window; one fault; queues of one; `LIMIT` 1 |
| `pipeline_live` | is what was answered 202 kept, and what was queued in the end noticed | one subscribed worker, queue with room, one broken link |
| `disposition` | dispositions, the refinement of the log, what reconcile reports, and whether calls end | two stores, one reconciling, one key that is revoked; units that share a key in the vault, or the unit itself with another destination |
| `key_safety` | rollback, readability | three keys, three epochs |
| `messaging` | replay, order, refusals | two devices with one group key, one of them forgetful, revocable and short of validity; three boots, three messages, two lives, one tick |
| `energy` | hysteresis, shedding, budget | five domains at the boundary of sufficiency, without power or without a measurement; eleven samples at and next to the thresholds; three events |
| `records` | the vault, and what is computed of SOS events, claims, authorizations, RF lines, faults and bundles | vault: two clients, six inputs, reads and deletions at and after the last instant, seven calls; SOS: histories of four of ten events; federation: five arrivals of one cell's events and claims; beacons: three authorization events, three times; RF: four lines; simulator: every scenario of four faults over four nodes; replay: bundles of two, logs of three |
| `gates` | the verification commands, and what five gates judge | commands: two campaigns begun, plans of two gates, two edits, each killed once; contracts: three trees built and replaced one by one, two versions, three edits; workloads of four entries; integrated: five gates on four files, two writes; assets: two categories, two records, two files; governance: four edits |

`records` and `gates` hold several components that share no state. A behaviour
chooses one of them (`part`) and moves it alone, so the run explores the sum of
the components and not their product.

Two requests are enough for the pair properties, which relate two
observations; a third observation with a taken id makes the collisions. One
fault in every position covers the crash points of a callback; two requests of
the same observation are a client's retry. Three epochs let a rotation skip
one and an envelope be two rotations old. Three messages allow one to overtake
another while a third comes from a second boot or device; a life and a tick
are what a replay needs. Flapping takes three statuses, and the theorems say
that longer stretches add nothing. In the vault, seven calls are two units,
and two clients that read and delete one of them with a call of each left over;
the sets of calls hold every pair of words and people the code tells apart. An
SOS history of four has a creation, a cause, its effect and a tie; four RF lines
are the shortest file for which the orders that are tried put every line before
every other. Two campaigns are a publication and one over it. Two writes of an
integrated campaign's files are one before its gates and one between them, or
of two files between them; three trees are one passed, one removed and one to come.

Runs that end in a violation show where the code departs from what the
repository says of it; each quotes the line in `PROJECT.json` ("findings"):

| Run | What happens |
|---|---|
| `pipeline_storage_loss` | a broken database connection: the error is swallowed, the message acknowledged, the unit lost |
| `disposition_restart` | after `reconcile`, `ingest` returns units that `close` rolls back |
| `key_revoked` | an envelope of the same epoch revives a revoked key |

More configurations are run by hand. `MCRecordsMore` and `MCGatesMore` pass and
hold further properties of the same instances (`tlc -config MCRecordsMore.cfg
MCRecords`). The others show behaviour a reader should know of: each of their
invariants, checked by itself, ends in the violation described.

| Configuration | Invariant | What happens |
|---|---|---|
| `MCPipelineDepart` | `AcceptedIsNotLost` | 202 before any worker has subscribed: the input is lost |
| | `ResultNeverCollides` | two abstentions of one window collide on `result_id`; the second raises and is dropped |
| | `LogReplays` | two observations of a sensor with one start make a log that `validate_event_set` refuses |
| | `NoticeCitesItsOwn` | with as many older rows as the `LIMIT` the new observation is not among its own evidence |
| `MCDispositionRefused` | `NoUnitIsRefused` | the same life-safety bytes at a second offset get no disposition, although every unit is promised one |
| `MCKeyDepart` | `RotationIsNotRefused` | after revoking the active key no rotation is possible, although `docs/runtime/m0-lab-key-lifecycle-sop.md:34` prescribes one |
| | `NoRollback` | a process starts from the secret of an older epoch |
| `MCEnergyRuntime` | `RuntimeIsCurrent` | every status repeats the runtime of the initial budget, also when its own sample is far lower |
| `MCRecordsDepart` | `PassedIsDeterministic` | a file of two or three lines, or with a line that is repeated, agrees in the orders that are tried and not in another: of two lines of one id that differ in strength the first stays |
| | `ExpiredPublishesNothing` | an autojoin event is published that happened after its profile had expired: the expiry is compared with the start of the campaign |
| | `LossDegradesCoverage` | a node that is lost under another name is still a source of its zone, and a unit accepted |
| | `EndsWithReceipt` | a replay raises instead of ending with a receipt |
| `MCGatesDepart` | `EntriesAreTrue` | every gate passes although the hash an entry of the catalog states is not that of its file: it is compared with the baseline's only |
| | `EverySosLeads` | a workload is loaded in which an SOS does not lead the queue |
| | `PassRanOnFrozen` | a campaign passes against its frozen hash on an edited file: no summary holds what was edited |
| | `DegradationIsNoFailure` | a campaign whose gates all pass is refused because one domain is degraded and the others are not |
| | `NeverCrashes` | a gate that fails without the summary the projection reads ends the campaign with an exception instead of a verdict that names it |
| | `ShortlistIsGoverned` | readiness and support pass a shortlist with a name that is none of the governed categories: one counts the names, the other wants them different |
| | `LaneNeverBlocks` | a task accepted in the physical lane, or its restatement, makes the gates of the complete Open Spec fail |

Deadlock is not checked: the environments stop (bounded requests, calls,
faults, messages, events, edits), and a state in which nothing is left to do is not
an error. That something does happen while there is work is what
`pipeline_live` and `disposition` check.

## Fairness

`pipeline_live` assumes weak fairness of the API client's network loop (it
sends, reconnects and takes PUBACKs by itself: `loop_start`), of the worker's
subscription and of its callbacks, which nothing blocks for ever in the
absence of storage faults. No fairness is assumed of clients, of the 5 s
timeout or of faults.

`disposition` assumes (`FairSpec`) that a call whose statement the database
can answer goes on. `IngestEnds` excuses a call while another client's
connection is inside an implicit transaction: such a connection holds its keys
until it is closed, and nothing in the code closes it.

The other modules have no progress of their own to promise: every step is a
call, an arrival or an edit of somebody, or a command that may be killed, and
they state safety only.

## Proofs

All theorems hold for every value of the constants that satisfies the named
assumption of the module (`FusionConstants`, `PipelineConstants`,
`EnergyConstants`, `TrustConstants`, `VaultConstants`, `GateConstants` and so
on), which TLC evaluates in the runs. Most follow from an inductive invariant,
proved action by action; those over what has arrived, from the types of the
state and lemmas about the code's functions.

**Pipeline.** `IInv` says besides the safety invariants that what travels has
an advancing window (`CarriedAdvance`), what each callback has committed so
far (`TaskOK`), the types of all variables (`TypeOK`), and `LooksMeet`: of any two looks for evidence, those under
way included, one found the other's observation. The property over notices
alone is not inductive, because a callback that has looked is about to
publish. `IndicatorsNeverCollide` uses that ids are unique in `rows`.
`AckFollowsCommit` needs that there is no storage fault among `FaultKinds`;
`pipeline_storage_loss` shows that it does. `PipelineImplementsLedger`: every
step of the pipeline is a step of `FusionLedger` or a stutter.

**Disposition store.** The invariant adds what a client in the middle of a
call holds (`CallOK`): between `InsertUnit` and `Return` its pending rows are
one ingress row that waits for its disposition or one whole unit
(`WholeUnit`), and outside an implicit transaction an idle client holds
nothing. Without it a commit could be half a unit. From it follow
`OneDispositionPerUnit`, `KeysExclusive`, `ReturnedDurable` and, for every
change of the database, `CommitsAreWhole`. `StoreImplementsLog` maps the
committed rows to `DispositionLog`: a step that changes them adds one whole unit
that was not there (`CommitStep`), which is one `Dispose`; every other step is a
stutter.

**Key registry.** The invariant relates the registry and every envelope to
what was sealed (`Consistent`, `Covers`): a registry holds every readable key
of its line of epochs. `RollbackIsRefused` assumes that the process does not
start from a stale secret (`"stale" \notin Starts`); `MCKeyDepart` shows why.

**Message trust.** `TrustIsHistory` says that `TrustState` is exactly what the
acceptances of this life amount to, `AcceptedWasSent` that acceptances are of
messages that were sent and in time, `SentInOrder` and `BootsAreFresh` that a
device that does not forget is ahead of what it sent in its boot. Replay
protection needs the first two, uniqueness of nonces the last, and
`RefusalsExplained` reads the cause of a refusal off `TrustIsHistory`.

**Energy.** Hysteresis is about any three statuses of a timeline, the machine
about two. `FallsOnSamples` and `RisesOnSamples` close the gap: between any
two statuses of a steady stretch, each level the state fell past was entered
on a sample at its threshold, and each level it rose out of was left on a
sample five points above. A state that is left and taken again has one sample
of each kind for one level. Shutdown has no recovery threshold in the code and
is excluded. `BudgetIsConsistent` is arithmetic: the margin is at least one
and the runtime ignores two of the three reserves.

**Vault.** The invariant says that rows follow ingress units (`RowsFollow`),
the vault its rows (`VaultFollows`), that a client between its read and its
decision holds a row that is still listed (`TaskOK`), and that every event that
says "allowed" was allowed at its time (`AuditJudges`). `ReadsPrecedeDeletions`
is then arithmetic on the two comparisons with the retention, and
`VaultImplementsLog` a refinement in which only `Store` is not a stutter.

**Verification commands.** The property over published manifests is not
inductive by itself: a campaign under way has receipts of gates that passed
(`PassedBacked`), all of its own campaign and commit (`ReceiptsOK`,
`PassedBefore`), and while it publishes, the directory holds those it has copied
(`CampaignOK`, `Backed`). A torn directory is exempt until the next publication
covers it whole, which needs that a plan names each gate once and is not empty
(`GateConstants`). `StackAccounted` names who still has to stop the stack.

**Records.** `Records` moves one component at a time, so each invariant is
one of the component's own steps (`StepsApart`), and `VaultBehaves` carries the
vault's theorems over to the composition. What is assumed of the constants is
what the code's inputs are: times and ids are ordered and an id is of one event
(`SosConstants`), times of authorizations are numbers (`AuthorityConstants`), a
scenario has finitely many nodes of a quality no less than zero
(`ScenarioConstants`). The rest is about functions of what has arrived, of any
length:

- `OrderDecidesTies`: without a tie between an event and a cause of its own, what
  precedes an event that nothing refuses holds all its causes in every order of
  arrival, so any rearrangement is refused or reduced alike (`AnyOrderReduces`,
  `InAnyOrder`).
- `CausesHeal`: one more event goes before or after each that is there
  (`OneMore`). It changes what comes before a refused event by itself alone, so
  the refusal ends only if the event is one of the causes that were lacking; a
  repeated event and an acceptance without the right have none.
- `ReplaysAgree`: events of different (time, id) have one sorted order, found by
  counting how many are earlier (`CanBeSorted`, `OneOrder`), whatever the order
  of arrival. Then the specification's loop is followed stage by stage
  (`StageStep`, `StageEnds`): before the first refusal it has seen what the
  program's replay has.
- `FewOrdersSuffice`: with four lines or more, some order that is tried puts any
  line before any other (`FewOrdersTell`). A projection is a function of which
  of two lines of one id comes first (`ShownComesFirst`), so it is the same in
  all orders when it is the same in those (`PassiveProjection`,
  `CasesProjection`).
- `ReplaysAreOrderFree`: what validation compares are pairs of events, never
  their positions, and the receipt is of the sets (`CoreOfMembers`).
- `FaultsOnlyDegrade`: a fault lowers each node's quality and the set of sources
  (`QualityOnlyDegrades`); the sources' mean times their share of the zone is
  the sum over the zone divided by its size (`ConfidenceIsShared`), and a sum is
  monotone in its set and in its terms. This needs that the community module's
  fold over a set has one value in every order (`SumInAnyOrder`).
- `ClaimsAreShown` and `CapturesHaveAuthority` follow from the definitions over
  bags and logs of any size: two claims of one group are more than one
  (`MoreThanOne`), and the last of several break-glasses is one of them
  (`LastPosition`).

**Gates.** `SyncsAreWhole`: while nobody edits, the trees the sync has visited
are as it built them, and what it has built is what the files hold.
`PassesStand`: as long as nobody writes a file, what the campaign has of it is what
its gates answer still (`CampaignInv`), and a verdict is passed on all of it. `SosLeads` compares the priority the loader reads off one entry with
the one the queue sorts by. `ReadyIsAlmostAccepted` pairs each category with its
one authorization and its one manifest, for which two counts that agree must be
shown to leave no category out. Assumed are a tree to visit
(`ContractConstants`), gates that have a file (`CampaignConstants`), priorities
that are integers, which the loader checks of the last entry of each type only
(`TrafficConstants`), and the fields the schemas require (`AssetConstants`).

**What reconcile reports.** `ReconcileErrs` needs its own invariant
(`CountInv`), beside `IInv`. A reconcile counts five tables one after
another, and another client may commit a unit between two of them. `Counting` says
that the units it counted first never exceed the destination rows counted so far
and those still to be counted, and that what it has counted is still there;
`Settled` that what an abandoned call falls back to is whole units.

**What a 202 promises.** `AcceptedIsKept` needs for one worker (`KeepsUp`) that
it stays subscribed, holds whatever the broker took until the unit is committed,
and has room for every request, once for itself and once for each fault that
makes the API's client send it again. Its hypotheses are that a worker has
subscribed before the API takes requests, that only the API's own link and
process fail, and that the broker's limit leaves that room
(`MaxRequests * (1 + MaxFaults) <= MaxQueued`). `pipeline_live` is an instance:
one subscribed worker, `api-link` alone, 3 * (1 + 1) <= 6. Without each of
them the code does lose inputs: a worker that subscribes late
(`MCPipelineDepart`), a broken database connection (`pipeline_storage_loss`), a
worker's session or a broker that goes with its queue, a queue that is full.

**Induction.** No prover here instantiates the library's induction theorems, which
take an operator as a parameter. Where a proof is by induction over a number
(sums, sorting, the stages of a loop), it takes the least counterexample instead:
the set of counterexamples is a set of naturals, and `LeastNat` (from
`NatLessThanWellFounded` and `WFMin`) gives one whose predecessor is none.
Recursive functions get their equation in the same way (`RecursionExists`,
`RecursionIsUnique`, `ReplayExists`).

Every invariant and every action property of the passing runs is stated by a
theorem. Model-checked only are the two liveness properties (`QueuedIsNoticed`,
`IngestEnds`), which are out of the prover's reach, and the further properties
of `MCRecordsMore` and `MCGatesMore`. The theorems of `Gates` say nothing of
`Governance`. The proved specifications are the ones
TLC runs; the constants of the configurations satisfy the assumptions, which TLC
evaluates.

## Not modelled

- CoT export and the RuView model check: conversions and checks of one document
  at a time, without state or order.
- Supply chain (`supply_chain.py`): scans of tracked files and lock files.
- The database gates (`gates_m0_04.py` to `gates_m0_06.py`, `postgres_gate.py`):
  drivers that call the stores and the registry in one order, which is among
  those `DispositionStore`, `EvidenceVault` and `KeyRegistry` explore.
- The document checks of `open_spec_beacons.py`, `open_spec_energy.py`,
  `open_spec_federation.py`, `open_spec_transports.py` and
  `open_spec_builds.py`: each compares the fields of one document with schemas
  and constants. They appear as gates that pass or fail in `VerificationGates`.
- Of modelled files: the topology's scale and the hostile inputs of the
  federation, the malicious inputs of transports and beacons, the fixtures and
  code generators of the contracts, the read-only queries of the API.
- Two syncs of the contracts at once, and edits of the generated trees by hand,
  which the check finds and the next sync undoes; the rounding of Decimal in the
  energy budget; the statements within one ingest of the SQLite store.
- The web console, a view of the API's GET endpoints.
- Cryptography, JSON schemas and canonical bytes: an encryption or a signature
  is a flag or a name, a hash is what it is of.

## Plan

1. The core pipeline, its ledger and proofs; the disposition store and the key
   registry with theirs (done).
2. Message trust and energy with their proofs (done).
3. The SQLite vault, the disposition log and both refinements (done).
4. SOS histories with the terminal and the specification's replay, federation,
   beacons, RF sensing, simulator, replay (done).
5. The verification commands, contract assets and the judgements over documents
   (done).
6. Theorems for every invariant and action property of the passing runs (done).
7. Next, proofs of what `MCRecordsMore` and `MCGatesMore` check: that a refused
   history is refused for a reason (`RefusedForAReason`), that an arrival takes
   nothing away from what a hub shows (`NothingDisappears`), and that accepted
   evidence pairs off (`AcceptedPairsOff`).
