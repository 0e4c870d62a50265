# Verification of ContentLens

TLA+ models of the parts of ContentLens that keep, share and schedule state, the
TLC runs that check them on small instances, and TLAPS proofs about them for every
instance. ContentLens is a browser extension (TypeScript, under `src/src/`; paths
below are relative to it) that hides, shows and explains content of YouTube,
LinkedIn, X, Reddit, Hacker News and RSS by local rules and optional models.

## 1. The system

| Component | State | Operations | Interacts with |
|---|---|---|---|
| Sync merge (`sync/three-way-merge.ts`, `conflict-resolution.ts`, `reconcile-local.ts`, `materialize-*.ts`) | none: functions of envelopes | merge, resolve, reconcile, materialize | the sync run, the import |
| Sync run (`sync/cas-service.ts`, `journal.ts`, `indexed-db-store.ts`) | profile, active envelope, base, journal, draft, recovery and import snapshots (IndexedDB) | one run: read, merge, commit, push, confirm; from outside: import, undo, restore | the remote object, the profile store |
| Sync service (`sync/service.ts`, `operation-lock.ts`, `extension/service-worker/sync-runtime.ts`) | connection, lock entry, alarm | connect, disconnect, sync, resolve, schedule, delete, restore, resume | messages of the settings, alarms, the run |
| Profile store (`storage/indexed-db/database.ts`, `ui/rules/useRuleProfile.ts`, `application/rule-management`, `application/import-export`) | profile, operation journal, import snapshot | load, create, save, remove, retry, import, restore, reset | panels, settings, sync, feeds |
| Feeds (`application/feed-subscriptions`, `extension/service-worker/rss-runtime.ts`) | subscriptions (in the profile), stored states, cancelled ids, batch in flight | pause, remove, run due, revalidate, cancel | the panel, the worker, the profile store |
| Decision scheduler (`application/decision-pipeline/scheduler.ts`, `circuit-breaker.ts`) | queue, running set, remembered outcomes, circuits | schedule, cancel, run, settle | the decision service, tabs |
| Decision service and stages (`application/decision-pipeline`, `ai/routing`, `ai/text`, `ai/vision`) | cache, budgets, route circuits | decide by rules, text, images, similarity | the scheduler, providers |
| Provider management, vault (`application/provider-management`, `security/credentials`) | registry, catalog, consents, vault | register, credential, consent, test, refresh, disconnect, remove | settings, permissions, network |
| Migrations, recovery (`storage/migrations`, `application/recovery`) | migration journal, snapshot | run, restore, reset; no entry point of the extension calls the run | the profile store |
| Operations journal, local feedback (`core/operations`, `core/feedback`) | entries, profile, transaction tail | acknowledge, execute, cancel, compensate | feedback |
| Native feedback (`application/native-feedback`) | attempts, circuit | offer, submit, switch off, discard; recover, which no entry point of the extension calls | page adapters |
| Content script (`extension/content-script`, `adapters/shared`) | observed elements, decisions, session actions | observe, decide, hide, reveal, disable | pages, the worker |
| Adapter activation (`application/adapter-activation`) | registered scripts, published states | reconcile, attach, publish | settings, permissions |
| Similarity (`application/similarity`, `ai/similarity`) | index, relations, suppressions, stored copy | observe, suppress, disable, reset, restore | content, the graph's budget |
| Content graph (`application/content-graph`) | nodes, edges, generations, rebuild session | edit, suppress, rebuild, replace | similarity |
| Assistance (`application/assistance`, `ai/assistance`) | cache, budget, suppressed proposals | draft, explain | models; not wired to a message yet |
| Settings panel and service (`ui/settings`, `application/settings`) | draft, forms, snapshot | edit, ask, review consents, save | providers, the profile store |
| Rule workbench (`ui/rules`) | draft, preview, intents | preview, save, undo | the profile store |
| Release automation (`scripts/release`, `.github/workflows/auto-release.yml`) | branches, pull requests, tags, releases | plan, merge, tag, publish, continue | CI, pushes to main |
| Diagnostics | bounded aggregates | record, clear | the worker |
| Browser AI bridge (`ai/browser`) | pending requests | execute, cancel, detach | a port to the panel |
| Rules engine, parsers, provider adapters, languages | none | pure | everything |
| Side panel (`ui`) | presentation | | messages, the database |

One IndexedDB database is shared by the service worker and by one side panel per
browser window. A transaction of it is atomic; everything between two `await`s of
one context is atomic; nothing else is. What is hard in this system follows from
that: state read before an await and used after it (the connection of a sync
call, the profile of an import, the subscriptions of a feed batch, the fork of the
providers), other devices and other panels between two steps of one operation, a
worker that the browser stops at any time, answers that are lost or late, and
bounded memories (the operation journal, the queue, the remembered outcomes).
`PROJECT.json` lists these hazards at their lines with the properties that watch
them, and those that no property watches yet.

What makes each modelled component correct:

* **Sync**: no confirmed change is overwritten unseen; a deletion known to everybody
  stays, also when a file is imported or its import undone; what a device calls its base
  was once the remote, or is a file until the next confirmation; devices agree once the
  users stop.
* **Sync service**: every promise settles; an interrupted run is resumed; what was
  aborted pushes nothing; a user who left stays disconnected.
* **Profile store**: an edit changes the profile its panel showed; a retried edit
  is applied once; an import loses nothing it does not keep a snapshot of.
* **Feeds**: the tombstone of a removed feed stays.
* **Scheduler**: no idle slot while work waits; one live record of a work; one
  outcome of a record; a half-open circuit has its probe.
* **Deciding**: rules, stages and similarity win in their documented order; a rule that is
  saved does what its preview told; no reservation is lost and a day's money is
  overspent by what may run at once at most.
* **Pages**: what is hidden is what was decided about; a choice of the user outlasts a
  late decision; open tabs end up as the settings say, and never go back.
* **Providers and settings**: what was revoked stays revoked unless a mutation that was
  overtaken saves its older fork; no save of the panel stores a route without its consent,
  and none overwrites what its panel did not show.
* **Operations, migrations, native feedback**: an operation takes effect once, as a
  whole, and not after it was cancelled; a migration replaces what it started from;
  a gesture clicks once.
* **Derived data**: nothing is kept while similarity is off; nothing derives from itself;
  an answer of the assistance is an answer to its request.
* **Releases**: only what CI passed is tagged.

## 2. The modules

| Module | Models | Uses |
|---|---|---|
| `SyncMerge` | entities, tombstones, merge, resolution, reconciliation, materialization, as operators over small sets | |
| `SyncCas` | several devices, each with users, a run, crashes, imports and restorations, over one remote | `SyncMerge` |
| `SyncService` | the calls of one worker, its lock, connection and alarm | |
| `ProfileStore` | several panels over one profile | |
| `RssFeeds` | panels, and the batches and revalidations of one worker | |
| `DecisionScheduler` | queue, slots, attempts and breaker | |
| `RuleEngine` | what rules decide, as operators | |
| `DecisionService` | requests that ask rules, stages and similarity over a changing profile | `RuleEngine` |
| `RuleWorkbench` | preview, saving and undoing of rules over a changing profile | `RuleEngine` |
| `ModelRouting` | the text and visual stages: routes, fallbacks, budgets and their ledgers, circuits, media, cache, restarts | |
| `Assistance` | the routed calls of the assistance with cache and budget | |
| `ContentRuntime` | the content script on one page | |
| `PlatformActivation` | settings and permissions on their way to the tabs of a platform | |
| `ProviderManagement` | overlapping mutations of providers, catalog, consents and vault | |
| `SettingsPanel` | the panel's drafts, forms and dialogs over the settings service | |
| `ProfileMigration` | the phases of a migration, what else replaces the profile, recovery, reset | |
| `OperationsJournal` | serialized, cancellable, repeatable operations on a profile | implements `AtomicProfile` |
| `AtomicProfile` | what the journal promises: operations in one step each | |
| `NativeFeedback` | submissions to a page with review, retention, recovery and circuit | |
| `Similarity` | observation over its awaits, index, storage, disabling | |
| `ContentGraph` | graphs, generations and the session that rebuilds them | |
| `ReleaseAutomation` | the runs of the automatic release over main | |
| `RouteFallback`, `Nothing` | which failures let a route fall back; the value that stands for none | |
| `SyncCas_proofs`, `ModelRouting_proofs`, `ContentRuntime_proofs` | theorems | their module, the first also `SyncMerge` |
| `LocalData_proofs` | theorems | `ProfileStore`, `RssFeeds` |
| `Providers_proofs` | theorems | `SettingsPanel`, `ProviderManagement` |
| `Worker_proofs` | theorems | `DecisionScheduler`, `SyncService` |
| `Protocols_proofs` | theorems | `OperationsJournal`, `NativeFeedback`, `ReleaseAutomation`, `ProfileMigration`, `PlatformActivation` |
| `Decisions_proofs` | theorems | `RuleEngine`, `DecisionService`, `RuleWorkbench`, `Similarity`, `ContentGraph`, `Assistance` |
| `MC...` | instances for TLC | the modules of their run, extended |

`PROJECT.json` maps the definitions to the lines they stand for. A module's names are
those of the code where TLA+ allows it. One action is what one context does between two
awaits; what an await finds is an input of the action that follows it.

**SyncMerge.** An envelope is a record of the sync profile, its generation and, for
each id, `Absent`, a value or a tombstone. Bodies are members of a small set: the
code compares them by their canonical text. `Merge(base, local, remote)` decides
entity by entity as `mergeSyncEnvelopes`; `Resolve` applies the user's choices;
`Reconcile` builds a device's local envelope from its profile and the last active
one, including the lineage check; `Materializable` are the conditions under which
an import accepts an envelope, with the references between entities as a constant.

**SyncCas.** One action per await of `SyncCasService.synchronize`. The remote is an
HTTP object with a conditional write; its token is the content, the weakest tag the
protocol allows. A write whose sender gave up stays on the `wire` and may arrive at any later
time (`LateArrival`). `Crash` forgets the run and keeps what IndexedDB holds;
`Start` resumes. The user edits between any two steps, and nothing keeps him from deleting
what other entities name: the next read of the profile then throws (`ReadableLocal`), and the
run ends with its journal open. Three commands write the records outside any run. An import
makes a file of `Files` the base, and the file or its merge with the profile the profile
(`Import`); its undo exchanges profile and base with what the import replaced; a restored
recovery snapshot brings profile and active envelope back and pauses the connection, until the
user connects again (`Reconnect`) or a run under way stores the enabled connection it had read
(`WriteBack`). None of the three writes the journal, and the first two leave the active
envelope (`database.ts:1482-1640`, `1657-1787`). `moved` marks the devices one of them
wrote to since their last confirmation.

**SyncService.** A call is a promise chain with its place (`pc`) and what it read
before its awaits (`seen`). The lock's entry names the call inside it and the one
waiting; later ones attach to the waiting one and settle with it. What a run does
with the data is left to `SyncCas`; only its places, its abort signal and its
journal matter here. Edits, imports and runs may leave a profile that cannot be read as an
envelope (`readable`, `ProfileChanges`): a call then ends at its first read, an attempt of a
run without closing its journal. `left` and `alone` are history variables.

**ProfileStore.** A panel has a place, the profile it shows, the command under way,
and the intents it retains for a retry. A transaction compares the revision,
applies and records the operation in one step; its answer may be lost
(`uncertain`). The operation journal keeps `MaxRecords`. A rule's content is the
operation that saved it, so that a wrong content is visible. Imports read the
profile, and replace it in another transaction that keeps a snapshot.

**RssFeeds.** The panel commits a removal, stores the tombstone and tells the worker,
in three steps that may each fail. The worker reads subscriptions, then states, and
runs what is due in slots, each with two writes that look at the told removals when
they are issued. Failing writes, stopped workers, imports that bring a feed back.
The acquisition of this version performs no request (`acquisition.ts`), which is why
no network appears.

**DecisionScheduler.** A record is one admission of a work id. `Pump` fills the free
slots by priority and age; cancelling settles a record at once while its run goes
on and holds its slot. The breaker counts failures of the optional capability and
lets one probe through when its cooldown is over.

**DecisionService, RuleEngine, RuleWorkbench.** A rule is what it says and the items it
fits. `Resolve` goes through the kinds in the order of `engine.ts`; `DocumentedOrder`
states the order of the documentation independently, over the items, and is compared with
every decision that is reached. A request reads profile and batches at different steps. The
workbench keeps the intent of its command for a retry; a transaction may commit and lose
its answer. Rules change elsewhere under the revision after the one that was read, which an
import may store although another one was stored since (`reused`).

**ModelRouting.** A call has its stage, the index of its route and its place. Reserving
the budget and acquiring the circuit are one synchronous piece of code; the answer of the
model commits the reservation and records what it tells of the route. Two calls share
budget and breaker; `past` in `Init` is a decision counted before them. Each stage has
a ledger for every budget that was set since the worker started (`Accounts`), as `budgetFor`
has; setting another budget (`ChangeBudget`) leads later decisions to another ledger, and a
restart of the worker (`WorkerRestarts`) forgets all ledgers, reservations and circuits.

**Assistance.** As above, with a cache in the database whose key must hold everything an
answer was made for, edits of the profile between the steps, and failures of the database.

**ContentRuntime.** An element shows a content; an observation carries the page instance
it was made under. A decision comes back in any order, and is applied if what it was made for
is still what is observed. Mutation observers run after the page's task, so a change of
the page and its observation are one step. The choices of the session outlive the
runtime of a location.

**PlatformActivation.** Reconciliations are promises chained one after the other; each
reads, registers, then publishes. A message is queued on a port and received later. A tab
that loses its port connects again; the worker starts with an empty hub, after which
tabs hear "unverified" until it has reconciled. `unseen` remembers a replaced profile
that asked for no reconciliation.

**ProviderManagement.** `live` and `stored` are the same kind of state: providers,
models, consents, credentials, session values. A mutation forks `live`, changes the
fork, perhaps over the network, saves it, and takes it as `live`; another one may have done
the same meanwhile (`overtaken`, a history variable). Imports write `stored` only. A restart
loads `stored`, without the values of sessions.

**SettingsPanel.** The panel holds the snapshot it shows, the draft, the forms of each
section, and one request under way at a time. Saving reviews the cloud consents,
grants them, validates, and commits at the revision of the snapshot. `Elsewhere` is what
others do meanwhile: a synchronization, an import or another panel leaves any settings
(`Left`), with routes nobody here consented to (`Brought`); all of them take the revision
after the one they read, which they compare in their transaction, except an import, which
does not and may store a revision a second time (`reuses` counts it).

**ProfileMigration.** A run is a place between two accesses to the database, and forgets
all but its journal in a crash. A body stands for the content of a profile and a time for
the timestamps a migration writes, so that a second migration of one profile differs.
Edits, file imports, their undoing, the recovery and the reset replace the profile between the
steps. No entry point of the extension calls `MigrationRunner.run`; the runner is modelled for
whoever will, and nothing is claimed of its being taken up again.

**OperationsJournal.** The queue is the chain of promises; the mutation of the head works on a
draft that is committed when it returns. `Atomic` maps the state to `AtomicProfile`:
an operation is done there in the step that commits its draft.

**NativeFeedback.** `attempt` is what the database holds, `flight` the submission under
way: it reads, revalidates, clicks and finishes over awaits. Every write of the store drops
what waited too long and what exceeds its capacity (`Put`); `forgotten` remembers which of
the dropped attempts had begun. A restart forgets flights. `recovering` are the attempts a
recovery listed; no entry point calls `recoverInterrupted`, so that the model lets one happen
or not, at any time.

**Similarity, ContentGraph.** An observation goes through fingerprints, embedding and
evidence, and writes into the index, then to the database. A graph is a set of nodes, edges
under ids, and suppressed ones; a rebuild session goes over items in batches from its cursor.

**ReleaseAutomation.** `main` is its first-parent history. A run is a job with its place;
it answers with a release or none and whether to continue. The model allows two
continuations where the workflow allows three.

## 3. The runs

| Run | Instance | Shows |
|---|---|---|
| `sync_safety` | 2 devices, 2 entities (one to create that refers to the other), 2 attempts, one older file; histories of 2 edits, a fault and a resolution; of an edit, an import and a resolution; of an edit and a restoration; of an import and its undo; symmetric devices | `TypeOK`, `ConfirmedBase`, `NoLostUpdate`, `NoResurrection` |
| `sync_live` | 2 devices, 1 entity, 2 edits, 1 fault, with fairness | `Converges` |
| `sync_edit_lost` | 2 devices, 1 entity, 3 edits | `NoEditLost` violated |
| `sync_recreate` | an entity with a deterministic id | `LocalReadable` violated |
| `sync_stale_draft` | 2 devices, 2 entities, 2 bodies, 1 attempt, 4 edits, 1 resolution | `DeletionStands` violated |
| `worker` | `DecisionScheduler`: 3 works of three priorities, 1 place in the queue, 1 slot, 2 attempts, 3 admissions; `SyncService`: 3 calls, one of any of the eight kinds, 1 restart; with fairness | `WorkConserving`, `OneLiveRecord`, `HalfOpenHasProbe`, `SettlesOnce`; `QuietAfterDisconnect`, `AbortedNeverPushes`, `EveryCallSettles`, `InterruptedRunResumes` |
| `service_disconnect` | 2 calls | `DisconnectHolds` violated |
| `local_data` | `ProfileStore`: 2 panels, 1 rule, 4 operations, a journal of 1, 1 import, 1 reset, 1 fault; `RssFeeds`: 2 feeds, 2 runs, 1 revalidation, 2 profile writes, 1 fault | `EditsWhatWasSeen`, `AppliedOnce`, `NothingUnrecoverable`; `TombstoneStays` |
| `providers` | `ProviderManagement`: 2 providers, 2 origins, 2 references, 2 calls at once, 3 operations, 1 import, 1 restart; `SettingsPanel`: a cloud and a browser provider, 3 edits, 2 requests, a change by others, which may bring a route to the cloud or take a revision again | `ManagementTypeOK`, `UndoneByOvertakenOnly`; `SavedRoutesWereConsented`, `SavesOverShown` |
| `decisions` | `DecisionService`, `RuleWorkbench`: 2 rules of any kind and effect, 2 items; `ModelRouting`: 2 decisions, a cloud and a browser model, two budgets of one and two requests' cost, 2 minutes of which each is a day, and a minute, a restart or a change of budget in between; `ContentRuntime`: 2 elements, 3 contents of 2 items, 3 changes; `Similarity`: 3 items, 2 jobs, an index of 1; `ContentGraph`: 3 nodes, 3 edges, 4 changes, 3 items in batches of 2; `Assistance`: 2 calls, 1 edit, 1 fault; `NativeFeedback`: 2 attempts of which the store keeps 1, 2 gestures, 2 days of which each outlasts the retention, 1 stop | `PageTypeOK`, `DocumentedOrder`, `PreviewHolds`, `NoReservationLost`, `OverspendBounded`, `HiddenAsObserved`, `ChoiceStands`, `NoVectorWhileDisabled`, `ProvenanceAcyclic`, `AnswersItsRequest`, `ClickedOnce` |
| `budget_overspent` | the instance of `decisions` | `SpendWithinLimit` violated |
| `protocols` | `ProfileMigration`: 1 operation, 2 times, 2 new contents, 2 crashes; `OperationsJournal`: 3 operations, one asked for with two commands, 4 executions; `PlatformActivation`: 1 tab, 2 changes, 1 stop, 1 fault; `ReleaseAutomation`: 3 pushes, 2 failures, 2 continuations; with fairness | `MigratesItsSource`; `ExecutesOnce` (refinement), `CancelledHasNoEffect`; `NoStaleLanguage`, `TabsFollow`; `TagIsVerified` |

*Bounds.* Two devices give every interleaving of a run with a foreign write, and a
second entity the merges that mix; two attempts give the retry after a mismatch,
where what the first attempt committed locally meets what the second reads. The
third of the code repeats the second. One import meets an edit before or after it, of the same entity or
another, a run under way on either device, and a conflict that is resolved with the file as its base; the file holds
a content the remote never had, so that a base from a file can be told from a confirmed one; its undo
brings a base back while runs go on. What a deletion, an import and its undo do in longer
histories is the subject of the theorems. One fault is a crash, a lost push or a late
one; edits before and after it make it matter. Three calls are one in the lock, one
waiting and one attached or cancelling. A journal of one record is full at once, so
that trimmed operations are retried. Four operations let two panels each fail and
retry. A queue of one with one slot sheds and coalesces, and a third admission repeats
an id that is remembered or one that is forgotten. Two provider mutations overlap, and the
third operation finds what they left. A limit of one request's cost is met by one
decision and overrun by two, and a decision counted earlier makes it met from the start; one change of the budget is enough to
reserve under one ledger and to commit while another is in use. Two
elements and three contents, two of which are of one item, let an element be reused for the
same item, another one, or one that is not enabled. Two crashes stop a migration in two
phases, and the second time is past the retention of its snapshot. Three edges over three
nodes close a cycle. One settings change may be overtaken by another. Three pushes let main
advance before, during and after a release. The proofs below hold for all bounds.

*Runs of several modules.* Modules whose parts share no variable stand side by
side in one MC module: the variable `part` says which of them moves, the others stay in
one initial state. The run costs the sum of their states, and every behaviour of a
part is a behaviour of the run. It says nothing about their composition, which their modules
model where they meet: `Elsewhere`, `ImportReplace`, `ReplaceProfile` and the like are
what another part does to shared state.

*Symmetry* is used where values are interchangeable and no liveness is checked: devices,
panels, origins, references, calls.

*Stopping.* Deadlock is not checked where budgets run out (all runs): every bound ends
the behaviours. That nothing gets stuck is the subject of the liveness properties,
of `WorkConserving` and of `HalfOpenHasProbe`.

*Fairness.* `sync_live` assumes that a device's alarm comes again and again, that a run
under way takes its next step (promises are resolved, requests time out), and that a
stopped worker is started again (the browser wakes it for the alarm); nothing
is assumed of users, faults or late writes. It is the specification of one entity
and two bounded edits: with values that recur, two devices can undo each other for
ever, since a retried attempt publishes what it inherited (section 4). `worker`
assumes, of the service, that a call under way takes its next step: IndexedDB, the alarms and, at the latest by its
timeout, the network settle their promises. It assumes neither that a call is ever
made nor that a stopped worker is started again. `InterruptedRunResumes` excepts a connection that
was disabled, another stop, and a local profile that cannot be read, with which the call ends and leaves the
journal open for the next start (`service.ts:518-539`). `protocols` assumes, of the part that
moves, that executions of the journal go on, that the worker is started again, its reconciliations take their next step, and a tab
receives what is on its port, notices that it lost it, and connects. Nothing is
assumed of users, failures, stops, migrations or the release.

## 4. What the code does that it says it does not

Each of these runs checks one statement of the repository and ends with a behaviour
of the code that contradicts it. `PROJECT.json` quotes the statements.

* `sync_edit_lost`: an edit between a run's `readLocal` and its `commitLocal` is lost.
* `sync_recreate`: a route that was removed, synchronized and added again makes the
  profile unreadable for every later run.
* `sync_stale_draft`: a conflict draft outlives the conflict. Resolving it commits an old
  merge over the profile before the remote refuses it, and so brings back an entity whose
  deletion the device had confirmed; the next run publishes it. `NoResurrection` says that
  nothing else brings a deleted entity back but a recovery snapshot the user restores: not
  merges, late writes, retries, crashes or imports.
* `service_disconnect`: a call that read the connection before a disconnection writes
  it back afterwards, enabled.
* `budget_overspent`: a reservation does not count against the money: two requests at
  once spend over the limit. `OverspendBounded` says by how much.

More properties are stated in the modules and are not part of a run; with the line added to the
configuration of the run named, TLC finds them violated:

* `ProfileStore!RevisionGrows` (`local_data`): two panels on an empty database both
  create the profile.
* `RssFeeds!StaysRemoved` (`local_data`): a run under way replaces the tombstone of a
  removed feed before the worker is told.
* `DecisionScheduler!ClosesOnCommit` (`worker`): a cancelled probe closes its
  circuit.
* `ProviderManagement!DisconnectHolds` (`providers`): a mutation that was overtaken brings
  back what a disconnection removed; `UndoneByOvertakenOnly` shows that nothing else does.
* `RuleWorkbench!UndoInverts` (`decisions`): undoing an edited rule removes it.
* `ContentRuntime!EveryHiddenReveals` (`decisions`): an element hidden for one content that
  changes to one without a candidate cannot be revealed by its control.

Met while modelling, without a run. The documents say that the base follows confirmation
only: "Advance the known base and finish the journal only after confirmation"
(`docs/09-sync.md:126`, likewise `docs/adr/0009-sync-conflict-model.md:34` and
`docs/08-storage.md:91`). An import makes its file the base without asking the remote, with the
time of the import as that of a confirmation (`database.ts:1603-1616`), and its undo puts the
earlier base back (`1752-1762`). What was imported then equals the base, so that the next run
takes it for unchanged and replaces it by what the remote holds. `ConfirmedBase` is stated with this
exception; without `moved` TLC finds it violated by one import in `sync_safety`.

A retried attempt of a run publishes as its own what the first attempt inherited: the base is read
once per run (`cas-service.ts:177`). Independent changes of two devices can merge
cleanly into an envelope whose model names a removed provider, which
`materializeImportedSyncEnvelope` then refuses on every device. An import that
brings a removed feed back is not acquired by the worker that was told of the removal. The
probe of a half-open route that is cancelled is in flight for as long as the worker
lives. A restart after similarity was turned off starts it again. Two migrations under way at
once share one snapshot: the one that keeps its snapshot later overwrites the other's, and `#apply`
(`runner.ts:399-423`) does not compare the operation of the snapshot it reads, so that a migration can
apply the content another one started from. `MigratesItsSource` is violated with a second
migration id; the run and the theorem speak of one migration (`OneMigration`).

## 5. The proofs

For every number of devices, panels, works and operations, and every bound:

* `SyncCas_proofs`, of the merge: a clean merge keeps every change of either side
  (`MergeKeepsBothSides`); the two devices of a conflict both see it
  (`ConflictsAreSymmetric`); two devices that merge the same versions agree up to
  the times of tombstones (`MergesAgree`); a reconciliation keeps tombstones
  (`ReconcileKeepsTombstones`).
* `SyncCas_proofs`, of the run: `TypeCorrect`, `BaseIsConfirmed`, `NoUpdateIsLost`,
  `DeletedStaysDeleted`, `JournalIsLegal`. The inductive invariant types what a run holds at each of its
  places, and says that what it read of the remote, and what a write on the wire
  expects, was published: without it a late write could confirm a base the
  remote never had. `NoLostUpdate` then follows since a conditional write is
  applied only over the content it was merged with. `JournalIsLegal` needs besides
  the relation between a run's place and the phase of its journal.
  `ConfirmedBase` speaks of a base that an import wrote, too: it is a file until the next
  confirmation, and nothing else; wherever nothing was imported, undone or restored since, a
  completed journal vouches for base and active envelope together.
  `DeletedStaysDeleted` rests on `Follows`: what an envelope says was deleted stays so in what is
  derived from it. The active envelope of a device is where all meets (`DeviceFollows`): its base,
  the base an undo would bring back and its recovery snapshots precede it, and it precedes what a
  run reads locally, the candidate of the run, and the remote; a draft's base precedes both its
  sides. A file says nothing of deletions, so that it may become the base at any time: the deletion is
  then known from the active envelope, which an import leaves alone, and a reconciliation puts
  it into what is merged. It fails for a draft the base has left behind, which is how
  `sync_stale_draft` came to light: the ids of such a resolution are exempt, and those a restored
  snapshot brings back.
  `NothingDangles` assumes that the initial envelope names nothing missing, which the commit that
  stored it checked. A user may delete what others name, a provider with its routes for
  instance, and every id merges on its own, so that a profile or a merge can well dangle; `RefInv` says
  that it stops at the local read and the local commit, as only what was committed is kept in a
  recovery snapshot or pushed (`CandidateStays`), and only what was pushed arrives, however late.
* `LocalData_proofs`, of the profile: `EditsWhatWasSeenThm`, `AppliedOnceThm`, `NothingUnrecoverableThm`. A
  transaction compares revisions only; that it then changes the profile the panel showed needs
  that a revision determines the profile as long as only edits and restorations wrote it. `Inv`
  says so of everything a panel shows or retains (`SeenInv`, through `Known`), and that what was
  applied was issued and its command is behind the profile (`OnceInv`): a retry
  whose record was trimmed is then refused by its revision. The last theorem is about content
  that is lost: `LossInv` says that before the import the profile holds what was saved last of
  every rule, and after it profile and snapshot do between them.
* `LocalData_proofs`, of the feeds: `FeedsTypeCorrect`, `BatchHasRunThm`, `TombstoneStaysThm`. A batch
  in flight is carried by a run in every step (`FeedsInv`: a free slot belongs to no batch), a failure of
  its first or last feed included. A removed feed that is at rest has no slot, is in no batch, or is
  cancelled before its status is written; whatever the worker or a panel does then, only a
  profile that subscribes to it again wakes it (`RestStays`).
* `Worker_proofs`, of the scheduler: `OneLiveRecordThm`, `SettlesOnceThm`, `HalfOpenHasProbeThm`,
  `WorkConservingThm`, `ShedsLowestFirstThm`. The invariant ties the half-open circuit to a live record that is
  marked as its probe, over cancellations, shedding and the handing on of slots. The third
  theorem counts the records of each place (`Served`): a step frees at most one slot, or
  adds at most one record to the queue, and the one record that the pump then starts makes
  up for it (`Pumpable`, `PumpServes`). The last says what an arrival over the limit sheds:
  where optional work waits, a victim exists that ranks no higher (`VictimIs`), and neither
  the pump nor the end of another work sheds anything.
* `Worker_proofs`, of the service: `OneOperationThm`, `AbortedNeverPushesThm`,
  `QuietAfterDisconnectThm`. `LockLegal` ties the places of the calls to the two fields of the
  lock's entry. That a connection stays disabled cannot be said of the connection alone, since a
  call writes back what it read: while the disconnection is `alone`, every call has seen it
  disabled, or is at a place from which it writes nothing (`QuietCall`), and a call that is not
  under way has seen nothing (`Fresh`).
* `Protocols_proofs`, of the journal: the refinement of `AtomicProfile` (`ExecutesOnceThm`) and
  `CancelledHasNoEffectThm`. A commit writes a draft that was computed several steps
  earlier; it is the atomic step of its operation since the invariant says that the draft of
  what runs is still the mutation of the profile as it is, that its entry is neither
  committed nor compensated, and that an entry has an effect exactly if it was
  committed. Every other step, an interruption included, maps to a stutter.
* `Protocols_proofs`, of native feedback: `ClickedOnceThm`. Who may still click has not clicked
  (`FInv`); what is about to be clicked is stored as begun, which every write of the attempt
  keeps, so that no offer starts it a second time. A write may drop the record, of this attempt
  or another (`PutKeeps`): a begun attempt that was dropped is `forgotten`, and may be offered and
  clicked anew, which the property excepts and nothing else.
* `Protocols_proofs`, of releases: `TagIsVerifiedThm`, `PublishedInOrderThm`. `RInv` follows the
  source of a release through the program: the request of a job, its release, the merge on main
  that speaks of it, and the request that waits all name commits that were verified, so that
  a run that finds the merge of another one untagged tags the right commit. `LeastIs` and
  `OldestIs` show that the untagged merge that is chosen exists. The order of versions is inductive
  only with what is unfinished (`OrderInv`): versions grow along main, only the last merge may lack
  its tag and only the last tag its release, and a job that plans has the next version in hand.
* `Protocols_proofs`, of migrations: `SnapshotIsSourceThm`, `MigratesItsSourceThm`. An entry of the
  journal keeps its source through every phase, a run that is about to keep a snapshot holds this
  source (`RunLegal`), and what is about to be applied is a source that some migration started
  from (`Sourced`), over crashes at every place, over recoveries that clear the snapshot, and over the reset. That
  it is the run's own is true of one migration only, as there is one snapshot.
* `Protocols_proofs`, of the settings of tabs: `NoStaleLanguageThm`. The messages of a port name
  settings in their order (`InOrder`), and only the first reconciliation has read any; what it
  read is not older than what any tab was told or runs (`NotAfter`, `TurnsLegal`), so that what it
  publishes keeps the order. Without the serialization of reconciliations this fails.
* `ModelRouting_proofs`: `NoReservationLostThm`, `OverspendBoundedThm`. The invariant (`Sound`)
  says at which places of a stage a decision holds a reservation, and that it holds one there.
  The money needs more (`MoneyInv`): what was spent today is not bounded by itself, since what is
  reserved will be added without another comparison; bounded is what was spent and what was
  reserved on the same day together. A day that ends takes both away (`LaterDay`), and a
  reservation that outlives its day commits nothing to the next. All this is said of each
  ledger, also of those of budgets that are not in use, to which a decision under way still
  commits. What a user spends in a day is not bounded so: a restart of the worker or another
  budget starts a ledger that knows nothing of it. `RoutingTypeCorrect`: a
  decision stands at a route of the order of its stage.
* `ContentRuntime_proofs`: `HiddenAsObservedThm`, `ChoiceStandsThm`, `NoTraceLeftThm`. What
  was observed last of an element is what it shows while the runtime runs (`Follows`), and
  what is hidden of it is what was observed (`Kept`); an answer is compared with it by content and
  epoch. A choice stands since every way to apply a decision asks the session first
  (`AnswerStands`). `PageTypeCorrect` says that what the session remembers is bounded and names a
  content once, the choice made last at the end (`Remembered`): a choice that is made again moves
  there, and the oldest is dropped when the limit is passed (`RememberKeeps`).
* `Providers_proofs`, of the panel: `SavedRoutesWereConsentedThm`, `SavesOverShownThm`. What a save is
  about to commit was reviewed against consents that had been granted (`RunSound`), also where the
  route was brought by a synchronization or an import and the user changed something else. What a panel
  shows is the settings of its revision (`SeenAt`) as long as no import took a revision a second
  time (`reuses`); a commit compares revisions. What others store needs no consent, and the stored routes
  as such are not claimed to have any.
* `Providers_proofs`, of the worker: `ManagementTypeCorrect`, `UndoneByOvertakenOnlyThm`. A mutation forks
  the state before its awaits and saves the fork over what is there. As long as no save overtook it, the
  fork brings back nothing that is gone of another provider (`OthersStay`), and its own was not
  disconnected meanwhile (`CallLegal`); so a save that undoes a disconnection was overtaken. That no two
  providers share a credential's reference rests on references that were never drawn before
  (`issued`), and that none is an orphan on what a fork forgets with its provider (`ForgetKeeps`).
* `Decisions_proofs`, of rules: `DocumentedOrderThm`. The engine walks a list of resolutions and
  takes the first that matches; `FirstMet` says what this means without the list, and
  `EvaluateInOrder` that it is the order of the documentation. A stage that answers later only
  changes what no rule decided, which is `InOrder` for every stored decision and every
  request.
* `Decisions_proofs`, of the workbench: `PreviewHoldsThm`. A panel remembers the revision its
  preview speaks of (`Base`: the one shown, or that of the command it keeps), and if this is
  the revision of the profile, the preview is what `Told` says of the profile (`PanelLegal`), unless an import stored other
  rules under a revision that was stored before (`reused`); loading the profile again ends that.
* `Decisions_proofs`, of similarity: `NoVectorWhileDisabledThm`, `CombinedBudgetThm`. That turning
  off stops a late observation rests on the index, which is then disabled and empty (`Off`), and
  on nothing else; the budget needs that a restored memory is one that was stored within it.
* `Decisions_proofs`, of the graph: `ProvenanceAcyclicThm`, `CompletedIsCompleteThm`. `Reached` is
  what lies in every set that holds the start and is closed under the edges, so that no
  induction over paths is needed: what cannot be reached gives a closed set that separates it.
  A new edge closes no cycle as its start is not reached from its end (`EdgeKeepsAcyclic`).
* `Decisions_proofs`, of the assistance: `AssistanceTypeCorrect`, `AnswersItsRequestThm`. An
  entry of the shared cache is where the key of its provenance puts it (`CacheLegal`), so that
  a hit was made for the same task, route, request and revision.
* `Decisions_proofs`, of the types: `DecidingTypeCorrect`, `WorkbenchTypeCorrect`,
  `SimilarityTypeCorrect`, `GraphTypeCorrect`. They need that a bounded count keeps step with
  what it counts: no revision without a change (`Counted`), none without an operation (`Operations`).
  The run checks the type invariant of one of its parts only, as these theorems hold for the others.

*Assumptions.* They are about constants, and as weak as the code allows: sets of works, calls or
models are finite where they are counted, limits are natural numbers, the first route of a
task exists, and `None` is none of the values it is compared with. Those a module declares with
ASSUME are evaluated by the runs that extend it; those that are carried in the statements of
the theorems (`JournalAssumption`, `FeedbackAssumption`, `ServiceAssumption`,
`MigrationAssumption`, `OneMigration`, `ActivationAssumption`, `RoutingAssumption`, `PageAssumption`, `RuleAssumption`, `DecidingAssumption`, `WorkbenchAssumption`,
`SimilarityAssumption`, `GraphAssumption`, `AssistanceAssumption`, `ProviderAssumption`) by the assumptions of
`MCProtocols`, `MCWorker`, `MCDecisions` and `MCProviders`. `RuleAssumption` says that a rule has an effect of its
kind, which the contract of rules enforces. No assumption bounds a budget, an edit or
a restart.

*Only model-checked.* Out of the prover's reach are liveness (`Converges`, `EveryCallSettles`,
`InterruptedRunResumes`, `TabsFollow`) and everything under ENABLED. That an interrupted
migration is resumed and an interrupted submission found is not claimed at all: no entry
point calls `MigrationRunner.run` or `recoverInterrupted`. Every invariant and every action property of a passing run is the statement of a
theorem. `QueueDrains` and the type invariants of the modules of `protocols`, of the profile,
of `SyncService` and of `DecisionScheduler` hold on the instances above when they are added to the
run (those of an instantiated module through a definition in the MC module); the runs keep to the
properties of the table.

## 6. What is not modelled, and the plan

Pure parts stay outside: parsers, prompts, the requests of each provider, languages,
encryption, canonical text, presentation. Of what has state:

* the browser AI bridge: requests, answers, cancellations over a port (`bridge.ts`); one
  promise per request;
* diagnostics: aggregates whose bounds are enforced in a later transaction;
* the suppression of assistance proposals: overlapping dismissals lose a count;
* the batch actions of similarity;
* the connections of a database: a deletion that another connection blocks;
* the parts of the feeds' acquisition that this version never reaches;
* the import of a file of another lineage, which changes the profile under which base, lock and
  journal are kept, and the import on a device that is not connected. `SyncCas` starts from
  connected devices, whose base every import and undo replaces and none removes; connecting
  again is one step there, and its awaits are in `SyncService`;
* what a restoration does to a run under way is over-approximated: the run may be aborted at any
  of its requests, or go on to its end.

Planned: the bridge and the bounded stores in one module.
