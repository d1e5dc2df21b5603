# TLA+ models of gorb

gorb programs the Linux IPVS load balancer from a registry of virtual
services and their backends. It health-checks the backends and drains a
backend while it is unhealthy. This directory holds TLA+ models of the parts
of gorb where concurrency and partial failure make correctness hard to test,
and the TLC configurations that check them.

## The system

| Part | Source | What it does |
|------|--------|--------------|
| Context | `src/unnamed/part_001`, `part_002` | `ctx.services` map (service -> backends), one `sync.RWMutex`; `CreateService`, `CreateBackend`, `RemoveService`, `RemoveBackend`, `UpdateBackend` program IPVS inside the lock and start or stop a pulse goroutine per backend. `Synchronize`/`CompareWith` reconcile with a store. |
| Notification loop | `src/core/runtime.go` 28-122 | `run` receives `pulse.Update`s from the unbuffered `ctx.pulseCh`; `processPulseUpdate` records the metrics, then on Down sets the weight to 0 (or 1 with `fb-zero-to-one`) and stashes the old weight, and on Up restores `stash * health`. It takes the lock three separate times. |
| Pulse probes | pulse package (not in `src/`), HTTP driver `part_005` | One goroutine per backend, sending Up/Down updates with a health ratio; after `Stop` it sends a final Removed. |
| Options | `src/core/options.go` | `Validate` fills defaults; `CompareStoreOptions` decides whether a store entry differs from the running one. |
| Store synchroniser | `src/core/store.go` (and an older copy in `runtime.go` 123-504) | Reads services from a libkv store, calls `Synchronize` at start-up and on a ticker. |
| Local store | `src/unnamed/part_007` | File-backed key/value store for `file://` URLs. |
| REST API, exporter, main | `part_004`, `prometheus_exporter.go`, `part_003` | HTTP handlers calling the Context; Prometheus gauges; start-up wiring. |

The parts interact like this:
- REST handlers and the store synchroniser mutate the Context.
- Probes report to the loop over `ctx.pulseCh`.
- The loop calls back into the Context: `GetService` and `UpdateBackend`.
- `RemoveService`/`RemoveBackend` stop probes while holding the Context lock.

## Modules

### `Context.tla`: the registry and the kernel table

State:

| Variable | Code |
|----------|------|
| `services` | `DOMAIN ctx.services` |
| `backends` | pairs `<<vsID, rsID>>` |
| `weight` | `rs.options.weight` |
| `health`, `status` | `rs.metrics` |
| `kernelSvc`, `kernelDest`, `kweight` | what IPVS holds |
| `probes` | bag of pulse goroutines, with whether they were stopped and the update each is blocked sending |

Each exported mutator holds the exclusive lock for its whole run, so each is one action:
- `CreateService` covers every prefix of the bundled backends, including a prefix whose last `createBackend` fails in `pulse.New`.
- `CreateBackend` includes the same orphan case, where the IPVS destination was added but no Backend was registered.
- `RemoveBackend` and `RemoveService` include `vs.Cleanup`.
- `updateBackend` covers the success path.

A failure that changes nothing is a stuttering step.

`CtxInit` is `NewContext` with `-f` (IPVS flushed). `CtxRestartInit` is the same call without `-f`: the services map is empty, but IPVS keeps any services and destinations a previous process left, each with weight 0 (drained) or `MaxWeight`. `createService` and `createBackend` find those entries with `GetPoolForService` and skip `AddService`/`AddDestPort`; a skipped destination keeps its weight.

Data is abstracted as follows:
- A service is its id and a backend is a pair of ids.
- Health is an integer percentage in `{0, 50, 100}`, so the loop's `int32(float64(w) * health)` is exactly `(w * health) \div 100`.

### `PulseLoop.tla`: probes and the notification loop, composed with the Context

State: `stash` is the loop's local map; `loop` is the position of `processPulseUpdate` between its critical sections.

Actions:

| Action | Code |
|--------|------|
| `ProbeCheck`, `ProbeSendRemoved` | probe sends (modelled from the spec) |
| `LoopDrop` | the early returns in lines 42-64 |
| `LoopRecord` | the metrics copy in lines 66-72 |
| `LoopUnstash` | the Up branch |
| `LoopFallback` | `GetService` |
| `LoopStash` | `UpdateBackend` and stash on Down |
| `Mutate` | the REST calls |

REST calls interleave between the loop's steps.

`loop.stale` is a history field. It records that the update being processed came from a stopped probe.

`MCPulseLoop.tla` gives the model values (one service `v1`, two backends `r1`, `r2`).

### `Options.tla`: option validation and comparison

`Validate(o, hasDefault)` and `CompareStoreOptions` from `src/core/options.go` are operators over three fields:
- `host`;
- `port`;
- `proto`, which stands for every field `Validate` fills with a default.

The early `ErrMissingEndpoint` return for an empty Host without a default host happens before any default is filled. That order is what the store round-trip depends on.

### `Reconciler.tla`: store synchroniser and `Synchronize`, composed with the Context

Once a store is configured, the REST mutators refuse to run, so `Synchronize` is the only mutator of the Context.

The store is a variable that an operator may write, up to `MaxStoreWrites` times.

Steps:
- `SyncStart` is `Store.Sync`: `getStoreServices` with `Validate(nil)`, then taking the lock.
- `Synchronize` is one action per iteration of its range loops: `SvcVisit`, `SvcReplace`, `BeVisit`, `BeReplace`, `NewBe`, `NewSvc`, and the loop ends `BeDone`, `NewBeDone`, `SvcDone`, `SyncDone`.
- It reuses Context's `RemoveService`, `RemoveBackend`, `createService` and `createBackends`.
- `sy` holds the working copy of the store map that `Synchronize` deletes from, and the keys left in the current loop.
- `sy` also holds history fields for the properties: `want` (the snapshot applied), `stable` (backends unchanged in the store) and `touched` (backends removed).

Loop order is a free choice of the next key. A key present when a loop starts is produced once. `SvcReplace` and `BeReplace` re-insert the key they replaced into the map being ranged (`createService` into `ctx.services`, `createBackend` into `service.backends`). The Go specification says an entry created during `range` may be produced or skipped, so each of these steps may put its key back into the loop's to-do set. On that second visit the store entry is already deleted (`delete(storeServicesConfig, vsID)`, `delete(storeService.ServiceBackends, rsID)`), so the loop removes what it has just created.

IPVS and `pulse.New` failures are transient, at most `MaxFaults` per behaviour. This budget is what makes convergence a meaningful question.

In the service-update path `createService` has already created every store backend when the new-backends loop calls `createBackend` for each of them again; only the `vs.BackendExist` check (`ObjectExists`) keeps a second pulse goroutine from starting. `RegisteredBackendsWatched` checks the goroutine count across all of `Synchronize`'s paths; its mutant `SyncCreateBackendNoExistCheck` drops that check.

Stopped goroutines drain through `ProbeExit`, which abstracts the notification loop dropping their final update.

Two syncers read the store: the ticker goroutine's `Store.Sync` (`Ticker`) and the `/store/sync` handler's `StartSyncWithStore` (`Handler`). Each reads the store outside `ctx.mutex` (`SyncRead(s)`, kept in `reads[s]`) and applies that snapshot later (`SyncStart(s)`). A store write or the other syncer's whole sync can fall in between, so the older snapshot may be applied last.

### `AtomicSync.tla`: what the synchroniser promises, and the refinement

`AtomicSync` is the abstract specification of the store synchroniser as seen from outside `ctx.mutex`. Its state is:
- `reg`/`regBe`: the registry, meaning the options of each service and backend;
- `st`: the store as `getStoreServices` reads it;
- `pending`: the snapshots read and not yet applied;
- `result`: what the last synchronisation returned.

A synchronisation is one `Apply` step. It takes a pending snapshot and leaves every entry as it was, as the snapshot has it, or removed, and never a backend without its service. A nil return promises nothing more: the revisit above removes an entry the snapshot has, and `Synchronize` still returns nil (run `reconcile_revisit`).

`Reconciler.tla` maps onto it with `Abs == INSTANCE AtomicSync WITH ...`:
- while a `Synchronize` runs, the abstract registry is the one it started from (the history field `sy.pre`), because nobody else sees the registry under the lock;
- `pending` is the syncers' `reads` plus the snapshot being applied;
- `Applied` is `Validate(o, ctx.endpoint)`: the options a store entry has once applied.

`reconcile_safety` checks `AtomicSyncRefined == Abs!Spec` as a `PROPERTY`.

### `Exporter.tla`: Prometheus scrapes, composed with the Context

`exp[s]` is where scrape `s` is in `Exporter.Collect`:
- `CollectStart` starts the `range` over `ctx.services`, which holds no lock;
- `RangeNext` produces a key by Go's rules for a map modified during `range`;
- `GetServiceStep` and `GetBackendStep` are the read-locked calls, with their `ErrObjectNotFound` returns that skip `sendMetrics`;
- `BackendsDone` and `RangeEnd` finish the loops; `RangeEnd` is `sendMetrics`: send every label of the global gauges, then `Reset`.

`gauges` is the set of labels set in the package-level `GaugeVecs`; gauge values are left out. `Mutate` is the REST mutators of `Context`, each atomic under the lock.

### `SyncTimer.tla`: the sync goroutine's `select`

`NewStore` runs one `Sync`, then loops on a `select` between the ticker, a fresh `time.After(60 s)` and `stopCh`. Time is discrete (one unit is 20 s). The ticker channel buffers one tick. `Sync` runs inside the tick case, in the same goroutine. `StuckSyncLogged` says a `Sync` longer than 60 s is logged before the next one. With `SyncTimerStuck.cfg` (the default 60 s period) TLC finds it violated: the tick buffered during the long `Sync` always wins the next `select`. No listed run checks this; the timer shares no state with the rest and the question is one of logging.

## Runs

| Run | Config | Expect | Shows |
|-----|--------|--------|-------|
| pulse_loop_safety | `PulseLoop.cfg` | pass | `TypeOK`; `MapBackedByKernel` (every registered service/backend is in IPVS, across partial failures of `createService` and cascades of `RemoveService`); `OneLiveProbePerBackend` (exactly one running probe per registered backend, none for removed ones). About 1.8M distinct states, under 2 minutes. |
| pulse_loop_liveness | `PulseLoopLive.cfg` | pass | `StaleStashEventuallyDropped`: a stash entry of a removed backend is eventually deleted, unless the backend is re-created. |
| pulse_loop_init_weight | `PulseLoopInitWeight.cfg` | violation | `StashHoldsPriorKernelWeight`: the first Down of a new backend stashes 0, not the `MaxWeight` IPVS holds, because `options.weight` is never initialised; recovery then restores 0 and forgets the stash. |
| pulse_loop_stale_update | `PulseLoopStale.cfg` | violation | `StaleUpdateNeverApplied`: an update pending from the goroutine of a removed backend is applied to a re-created backend with the same ids. |
| pulse_loop_fallback | `PulseLoopFallback.cfg` | violation | `ZeroToOneKeepsPathOpen`: `fb-zero-to-one` tests health == 0 rather than "all backends down", so a backend that goes Down with non-zero health is drained to 0 and the service has no path. |
| pulse_loop_orphan | `PulseLoopOrphan.cfg` | violation | `KernelBackedByMap`: a `pulse.New` failure after `AddDestPort` leaves an IPVS destination that gorb does not know about. |
| reconcile_safety | `Reconciler.cfg` | pass | `RecTypeOK`; `StableBackendsUntouched` (a sync never removes a backend unchanged in the store); `RegisteredBackendsWatched` (every backend in the map has exactly one running pulse goroutine and a removed one none, through service replacement, where `vs.BackendExist` alone stops the second `createBackend`, and through half-done syncs); `AtomicSyncRefined` (the two syncers implement `AtomicSync`, including every partial failure). Both syncers, the `-i` endpoint set (its default is `eth0`), store options with and without Host, with a known and an unknown Protocol (`MCSetOpts`), IPVS and `pulse.New` failures on. About 2.8M distinct states, under 2 minutes. |
| reconcile_liveness | `ReconcilerLive.cfg` | pass | `Converges`: started without `-f` (IPVS keeps a previous process's services and destinations), with both syncers, once the store stops changing, periodic syncs reach "ok" and stay there, despite transient partial failures of `createService`/`createBackend`. |
| reconcile_update_objectexists | `ReconcilerUpdate.cfg` | violation | `SyncNeverFails`: replacing a service whose options changed creates its backends in `createService` and again in the new-backends loop, which returns `ObjectExists`. |
| exporter_map_race | `ExporterRace.cfg` | violation | `NoWriteDuringRange`: a REST call inserts or deletes a service while `collect` ranges over `ctx.services` without the lock, a data race the Go runtime aborts on. |
| reconcile_revisit | `ReconcilerRevisit.cfg` | violation | `SyncSuccessMeansInSync`: when `Synchronize` returns nil, `CompareWith` against the snapshot it applied should be "ok". A service whose store options changed (and that has no backends) is recreated inside the range over `ctx.services`; the range produces it again, finds it missing from the store and removes it, and `Synchronize` returns nil. A backend whose port changed goes the same way in the backends loop. |
| reconcile_flap | `ReconcilerFlap.cfg` | violation | `Converges`: a store entry without Host (`-i` default endpoint) keeps raw options after `Validate(nil)` fails early, never equals the validated running ones, and is torn down and recreated on every sync. |

Each property of a passing run has a mutant in `PROJECT.json`. The mutant is a plausible slip in the code, and the run finds it. For example:
- `RemoveService` without `vs.Cleanup`'s `monitor.Stop` breaks `OneLiveProbePerBackend`.
- `LoopDrop` that keeps the stash when the service is gone breaks the liveness property.

### Bounds

The bounds are one service and two backends:
- two backends are what the fallback and the stale-update scenarios need;
- a second service adds only symmetric behaviour.

`MaxWeight = 2` separates 0, 1 (the fallback weight) and a full weight. The health percentages `{0, 50, 100}` separate "healthy", "partly healthy" and "dead".

`MaxProbes` bounds the goroutines that are alive, draining ones included:
- 3 for safety, which allows a removed backend's goroutine to coexist with its re-created successor and another backend;
- 2 for liveness.

`PulseNewMayFail` and `SyscallsMayFail` switch the failure disjuncts on or off per run. Safety keeps `pulse.New` failures on. IPVS-call failures of the loop are still reached through the "backend gone" branch of the same disjunct.

The reconciler bounds are one service and two backends, `Ports = {1, 2}`, both syncers, one store write and two faults (one in the liveness run, which also starts from every leftover IPVS table of a restart):
- two backends allow one backend to be unchanged while the other is removed or replaced;
- one write lets a syncer hold a snapshot older than the store, which is what the two-syncer race needs; two writes with both syncers take over 9 minutes;
- `Flush = FALSE` (liveness) starts from `CtxRestartInit`: any subset of the services and destinations, each leftover weight 0 (drained before the crash) or `MaxWeight`; it is what checks that `createService`/`createBackend` skip what IPVS already has, and the run takes about 2 minutes;
- the violation runs keep the ticker alone and two writes, which their scenarios need;
- two services with one backend each also pass but add only the iteration order between services.

The exporter run `exporter_map_race` has two services and one backend id: two services let one be removed while the range is on the other. No passing run checks the Exporter. With one scraper, what a successful scrape reports holds by the model's shape. With two scrapers, one scrape's `Reset` erases the other's labels (the race at `prometheus_exporter.go:91`). That race is in the model but no run checks it.

### Fairness

- The loop's continuation steps are weakly fair: the loop goroutine always runs when it has work.
- A probe's next send is weakly fair: its timer keeps firing.
- Receiving from a backend's probes is strongly fair. `ctx.pulseCh` is unbuffered and Go wakes blocked senders in FIFO order, so a sender that is enabled infinitely often is served, even though the loop is only intermittently idle.
- REST callers get no fairness: nothing obliges a client to call.
- In the Reconciler, the steps of `Synchronize` are weakly fair: a sync runs to completion under the lock. The ticker's store read is weakly fair, because the ticker keeps firing. The ticker's `SyncStart` is strongly fair: it waits on `ctx.mutex`, and Go's `sync.Mutex` hands the lock to a waiter starved for over 1 ms, so a handler sync that keeps taking the lock cannot starve it. `ProbeExit` is weakly fair, because the loop keeps draining. Operators writing the store and `/store/sync` callers get no fairness.
- In the Exporter, scrapes and REST calls come from clients: no fairness, and only safety is checked.

## Not modelled, and the plan

Done:
- Context mutators, probes and the notification loop;
- `Synchronize`/`CompareWith` with the store synchroniser;
- the option fields that decide reconciliation;
- the second syncer (`/store/sync`) racing the ticker's `Sync`;
- the Prometheus exporter's scrape against REST mutators;
- the sync goroutine's timeout `select` (module only, see above);
- an abstract specification of the synchroniser, refined by `Reconciler`;
- a restart without `-f` flush (`Flush`, `CtxRestartInit`) under the reconciler's liveness run.

Considered and left out:
- A composed run of Reconciler with PulseLoop. With a store configured, `Synchronize` holds `ctx.mutex` for its whole run, so the loop sees each sync as one atomic mutation; PulseLoop's REST mutators already cover removal and re-creation of a backend between the loop's critical sections.
- The scheduler-flag fold and the fallback parsing as operators. The flag mask only selects `AddService` or `AddServiceWithFlags` and no property tells masks apart; the fallback mismatch is listed as a hazard.
- An abstract registry refined by PulseLoop's Context. Each REST mutator is already one atomic action, so the mapping would be the identity on services and backends and would check nothing `MapBackedByKernel` and `OneLiveProbePerBackend` do not.
- `LocalStore` as a module: see below.

Not modelled, with the reason:
- The store code appended to `runtime.go` (lines 123-504): it calls `Synchronize(services, backends)` and `CompareWithStore`, which this Context does not have, so it cannot be built and has nothing to drive.
- `LocalStore` writes: `Put`, `Delete` and `DeleteTree` have no live caller. `Put` would deadlock on its own `RWMutex` (`Exists` takes `RLock` under `Lock`) and does not truncate; both are listed as hazards. The live path is `CreateDir` plus `List`, and `List` is the store read `Reconciler` models, taken in one step. That is exact for one service, or for a backend whose `List` is one call.
- The fallback string: `Validate` accepts `fb-zero-to-one|fb-default`, but the loop looks the whole string up and falls back to `fb-default`. `Options.tla` folds `Fallback` into the defaulted field.

- The VIP interface: `createService` adds the VIP alias before `AddService` and leaves it behind when `AddService` fails (listed as a hazard). It only runs with a VIP interface configured, and no property of the registry or IPVS depends on it.
- IPVS contents after a restart without `-f`. `Synchronize` ranges over `ctx.services` only, so leftovers the store no longer lists stay in IPVS, and a leftover destination drained to 0 is adopted at weight 0 and never restored. The properties compare the registry with the store, so both are listed as hazards, not checked.

Out of reach or not worth a model:
- JSON and YAML encoding, HTTP handlers beyond the calls they make, Prometheus formatting, logging;
- the Debian/Docker packaging;
- the pulse HTTP driver's request code, which only yields Up or Down;
- `Context.Close` and the loop's `stopCh` branch: `main` never reaches them.
