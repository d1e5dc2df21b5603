----------------------------- MODULE Reconciler -----------------------------
(***************************************************************************)
(* The store synchroniser of gorb (src/core/store.go) applying the store's *)
(* desired state to the Context with Context.Synchronize, and the diff     *)
(* Context.CompareWith reports (src/unnamed/part_001).                     *)
(*                                                                         *)
(* Once a store is configured the REST create/remove handlers refuse to    *)
(* run (StoreExist), so Synchronize is the only mutator of the Context.    *)
(* It holds ctx.mutex for its whole run; its steps are separate actions   *)
(* here only so that each iteration of its range loops is one step, and   *)
(* nothing else touches the Context while sy.pc # "idle".                  *)
(*                                                                         *)
(* Go map iteration: each range loop of Synchronize visits the keys in an  *)
(* arbitrary order (a choice over the remaining keys). The only keys      *)
(* written during a loop are the one being visited, deleted and then      *)
(* re-inserted by a replace; with the bucket maps of Go 1.23 (the         *)
(* Dockerfile's toolchain) a re-inserted key lands in a slot the iterator *)
(* has passed, so every loop visits each key it started with once.        *)
(***************************************************************************)
EXTENDS Context, Options

CONSTANTS
  StoreSvcOpts,    \* service options an operator may write to the store
  HasEndpoint,     \* ctx.endpoint != nil (gorb started with -i)
  MaxStoreWrites,  \* bound: writes to the store in a behaviour
  MaxFaults,       \* bound: failed IPVS calls and pulse.New in a behaviour
  Absent,          \* model value: no entry in a map (or no store read held)
  Ticker,          \* model value: the sync goroutine of NewStore
  Handler,         \* model value: a /store/sync request (StartSyncWithStore)
  Syncers,         \* the goroutines that read the store and Synchronize
  Flush            \* gorb started with -f: NewContext flushes IPVS

ASSUME StoreSvcOpts \subseteq SvcOpts /\ HasEndpoint \in BOOLEAN /\ Flush \in BOOLEAN
ASSUME MaxStoreWrites \in Nat /\ MaxFaults \in Nat
ASSUME Ticker \in Syncers /\ Syncers \subseteq {Ticker, Handler}

VARIABLES
  svcOpt,   \* vs.options of each service (exported fields)
  beOpt,    \* rs.options of each backend (its port)
  store,    \* service_options of each service entry in the KV store
  storeBe,  \* service_backends of each service entry in the KV store
  writes,   \* number of store writes so far
  reads,    \* the store contents each syncer read and has not applied yet
  sy        \* the running Synchronize: phase, its working copy of the
            \* store map, the keys left in the current range loop; want,
            \* stable, touched and pre are history kept for the properties

optVars   == <<svcOpt, beOpt>>
storeVars == <<store, storeBe, writes>>
vars      == <<ctxVars, optVars, storeVars, reads, sy>>

SvcEntry == SvcOpts \cup {Absent}
BeEntry  == Ports \cup {Absent}

SyncRec == [pc : {"idle", "services", "replaceSvc", "backends", "replaceBe",
                  "newBackends", "newServices"},
            cfg : [VS -> SvcEntry], cfgBe : [Pairs -> BeEntry],
            want : [VS -> SvcEntry], wantBe : [Pairs -> BeEntry],
            stable : SUBSET Pairs, touched : SUBSET Pairs,
            svcTodo : SUBSET VS, beTodo : SUBSET RS,
            cur : VS, curBe : RS, result : {"none", "ok", "err"},
            faults : 0..MaxFaults,
            pre : [svc : [VS -> SvcEntry], be : [Pairs -> BeEntry],
                   result : {"none", "ok", "err"}]]

(* The registry as ListServices/GetBackend show it: the options of each   *)
(* registered service and backend.                                        *)
RegSvc == [v \in VS |-> IF v \in services THEN svcOpt[v] ELSE Absent]
RegBe  == [p \in Pairs |-> IF p \in backends THEN beOpt[p] ELSE Absent]

(* Store.getStoreServices: every service entry, with its options passed   *)
(* through Validate(nil) whose error is ignored.                          *)
StoreServices == [v \in VS |-> IF store[v] = Absent THEN Absent
                               ELSE Validate(store[v], FALSE).opt]
StoreBackends == [p \in Pairs |-> IF store[p[1]] = Absent THEN Absent
                                  ELSE storeBe[p]]

(* Context.CompareWith(W, WB): the six buckets of the StoreSyncStatus.    *)
CompareWith(W, WB) ==
  [removedServices |-> {v \in services : W[v] = Absent},
   updatedServices |-> {v \in services : W[v] # Absent
                          /\ ~CompareStoreOptions(svcOpt[v], W[v])},
   removedBackends |-> {p \in backends : W[p[1]] # Absent /\ WB[p] = Absent},
   updatedBackends |-> {p \in backends : W[p[1]] # Absent /\ WB[p] # Absent
                          /\ ~CompareBackendOptions(beOpt[p], WB[p])},
   newBackends     |-> {p \in Pairs \ backends : p[1] \in services
                          /\ W[p[1]] # Absent /\ WB[p] # Absent},
   newServices     |-> {v \in VS \ services : W[v] # Absent}]

(* StoreSyncStatus.CheckStatus: "ok" iff every bucket is empty.           *)
CheckStatus(W, WB) ==
  IF \A b \in DOMAIN CompareWith(W, WB) : CompareWith(W, WB)[b] = {}
  THEN "ok" ELSE "need sync"

Init ==
  /\ IF Flush THEN CtxInit ELSE CtxRestartInit
  /\ svcOpt = [v \in VS |-> CHOOSE o \in SvcOpts : TRUE]
  /\ beOpt = [p \in Pairs |-> CHOOSE b \in Ports : TRUE]
  /\ store \in [VS -> StoreSvcOpts \cup {Absent}]
  /\ storeBe \in [Pairs -> BeEntry]
  /\ writes = 0
  /\ reads = [s \in Syncers |-> Absent]
  /\ sy = [pc |-> "idle", cfg |-> [v \in VS |-> Absent],
           cfgBe |-> [p \in Pairs |-> Absent],
           want |-> [v \in VS |-> Absent], wantBe |-> [p \in Pairs |-> Absent],
           stable |-> {}, touched |-> {}, svcTodo |-> {}, beTodo |-> {},
           cur |-> CHOOSE v \in VS : TRUE, curBe |-> CHOOSE r \in RS : TRUE,
           result |-> "none", faults |-> 0,
           pre |-> [svc |-> [v \in VS |-> Absent], be |-> [p \in Pairs |-> Absent],
                    result |-> "none"]]

-----------------------------------------------------------------------------
(* Synchronize returns an error: the lock is released, the rest of the    *)
(* store map is left unapplied.                                           *)
Fail == sy' = [sy EXCEPT !.pc = "idle", !.result = "err"]

(* An IPVS call or pulse.New may fail; failures are transient, at most    *)
(* MaxFaults of them in a behaviour (a bound on the model). Fault is a    *)
(* failing return that uses one up.                                       *)
SyscallFault == SyscallsMayFail /\ sy.faults < MaxFaults
PulseFault   == PulseNewMayFail /\ sy.faults < MaxFaults
Fault == sy' = [sy EXCEPT !.pc = "idle", !.result = "err", !.faults = @ + 1]

(* Fault variant of SyncCreateService: AddService without the           *)
(* GetPoolForService check, failing for a service IPVS already has.       *)
SyncCreateServiceNoSkip(v, cont) ==
  LET vr == Validate(sy.cfg[v], HasEndpoint)
      ps == {v} \X {r \in RS : sy.cfgBe[<<v, r>>] # Absent}
  IN
  \/ vr.err /\ Fail /\ UNCHANGED <<ctxVars, optVars>>
  \/ ~vr.err /\ v \in kernelSvc /\ Fail /\ UNCHANGED <<ctxVars, optVars>>
  \/ /\ ~vr.err /\ v \notin kernelSvc
     /\ createService(v, ps, {})
     /\ svcOpt' = [svcOpt EXCEPT ![v] = vr.opt]
     /\ beOpt' = [p \in Pairs |-> IF p \in ps THEN sy.cfgBe[p] ELSE beOpt[p]]
     /\ cont

(* createService(vsID, storeService) inside Synchronize: Validate with    *)
(* ctx.endpoint, AddService, then createBackend for each store backend.   *)
(* cont is the Synchronize step that follows a nil return.                *)
SyncCreateService(v, cont) ==
  LET vr == Validate(sy.cfg[v], HasEndpoint)
      ps == {v} \X {r \in RS : sy.cfgBe[<<v, r>>] # Absent}
      SetOpts(done) ==
        /\ svcOpt' = [svcOpt EXCEPT ![v] = vr.opt]
        /\ beOpt' = [p \in Pairs |-> IF p \in done THEN sy.cfgBe[p] ELSE beOpt[p]]
  IN
  \/ vr.err /\ Fail /\ UNCHANGED <<ctxVars, optVars>>
  \/ ~vr.err /\ SyscallFault /\ Fault /\ UNCHANGED <<ctxVars, optVars>>
  \/ /\ ~vr.err
     /\ createService(v, ps, {})
     /\ SetOpts(ps)
     /\ cont
  \/ /\ ~vr.err
     /\ \E f \in ps : \E done \in SUBSET (ps \ {f}) :
          /\ \/ SyscallFault /\ createService(v, done, {})
             \/ PulseFault /\ createService(v, done, {f})
          /\ SetOpts(done)
     /\ Fault

(* Fault variant of SyncCreateBackend: no vs.BackendExist check, so a    *)
(* backend already in the map is created again (IPVS has its destination, *)
(* so AddDestPort is skipped) with a second pulse goroutine.              *)
SyncCreateBackendNoExistCheck(p, cont) ==
  \/ p \notin backends /\ SyscallFault /\ Fault /\ UNCHANGED <<ctxVars, optVars>>
  \/ /\ createBackends({p}, {})
     /\ beOpt' = [beOpt EXCEPT ![p] = sy.cfgBe[p]]
     /\ UNCHANGED <<services, kernelSvc, svcOpt>>
     /\ cont
  \/ /\ p \notin backends /\ PulseFault
     /\ createBackends({}, {p})
     /\ UNCHANGED <<services, kernelSvc, optVars>>
     /\ Fault

(* createBackend(vsID, rsID, storeBackendOptions) inside Synchronize.     *)
SyncCreateBackend(p, cont) ==
  \/ p \in backends /\ Fail /\ UNCHANGED <<ctxVars, optVars>>   \* ObjectExists
  \/ p \notin backends /\ SyscallFault /\ Fault /\ UNCHANGED <<ctxVars, optVars>>
  \/ /\ p \notin backends
     /\ createBackends({p}, {})
     /\ beOpt' = [beOpt EXCEPT ![p] = sy.cfgBe[p]]
     /\ UNCHANGED <<services, kernelSvc, svcOpt>>
     /\ cont
  \/ /\ p \notin backends /\ PulseFault
     /\ createBackends({}, {p})
     /\ UNCHANGED <<services, kernelSvc, optVars>>
     /\ Fault

-----------------------------------------------------------------------------
(* Store.Sync (the ticker) or StartSyncWithStore (a /store/sync request) *)
(* reads the store with getStoreServices, without ctx.mutex. A failing    *)
(* List returns before Synchronize and changes nothing.                   *)
SyncRead(s) ==
  /\ reads[s] = Absent
  /\ reads' = [reads EXCEPT ![s] = [svc |-> StoreServices, be |-> StoreBackends]]
  /\ UNCHANGED <<ctxVars, optVars, storeVars, sy>>

(* Fault variant of SyncStart: the syncer keeps the contents it read and *)
(* applies them again on every later run instead of reading the store.   *)
SyncStartKeepsRead(s) ==
  LET W  == reads[s].svc
      WB == reads[s].be
  IN
  /\ sy.pc = "idle"
  /\ reads[s] # Absent
  /\ SumFunctionOnSet(probes, {r \in DOMAIN probes : r.stopped}) <= MaxProbes
  /\ UNCHANGED reads
  /\ sy' = [sy EXCEPT !.pc = "services", !.cfg = W, !.cfgBe = WB,
              !.want = W, !.wantBe = WB, !.touched = {}, !.result = "none",
              !.svcTodo = services,
              !.pre = [svc |-> RegSvc, be |-> RegBe, result |-> sy.result],
              !.stable = {p \in backends :
                            /\ W[p[1]] # Absent
                            /\ CompareStoreOptions(svcOpt[p[1]], W[p[1]])
                            /\ WB[p] # Absent
                            /\ CompareBackendOptions(beOpt[p], WB[p])}]
  /\ UNCHANGED <<ctxVars, optVars, storeVars>>

(* Synchronize(services) with what s read: it takes ctx.mutex (waiting   *)
(* for a Synchronize of the other syncer to finish) and starts ranging   *)
(* over ctx.services. The start waits until at most MaxProbes stopped    *)
(* goroutines are still draining, a bound on the model only (ProbeExit   *)
(* drains them).                                                          *)
SyncStart(s) ==
  LET W  == reads[s].svc
      WB == reads[s].be
  IN
  /\ sy.pc = "idle"
  /\ reads[s] # Absent
  /\ SumFunctionOnSet(probes, {r \in DOMAIN probes : r.stopped}) <= MaxProbes
  /\ reads' = [reads EXCEPT ![s] = Absent]
  /\ sy' = [sy EXCEPT !.pc = "services", !.cfg = W, !.cfgBe = WB,
              !.want = W, !.wantBe = WB, !.touched = {}, !.result = "none",
              !.svcTodo = services,
              !.pre = [svc |-> RegSvc, be |-> RegBe, result |-> sy.result],
              !.stable = {p \in backends :
                            /\ W[p[1]] # Absent
                            /\ CompareStoreOptions(svcOpt[p[1]], W[p[1]])
                            /\ WB[p] # Absent
                            /\ CompareBackendOptions(beOpt[p], WB[p])}]
  /\ UNCHANGED <<ctxVars, optVars, storeVars>>

(* StartSyncWithStore, run by the /store/sync handler: the same read and  *)
(* Synchronize as Store.Sync, the error returned to the HTTP client.      *)
StartSyncWithStore == SyncRead(Handler) \/ SyncStart(Handler)

(* One iteration of `for vsID, service := range ctx.services`: a service  *)
(* missing from the store is removed; one whose options differ is removed *)
(* (and recreated by SvcReplace); an equal one has its backends ranged.   *)
(* A service SvcReplace re-created may come up again after its store      *)
(* entry was deleted (NewBeDone): it is then "not found" and removed.     *)
SvcVisit(v) ==
  LET W     == sy.cfg
      mine  == {q \in backends : q[1] = v}
      rest  == sy.svcTodo \ {v}
  IN
  /\ sy.pc = "services" /\ v \in sy.svcTodo
  /\ \/ /\ W[v] = Absent
        /\ \/ /\ RemoveService(v)
              /\ sy' = [sy EXCEPT !.svcTodo = rest, !.touched = @ \cup mine]
           \/ SyscallFault /\ Fault /\ UNCHANGED ctxVars
     \/ /\ W[v] # Absent /\ ~CompareStoreOptions(svcOpt[v], W[v])
        /\ \/ /\ RemoveService(v)
              /\ sy' = [sy EXCEPT !.pc = "replaceSvc", !.cur = v,
                          !.svcTodo = rest, !.touched = @ \cup mine]
           \/ SyscallFault /\ Fault /\ UNCHANGED ctxVars
     \/ /\ W[v] # Absent /\ CompareStoreOptions(svcOpt[v], W[v])
        /\ sy' = [sy EXCEPT !.pc = "backends", !.cur = v, !.svcTodo = rest,
                    !.beTodo = {r \in RS : <<v, r>> \in backends}]
        /\ UNCHANGED ctxVars
  /\ UNCHANGED <<optVars, storeVars, reads>>

(* createService(vsID, storeService) after removeService. The backends    *)
(* loop that follows ranges over the old service's map, which vs.Cleanup  *)
(* emptied, so the next phase is the loop creating every store backend.   *)
(* createService inserts vsID into ctx.services again while the services  *)
(* loop ranges over it; Go may or may not produce an entry created during *)
(* the range, so v may come up again.                                     *)
SvcReplace ==
  LET v == sy.cur IN
  /\ sy.pc = "replaceSvc"
  /\ SyncCreateService(v,
       \E todo \in {sy.svcTodo, sy.svcTodo \cup {v}} :
         sy' = [sy EXCEPT !.pc = "newBackends", !.svcTodo = todo,
                  !.beTodo = {r \in RS : sy.cfgBe[<<v, r>>] # Absent}])
  /\ UNCHANGED <<storeVars, reads>>

(* Fault variant of BeVisit: an outdated check that replaces every       *)
(* backend found in the store.                                            *)
BeVisitReplaceAll(r) ==
  LET p    == <<sy.cur, r>>
      rest == sy.beTodo \ {r}
  IN
  /\ sy.pc = "backends" /\ r \in sy.beTodo
  /\ \/ /\ sy.cfgBe[p] = Absent
        /\ RemoveBackend(sy.cur, r)
        /\ sy' = [sy EXCEPT !.beTodo = rest, !.touched = @ \cup {p}]
     \/ /\ sy.cfgBe[p] # Absent
        /\ RemoveBackend(sy.cur, r)
        /\ sy' = [sy EXCEPT !.pc = "replaceBe", !.curBe = r,
                    !.beTodo = rest, !.touched = @ \cup {p}]
  /\ UNCHANGED <<optVars, storeVars, reads>>

(* One iteration of `for rsID, backend := range service.backends`; an    *)
(* entry found in the store is deleted from storeService.ServiceBackends. *)
(* A backend BeReplace re-created may come up again; its store entry is   *)
(* gone by then, so it is removed.                                        *)
BeVisit(r) ==
  LET p    == <<sy.cur, r>>
      rest == sy.beTodo \ {r}
  IN
  /\ sy.pc = "backends" /\ r \in sy.beTodo
  /\ \/ /\ sy.cfgBe[p] = Absent
        /\ \/ /\ RemoveBackend(sy.cur, r)
              /\ sy' = [sy EXCEPT !.beTodo = rest, !.touched = @ \cup {p}]
           \/ SyscallFault /\ Fault /\ UNCHANGED ctxVars
     \/ /\ sy.cfgBe[p] # Absent /\ ~CompareBackendOptions(beOpt[p], sy.cfgBe[p])
        /\ \/ /\ RemoveBackend(sy.cur, r)
              /\ sy' = [sy EXCEPT !.pc = "replaceBe", !.curBe = r,
                          !.beTodo = rest, !.touched = @ \cup {p}]
           \/ SyscallFault /\ Fault /\ UNCHANGED ctxVars
     \/ /\ sy.cfgBe[p] # Absent /\ CompareBackendOptions(beOpt[p], sy.cfgBe[p])
        /\ sy' = [sy EXCEPT !.beTodo = rest, !.cfgBe[p] = Absent]
        /\ UNCHANGED ctxVars
  /\ UNCHANGED <<optVars, storeVars, reads>>

(* createBackend for an outdated backend after removeBackend, then        *)
(* delete(storeService.ServiceBackends, rsID). createBackend inserts rsID  *)
(* into the map the backends loop ranges over, so Go may produce it again.*)
BeReplace ==
  LET p == <<sy.cur, sy.curBe>> IN
  /\ sy.pc = "replaceBe"
  /\ SyncCreateBackend(p,
       \E todo \in {sy.beTodo, sy.beTodo \cup {sy.curBe}} :
         sy' = [sy EXCEPT !.pc = "backends", !.cfgBe[p] = Absent, !.beTodo = todo])
  /\ UNCHANGED <<storeVars, reads>>

(* The backends loop is over: range storeService.ServiceBackends.         *)
BeDone ==
  /\ sy.pc = "backends" /\ sy.beTodo = {}
  /\ sy' = [sy EXCEPT !.pc = "newBackends",
              !.beTodo = {r \in RS : sy.cfgBe[<<sy.cur, r>>] # Absent}]
  /\ UNCHANGED <<ctxVars, optVars, storeVars, reads>>

(* Fault variant of NewBe: the loop over the remaining store backends   *)
(* skips createBackend.                                                   *)
NewBeSkipped(r) ==
  /\ sy.pc = "newBackends" /\ r \in sy.beTodo
  /\ sy' = [sy EXCEPT !.beTodo = @ \ {r}]
  /\ UNCHANGED <<ctxVars, optVars, storeVars, reads>>

NewBe(r) ==
  /\ sy.pc = "newBackends" /\ r \in sy.beTodo
  /\ SyncCreateBackend(<<sy.cur, r>>, sy' = [sy EXCEPT !.beTodo = @ \ {r}])
  /\ UNCHANGED <<storeVars, reads>>

(* delete(storeServicesConfig, vsID), then the next service.              *)
NewBeDone ==
  /\ sy.pc = "newBackends" /\ sy.beTodo = {}
  /\ sy' = [sy EXCEPT !.pc = "services", !.cfg[sy.cur] = Absent]
  /\ UNCHANGED <<ctxVars, optVars, storeVars, reads>>

(* The services loop is over: range what is left of storeServicesConfig. *)
SvcDone ==
  /\ sy.pc = "services" /\ sy.svcTodo = {}
  /\ sy' = [sy EXCEPT !.pc = "newServices",
              !.svcTodo = {v \in VS : sy.cfg[v] # Absent}]
  /\ UNCHANGED <<ctxVars, optVars, storeVars, reads>>

NewSvc(v) ==
  /\ sy.pc = "newServices" /\ v \in sy.svcTodo
  /\ SyncCreateService(v, sy' = [sy EXCEPT !.svcTodo = @ \ {v}])
  /\ UNCHANGED <<storeVars, reads>>

(* Synchronize returns nil and releases ctx.mutex.                        *)
SyncDone ==
  /\ sy.pc = "newServices" /\ sy.svcTodo = {}
  /\ sy' = [sy EXCEPT !.pc = "idle", !.result = "ok"]
  /\ UNCHANGED <<ctxVars, optVars, storeVars, reads>>

-----------------------------------------------------------------------------
(* An operator edits the store (service options, or one backend entry).   *)
(* Synchronize works on the copy it read, so a write during a run is the  *)
(* same as a write just after it; writes are taken between runs.          *)
StoreWrite ==
  /\ sy.pc = "idle" /\ writes < MaxStoreWrites
  /\ \/ \E v \in VS, o \in StoreSvcOpts \cup {Absent} :
          /\ store[v] # o
          /\ store' = [store EXCEPT ![v] = o]
          /\ UNCHANGED storeBe
     \/ \E p \in Pairs, b \in BeEntry :
          /\ store[p[1]] # Absent /\ storeBe[p] # b
          /\ storeBe' = [storeBe EXCEPT ![p] = b]
          /\ UNCHANGED store
  /\ writes' = writes + 1
  /\ UNCHANGED <<ctxVars, optVars, reads, sy>>

(* A stopped pulse goroutine sends its last update and the notification  *)
(* loop drops it (the loop is modelled in PulseLoop).                     *)
ProbeExit ==
  /\ \E r \in DOMAIN probes : r.stopped /\ probes' = BagRemove(probes, r)
  /\ UNCHANGED <<services, backends, weight, health, status, kernelSvc,
                 kernelDest, kweight, optVars, storeVars, reads, sy>>

(* The steps of a running Synchronize, under ctx.mutex.                    *)
SyncBody ==
  \/ SvcReplace \/ BeReplace \/ BeDone \/ NewBeDone
  \/ SvcDone \/ SyncDone
  \/ \E v \in VS : SvcVisit(v) \/ NewSvc(v)
  \/ \E r \in RS : BeVisit(r) \/ NewBe(r)

Next ==
  \/ SyncBody \/ StoreWrite \/ ProbeExit
  \/ SyncRead(Ticker) \/ SyncStart(Ticker)
  \/ Handler \in Syncers /\ StartSyncWithStore

(* The ticker keeps firing Store.Sync, and a Synchronize runs to          *)
(* completion under the lock; the notification loop keeps draining        *)
(* stopped goroutines. The ticker's Lock is strongly fair: a Synchronize *)
(* of the handler may hold the mutex each time the ticker tries, and      *)
(* sync.Mutex hands the lock to a waiter starved for over 1 ms. Operators *)
(* and /store/sync clients get no fairness.                               *)
Spec == Init /\ [][Next]_vars /\ WF_vars(SyncBody) /\ WF_vars(ProbeExit)
          /\ WF_vars(SyncRead(Ticker)) /\ SF_vars(SyncStart(Ticker))

-----------------------------------------------------------------------------
RecTypeOK ==
  /\ CtxTypeOK
  /\ svcOpt \in [VS -> SvcOpts] /\ beOpt \in [Pairs -> Ports]
  /\ store \in [VS -> SvcEntry] /\ storeBe \in [Pairs -> BeEntry]
  /\ writes \in 0..MaxStoreWrites
  /\ reads \in [Syncers -> [svc : [VS -> SvcEntry], be : [Pairs -> BeEntry]] \cup {Absent}]
  /\ sy \in SyncRec

(* Spec section 8, round-trip, and the purpose of Synchronize: when it    *)
(* returns nil, CompareWith against the store contents it applied         *)
(* reports status "ok".                                                   *)
SyncSuccessMeansInSync ==
  sy.pc = "idle" /\ sy.result = "ok" => CheckStatus(sy.want, sy.wantBe) = "ok"

(* Spec section 4.4, "replace rather than patch" applies only to what     *)
(* changed: a Synchronize never removes a backend whose service options   *)
(* and own options equal the store's when it started.                     *)
StableBackendsUntouched ==
  sy.stable \cap sy.touched = {}

(* Spec section 3, invariant 4, across Synchronize: every backend in the  *)
(* map has exactly one running pulse goroutine and a removed one has none,*)
(* whatever Synchronize did: replacing a service (createService creates    *)
(* the store backends, then the new-backends loop calls createBackend for  *)
(* each of them again, stopped only by vs.BackendExist), replacing a       *)
(* backend, or returning half-way on an IPVS or pulse.New failure, with    *)
(* the ticker and the /store/sync handler applying different snapshots.    *)
RegisteredBackendsWatched ==
  \A p \in Pairs : LiveProbes(p) = IF p \in backends THEN 1 ELSE 0

(* Spec section 9 (partial CreateService failure is left to the           *)
(* reconciler): once the store stops changing, the periodic Store.Sync    *)
(* brings the Context to a state CompareWith reports as "ok", and it      *)
(* stays there.                                                           *)
Converges ==
  <>[](CheckStatus(StoreServices, StoreBackends) = "ok")

(* Spec section 4.4, apply: a Synchronize in which no IPVS call and no    *)
(* pulse.New fails, on store entries that validate, returns nil.          *)
SyncNeverFails ==
  sy.result # "err"

(* The options createService gives a service from its store entry.        *)
AppliedOpts(o) == Validate(o, HasEndpoint).opt

(* Refinement mapping: while a Synchronize holds ctx.mutex nobody sees    *)
(* the registry, so the abstract one is the registry it started from; the *)
(* pending snapshots are those the syncers read and the one being applied.*)
Abs == INSTANCE AtomicSync WITH
         reg     <- IF sy.pc = "idle" THEN RegSvc ELSE sy.pre.svc,
         regBe   <- IF sy.pc = "idle" THEN RegBe ELSE sy.pre.be,
         st      <- [svc |-> StoreServices, be |-> StoreBackends],
         pending <- {reads[s] : s \in {t \in Syncers : reads[t] # Absent}}
                      \cup (IF sy.pc = "idle" THEN {}
                            ELSE {[svc |-> sy.want, be |-> sy.wantBe]}),
         result  <- IF sy.pc = "idle" THEN sy.result ELSE sy.pre.result,
         Applied <- AppliedOpts

(* Store.Sync and StartSyncWithStore implement AtomicSync: interleaved,   *)
(* and whatever IPVS or pulse.New call fails part-way, each Synchronize   *)
(* is one atomic application of a store snapshot one of them read; it     *)
(* leaves every service and backend as it was, as the snapshot has it,    *)
(* or removed, and never a backend without its service.                   *)
AtomicSyncRefined == Abs!Spec
=============================================================================
